------------------------------ MODULE MCDrafts ------------------------------
(* Inventories for Drafts: two groups of observers, in one order or the     *)
(* other, and a label.  A Resolver bound to observer01 resolves where the   *)
(* first group is on its machine, as in dark2-prod-tailscale-eight-host.    *)
EXTENDS Drafts, TLC

CONSTANTS r1, r2, e1, e2, l1, l2

Groups == {<<"resolver-observer", "external-observer">>, <<"external-observer", "resolver-observer">>}
MCDoc == [groups : Groups, label : {l1, l2}]
MCResolving == {d \in MCDoc : d.groups[1] = "resolver-observer"}
MCSorted == [d \in MCDoc |-> [d EXCEPT !.groups = <<"external-observer", "resolver-observer">>]]
Symmetry == Permutations(Request) \cup Permutations(Editor) \cup Permutations({l1, l2})
=============================================================================
