---------------------------- MODULE MCProvision ----------------------------
(* Two nodes on two machines, an inventory with both and one with the first, *)
(* and the secrets of postgres and the contracts job on the first machine,   *)
(* of the API on the second, and of storage on both.                         *)
EXTENDS Provision

CONSTANTS n1, n2, m1, m2, both, first
TheHosts == [n \in {n1, n2} |-> IF n = n1 THEN m1 ELSE m2]
TheNodes == [i \in {both, first} |-> IF i = both THEN <<n1, n2>> ELSE <<n1>>]
TheDeliveries == <<<<"signer", m1>>, <<"swarm", m1>>, <<"swarm", m2>>, <<"runtime", m1>>, <<"runtime", m2>>>>
=============================================================================
