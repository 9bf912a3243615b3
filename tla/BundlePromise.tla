---------------------------- MODULE BundlePromise ----------------------------
(* What `prepare` promises of the bundle (runner.py, _prepare_bundle: build a *)
(* complete public bundle, then replace the previous one atomically): there   *)
(* is none until the first one is built, from then on there is a complete one *)
(* and each replacement is a single step.                                     *)
CONSTANTS Content, NoContent

VARIABLE current

Init == current = NoContent
Replace == \E c \in Content : current' = c
Specification == Init /\ [][Replace]_current
=============================================================================
