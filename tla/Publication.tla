----------------------------- MODULE Publication -----------------------------
(* What the contracts job and its distribution promise of the contracts       *)
(* (contracts.py, main; runner.py, apply): one pair is published, once; what  *)
(* a machine holds is that pair or nothing it can use; and while apply is at  *)
(* the consumers, every machine holds it and keeps it.                        *)
CONSTANTS Machine, Value, Nothing

VARIABLES published, held, consumers

vars == <<published, held, consumers>>

Init ==
  /\ published = Nothing /\ held = [m \in Machine |-> Nothing]
  /\ consumers = "waiting"

\* main refuses to deploy when there is a contracts.json.
Publish ==
  /\ published = Nothing /\ published' \in Value
  /\ UNCHANGED <<held, consumers>>

Take(m) ==
  /\ published # Nothing /\ held' = [held EXCEPT ![m] = published]
  /\ UNCHANGED <<published, consumers>>

\* A file is cut before it is written, and a job may die in between.
Lose(m) ==
  /\ consumers = "waiting" /\ held' = [held EXCEPT ![m] = Nothing]
  /\ UNCHANGED <<published, consumers>>

Serve ==
  /\ published # Nothing /\ \A m \in Machine : held[m] = published
  /\ consumers' = "served"
  /\ UNCHANGED <<published, held>>

\* An apply that fails, and the next one.
Stop == consumers' = "waiting" /\ UNCHANGED <<published, held>>

Next == Publish \/ Serve \/ Stop \/ \E m \in Machine : Take(m) \/ Lose(m)

Specification == Init /\ [][Next]_vars
=============================================================================
