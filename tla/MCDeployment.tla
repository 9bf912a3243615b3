---------------------------- MODULE MCDeployment ----------------------------
(* Small instances of Deployment: one validator and the contracts job on one *)
(* machine, and an API that needs contracts.env on another.                  *)
EXTENDS Deployment

MCMachineOf == [s \in Service |-> IF s = "api" THEN "apps" ELSE "chain"]
MCPhaseOf == [s \in Service |-> CASE s = "validator" -> 1
                                  [] s = "contracts" -> 2 [] OTHER -> 3]

V(n) == [spec |-> n, file |-> 1]
F(n) == [spec |-> 1, file |-> n]
Of(validator, contracts, api) ==
  [s \in Service |-> CASE s = "validator" -> validator
                       [] s = "contracts" -> contracts [] OTHER -> api]

\* Without the API; with it; with another definition of the validator and
\* another mounted file for the API.
Growing == {Of(V(1), V(1), NoVersion), Of(V(1), V(1), V(1)), Of(V(2), V(1), F(2))}
Changing == {Of(V(1), V(1), V(1)), Of(V(2), V(1), V(1))}
\* The same definitions with another mounted file for the API.
Mounting == {Of(F(1), F(1), F(1)), Of(F(1), F(1), F(2))}
=============================================================================
