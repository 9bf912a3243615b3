----------------------------- MODULE MCConsole -----------------------------
(* Two deployments of two services: a Besu RPC node and the contracts job. *)
EXTENDS Console

CONSTANTS d1, d2, job, rpc
TheDeployments == <<d1, d2>>
TheServices == <<job, rpc>>
=============================================================================
