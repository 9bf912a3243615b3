----------------------------- MODULE Provision -----------------------------
(***************************************************************************)
(* The private material of a deployment, from its generation on the        *)
(* controller to the machines: managed secrets (secrets.py), the chain's   *)
(* artifact (artifacts.py), how install puts them together (cli.py) and    *)
(* what apply distributes, rejects and cleans (runner.py).  Commands run   *)
(* one at a time and may be killed between any two files.                  *)
(*                                                                         *)
(* A chain is a number: its genesis and its node keys are files of that    *)
(* number.  A node's static-nodes list is the keys it was made from.       *)
(***************************************************************************)
EXTENDS Naturals, Sequences, SequencesExt

CONSTANTS
  Node,               \* Besu nodes
  Machine, HostOf,    \* where each node is
  Inventory, NodesIn, \* inventories, and the nodes of each, in its order
  Peered,             \* the inventories that declare the edges between nodes
  Wallet,             \* contents of the operator's wallet file, also the signer
  Deliveries,         \* which secret goes to which machine, in order
  None,               \* of no file
  Chain, MaxRuns, MaxStops  \* bounds, of the operator's wishes and of kills

ASSUME ProvisionAssumption ==
  /\ HostOf \in [Node -> Machine] /\ NodesIn \in [Inventory -> Seq(Node)]
  /\ Peered \subseteq Inventory
  /\ Deliveries \in Seq({"signer", "swarm", "runtime"} \X Machine)
  /\ Chain \subseteq Nat \ {0}
  /\ None \notin Wallet \cup Inventory /\ None \notin [inv : Inventory, wallet : Wallet]

VARIABLES
  wallet,    \* the operator's wallet file
  secret,    \* controller/secrets: the runtime file has the password too, and a key
  made,      \* how often secrets were generated
  artifact,  \* controller/chain-artifact, without
  manifest,  \* its manifest: what the artifact was when it was sealed
  inputs,    \* private-inputs.json: the wallet it has the digest of
  held,      \* what each machine holds, and of which node
  data,      \* the chain in a node's data directory
  status, applied,  \* status.json: whether it is there, and the nodes it has as applied
  run,       \* the command at work
  runs, stops, finished  \* for the bounds, and whether an install has finished
controller == <<secret, made, artifact, manifest, inputs>>
machines == <<held, data, status, applied>>
bounds == <<runs, stops, finished>>
vars == <<wallet, controller, machines, run, bounds>>

NoKeys == [n \in Node |-> 0]
Empty == [context |-> None, key |-> NoKeys, static |-> [n \in Node |-> NoKeys], genesis |-> 0]
NoRuntime == [password |-> 0, key |-> None]
NoSecret == [password |-> 0, runtime |-> NoRuntime, swarm |-> 0, signer |-> None]
Idle == [pc |-> "idle", cmd |-> "none", inv |-> None, new |-> FALSE, clean |-> FALSE,
         chain |-> 0, todo |-> <<>>]

Init ==
  /\ wallet \in Wallet /\ secret = NoSecret /\ made = 0
  /\ artifact = Empty /\ manifest = None /\ inputs = None
  /\ held = [signer |-> [m \in Machine |-> None], swarm |-> [m \in Machine |-> 0],
             runtime |-> [m \in Machine |-> NoRuntime], genesis |-> [m \in Machine |-> 0],
             key |-> NoKeys, static |-> [n \in Node |-> NoKeys]]
  /\ \E old \in Chain : data \in [Node -> {0, old}]   \* of a deployment whose directory is gone
  /\ status = FALSE /\ applied = {}
  /\ run = Idle /\ runs = 0 /\ stops = 0 /\ finished = FALSE

-----------------------------------------------------------------------------
At(pc) == run.pc = pc
Goto(pc) == run' = [run EXCEPT !.pc = pc]
Go(pc, todo) == run' = [run EXCEPT !.pc = pc, !.todo = todo]
Stop == run' = Idle
NodesOf == [inv \in Inventory |-> Range(NodesIn[inv])]
Sealed == manifest # None /\ manifest = artifact
SameNodes(inv) == artifact.context # None /\ NodesOf[artifact.context.inv] = NodesOf[inv]
Compatible(inv) ==
  /\ SameNodes(inv)
  /\ artifact.context.inv \in Peered <=> inv \in Peered
(* It fits, or does when its lists are written again. *)
Usable(inv) ==
  /\ artifact.genesis # 0 /\ Compatible(inv)
  /\ Sealed \/ (inv \in Peered /\ \A n \in NodesOf[inv] : artifact.key[n] # 0)
HasData(inv) == \E n \in NodesOf[inv] : data[n] # 0
(* A chain nothing is left of, as random keys are. *)
Fresh == Chain \ (Range(data) \cup Range(held.genesis) \cup Range(held.key)
                   \cup {artifact.genesis} \cup Range(artifact.key)
                   \cup UNION {Range(held.static[n]) \cup Range(artifact.static[n]) : n \in Node})

Begin(cmd, inv, new, pc, todo) ==
  /\ At("idle")
  /\ run' = [Idle EXCEPT !.pc = pc, !.cmd = cmd, !.inv = inv, !.new = new, !.todo = todo]
  /\ UNCHANGED <<wallet, controller, machines, stops, finished>>

Install ==
  /\ runs < MaxRuns /\ runs' = runs + 1
  /\ \E inv \in Inventory, new \in BOOLEAN : Begin("install", inv, new, "secrets", <<>>)

(* Resuming takes the wallet of the last install, which must be unchanged. *)
Resume ==
  /\ runs < MaxRuns /\ runs' = runs + 1
  /\ inputs # None /\ inputs = wallet
  /\ \E inv \in Inventory : Begin("resume", inv, FALSE, "refresh", <<>>)

ChainInit ==
  /\ runs < MaxRuns /\ runs' = runs + 1
  /\ \E inv \in Inventory : Begin("chain-init", inv, FALSE, "bootstrap", <<>>)

(* chain-static-nodes, with the public keys of the artifact's nodes. *)
StaticNodes ==
  /\ runs < MaxRuns /\ runs' = runs + 1
  /\ artifact.context # None /\ \A n \in NodesOf[artifact.context.inv] : artifact.key[n] # 0
  /\ Begin("static", artifact.context.inv, FALSE, "lists", NodesIn[artifact.context.inv])

(* secrets-init --overwrite *)
SecretsInit ==
  /\ runs < MaxRuns /\ runs' = runs + 1
  /\ Begin("secrets-init", None, FALSE, "password", <<>>)

(* The operator installs again, with --new-chain if no inventory can use the artifact. *)
Again ==
  /\ ~ finished /\ UNCHANGED runs
  /\ LET kept == \E i \in Inventory : Usable(i) IN
     \E inv \in Inventory :
       (kept => Usable(inv)) /\ Begin("install", inv, ~ kept, "secrets", <<>>)

ChangeWallet ==
  /\ runs < MaxRuns /\ runs' = runs + 1
  /\ At("idle") /\ wallet' \in Wallet \ {wallet}
  /\ UNCHANGED <<controller, machines, run, stops, finished>>

-----------------------------------------------------------------------------
(* Managed secrets: generated when their directory is empty. *)

Secrets ==
  /\ At("secrets")
  /\ Goto(IF secret = NoSecret THEN "password" ELSE "artifact")
  /\ UNCHANGED <<wallet, controller, machines, bounds>>

(* The password's own file, which no service reads, ... *)
MakePassword ==
  /\ At("password") /\ Goto("env")
  /\ made' = made + 1 /\ secret' = [secret EXCEPT !.password = made']
  /\ UNCHANGED <<wallet, artifact, manifest, inputs, machines, bounds>>

(* ... and the runtime file, without the key that it may have had. *)
MakeRuntime ==
  /\ At("env") /\ Goto("swarm")
  /\ secret' = [secret EXCEPT !.runtime = [password |-> made, key |-> None]]
  /\ UNCHANGED <<wallet, made, artifact, manifest, inputs, machines, bounds>>

MakeSwarm ==
  /\ At("swarm")
  /\ secret' = [secret EXCEPT !.swarm = made]
  /\ IF run.cmd = "install" THEN Goto("artifact") ELSE Stop
  /\ UNCHANGED <<wallet, made, artifact, manifest, inputs, machines, bounds>>

-----------------------------------------------------------------------------
(* The chain's artifact. *)

Artifact ==
  /\ At("artifact")
  /\ CASE run.new -> Goto("wipe")
       [] ~ run.new /\ artifact.genesis # 0 -> Goto("refresh")
       [] OTHER -> Goto("bootstrap")   \* the operator approves of a new chain
  /\ UNCHANGED <<wallet, controller, machines, bounds>>

WipeChain ==   \* mutant: only an artifact with a chain is removed
  /\ At("wipe") /\ Goto("bootstrap")
  /\ IF artifact.genesis # 0 THEN artifact' = Empty /\ manifest' = None ELSE UNCHANGED <<artifact, manifest>>
  /\ UNCHANGED <<wallet, secret, made, inputs, machines, bounds>>

(* A tree is removed in no order; a kill leaves some of it. *)
Wipe ==
  /\ At("wipe")
  /\ \/ artifact' = Empty /\ manifest' = None /\ Goto("bootstrap") /\ UNCHANGED stops
     \/ /\ stops < MaxStops /\ stops' = stops + 1 /\ Stop
        /\ \E keep \in SUBSET {"context", "key", "static", "genesis"} :
             artifact' = [f \in DOMAIN Empty |-> IF f \in keep THEN artifact[f] ELSE Empty[f]]
        /\ manifest' \in {manifest, None}
  /\ UNCHANGED <<wallet, secret, made, inputs, machines, runs, finished>>

BootstrapAnywhere ==   \* mutant: into a directory that has files
  /\ At("bootstrap")
  /\ artifact' = [artifact EXCEPT !.context = [inv |-> run.inv, wallet |-> wallet]]
  /\ Goto("generate")
  /\ UNCHANGED <<wallet, secret, made, manifest, inputs, machines, bounds>>

Bootstrap ==
  /\ At("bootstrap")
  /\ IF artifact = Empty /\ manifest = None
     THEN /\ artifact' = [artifact EXCEPT !.context = [inv |-> run.inv, wallet |-> wallet]]
          /\ Goto("generate")
     ELSE Stop /\ UNCHANGED artifact
  /\ UNCHANGED <<wallet, secret, made, manifest, inputs, machines, bounds>>

Generate ==
  /\ At("generate")
  /\ \E chain \in Fresh :
       /\ \A other \in Fresh : chain <= other
       /\ run' = [run EXCEPT !.pc = "keys", !.chain = chain, !.todo = NodesIn[run.inv]]
  /\ UNCHANGED <<wallet, controller, machines, bounds>>

MakeKey ==
  /\ At("keys") /\ run.todo # <<>>
  /\ artifact' = [artifact EXCEPT !.key[Head(run.todo)] = run.chain]
  /\ Go("keys", Tail(run.todo))
  /\ UNCHANGED <<wallet, secret, made, manifest, inputs, machines, bounds>>

CopyGenesis ==
  /\ At("keys") /\ run.todo = <<>>
  /\ artifact' = [artifact EXCEPT !.genesis = run.chain]
  /\ Go("lists", NodesIn[run.inv])
  /\ UNCHANGED <<wallet, secret, made, manifest, inputs, machines, bounds>>

(* Static nodes again from the keys that are there, before the manifest is checked. *)
Refresh ==
  /\ At("refresh")
  /\ CASE run.inv \notin Peered -> Goto("verify")
       [] run.inv \in Peered /\ SameNodes(run.inv) /\ \A n \in NodesOf[run.inv] : artifact.key[n] # 0 ->
            Go("lists", NodesIn[run.inv])
       [] OTHER -> Stop
  /\ UNCHANGED <<wallet, controller, machines, bounds>>

WriteListSealed ==   \* mutant: the manifest is brought up to date with every list
  /\ At("lists") /\ run.todo # <<>>
  /\ artifact' = [artifact EXCEPT !.static[Head(run.todo)] = artifact.key] /\ manifest' = artifact'
  /\ Go("lists", Tail(run.todo))
  /\ UNCHANGED <<wallet, secret, made, inputs, machines, bounds>>

WriteList ==
  /\ At("lists") /\ run.todo # <<>>
  /\ artifact' = [artifact EXCEPT !.static[Head(run.todo)] = artifact.key]
  /\ Go("lists", Tail(run.todo))
  /\ UNCHANGED <<wallet, secret, made, manifest, inputs, machines, bounds>>

Seal ==
  /\ At("lists") /\ run.todo = <<>>
  /\ manifest' = artifact
  /\ IF run.cmd \in {"install", "resume"} THEN Goto("verify") ELSE Stop
  /\ UNCHANGED <<wallet, secret, made, artifact, inputs, machines, bounds>>

Verify ==
  /\ At("verify")
  /\ IF Sealed /\ Compatible(run.inv) THEN Goto("signer") ELSE Stop
  /\ UNCHANGED <<wallet, controller, machines, bounds>>

-----------------------------------------------------------------------------
(* The private plan: the wallet joins the managed secrets. *)

WriteSignerOver ==   \* mutant: a managed key is replaced
  /\ At("signer")
  /\ secret' = [secret EXCEPT !.signer = wallet] /\ Goto("runtime")
  /\ UNCHANGED <<wallet, made, artifact, manifest, inputs, machines, bounds>>

WriteSigner ==
  /\ At("signer")
  /\ IF secret.signer \in {None, wallet}
     THEN secret' = [secret EXCEPT !.signer = wallet] /\ Goto("runtime")
     ELSE Stop /\ UNCHANGED secret
  /\ UNCHANGED <<wallet, made, artifact, manifest, inputs, machines, bounds>>

(* A runtime file that a kill prevented gets the key alone. *)
AppendKey ==
  /\ At("runtime")
  /\ secret' = [secret EXCEPT !.runtime.key = IF @ = None THEN wallet ELSE @]
  /\ Goto("inputs")
  /\ UNCHANGED <<wallet, made, artifact, manifest, inputs, machines, bounds>>

WriteInputs ==
  /\ At("inputs")
  /\ inputs' = IF run.cmd = "resume" THEN inputs ELSE wallet
  /\ Goto("data")
  /\ UNCHANGED <<wallet, secret, made, artifact, manifest, machines, bounds>>

(* Data where the plan has nodes: the operator agrees to lose them, or stops. *)
AskToClean ==
  /\ At("data")
  /\ IF run.cmd = "resume" \/ ~ HasData(run.inv)
     THEN Go("secrets out", Deliveries) /\ UNCHANGED stops
     ELSE \/ run' = [run EXCEPT !.pc = "secrets out", !.todo = Deliveries, !.clean = TRUE]
             /\ UNCHANGED stops
          \/ stops < MaxStops /\ stops' = stops + 1 /\ Stop
  /\ UNCHANGED <<wallet, controller, machines, runs, finished>>

-----------------------------------------------------------------------------
(* Apply: out to the machines, each file read back and compared. *)

Source(s) == CASE s = "signer" -> secret.signer
               [] s = "swarm" -> secret.swarm
               [] s = "runtime" -> secret.runtime
Nothing(s) == CASE s = "signer" -> None [] s = "swarm" -> 0 [] s = "runtime" -> NoRuntime

DistributeOnce ==   \* mutant: only where there is none
  LET s == Head(run.todo)[1]  m == Head(run.todo)[2] IN
  /\ At("secrets out") /\ run.todo # <<>>
  /\ held' = [held EXCEPT ![s][m] = IF @ = Nothing(s) THEN Source(s) ELSE @]
  /\ Go("secrets out", Tail(run.todo))
  /\ UNCHANGED <<wallet, controller, data, status, applied, bounds>>

Distribute ==
  LET s == Head(run.todo)[1]  m == Head(run.todo)[2] IN
  /\ At("secrets out") /\ run.todo # <<>>
  /\ IF Source(s) = Nothing(s) THEN Stop /\ UNCHANGED held
     ELSE held' = [held EXCEPT ![s][m] = Source(s)] /\ Go("secrets out", Tail(run.todo))
  /\ UNCHANGED <<wallet, controller, data, status, applied, bounds>>

(* No service may have gone, and the artifact is checked once more. *)
CheckArtifact ==
  /\ At("secrets out") /\ run.todo = <<>>
  /\ IF applied \subseteq NodesOf[run.inv] /\ Sealed /\ Compatible(run.inv)
     THEN Go("genesis", NodesIn[run.inv]) ELSE Stop
  /\ UNCHANGED <<wallet, controller, machines, bounds>>

(* A node's three files, to its machine. *)
DeliverGenesis ==
  /\ At("genesis")
  /\ IF run.todo = <<>> THEN Goto("reject") /\ UNCHANGED held
     ELSE IF artifact.genesis = 0 THEN Stop /\ UNCHANGED held
     ELSE held' = [held EXCEPT !.genesis[HostOf[Head(run.todo)]] = artifact.genesis] /\ Goto("key")
  /\ UNCHANGED <<wallet, controller, data, status, applied, bounds>>

DeliverKeyOnce ==   \* mutant: a node keeps the key that it has
  LET n == Head(run.todo) IN
  /\ At("key")
  /\ held' = [held EXCEPT !.key[n] = IF @ = 0 THEN artifact.key[n] ELSE @] /\ Goto("static")
  /\ UNCHANGED <<wallet, controller, data, status, applied, bounds>>

DeliverKey ==
  LET n == Head(run.todo) IN
  /\ At("key")
  /\ held' = [held EXCEPT !.key[n] = artifact.key[n]] /\ Goto("static")
  /\ UNCHANGED <<wallet, controller, data, status, applied, bounds>>

DeliverStatic ==
  LET n == Head(run.todo) IN
  /\ At("static")
  /\ held' = [held EXCEPT !.static[n] = artifact.static[n]] /\ Go("genesis", Tail(run.todo))
  /\ UNCHANGED <<wallet, controller, data, status, applied, bounds>>

(* With a status of an earlier run nothing is rejected, and nothing cleaned. *)
Reject ==
  /\ At("reject")
  /\ CASE run.cmd = "resume" \/ status -> Goto("status") /\ UNCHANGED data
       [] ~(run.cmd = "resume" \/ status) /\ (run.clean \/ ~ HasData(run.inv)) ->
            Goto("status") /\ data' = [n \in Node |-> IF n \in NodesOf[run.inv] THEN 0 ELSE data[n]]
       [] OTHER -> Stop /\ UNCHANGED data
  /\ UNCHANGED <<wallet, controller, held, status, applied, bounds>>

WriteStatus ==
  /\ At("status")
  /\ status' = TRUE /\ Go("start", NodesIn[run.inv])
  /\ UNCHANGED <<wallet, controller, held, data, applied, bounds>>

(* A service that is applied and has not changed is left as it is. *)
Reuse ==
  /\ At("start") /\ run.todo # <<>> /\ Head(run.todo) \in applied
  /\ Go("start", Tail(run.todo))
  /\ UNCHANGED <<wallet, controller, machines, bounds>>

(* Besu keeps to the chain of its data, and its gate fails with another. *)
Start ==
  LET n == Head(run.todo)  genesis == held.genesis[HostOf[n]] IN
  /\ At("start") /\ run.todo # <<>>
  /\ applied' = applied \cup {n}
  /\ data' = [data EXCEPT ![n] = IF @ = 0 THEN genesis ELSE @]
  /\ IF data'[n] = genesis THEN Go("start", Tail(run.todo)) ELSE Stop
  /\ UNCHANGED <<wallet, controller, held, status, bounds>>

Finish ==
  /\ At("start") /\ run.todo = <<>>
  /\ finished' = TRUE /\ Stop
  /\ UNCHANGED <<wallet, controller, machines, runs, stops>>

Kill ==
  /\ run.pc # "idle" /\ stops < MaxStops /\ stops' = stops + 1
  /\ Stop
  /\ UNCHANGED <<wallet, controller, machines, runs, finished>>

-----------------------------------------------------------------------------
Step ==
  \/ Secrets \/ MakePassword \/ MakeRuntime \/ MakeSwarm
  \/ Artifact \/ Wipe \/ Bootstrap \/ Generate \/ MakeKey \/ CopyGenesis
  \/ Refresh \/ WriteList \/ Seal \/ Verify
  \/ WriteSigner \/ AppendKey \/ WriteInputs \/ AskToClean
  \/ Distribute \/ CheckArtifact \/ DeliverGenesis \/ DeliverKey \/ DeliverStatic
  \/ Reject \/ WriteStatus \/ Reuse \/ Start \/ Finish

Operate == Install \/ Resume \/ ChainInit \/ StaticNodes \/ SecretsInit \/ ChangeWallet

Next == Step \/ Operate \/ Again \/ Kill

Spec == Init /\ [][Next]_vars /\ WF_vars(Step) /\ WF_vars(Again)

-----------------------------------------------------------------------------
(* Whatever was killed, retried or asked for in between, a manifest that   *)
(* fits its artifact vouches for one chain: all keys, all lists of them,   *)
(* and the genesis, if there is one.                                       *)
SealedIsOneChain ==
  (Sealed /\ artifact.context # None) =>
    \E chain \in Chain :
      /\ artifact.genesis \in {0, chain}
      /\ \A n \in NodesOf[artifact.context.inv] :
           artifact.key[n] = chain /\ artifact.static[n] = artifact.key

(* When apply gets to the data of the machines, every node that it is      *)
(* going to start has the genesis that the others have, on its machine,    *)
(* its own key, and a list with the keys that its peers hold on theirs.    *)
PeersKnowEachOther ==
  run.pc \in {"reject", "status", "start"} =>
    \A n, peer \in NodesOf[run.inv] :
      /\ held.genesis[HostOf[n]] = held.key[n] /\ held.key[n] # 0
      /\ held.static[n][peer] = held.key[peer]

(* The same of secrets: wherever a run was cut before, the machines of a   *)
(* run that has distributed hold the same ones, and the Minter's key is    *)
(* the key that deploys the contracts.                                     *)
SecretsAgree ==
  run.pc \in {"genesis", "key", "static", "reject", "status", "start"} =>
    \A i, j \in DOMAIN Deliveries :
      LET s == Deliveries[i][1]  here == held[s][Deliveries[i][2]]
          t == Deliveries[j][1]  there == held[t][Deliveries[j][2]] IN
      /\ s = t => here = there
      /\ s = "runtime" /\ t = "signer" => here.key = there

(* Only a run with --new-chain replaces a genesis or a node's key: "it     *)
(* never silently creates a different chain identity" (README.md).         *)
IdentityKept ==
  [][~ run.new => /\ artifact.genesis # 0 => artifact'.genesis = artifact.genesis
                  /\ \A n \in Node : artifact.key[n] # 0 => artifact'.key[n] = artifact.key[n]]_vars

(* The key that a machine signs with is never exchanged for another,       *)
(* whatever the operator's wallet file has become (secrets.py: that "could *)
(* orphan a running chain").                                               *)
SignerKept ==
  [][\A m \in Machine : held.signer[m] # None => held'.signer[m] = held.signer[m]]_vars

(* An operator who installs again gets through in the end, however often a *)
(* run was killed - unless the secrets were left half made, the wallet file*)
(* is not the managed one, a service has gone from the inventory of the    *)
(* chain, or one of its nodes has other data and a status that keeps them. *)
Completes ==
  \/ <>finished
  \/ <>[](secret.password # 0 /\ secret.swarm = 0)
  \/ <>[](secret.signer \notin {None, wallet})
  \/ <>[](\E inv \in Inventory : Compatible(inv) /\ ~ applied \subseteq NodesOf[inv])
  \/ <>[](/\ status /\ artifact.context # None
          /\ \E n \in NodesOf[artifact.context.inv] : data[n] \notin {0, artifact.genesis})

(* "EXISTS - will be deleted" (cli.py): a cleanup that was agreed to has   *)
(* been done when the services are started.                                *)
CleanedAsAgreed ==
  (run.pc = "status" /\ run.clean) => ~ HasData(run.inv)
=============================================================================
