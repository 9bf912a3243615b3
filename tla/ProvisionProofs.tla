-------------------------- MODULE ProvisionProofs --------------------------
(***************************************************************************)
(* Provision.tla for any nodes, machines, inventories, wallets and chains, *)
(* and any number of kills and commands: what is sealed is one chain, what *)
(* is distributed fits together, and no identity is exchanged.             *)
(***************************************************************************)
EXTENDS Provision, TLAPS, SequenceTheorems

Delivery == {"signer", "swarm", "runtime"} \X Machine
KeyOf == [Node -> Chain \cup {0}]
Signer == Wallet \cup {None}
Todo == Seq(Node) \cup Seq(Delivery)
Place == {"idle", "secrets", "password", "env", "swarm", "artifact", "wipe", "bootstrap", "generate",
          "keys", "refresh", "lists", "verify", "signer", "runtime", "inputs", "data", "secrets out",
          "genesis", "key", "static", "reject", "status", "start"}
Command == {"none", "install", "resume", "chain-init", "static", "secrets-init"}
RunType == [pc : Place, cmd : Command, inv : Inventory \cup {None}, new : BOOLEAN,
            clean : BOOLEAN, chain : Chain \cup {0}, todo : Todo]
RuntimeType == [password : Nat, key : Signer]
SecretType == [password : Nat, runtime : RuntimeType, swarm : Nat, signer : Signer]
ArtifactType == [context : [inv : Inventory, wallet : Wallet] \cup {None}, key : KeyOf,
                 static : [Node -> KeyOf], genesis : Chain \cup {0}]
HeldType == [signer : [Machine -> Signer], swarm : [Machine -> Nat],
             runtime : [Machine -> RuntimeType],
             genesis : [Machine -> Chain \cup {0}], key : KeyOf, static : [Node -> KeyOf]]

(* The variables' types. *)
TypeOK ==
  /\ wallet \in Wallet /\ secret \in SecretType /\ made \in Nat
  /\ artifact \in ArtifactType /\ held \in HeldType /\ run \in RunType

-----------------------------------------------------------------------------
(* What holds of the files at any time: a machine signs with the managed   *)
(* key, and so does the runtime file; an artifact has material of one      *)
(* chain; and a manifest is of an artifact that was whole.                 *)
Signing ==
  /\ \A m \in Machine : held.signer[m] # None => held.signer[m] = secret.signer
  /\ secret.runtime.key # None => secret.runtime.key = secret.signer

OneChain ==
  \E c \in Chain : artifact.genesis \in {0, c} /\ \A n \in Node : artifact.key[n] \in {0, c}

Whole(a) ==
  a.context # None =>
    \E c \in Chain : /\ a.genesis \in {0, c}
                     /\ \A n \in NodesOf[a.context.inv] : a.key[n] = c /\ a.static[n] = a.key
Vouched == manifest # None => Whole(manifest)

-----------------------------------------------------------------------------
(* What holds while a command is at some step. *)
Working ==
  /\ run.pc \in {"keys", "lists", "genesis", "key", "static", "start"} => run.todo \in Seq(Node)
  /\ run.pc = "secrets out" => run.todo \in Seq(Delivery)
  /\ run.pc \in {"key", "static"} => run.todo # <<>>
  /\ (run.pc \notin {"idle", "password", "env", "swarm"} \/ run.cmd = "install") => run.inv \in Inventory

Left(n) == n \in Range(run.todo)
OfThis == artifact.context # None /\ NodesOf[artifact.context.inv] = NodesOf[run.inv]
Generating == OfThis /\ artifact.key = NoKeys /\ artifact.genesis = 0
Keying ==
  /\ OfThis /\ artifact.genesis = 0 /\ run.chain \in Chain
  /\ \A n \in Node : artifact.key[n] \in {0, run.chain}
  /\ \A n \in NodesOf[run.inv] : Left(n) \/ artifact.key[n] # 0
Listing ==
  /\ OfThis
  /\ \A n \in NodesOf[run.inv] :
       artifact.key[n] # 0 /\ (Left(n) \/ artifact.static[n] = artifact.key)

Has(d) == held[d[1]][d[2]] = Source(d[1])
Sending == \A i \in DOMAIN Deliveries : Left(Deliveries[i]) \/ Has(Deliveries[i])

Complete(n) ==
  /\ artifact.genesis # 0 /\ held.genesis[HostOf[n]] = artifact.genesis
  /\ held.key[n] = artifact.key[n] /\ held.static[n] = artifact.static[n]
Supplying == Sealed /\ OfThis /\ \A n \in NodesOf[run.inv] : Left(n) \/ Complete(n)
WithGenesis == artifact.genesis # 0 /\ held.genesis[HostOf[Head(run.todo)]] = artifact.genesis
WithKey == held.key[Head(run.todo)] = artifact.key[Head(run.todo)]

Ready ==
  /\ At("wipe") => run.new
  /\ At("generate") => Generating
  /\ At("keys") => Keying
  /\ At("lists") => Listing
  /\ At("runtime") => secret.signer = wallet
  /\ run.pc \in {"inputs", "data", "secrets out"} => secret.runtime.key = secret.signer
  /\ At("secrets out") => Sending
  /\ run.pc \in {"genesis", "key", "static"} => Supplying
  /\ run.pc \in {"key", "static"} => WithGenesis
  /\ At("static") => WithKey

Inv == TypeOK /\ Signing /\ OneChain /\ Vouched /\ Working /\ Ready /\ PeersKnowEachOther /\ SecretsAgree

-----------------------------------------------------------------------------
(* The record of the command at work. *)
Same == run'.inv = run.inv /\ run'.cmd = run.cmd /\ run'.new = run.new /\ run'.chain = run.chain

LEMMA GoesTo ==
  ASSUME run \in RunType, NEW pc \in Place, Goto(pc)
  PROVE  run' \in RunType /\ run'.pc = pc /\ run'.todo = run.todo /\ Same
BY DEF RunType, Goto, Same

LEMMA GoesOn ==
  ASSUME run \in RunType, NEW pc \in Place, NEW todo \in Todo, Go(pc, todo)
  PROVE  run' \in RunType /\ run'.pc = pc /\ run'.todo = todo /\ Same
BY DEF RunType, Go, Same

LEMMA Stops == Stop => run' \in RunType /\ run'.pc = "idle" /\ run'.cmd = "none"
<1>1. <<>> \in Todo
  BY DEF Todo
<1> QED
  BY <1>1 DEF Stop, Idle, RunType, Place, Command

LEMMA Begins ==
  ASSUME NEW cmd \in Command, NEW inv \in Inventory \cup {None}, NEW new \in BOOLEAN,
         NEW pc \in Place, NEW todo \in Todo, Begin(cmd, inv, new, pc, todo)
  PROVE  /\ run' \in RunType /\ run'.pc = pc /\ run'.todo = todo /\ run'.inv = inv /\ run'.cmd = cmd
         /\ run'.new = new
         /\ UNCHANGED <<wallet, secret, made, artifact, manifest, held>>
<1>1. run' = [Idle EXCEPT !.pc = pc, !.cmd = cmd, !.inv = inv, !.new = new, !.todo = todo]
  BY DEF Begin
<1>2. UNCHANGED <<wallet, secret, made, artifact, manifest, held>>
  BY DEF Begin, controller, machines
<1>3. run' = [pc |-> pc, cmd |-> cmd, inv |-> inv, new |-> new, clean |-> FALSE, chain |-> 0, todo |-> todo]
  BY <1>1 DEF Idle
<1> QED
  BY <1>2, <1>3 DEF RunType

LEMMA HeadOrTail ==
  ASSUME NEW S, NEW s \in Seq(S), s # <<>>
  PROVE  /\ Head(s) \in S /\ Tail(s) \in Seq(S)
         /\ \A x \in Range(s) : x = Head(s) \/ x \in Range(Tail(s))
<1>1. Head(s) \in S /\ Tail(s) \in Seq(S) /\ Len(s) \in Nat \ {0} /\ Len(Tail(s)) = Len(s) - 1
      /\ \A i \in 1..Len(Tail(s)) : Tail(s)[i] = s[i + 1]
  BY HeadTailProperties
<1>2. ASSUME NEW x \in Range(s) PROVE x = Head(s) \/ x \in Range(Tail(s))
  <2>1. PICK i \in 1..Len(s) : x = s[i]
    BY <1>2 DEF Range
  <2>2. CASE i = 1
    BY <2>1, <2>2
  <2>3. CASE i # 1
    <3>1. i - 1 \in 1..Len(Tail(s)) /\ (i - 1) + 1 = i
      BY <1>1, <2>3
    <3>2. PICK j \in 1..Len(Tail(s)) : j + 1 = i
      BY <3>1
    <3>3. Tail(s)[j] = s[i]
      BY <1>1, <3>2
    <3>4. j \in DOMAIN Tail(s)
      BY <1>1
    <3> QED
      BY <2>1, <3>3, <3>4 DEF Range
  <2> QED
    BY <2>2, <2>3
<1> QED
  BY <1>1, <1>2

LEMMA NoneLeft == Range(<<>>) = {}
BY DEF Range

(* Steps after which a command holds nothing. *)
Quiet == {"idle", "secrets", "password", "env", "swarm", "artifact", "bootstrap", "refresh", "verify", "signer"}
Files == Signing /\ OneChain /\ Vouched

LEMMA QuietInv ==
  ASSUME TypeOK', Files', Working', run'.pc \in Quiet
  PROVE  Inv'
BY DEF Inv, Files, Quiet, Ready, At, PeersKnowEachOther, SecretsAgree

LEMMA SameFiles ==
  ASSUME Inv, UNCHANGED <<secret, artifact, manifest, held>>
  PROVE  Files'
BY DEF Inv, Files, Signing, OneChain, Vouched, Whole

LEMMA StopInv ==
  ASSUME Inv, Stop, UNCHANGED <<wallet, secret, made, artifact, manifest, held>>
  PROVE  Inv'
<1>1. TypeOK' /\ Working'
  BY Stops DEF Inv, TypeOK, Working
<1> QED
  BY <1>1, SameFiles, QuietInv, Stops DEF Quiet

LEMMA GotoInv ==
  ASSUME Inv, NEW pc \in Quiet \ {"idle"}, Goto(pc), run.inv \in Inventory,
         UNCHANGED <<wallet, secret, made, artifact, manifest, held>>
  PROVE  Inv'
<1>1. run' \in RunType /\ run'.pc = pc /\ run'.inv = run.inv
  BY GoesTo DEF Quiet, Place, Inv, TypeOK, Same
<1>2. TypeOK' /\ Working'
  BY <1>1 DEF Inv, TypeOK, Working, Quiet
<1> QED
  BY <1>1, <1>2, SameFiles, QuietInv
-----------------------------------------------------------------------------
(* Commands begin. *)

LEMMA InitInv == Init => Inv
<1> SUFFICES ASSUME Init PROVE Inv
  OBVIOUS
<1> USE ProvisionAssumption
<1>1. NoKeys \in KeyOf /\ [n \in Node |-> NoKeys] \in [Node -> KeyOf]
  BY DEF NoKeys, KeyOf
<1>3. run = Idle /\ run.pc = "idle" /\ run.cmd = "none" /\ run \in RunType
  BY DEF Init, Idle, RunType, Place, Command, Todo
<1>4. artifact \in ArtifactType
  BY <1>1 DEF Init, Empty, ArtifactType
<1>5. held \in HeldType
  BY <1>1 DEF Init, HeldType, NoRuntime, RuntimeType, Signer
<1>6. secret \in SecretType
  BY DEF Init, NoSecret, NoRuntime, SecretType, RuntimeType, Signer
<1>7. TypeOK
  BY <1>3, <1>4, <1>5, <1>6 DEF TypeOK, Init
<1>8. Signing
  BY DEF Init, Signing, NoSecret, NoRuntime
<1>9. OneChain
  <2>1. PICK c \in Chain : TRUE
    BY DEF Init
  <2> QED
    BY <2>1 DEF OneChain, Init, Empty, NoKeys
<1>10. Vouched /\ Working /\ Ready /\ PeersKnowEachOther /\ SecretsAgree
  BY <1>3 DEF Init, Vouched, Working, Ready, At, PeersKnowEachOther, SecretsAgree
<1> QED
  BY <1>7, <1>8, <1>9, <1>10 DEF Inv

LEMMA BeginInv ==
  ASSUME Inv, NEW cmd \in Command, NEW inv \in Inventory \cup {None}, NEW new \in BOOLEAN,
         NEW pc \in Quiet, inv \in Inventory \/ (pc = "password" /\ cmd # "install"),
         Begin(cmd, inv, new, pc, <<>>)
  PROVE  Inv'
<1>0. pc \in Place
  BY DEF Quiet, Place
<1>1. <<>> \in Todo
  BY DEF Todo
<1>2. /\ run' \in RunType /\ run'.pc = pc /\ run'.inv = inv /\ run'.cmd = cmd
      /\ UNCHANGED <<wallet, secret, made, artifact, manifest, held>>
  BY <1>0, <1>1, Begins
<1>3. TypeOK' /\ Working'
  BY <1>2 DEF Inv, TypeOK, Working, Quiet
<1> QED
  BY <1>2, <1>3, SameFiles, QuietInv

LEMMA StaticNodesInv ==
  ASSUME Inv, StaticNodes
  PROVE  Inv'
<1> DEFINE inv == artifact.context.inv
<1>1. inv \in Inventory /\ NodesIn[inv] \in Seq(Node) /\ Range(NodesIn[inv]) = NodesOf[inv]
  BY ProvisionAssumption DEF StaticNodes, Inv, TypeOK, ArtifactType, NodesOf
<1>2. /\ run' \in RunType /\ run'.pc = "lists" /\ run'.todo = NodesIn[inv] /\ run'.inv = inv
      /\ UNCHANGED <<wallet, secret, made, artifact, manifest, held>>
  <2>1. Begin("static", inv, FALSE, "lists", NodesIn[inv])
    BY DEF StaticNodes
  <2>2. "static" \in Command /\ "lists" \in Place /\ NodesIn[inv] \in Todo
    BY <1>1 DEF Command, Place, Todo
  <2> QED
    BY <1>1, <2>1, <2>2, Begins
<1>3. TypeOK' /\ Working' /\ Files'
  BY <1>1, <1>2, SameFiles DEF Inv, TypeOK, Working
<1>4. Listing'
  BY <1>1, <1>2 DEF StaticNodes, Listing, OfThis, Left
<1> QED
  BY <1>2, <1>3, <1>4 DEF Inv, Files, Ready, At, PeersKnowEachOther, SecretsAgree

LEMMA OperateInv ==
  ASSUME Inv, Operate \/ Again \/ Kill
  PROVE  Inv'
<1>1. CASE Install
  BY <1>1, BeginInv DEF Install, Quiet, Command
<1>2. CASE Resume
  BY <1>2, BeginInv DEF Resume, Quiet, Command
<1>3. CASE ChainInit
  BY <1>3, BeginInv DEF ChainInit, Quiet, Command
<1>4. CASE StaticNodes
  BY <1>4, StaticNodesInv
<1>5. CASE SecretsInit
  BY <1>5, BeginInv DEF SecretsInit, Quiet, Command
<1>6. CASE Again
  BY <1>6, BeginInv DEF Again, Quiet, Command
<1>7. CASE ChangeWallet
  <2>1. run'.pc = "idle" /\ TypeOK' /\ Working' /\ UNCHANGED <<secret, artifact, manifest, held>>
    BY <1>7 DEF ChangeWallet, At, Inv, TypeOK, Working, controller, machines
  <2> QED
    BY <2>1, SameFiles, QuietInv DEF Quiet
<1>8. CASE Kill
  BY <1>8, StopInv DEF Kill, controller, machines
<1> QED
  BY <1>1, <1>2, <1>3, <1>4, <1>5, <1>6, <1>7, <1>8 DEF Operate

-----------------------------------------------------------------------------
(* Managed secrets. *)

LEMMA SecretsInv ==
  ASSUME Inv, Secrets
  PROVE  Inv'
<1>1. run.inv \in Inventory /\ UNCHANGED <<wallet, secret, made, artifact, manifest, held>>
  BY DEF Secrets, At, Inv, Working, controller, machines
<1>2. Goto("password") \/ Goto("artifact")
  BY DEF Secrets
<1> QED
  BY <1>1, <1>2, GotoInv DEF Quiet

LEMMA MakePasswordInv ==
  ASSUME Inv, MakePassword
  PROVE  Inv'
<1>1. run' \in RunType /\ run'.pc = "env" /\ Same
  BY GoesTo DEF MakePassword, Inv, TypeOK, Place
<1>2. UNCHANGED <<wallet, artifact, manifest, held>> /\ made' \in Nat
      /\ secret' = [secret EXCEPT !.password = made']
  BY DEF MakePassword, machines, Inv, TypeOK
<1>3. secret' \in SecretType /\ secret'.signer = secret.signer /\ secret'.runtime = secret.runtime
  BY <1>2 DEF Inv, TypeOK, SecretType
<1>4. TypeOK' /\ Working'
  BY <1>1, <1>2, <1>3 DEF MakePassword, At, Inv, TypeOK, Working, Same
<1>5. Files'
  BY <1>2, <1>3 DEF Inv, Files, Signing, OneChain, Vouched, Whole
<1> QED
  BY <1>1, <1>4, <1>5, QuietInv DEF Quiet

LEMMA MakeRuntimeInv ==
  ASSUME Inv, MakeRuntime
  PROVE  Inv'
<1>1. run' \in RunType /\ run'.pc = "swarm" /\ Same
  BY GoesTo DEF MakeRuntime, Inv, TypeOK, Place
<1>2. UNCHANGED <<wallet, made, artifact, manifest, held>>
      /\ secret' = [secret EXCEPT !.runtime = [password |-> made, key |-> None]]
  BY DEF MakeRuntime, machines
<1>3. secret' \in SecretType /\ secret'.signer = secret.signer /\ secret'.runtime.key = None
  BY <1>2 DEF Inv, TypeOK, SecretType, RuntimeType, Signer
<1>4. TypeOK' /\ Working'
  BY <1>1, <1>2, <1>3 DEF MakeRuntime, At, Inv, TypeOK, Working, Same
<1>5. Files'
  BY <1>2, <1>3 DEF Inv, Files, Signing, OneChain, Vouched, Whole
<1> QED
  BY <1>1, <1>4, <1>5, QuietInv DEF Quiet

LEMMA MakeSwarmInv ==
  ASSUME Inv, MakeSwarm
  PROVE  Inv'
<1>1. UNCHANGED <<wallet, artifact, manifest, held, made>> /\ secret' = [secret EXCEPT !.swarm = made]
  BY DEF MakeSwarm, machines
<1>2. secret' \in SecretType /\ secret'.signer = secret.signer /\ secret'.runtime = secret.runtime
  BY <1>1 DEF Inv, TypeOK, SecretType
<1>3. Files'
  BY <1>1, <1>2 DEF Inv, Files, Signing, OneChain, Vouched, Whole
<1>4. CASE run.cmd = "install"
  <2>1. run' \in RunType /\ run'.pc = "artifact" /\ Same
    BY <1>4, GoesTo DEF MakeSwarm, Inv, TypeOK, Place
  <2>2. TypeOK' /\ Working'
    BY <1>1, <1>2, <1>4, <2>1 DEF Inv, TypeOK, Working, Same
  <2> QED
    BY <1>3, <2>1, <2>2, QuietInv DEF Quiet
<1>5. CASE run.cmd # "install"
  <2>1. Stop
    BY <1>5 DEF MakeSwarm
  <2>2. TypeOK' /\ Working'
    BY <1>1, <1>2, <2>1, Stops DEF Inv, TypeOK, Working
  <2> QED
    BY <1>3, <2>1, <2>2, Stops, QuietInv DEF Quiet
<1> QED
  BY <1>4, <1>5
-----------------------------------------------------------------------------
(* The chain's artifact. *)

LEMMA ArtifactInv ==
  ASSUME Inv, Artifact
  PROVE  Inv'
<1>1. run.inv \in Inventory /\ UNCHANGED <<wallet, secret, made, artifact, manifest, held>>
  BY DEF Artifact, At, Inv, Working, controller, machines
<1>2. CASE run.new
  <2>1. Goto("wipe")
    BY <1>2 DEF Artifact
  <2>2. run' \in RunType /\ run'.pc = "wipe" /\ Same
    BY <2>1, GoesTo DEF Inv, TypeOK, Place
  <2>3. TypeOK' /\ Working' /\ Files'
    BY <1>1, <2>2, SameFiles DEF Inv, TypeOK, Working, Same
  <2> QED
    BY <1>2, <2>2, <2>3 DEF Inv, Files, Ready, At, Same, PeersKnowEachOther, SecretsAgree
<1>3. CASE ~ run.new
  <2>1. Goto("refresh") \/ Goto("bootstrap")
    BY <1>3 DEF Artifact
  <2> QED
    BY <1>1, <2>1, GotoInv DEF Quiet
<1> QED
  BY <1>2, <1>3

LEMMA WipeInv ==
  ASSUME Inv, Wipe
  PROVE  Inv'
<1> USE ProvisionAssumption
<1>1. UNCHANGED <<wallet, secret, made, held>> /\ manifest' \in {manifest, None}
  BY DEF Wipe, machines
<1>2. Goto("bootstrap") \/ Stop
  BY DEF Wipe
<1>3. Empty \in ArtifactType
  BY DEF Empty, NoKeys, ArtifactType, KeyOf
<1>4. /\ artifact' \in ArtifactType /\ artifact'.genesis \in {artifact.genesis, 0}
      /\ artifact'.key \in {artifact.key, NoKeys}
  <2>1. CASE artifact' = Empty
    BY <1>3, <2>1 DEF Empty
  <2>2. CASE artifact' # Empty
    <3>1. PICK keep \in SUBSET {"context", "key", "static", "genesis"} :
            artifact' = [f \in DOMAIN Empty |-> IF f \in keep THEN artifact[f] ELSE Empty[f]]
      BY <2>2 DEF Wipe
    <3>2. artifact' = [context |-> IF "context" \in keep THEN artifact.context ELSE Empty.context,
                       key |-> IF "key" \in keep THEN artifact.key ELSE Empty.key,
                       static |-> IF "static" \in keep THEN artifact.static ELSE Empty.static,
                       genesis |-> IF "genesis" \in keep THEN artifact.genesis ELSE Empty.genesis]
      BY <3>1 DEF Empty
    <3> QED
      BY <1>3, <3>2 DEF Inv, TypeOK, ArtifactType, Empty
  <2> QED
    BY <2>1, <2>2
<1>5. Files'
  <2>1. OneChain'
    BY <1>4 DEF Inv, OneChain, NoKeys
  <2> QED
    BY <1>1, <2>1 DEF Inv, Files, Signing, Vouched, Whole
<1>6. run' \in RunType /\ run'.pc \in {"bootstrap", "idle"} /\ (run'.pc = "bootstrap" => Same)
      /\ (run'.pc = "idle" => run'.cmd = "none")
  BY <1>2, GoesTo, Stops DEF Inv, TypeOK, Place
<1>7. TypeOK' /\ Working'
  BY <1>1, <1>4, <1>6 DEF Wipe, At, Inv, TypeOK, Working, Same
<1> QED
  BY <1>5, <1>6, <1>7, QuietInv DEF Quiet

LEMMA BootstrapInv ==
  ASSUME Inv, Bootstrap
  PROVE  Inv'
<1> USE ProvisionAssumption
<1>1. UNCHANGED <<wallet, secret, made, manifest, held>> /\ run.inv \in Inventory
  BY DEF Bootstrap, At, Inv, Working, machines
<1>2. CASE artifact = Empty /\ manifest = None
  <2> DEFINE context == [inv |-> run.inv, wallet |-> wallet]
  <2>1. artifact' = [artifact EXCEPT !.context = context] /\ Goto("generate")
    BY <1>2 DEF Bootstrap
  <2>2. context \in [inv : Inventory, wallet : Wallet] /\ context # None /\ context.inv = run.inv
    BY <1>1 DEF Inv, TypeOK
  <2>3. /\ artifact' \in ArtifactType /\ artifact'.context = context
        /\ artifact'.key = NoKeys /\ artifact'.genesis = 0
    BY <1>2, <2>1, <2>2 DEF Inv, TypeOK, ArtifactType, Empty
  <2>4. run' \in RunType /\ run'.pc = "generate" /\ Same
    BY <2>1, GoesTo DEF Inv, TypeOK, Place
  <2>5. TypeOK' /\ Working'
    BY <1>1, <2>3, <2>4 DEF Inv, TypeOK, Working, Same
  <2>6. Files'
    BY <1>1, <1>2, <2>3 DEF Inv, Files, Signing, OneChain, Vouched, NoKeys
  <2>7. Generating'
    BY <2>2, <2>3, <2>4 DEF Generating, OfThis, Same
  <2> QED
    BY <2>4, <2>5, <2>6, <2>7 DEF Inv, Files, Ready, At, PeersKnowEachOther, SecretsAgree
<1>3. CASE ~ (artifact = Empty /\ manifest = None)
  BY <1>1, <1>3, StopInv DEF Bootstrap
<1> QED
  BY <1>2, <1>3

LEMMA GenerateInv ==
  ASSUME Inv, Generate
  PROVE  Inv'
<1> USE ProvisionAssumption
<1>1. UNCHANGED <<wallet, secret, made, artifact, manifest, held>> /\ run.inv \in Inventory /\ Generating
  BY DEF Generate, At, Inv, Working, Ready, controller, machines
<1>2. PICK chain \in Chain :
        run' = [run EXCEPT !.pc = "keys", !.chain = chain, !.todo = NodesIn[run.inv]]
  BY DEF Generate, Fresh
<1>3. NodesIn[run.inv] \in Seq(Node) /\ Range(NodesIn[run.inv]) = NodesOf[run.inv]
  BY <1>1 DEF NodesOf
<1>4. /\ run' \in RunType /\ run'.pc = "keys" /\ run'.chain = chain
      /\ run'.todo = NodesIn[run.inv] /\ run'.inv = run.inv
  <2>1. "keys" \in Place /\ NodesIn[run.inv] \in Todo
    BY <1>3 DEF Place, Todo
  <2> QED
    BY <1>2, <2>1 DEF Inv, TypeOK, RunType
<1>5. TypeOK' /\ Working' /\ Files'
  BY <1>1, <1>3, <1>4, SameFiles DEF Inv, TypeOK, Working
<1>6. Keying'
  BY <1>1, <1>3, <1>4 DEF Generating, Keying, OfThis, NoKeys, Left
<1> QED
  BY <1>4, <1>5, <1>6 DEF Inv, Files, Ready, At, PeersKnowEachOther, SecretsAgree

LEMMA MakeKeyInv ==
  ASSUME Inv, MakeKey
  PROVE  Inv'
<1> DEFINE n == Head(run.todo)
<1> USE ProvisionAssumption
<1>1. UNCHANGED <<wallet, secret, made, manifest, held>> /\ run.inv \in Inventory /\ Keying
      /\ run.todo \in Seq(Node) /\ run.todo # <<>>
  BY DEF MakeKey, At, Inv, Working, Ready, machines
<1>2. artifact' = [artifact EXCEPT !.key[n] = run.chain] /\ Go("keys", Tail(run.todo))
  BY DEF MakeKey
<1>3. n \in Node /\ Tail(run.todo) \in Seq(Node) /\ \A x : Left(x) => x = n \/ x \in Range(Tail(run.todo))
  BY <1>1, HeadOrTail DEF Left
<1>4. /\ artifact' \in ArtifactType /\ artifact'.context = artifact.context
      /\ artifact'.genesis = artifact.genesis /\ artifact'.key = [artifact.key EXCEPT ![n] = run.chain]
  BY <1>1, <1>2, <1>3 DEF Inv, TypeOK, ArtifactType, KeyOf, Keying
<1>5. run' \in RunType /\ run'.pc = "keys" /\ run'.todo = Tail(run.todo) /\ Same
  BY <1>2, <1>3, GoesOn DEF Inv, TypeOK, Place, Todo
<1>6. TypeOK' /\ Working'
  BY <1>1, <1>3, <1>4, <1>5 DEF Inv, TypeOK, Working, Same
<1>7. artifact.key \in KeyOf /\ NodesOf[run.inv] \subseteq Node
  BY <1>1, RangeOfSeq DEF Inv, TypeOK, ArtifactType, NodesOf
<1>8. \A m \in Node : artifact'.key[m] = IF m = n THEN run.chain ELSE artifact.key[m]
  BY <1>4, <1>7 DEF KeyOf
<1>9. Files'
  <2>1. OneChain'
    BY <1>1, <1>4, <1>8 DEF OneChain, Keying
  <2> QED
    BY <1>1, <2>1 DEF Inv, Files, Signing, Vouched
<1>10. Keying'
  BY <1>1, <1>3, <1>4, <1>5, <1>7, <1>8 DEF Keying, OfThis, Same, Left
<1> QED
  BY <1>5, <1>6, <1>9, <1>10 DEF Inv, Files, Ready, At, PeersKnowEachOther, SecretsAgree

LEMMA CopyGenesisInv ==
  ASSUME Inv, CopyGenesis
  PROVE  Inv'
<1> USE ProvisionAssumption
<1>1. UNCHANGED <<wallet, secret, made, manifest, held>> /\ run.inv \in Inventory /\ Keying
      /\ \A n : ~ Left(n)
  BY NoneLeft DEF CopyGenesis, At, Inv, Working, Ready, machines, Left
<1>2. artifact' = [artifact EXCEPT !.genesis = run.chain] /\ Go("lists", NodesIn[run.inv])
  BY DEF CopyGenesis
<1>3. /\ NodesIn[run.inv] \in Seq(Node) /\ Range(NodesIn[run.inv]) = NodesOf[run.inv]
  BY <1>1 DEF NodesOf
<1>4. /\ artifact' \in ArtifactType /\ artifact'.context = artifact.context
      /\ artifact'.genesis = run.chain /\ artifact'.key = artifact.key
  BY <1>1, <1>2 DEF Inv, TypeOK, ArtifactType, Keying
<1>5. run' \in RunType /\ run'.pc = "lists" /\ run'.todo = NodesIn[run.inv] /\ Same
  BY <1>2, <1>3, GoesOn DEF Inv, TypeOK, Place, Todo
<1>6. TypeOK' /\ Working'
  BY <1>1, <1>3, <1>4, <1>5 DEF Inv, TypeOK, Working, Same
<1>7. Files'
  <2>1. OneChain'
    BY <1>1, <1>4 DEF OneChain, Keying
  <2> QED
    BY <1>1, <2>1 DEF Inv, Files, Signing, Vouched
<1>8. Listing'
  BY <1>1, <1>3, <1>4, <1>5 DEF Keying, Listing, OfThis, Same, Left
<1> QED
  BY <1>5, <1>6, <1>7, <1>8 DEF Inv, Files, Ready, At, PeersKnowEachOther, SecretsAgree

LEMMA RefreshInv ==
  ASSUME Inv, Refresh
  PROVE  Inv'
<1> USE ProvisionAssumption
<1>1. UNCHANGED <<wallet, secret, made, artifact, manifest, held>> /\ run.inv \in Inventory
  BY DEF Refresh, At, Inv, Working, controller, machines
<1>2. \/ Goto("verify") \/ Stop
      \/ /\ Go("lists", NodesIn[run.inv]) /\ SameNodes(run.inv)
         /\ \A n \in NodesOf[run.inv] : artifact.key[n] # 0
  BY DEF Refresh
<1>3. ASSUME Go("lists", NodesIn[run.inv]), SameNodes(run.inv),
             \A n \in NodesOf[run.inv] : artifact.key[n] # 0
      PROVE  Inv'
  <2>1. NodesIn[run.inv] \in Seq(Node) /\ Range(NodesIn[run.inv]) = NodesOf[run.inv]
    BY <1>1 DEF NodesOf
  <2>2. run' \in RunType /\ run'.pc = "lists" /\ run'.todo = NodesIn[run.inv] /\ Same
    BY <1>3, <2>1, GoesOn DEF Inv, TypeOK, Place, Todo
  <2>3. TypeOK' /\ Working' /\ Files'
    BY <1>1, <2>1, <2>2, SameFiles DEF Inv, TypeOK, Working, Same
  <2>4. Listing'
    BY <1>1, <1>3, <2>1, <2>2 DEF SameNodes, Listing, OfThis, Same, Left
  <2> QED
    BY <2>2, <2>3, <2>4 DEF Inv, Files, Ready, At, PeersKnowEachOther, SecretsAgree
<1> QED
  BY <1>1, <1>2, <1>3, GotoInv, StopInv DEF Quiet

LEMMA WriteListInv ==
  ASSUME Inv, WriteList
  PROVE  Inv'
<1> DEFINE n == Head(run.todo)
<1> USE ProvisionAssumption
<1>1. UNCHANGED <<wallet, secret, made, manifest, held>> /\ run.inv \in Inventory /\ Listing
      /\ run.todo \in Seq(Node) /\ run.todo # <<>>
  BY DEF WriteList, At, Inv, Working, Ready, machines
<1>2. artifact' = [artifact EXCEPT !.static[n] = artifact.key] /\ Go("lists", Tail(run.todo))
  BY DEF WriteList
<1>3. n \in Node /\ Tail(run.todo) \in Seq(Node) /\ \A x : Left(x) => x = n \/ x \in Range(Tail(run.todo))
  BY <1>1, HeadOrTail DEF Left
<1>4. /\ artifact' \in ArtifactType /\ artifact'.context = artifact.context
      /\ artifact'.genesis = artifact.genesis /\ artifact'.key = artifact.key
      /\ artifact'.static = [artifact.static EXCEPT ![n] = artifact.key]
  BY <1>1, <1>2, <1>3 DEF Inv, TypeOK, ArtifactType
<1>5. run' \in RunType /\ run'.pc = "lists" /\ run'.todo = Tail(run.todo) /\ Same
  BY <1>2, <1>3, GoesOn DEF Inv, TypeOK, Place, Todo
<1>6. TypeOK' /\ Working'
  BY <1>1, <1>3, <1>4, <1>5 DEF Inv, TypeOK, Working, Same
<1>7. Files'
  BY <1>1, <1>4 DEF Inv, Files, Signing, OneChain, Vouched
<1>8. artifact.static \in [Node -> KeyOf] /\ NodesOf[run.inv] \subseteq Node
  BY <1>1, RangeOfSeq DEF Inv, TypeOK, ArtifactType, NodesOf
<1>9. Listing'
  BY <1>1, <1>3, <1>4, <1>5, <1>8 DEF Listing, OfThis, Same, Left
<1> QED
  BY <1>5, <1>6, <1>7, <1>9 DEF Inv, Files, Ready, At, PeersKnowEachOther, SecretsAgree

LEMMA SealInv ==
  ASSUME Inv, Seal
  PROVE  Inv'
<1> USE ProvisionAssumption
<1>1. UNCHANGED <<wallet, secret, made, artifact, held>> /\ manifest' = artifact
      /\ run.inv \in Inventory /\ Listing /\ \A n : ~ Left(n)
  BY NoneLeft DEF Seal, At, Inv, Working, Ready, machines, Left
<1>2. Goto("verify") \/ Stop
  BY DEF Seal
<1>3. run' \in RunType /\ run'.pc \in {"verify", "idle"} /\ (run'.pc = "verify" => Same)
      /\ (run'.pc = "idle" => run'.cmd = "none")
  BY <1>2, GoesTo, Stops DEF Inv, TypeOK, Place
<1>4. TypeOK' /\ Working'
  BY <1>1, <1>3 DEF Inv, TypeOK, Working, Same
<1>5. NodesOf[run.inv] \subseteq Node
  BY <1>1, RangeOfSeq DEF NodesOf
<1>6. Whole(artifact)
  <2>1. PICK c \in Chain : artifact.genesis \in {0, c} /\ \A n \in Node : artifact.key[n] \in {0, c}
    BY DEF Inv, OneChain
  <2>2. \A n \in NodesOf[artifact.context.inv] : artifact.key[n] = c /\ artifact.static[n] = artifact.key
    BY <1>1, <1>5, <2>1 DEF Listing, OfThis
  <2> QED
    BY <2>1, <2>2 DEF Whole
<1>7. Files'
  BY <1>1, <1>6 DEF Inv, Files, Signing, OneChain, Vouched, Whole
<1> QED
  BY <1>3, <1>4, <1>7, QuietInv DEF Quiet

LEMMA VerifyInv ==
  ASSUME Inv, Verify
  PROVE  Inv'
<1>1. run.inv \in Inventory /\ UNCHANGED <<wallet, secret, made, artifact, manifest, held>>
  BY DEF Verify, At, Inv, Working, controller, machines
<1>2. Goto("signer") \/ Stop
  BY DEF Verify
<1> QED
  BY <1>1, <1>2, GotoInv, StopInv DEF Quiet
-----------------------------------------------------------------------------
(* The private plan. *)

LEMMA WriteSignerInv ==
  ASSUME Inv, WriteSigner
  PROVE  Inv'
<1>1. UNCHANGED <<wallet, made, artifact, manifest, held>> /\ run.inv \in Inventory
  BY DEF WriteSigner, At, Inv, Working, machines
<1>2. CASE secret.signer \in {None, wallet}
  <2>1. secret' = [secret EXCEPT !.signer = wallet] /\ Goto("runtime")
    BY <1>2 DEF WriteSigner
  <2>2. secret' \in SecretType /\ secret'.signer = wallet /\ secret'.runtime = secret.runtime
    BY <2>1 DEF Inv, TypeOK, SecretType, Signer
  <2>3. run' \in RunType /\ run'.pc = "runtime" /\ Same
    BY <2>1, GoesTo DEF Inv, TypeOK, Place
  <2>4. TypeOK' /\ Working'
    BY <1>1, <2>2, <2>3 DEF Inv, TypeOK, Working, Same
  <2>5. Files'
    <3>1. Signing'
      BY <1>1, <1>2, <2>2 DEF Inv, Signing
    <3> QED
      BY <1>1, <3>1 DEF Inv, Files, OneChain, Vouched, Whole
  <2> QED
    BY <1>1, <2>2, <2>3, <2>4, <2>5 DEF Inv, Files, Ready, At, PeersKnowEachOther, SecretsAgree
<1>3. CASE secret.signer \notin {None, wallet}
  BY <1>1, <1>3, StopInv DEF WriteSigner
<1> QED
  BY <1>2, <1>3

LEMMA AppendKeyInv ==
  ASSUME Inv, AppendKey
  PROVE  Inv'
<1>1. UNCHANGED <<wallet, made, artifact, manifest, held>> /\ run.inv \in Inventory
      /\ secret.signer = wallet /\ Goto("inputs")
      /\ secret' = [secret EXCEPT !.runtime.key = IF @ = None THEN wallet ELSE @]
  BY DEF AppendKey, At, Inv, Working, Ready, machines
<1>2. secret' \in SecretType /\ secret'.signer = secret.signer /\ secret'.runtime.key = secret'.signer
  BY <1>1 DEF Inv, TypeOK, SecretType, RuntimeType, Signer, Signing
<1>3. run' \in RunType /\ run'.pc = "inputs" /\ Same
  BY <1>1, GoesTo DEF Inv, TypeOK, Place
<1>4. TypeOK' /\ Working'
  BY <1>1, <1>2, <1>3 DEF Inv, TypeOK, Working, Same
<1>5. Files'
  BY <1>1, <1>2 DEF Inv, Files, Signing, OneChain, Vouched, Whole
<1> QED
  BY <1>2, <1>3, <1>4, <1>5 DEF Inv, Files, Ready, At, PeersKnowEachOther, SecretsAgree

LEMMA WriteInputsInv ==
  ASSUME Inv, WriteInputs
  PROVE  Inv'
<1>1. UNCHANGED <<wallet, secret, made, artifact, manifest, held>> /\ run.inv \in Inventory
      /\ secret.runtime.key = secret.signer /\ Goto("data")
  BY DEF WriteInputs, At, Inv, Working, Ready, machines
<1>2. run' \in RunType /\ run'.pc = "data" /\ Same
  BY <1>1, GoesTo DEF Inv, TypeOK, Place
<1>3. TypeOK' /\ Working' /\ Files'
  BY <1>1, <1>2, SameFiles DEF Inv, TypeOK, Working, Same
<1> QED
  BY <1>1, <1>2, <1>3 DEF Inv, Files, Ready, At, PeersKnowEachOther, SecretsAgree

LEMMA AskToCleanInv ==
  ASSUME Inv, AskToClean
  PROVE  Inv'
<1>1. UNCHANGED <<wallet, secret, made, artifact, manifest, held>> /\ run.inv \in Inventory
      /\ secret.runtime.key = secret.signer
  BY DEF AskToClean, At, Inv, Working, Ready, controller, machines
<1>2. Deliveries \in Seq(Delivery) /\ Deliveries \in Todo /\ "secrets out" \in Place
  BY ProvisionAssumption DEF Delivery, Todo, Place
<1>3. \/ Stop
      \/ Go("secrets out", Deliveries)
      \/ run' = [run EXCEPT !.pc = "secrets out", !.todo = Deliveries, !.clean = TRUE]
  BY DEF AskToClean
<1>4. CASE Stop
  BY <1>1, <1>4, StopInv
<1>5. CASE ~ Stop
  <2>1. run' \in RunType /\ run'.pc = "secrets out" /\ run'.todo = Deliveries /\ Same
    <3>1. CASE Go("secrets out", Deliveries)
      BY <1>2, <3>1, GoesOn DEF Inv, TypeOK
    <3>2. CASE run' = [run EXCEPT !.pc = "secrets out", !.todo = Deliveries, !.clean = TRUE]
      BY <1>2, <3>2 DEF Inv, TypeOK, RunType, Same
    <3> QED
      BY <1>3, <1>5, <3>1, <3>2
  <2>2. TypeOK' /\ Working' /\ Files'
    BY <1>1, <1>2, <2>1, SameFiles DEF Inv, TypeOK, Working, Same
  <2>3. Sending'
    BY <2>1 DEF Sending, Left, Range
  <2> QED
    BY <1>1, <2>1, <2>2, <2>3 DEF Inv, Files, Ready, At, PeersKnowEachOther, SecretsAgree
<1> QED
  BY <1>4, <1>5

-----------------------------------------------------------------------------
(* Apply. *)

LEMMA DistributeInv ==
  ASSUME Inv, Distribute
  PROVE  Inv'
<1> DEFINE d == Head(run.todo)  s == d[1]  m == d[2]
<1>1. UNCHANGED <<wallet, secret, made, artifact, manifest>> /\ run.inv \in Inventory
      /\ secret.runtime.key = secret.signer /\ Sending /\ run.todo \in Seq(Delivery) /\ run.todo # <<>>
  BY DEF Distribute, At, Inv, Working, Ready, controller
<1>2. CASE Source(s) = Nothing(s)
  BY <1>1, <1>2, StopInv DEF Distribute
<1>3. CASE Source(s) # Nothing(s)
  <2>1. held' = [held EXCEPT ![s][m] = Source(s)] /\ Go("secrets out", Tail(run.todo))
    BY <1>3 DEF Distribute
  <2>2. d \in Delivery /\ Tail(run.todo) \in Seq(Delivery)
        /\ \A x : Left(x) => x = d \/ x \in Range(Tail(run.todo))
    BY <1>1, HeadOrTail DEF Left
  <2>3. s \in {"signer", "swarm", "runtime"} /\ m \in Machine
    BY <2>2 DEF Delivery
  <2>4. /\ held' \in HeldType
        /\ \A k \in Machine : /\ held'.signer[k] = IF <<s, m>> = <<"signer", k>> THEN Source("signer") ELSE held.signer[k]
                              /\ held'.swarm[k] = IF <<s, m>> = <<"swarm", k>> THEN Source("swarm") ELSE held.swarm[k]
                              /\ held'.runtime[k] = IF <<s, m>> = <<"runtime", k>> THEN Source("runtime") ELSE held.runtime[k]
    <3>1. CASE s = "signer"
      BY <2>1, <2>3, <3>1 DEF Source, Inv, TypeOK, HeldType, SecretType
    <3>2. CASE s = "swarm"
      BY <2>1, <2>3, <3>2 DEF Source, Inv, TypeOK, HeldType, SecretType
    <3>3. CASE s = "runtime"
      BY <2>1, <2>3, <3>3 DEF Source, Inv, TypeOK, HeldType, SecretType
    <3> QED
      BY <2>3, <3>1, <3>2, <3>3
  <2>5. run' \in RunType /\ run'.pc = "secrets out" /\ run'.todo = Tail(run.todo) /\ Same
    BY <2>1, <2>2, GoesOn DEF Inv, TypeOK, Place, Todo
  <2>6. TypeOK' /\ Working'
    BY <1>1, <2>2, <2>4, <2>5 DEF Inv, TypeOK, Working, Same
  <2>7. Files'
    <3>1. Signing'
      BY <1>1, <2>4 DEF Inv, Signing, Source
    <3> QED
      BY <1>1, <3>1 DEF Inv, Files, OneChain, Vouched, Whole
  <2>8. Sending'
    <3> SUFFICES ASSUME NEW i \in DOMAIN Deliveries, ~ Left(Deliveries[i])' PROVE Has(Deliveries[i])'
      BY DEF Sending
    <3> DEFINE e == Deliveries[i]
    <3>1. e \in Delivery /\ e = <<e[1], e[2]>> /\ e[1] \in {"signer", "swarm", "runtime"} /\ e[2] \in Machine
      BY ProvisionAssumption DEF Delivery
    <3>2. e = d \/ Has(e)
      BY <1>1, <2>2, <2>5 DEF Sending, Left
    <3>3. Source(e[1])' = Source(e[1])
      BY <1>1 DEF Source
    <3>4. d = <<s, m>>
      BY <2>2 DEF Delivery
    <3>5. held'[e[1]][e[2]] = Source(e[1])
      <4>1. CASE e = d
        BY <2>4, <3>1, <3>4, <4>1
      <4>2. CASE e # d
        BY <2>4, <3>1, <3>2, <3>4, <4>2 DEF Has
      <4> QED
        BY <4>1, <4>2
    <3> QED
      BY <3>3, <3>5 DEF Has
  <2> QED
    BY <1>1, <2>5, <2>6, <2>7, <2>8 DEF Inv, Files, Ready, At, PeersKnowEachOther, SecretsAgree
<1> QED
  BY <1>2, <1>3

LEMMA CheckArtifactInv ==
  ASSUME Inv, CheckArtifact
  PROVE  Inv'
<1> USE ProvisionAssumption
<1>1. UNCHANGED <<wallet, secret, made, artifact, manifest, held>> /\ run.inv \in Inventory
      /\ secret.runtime.key = secret.signer /\ Sending /\ \A d : ~ Left(d)
  BY NoneLeft DEF CheckArtifact, At, Inv, Working, Ready, controller, machines, Left
<1>2. CASE Stop
  BY <1>1, <1>2, StopInv
<1>3. CASE ~ Stop
  <2>1. Go("genesis", NodesIn[run.inv]) /\ Sealed /\ Compatible(run.inv)
    BY <1>3 DEF CheckArtifact
  <2>2. NodesIn[run.inv] \in Seq(Node) /\ Range(NodesIn[run.inv]) = NodesOf[run.inv]
    BY <1>1 DEF NodesOf
  <2>3. run' \in RunType /\ run'.pc = "genesis" /\ run'.todo = NodesIn[run.inv] /\ Same
    BY <2>1, <2>2, GoesOn DEF Inv, TypeOK, Place, Todo
  <2>4. TypeOK' /\ Working' /\ Files'
    BY <1>1, <2>2, <2>3, SameFiles DEF Inv, TypeOK, Working, Same
  <2>5. Supplying'
    BY <1>1, <2>1, <2>2, <2>3 DEF Supplying, Sealed, OfThis, Compatible, SameNodes, Same, Left
  <2>6. SecretsAgree'
    <3>1. \A i \in DOMAIN Deliveries : held[Deliveries[i][1]][Deliveries[i][2]] = Source(Deliveries[i][1])
      BY <1>1 DEF Sending, Has
    <3>2. Source("runtime").key = Source("signer")
      BY <1>1 DEF Source
    <3> QED
      BY <1>1, <3>1, <3>2 DEF SecretsAgree
  <2> QED
    BY <2>3, <2>4, <2>5, <2>6 DEF Inv, Files, Ready, At, PeersKnowEachOther
<1> QED
  BY <1>2, <1>3

(* Distributed is distributed. *)
LEMMA KeepAgreed ==
  ASSUME Inv, run.pc \in {"genesis", "key", "static", "reject", "status", "start"},
         held'.signer = held.signer, held'.swarm = held.swarm, held'.runtime = held.runtime
  PROVE  SecretsAgree'
<1>1. \A i \in DOMAIN Deliveries : Deliveries[i][1] \in {"signer", "swarm", "runtime"}
  BY ProvisionAssumption
<1>2. \A i \in DOMAIN Deliveries : held'[Deliveries[i][1]] = held[Deliveries[i][1]]
  BY <1>1
<1> QED
  BY <1>2 DEF Inv, SecretsAgree

LEMMA DeliverGenesisInv ==
  ASSUME Inv, DeliverGenesis
  PROVE  Inv'
<1> DEFINE n == Head(run.todo)
<1> USE ProvisionAssumption
<1>1. UNCHANGED <<wallet, secret, made, artifact, manifest>> /\ run.inv \in Inventory /\ Supplying
      /\ run.pc = "genesis" /\ run.todo \in Seq(Node)
  BY DEF DeliverGenesis, At, Inv, Working, Ready, controller
<1>2. CASE run.todo = <<>>
  <2>1. UNCHANGED held /\ Goto("reject")
    BY <1>2 DEF DeliverGenesis
  <2>2. run' \in RunType /\ run'.pc = "reject" /\ Same
    BY <2>1, GoesTo DEF Inv, TypeOK, Place
  <2>3. TypeOK' /\ Working' /\ Files'
    BY <1>1, <2>1, <2>2, SameFiles DEF Inv, TypeOK, Working, Same
  <2>4. SecretsAgree'
    BY <1>1, <2>1, KeepAgreed
  <2>5. \A x \in NodesOf[run.inv] : Complete(x)
    BY <1>1, <1>2, NoneLeft DEF Supplying, Left
  <2>6. Whole(artifact) /\ artifact.context # None /\ NodesOf[artifact.context.inv] = NodesOf[run.inv]
    BY <1>1 DEF Inv, Vouched, Supplying, Sealed, OfThis
  <2>7. PICK c \in Chain : /\ artifact.genesis \in {0, c}
                           /\ \A x \in NodesOf[run.inv] : artifact.key[x] = c /\ artifact.static[x] = artifact.key
    BY <2>6 DEF Whole
  <2>8. \A x, peer \in NodesOf[run.inv] :
          /\ held.genesis[HostOf[x]] = held.key[x] /\ held.key[x] # 0
          /\ held.static[x][peer] = held.key[peer]
    BY <2>5, <2>7 DEF Complete
  <2>9. PeersKnowEachOther'
    BY <2>1, <2>2, <2>8 DEF PeersKnowEachOther, Same
  <2> QED
    BY <2>2, <2>3, <2>4, <2>9 DEF Inv, Files, Ready, At
<1>3. CASE run.todo # <<>> /\ artifact.genesis = 0
  BY <1>1, <1>3, StopInv DEF DeliverGenesis
<1>4. CASE run.todo # <<>> /\ artifact.genesis # 0
  <2>1. held' = [held EXCEPT !.genesis[HostOf[n]] = artifact.genesis] /\ Goto("key")
    BY <1>4 DEF DeliverGenesis
  <2>2. n \in Node /\ HostOf[n] \in Machine
    BY <1>1, <1>4, HeadOrTail
  <2>3. /\ held' \in HeldType /\ held'.key = held.key /\ held'.static = held.static
        /\ held'.signer = held.signer /\ held'.swarm = held.swarm /\ held'.runtime = held.runtime
        /\ held'.genesis = [held.genesis EXCEPT ![HostOf[n]] = artifact.genesis]
    BY <2>1, <2>2 DEF Inv, TypeOK, HeldType, ArtifactType
  <2>4. run' \in RunType /\ run'.pc = "key" /\ run'.todo = run.todo /\ Same
    BY <2>1, GoesTo DEF Inv, TypeOK, Place
  <2>5. TypeOK' /\ Working'
    BY <1>1, <1>4, <2>3, <2>4 DEF Inv, TypeOK, Working, Same
  <2>6. Files'
    BY <1>1, <2>3 DEF Inv, Files, Signing, OneChain, Vouched, Whole
  <2>7. \A x \in Node : held'.genesis[HostOf[x]] = IF HostOf[x] = HostOf[n] THEN artifact.genesis ELSE held.genesis[HostOf[x]]
    BY <2>2, <2>3 DEF Inv, TypeOK, HeldType
  <2>8. NodesOf[run.inv] \subseteq Node
    BY <1>1, RangeOfSeq DEF NodesOf
  <2>9. Supplying' /\ WithGenesis'
    BY <1>1, <1>4, <2>2, <2>3, <2>4, <2>7, <2>8
       DEF Supplying, Sealed, OfThis, Left, Complete, Same, WithGenesis
  <2> QED
    BY <1>1, <2>3, <2>4, <2>5, <2>6, <2>9, KeepAgreed DEF Inv, Files, Ready, At, PeersKnowEachOther
<1> QED
  BY <1>2, <1>3, <1>4

LEMMA DeliverKeyInv ==
  ASSUME Inv, DeliverKey
  PROVE  Inv'
<1> DEFINE n == Head(run.todo)
<1> USE ProvisionAssumption
<1>1. UNCHANGED <<wallet, secret, made, artifact, manifest>> /\ run.inv \in Inventory /\ Supplying
      /\ WithGenesis /\ run.pc = "key" /\ run.todo \in Seq(Node) /\ run.todo # <<>>
  BY DEF DeliverKey, At, Inv, Working, Ready, controller
<1>2. held' = [held EXCEPT !.key[n] = artifact.key[n]] /\ Goto("static")
  BY DEF DeliverKey
<1>3. n \in Node
  BY <1>1, HeadOrTail
<1>4. artifact.key \in KeyOf /\ artifact.key[n] \in Chain \cup {0}
  BY <1>3 DEF Inv, TypeOK, ArtifactType, KeyOf
<1>5. /\ held' \in HeldType /\ held'.genesis = held.genesis /\ held'.static = held.static
      /\ held'.signer = held.signer /\ held'.swarm = held.swarm /\ held'.runtime = held.runtime
      /\ held'.key = [held.key EXCEPT ![n] = artifact.key[n]]
  BY <1>2, <1>3, <1>4 DEF Inv, TypeOK, HeldType, KeyOf
<1>6. run' \in RunType /\ run'.pc = "static" /\ run'.todo = run.todo /\ Same
  BY <1>2, GoesTo DEF Inv, TypeOK, Place
<1>7. TypeOK' /\ Working'
  BY <1>1, <1>5, <1>6 DEF Inv, TypeOK, Working, Same
<1>8. Files'
  BY <1>1, <1>5 DEF Inv, Files, Signing, OneChain, Vouched, Whole
<1>9. NodesOf[run.inv] \subseteq Node
  BY <1>1, RangeOfSeq DEF NodesOf
<1>10. \A x \in Node : held'.key[x] = IF x = n THEN artifact.key[n] ELSE held.key[x]
  BY <1>3, <1>5 DEF Inv, TypeOK, HeldType, KeyOf
<1>11. Supplying' /\ WithGenesis' /\ WithKey'
  <2>1. Sealed' /\ OfThis'
    BY <1>1, <1>6 DEF Supplying, Sealed, OfThis, Same
  <2>2. WithGenesis' /\ WithKey'
    BY <1>1, <1>3, <1>5, <1>6, <1>10 DEF Supplying, Sealed, OfThis, Same, WithGenesis, WithKey
  <2>3. \A x \in NodesOf[run.inv] : Left(x)' \/ Complete(x)'
    BY <1>1, <1>3, <1>5, <1>6, <1>9, <1>10 DEF Supplying, Left, Complete, Same, WithGenesis
  <2> QED
    BY <1>6, <2>1, <2>2, <2>3 DEF Supplying, Same
<1> QED
  BY <1>1, <1>5, <1>6, <1>7, <1>8, <1>11, KeepAgreed DEF Inv, Files, Ready, At, PeersKnowEachOther

LEMMA DeliverStaticInv ==
  ASSUME Inv, DeliverStatic
  PROVE  Inv'
<1> DEFINE n == Head(run.todo)
<1> USE ProvisionAssumption
<1>1. UNCHANGED <<wallet, secret, made, artifact, manifest>> /\ run.inv \in Inventory /\ Supplying
      /\ WithGenesis /\ WithKey /\ run.pc = "static" /\ run.todo \in Seq(Node) /\ run.todo # <<>>
  BY DEF DeliverStatic, At, Inv, Working, Ready, controller
<1>2. held' = [held EXCEPT !.static[n] = artifact.static[n]] /\ Go("genesis", Tail(run.todo))
  BY DEF DeliverStatic
<1>3. n \in Node /\ Tail(run.todo) \in Seq(Node) /\ \A x : Left(x) => x = n \/ x \in Range(Tail(run.todo))
  BY <1>1, HeadOrTail DEF Left
<1>4. /\ held' \in HeldType /\ held'.genesis = held.genesis /\ held'.key = held.key
      /\ held'.signer = held.signer /\ held'.swarm = held.swarm /\ held'.runtime = held.runtime
      /\ held'.static = [held.static EXCEPT ![n] = artifact.static[n]]
  BY <1>2, <1>3 DEF Inv, TypeOK, HeldType, ArtifactType
<1>5. run' \in RunType /\ run'.pc = "genesis" /\ run'.todo = Tail(run.todo) /\ Same
  BY <1>2, <1>3, GoesOn DEF Inv, TypeOK, Place, Todo
<1>6. TypeOK' /\ Working'
  BY <1>1, <1>3, <1>4, <1>5 DEF Inv, TypeOK, Working, Same
<1>7. Files'
  BY <1>1, <1>4 DEF Inv, Files, Signing, OneChain, Vouched, Whole
<1>8. NodesOf[run.inv] \subseteq Node
  BY <1>1, RangeOfSeq DEF NodesOf
<1>9. \A x \in Node : held'.static[x] = IF x = n THEN artifact.static[n] ELSE held.static[x]
  BY <1>3, <1>4 DEF Inv, TypeOK, HeldType
<1>10. Supplying'
  <2>1. Sealed' /\ OfThis'
    BY <1>1, <1>5 DEF Supplying, Sealed, OfThis, Same
  <2>2. \A x \in NodesOf[run.inv] : Left(x)' \/ Complete(x)'
    BY <1>1, <1>3, <1>4, <1>5, <1>8, <1>9
       DEF Supplying, Left, Complete, Same, WithGenesis, WithKey
  <2> QED
    BY <1>5, <2>1, <2>2 DEF Supplying, Same
<1> QED
  BY <1>1, <1>4, <1>5, <1>6, <1>7, <1>10, KeepAgreed DEF Inv, Files, Ready, At, PeersKnowEachOther

LEMMA StartingInv ==
  ASSUME Inv, Reject \/ WriteStatus \/ Reuse \/ Start \/ Finish
  PROVE  Inv'
<1> USE ProvisionAssumption
<1>1. UNCHANGED <<wallet, secret, made, artifact, manifest, held>>
      /\ run.pc \in {"reject", "status", "start"} /\ run.inv \in Inventory
  BY DEF Reject, WriteStatus, Reuse, Start, Finish, At, Inv, Working, controller, machines
<1>2. CASE Stop
  BY <1>1, <1>2, StopInv
<1>3. CASE ~ Stop
  <2>1. /\ run' \in RunType /\ run'.pc \in {"status", "start"} /\ Same
        /\ run'.pc = "start" => run'.todo \in Seq(Node)
    <3>1. CASE Reject
      <4>1. Goto("status")
        BY <1>3, <3>1 DEF Reject
      <4> QED
        BY <4>1, GoesTo DEF Inv, TypeOK, Place
    <3>2. CASE WriteStatus
      <4>1. Go("start", NodesIn[run.inv]) /\ NodesIn[run.inv] \in Seq(Node)
        BY <1>1, <3>2 DEF WriteStatus
      <4> QED
        BY <4>1, GoesOn DEF Inv, TypeOK, Place, Todo
    <3>3. CASE Reuse \/ Start
      <4>1. Go("start", Tail(run.todo)) /\ run.todo # <<>> /\ run.todo \in Seq(Node)
        BY <1>3, <3>3 DEF Reuse, Start, At, Inv, Working
      <4>2. Tail(run.todo) \in Seq(Node)
        BY <4>1, HeadOrTail
      <4> QED
        BY <4>1, <4>2, GoesOn DEF Inv, TypeOK, Place, Todo
    <3>4. CASE Finish
      BY <1>3, <3>4 DEF Finish
    <3> QED
      BY <3>1, <3>2, <3>3, <3>4
  <2>2. TypeOK' /\ Working' /\ Files'
    BY <1>1, <2>1, SameFiles DEF Inv, TypeOK, Working, Same
  <2>3. SecretsAgree'
    BY <1>1, KeepAgreed
  <2>4. PeersKnowEachOther'
    BY <1>1, <2>1 DEF Inv, PeersKnowEachOther, Same
  <2> QED
    BY <2>1, <2>2, <2>3, <2>4 DEF Inv, Files, Ready, At
<1> QED
  BY <1>2, <1>3

-----------------------------------------------------------------------------
LEMMA StepInv == Inv /\ [Next]_vars => Inv'
<1> SUFFICES ASSUME Inv, [Next]_vars PROVE Inv'
  OBVIOUS
<1>1. CASE Secrets \/ MakePassword \/ MakeRuntime \/ MakeSwarm
  BY <1>1, SecretsInv, MakePasswordInv, MakeRuntimeInv, MakeSwarmInv
<1>2. CASE Artifact \/ Wipe \/ Bootstrap \/ Generate \/ MakeKey \/ CopyGenesis
  BY <1>2, ArtifactInv, WipeInv, BootstrapInv, GenerateInv, MakeKeyInv, CopyGenesisInv
<1>3. CASE Refresh \/ WriteList \/ Seal \/ Verify
  BY <1>3, RefreshInv, WriteListInv, SealInv, VerifyInv
<1>4. CASE WriteSigner \/ AppendKey \/ WriteInputs \/ AskToClean
  BY <1>4, WriteSignerInv, AppendKeyInv, WriteInputsInv, AskToCleanInv
<1>5. CASE Distribute \/ CheckArtifact \/ DeliverGenesis \/ DeliverKey \/ DeliverStatic
  BY <1>5, DistributeInv, CheckArtifactInv, DeliverGenesisInv, DeliverKeyInv, DeliverStaticInv
<1>6. CASE Reject \/ WriteStatus \/ Reuse \/ Start \/ Finish
  BY <1>6, StartingInv
<1>7. CASE Operate \/ Again \/ Kill
  BY <1>7, OperateInv
<1>8. CASE UNCHANGED vars
  <2>1. UNCHANGED <<wallet, secret, made, artifact, manifest, held, run>>
    BY <1>8 DEF vars, controller, machines
  <2>2. TypeOK' /\ Working' /\ Files'
    BY <2>1, SameFiles DEF Inv, TypeOK, Working
  <2>3. Ready'
    BY <2>1 DEF Inv, Ready, At, Generating, Keying, Listing, OfThis, Left, Sending, Has, Source,
                Supplying, Sealed, Complete, WithGenesis, WithKey
  <2>4. PeersKnowEachOther' /\ SecretsAgree'
    BY <2>1 DEF Inv, PeersKnowEachOther, SecretsAgree
  <2> QED
    BY <2>2, <2>3, <2>4 DEF Inv, Files
<1> QED
  BY <1>1, <1>2, <1>3, <1>4, <1>5, <1>6, <1>7, <1>8 DEF Next, Step

(* Inv is inductive: it holds whatever was killed, retried or asked for.    *)
THEOREM Invariant == Spec => []Inv
<1> QED
  BY InitInv, StepInv, PTL DEF Spec

(* What apply verifies against its manifest is the material of one chain,   *)
(* with a list of all keys for every node (artifacts.py).                   *)
THEOREM SealsAreOfOneChain == Spec => []SealedIsOneChain
<1>1. Inv => SealedIsOneChain
  <2> SUFFICES ASSUME Inv, Sealed, artifact.context # None
               PROVE  \E chain \in Chain :
                        /\ artifact.genesis \in {0, chain}
                        /\ \A n \in NodesOf[artifact.context.inv] :
                             artifact.key[n] = chain /\ artifact.static[n] = artifact.key
    BY DEF SealedIsOneChain
  <2> QED
    BY DEF Inv, Vouched, Whole, Sealed
<1> QED
  BY <1>1, Invariant, PTL

(* When runner.py starts services, the nodes of its plan know each other's  *)
(* keys and share the genesis.                                              *)
THEOREM PeersKnow == Spec => []PeersKnowEachOther
<1>1. Inv => PeersKnowEachOther
  BY DEF Inv
<1> QED
  BY <1>1, Invariant, PTL

(* After the distribution of runner.py the machines hold the same secrets,  *)
(* those of one generation of secrets.py.                                   *)
THEOREM SecretsAreAgreed == Spec => []SecretsAgree
<1>1. Inv => SecretsAgree
  BY DEF Inv
<1> QED
  BY <1>1, Invariant, PTL

-----------------------------------------------------------------------------
(* Only Distribute writes a machine's secrets, and what it writes of the    *)
(* signer is the managed one, which any machine already has.                *)
LEMMA SignerStep ==
  ASSUME Inv, [Next]_vars, NEW m \in Machine, held.signer[m] # None
  PROVE  held'.signer[m] = held.signer[m]
<1>1. CASE Distribute
  <2>1. CASE UNCHANGED held
    BY <2>1
  <2>2. CASE held' = [held EXCEPT ![Head(run.todo)[1]][Head(run.todo)[2]] = Source(Head(run.todo)[1])]
    <3>1. run.todo \in Seq(Delivery) /\ run.todo # <<>>
      BY <1>1 DEF Distribute, At, Inv, Working
    <3>2. Head(run.todo) \in Delivery
      BY <3>1, HeadOrTail
    <3>3. Head(run.todo)[1] = "signer" => Source(Head(run.todo)[1]) = secret.signer
      BY DEF Source
    <3>4. held.signer[m] = secret.signer
      BY DEF Inv, Signing
    <3> QED
      BY <2>2, <3>2, <3>3, <3>4 DEF Inv, TypeOK, HeldType, Delivery
  <2> QED
    BY <1>1, <2>1, <2>2 DEF Distribute
<1>2. CASE DeliverGenesis \/ DeliverKey \/ DeliverStatic
  BY <1>2 DEF DeliverGenesis, DeliverKey, DeliverStatic, Inv, TypeOK, HeldType
<1>3. CASE Secrets \/ MakePassword \/ MakeRuntime \/ MakeSwarm \/ Artifact \/ Wipe \/ Bootstrap \/ Generate
  BY <1>3 DEF Secrets, MakePassword, MakeRuntime, MakeSwarm, Artifact, Wipe, Bootstrap, Generate, machines
<1>4. CASE MakeKey \/ CopyGenesis \/ Refresh \/ WriteList \/ Seal \/ Verify
  BY <1>4 DEF MakeKey, CopyGenesis, Refresh, WriteList, Seal, Verify, machines
<1>5. CASE WriteSigner \/ AppendKey \/ WriteInputs \/ AskToClean \/ CheckArtifact
  BY <1>5 DEF WriteSigner, AppendKey, WriteInputs, AskToClean, CheckArtifact, machines
<1>6. CASE Reject \/ WriteStatus \/ Reuse \/ Start \/ Finish \/ Kill
  BY <1>6 DEF Reject, WriteStatus, Reuse, Start, Finish, Kill, machines
<1>7. CASE Operate \/ Again
  BY <1>7 DEF Operate, Again, Install, Resume, ChainInit, StaticNodes, SecretsInit, ChangeWallet,
              Begin, machines
<1>8. CASE UNCHANGED vars
  BY <1>8 DEF vars, machines
<1> QED
  BY <1>1, <1>2, <1>3, <1>4, <1>5, <1>6, <1>7, <1>8 DEF Next, Step

(* A machine's signer is never replaced by another (secrets.py refuses a    *)
(* wallet that is not the managed one).                                     *)
THEOREM SignerIsKept == Spec => SignerKept
<1>1. Inv /\ [Next]_vars => [\A m \in Machine : held.signer[m] # None => held'.signer[m] = held.signer[m]]_vars
  BY SignerStep
<1> QED
  BY <1>1, Invariant, PTL DEF Spec, SignerKept

-----------------------------------------------------------------------------
(* Whatever writes the artifact: a chain's material is written only where   *)
(* there is none, or what is there is of that chain.                        *)
LEMMA IdentityStep ==
  ASSUME Inv, [Next]_vars, ~ run.new
  PROVE  /\ artifact.genesis # 0 => artifact'.genesis = artifact.genesis
         /\ \A n \in Node : artifact.key[n] # 0 => artifact'.key[n] = artifact.key[n]
<1>1. CASE Wipe
  BY <1>1 DEF Wipe, Inv, Ready, At
<1>2. CASE Bootstrap
  BY <1>2 DEF Bootstrap, Inv, TypeOK, ArtifactType
<1>3. CASE MakeKey
  <2>1. Keying /\ run.todo \in Seq(Node) /\ run.todo # <<>>
    BY <1>3 DEF MakeKey, Inv, Ready, Working, At
  <2>2. artifact' = [artifact EXCEPT !.key[Head(run.todo)] = run.chain]
    BY <1>3 DEF MakeKey
  <2>3. Head(run.todo) \in Node
    BY <2>1, HeadOrTail
  <2> QED
    BY <2>1, <2>2, <2>3 DEF Keying, Inv, TypeOK, ArtifactType, KeyOf
<1>4. CASE CopyGenesis
  BY <1>4 DEF CopyGenesis, Inv, TypeOK, ArtifactType, Ready, At, Keying
<1>5. CASE WriteList
  BY <1>5 DEF WriteList, Inv, TypeOK, ArtifactType
<1>6. CASE Secrets \/ MakePassword \/ MakeRuntime \/ MakeSwarm \/ Artifact \/ Generate \/ Refresh \/ Seal \/ Verify
  BY <1>6 DEF Secrets, MakePassword, MakeRuntime, MakeSwarm, Artifact, Generate, Refresh, Seal, Verify, controller
<1>7. CASE WriteSigner \/ AppendKey \/ WriteInputs \/ AskToClean \/ Distribute \/ CheckArtifact
  BY <1>7 DEF WriteSigner, AppendKey, WriteInputs, AskToClean, Distribute, CheckArtifact, controller
<1>8. CASE DeliverGenesis \/ DeliverKey \/ DeliverStatic \/ Reject \/ WriteStatus
  BY <1>8 DEF DeliverGenesis, DeliverKey, DeliverStatic, Reject, WriteStatus, controller
<1>9. CASE Reuse \/ Start \/ Finish \/ Kill
  BY <1>9 DEF Reuse, Start, Finish, Kill, controller
<1>10. CASE Operate \/ Again
  BY <1>10 DEF Operate, Again, Install, Resume, ChainInit, StaticNodes, SecretsInit, ChangeWallet,
               Begin, controller
<1>11. CASE UNCHANGED vars
  BY <1>11 DEF vars, controller
<1> QED
  BY <1>1, <1>2, <1>3, <1>4, <1>5, <1>6, <1>7, <1>8, <1>9, <1>10, <1>11 DEF Next, Step

(* The genesis and the keys of a chain go only in a run with --new-chain.   *)
THEOREM IdentityIsKept == Spec => IdentityKept
<1>1. Inv /\ [Next]_vars
        => [~ run.new => /\ artifact.genesis # 0 => artifact'.genesis = artifact.genesis
                         /\ \A n \in Node : artifact.key[n] # 0 => artifact'.key[n] = artifact.key[n]]_vars
  BY IdentityStep
<1> QED
  BY <1>1, Invariant, PTL DEF Spec, IdentityKept
=============================================================================
