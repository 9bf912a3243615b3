------------------------------ MODULE Planner ------------------------------
(***************************************************************************)
(* planner.py and availability.py: the order in which a resolved document  *)
(* is deployed, and what it survives.  Both are functions of the document. *)
(*                                                                         *)
(* A plan is a sequence of waves: the services of a layer, which the code  *)
(* applies one after the other in the order of their identifiers, or the   *)
(* gate of a phase.  The preflights before and verify after are the same   *)
(* in every plan and left out.                                             *)
(***************************************************************************)
EXTENDS Topology

Phases ==
  <<{"besu-validator"}, {"besu-rpc"}, {"besu-observer"}, {"contracts-deploy"}, StorageTypes,
    {"minter-postgres", "dashboard-mysql", "store-api", "minter-migrate"},
    {"minter-api", "minter-worker", "admin-api", "resolver-api", "dashboard-migrate",
     "dashboard", "explorer", "edge-proxy"}>>

PhaseOf(doc, s) == CHOOSE p \in DOMAIN Phases : doc.services[s].type \in Phases[p]

AnyLayer(doc, applied) ==   \* mutant: all that are ready, of whatever phase
  {s \in DOMAIN doc.services \ applied : ProvidersOf(doc, s) \subseteq applied}

(* The next layer: of the services whose providers are applied, those of  *)
(* the earliest phase.                                                     *)
Layer(doc, applied) ==
  LET ready == {s \in DOMAIN doc.services \ applied : ProvidersOf(doc, s) \subseteq applied} IN
  {s \in ready : \A t \in ready : PhaseOf(doc, s) <= PhaseOf(doc, t)}

(* _layers; a cycle of services has no layers. *)
Layers(doc) ==
  LET from[applied \in SUBSET DOMAIN doc.services] ==
        LET layer == Layer(doc, applied) IN
        IF layer = {} THEN <<>> ELSE <<layer>> \o from[applied \cup layer]
  IN  from[{}]

Apply(layer) == [step |-> "apply", services |-> layer, phase |-> 0]
Gate(phase) == [step |-> "gate", services |-> {}, phase |-> phase]

(* A phase is gated after the last layer with services of it. *)
PlanOf(doc) ==
  LET layers == Layers(doc)
      phase(i) == PhaseOf(doc, CHOOSE s \in layers[i] : TRUE)
      last(i) == \A j \in DOMAIN layers : j > i => phase(j) # phase(i)
  IN  FlattenSeq([i \in DOMAIN layers |->
        <<Apply(layers[i])>> \o IF last(i) THEN <<Gate(phase(i))>> ELSE <<>>])

(* build_plan fails when the groups do not hold or the services are cyclic. *)
Plannable(doc) == GroupsHold(doc) /\ UNION Range(Layers(doc)) = DOMAIN doc.services

(* A plan in order: every provider is applied before its consumers, and    *)
(* every phase is gated once, after the last service of it and before any  *)
(* service of a later phase.                                               *)
InOrder(doc) ==
  LET plan == PlanOf(doc)
      at(s) == CHOOSE i \in DOMAIN plan : s \in plan[i].services
      gates(p) == {i \in DOMAIN plan : plan[i] = Gate(p)}
  IN  \A s \in DOMAIN doc.services :
        /\ \A t \in ProvidersOf(doc, s) : at(t) < at(s)
        /\ Cardinality(gates(PhaseOf(doc, s))) = 1
        /\ \A p \in DOMAIN Phases : \A i \in gates(p) :
             (at(s) < i) <=> (PhaseOf(doc, s) <= p)

-----------------------------------------------------------------------------
(* availability.analyze: what the loss of one part takes away. *)

QuorumShort(validators) == (2 * validators) \div 3   \* mutant: one too few

Quorum(validators) == (2 * validators) \div 3 + 1

Scenario(doc, kind, target, lostServices, primaryLost) ==
  LET remaining(type) == Cardinality(OfType(doc, {type}) \ lostServices)
      peers == remaining("ipfs-kubo")
  IN  [kind |-> kind, target |-> target,
       consensus |-> IF remaining("besu-validator") >= Quorum(Cardinality(OfType(doc, {"besu-validator"})))
                     THEN "continues" ELSE "quorum_lost",
       rpc |-> IF primaryLost THEN "primary_lost" ELSE "available",
       observers |-> IF OfType(doc, {"besu-observer"}) \cap lostServices # {}
                     THEN "copy_lost" ELSE "unchanged",
       storage |-> CASE peers < doc.replication.publish -> "publication_unavailable"
                     [] doc.replication.publish <= peers /\ peers < doc.replication.target
                          -> "durability_target_unmet"
                     [] OTHER -> IF OfType(doc, {"ipfs-kubo"}) \cap lostServices # {}
                                 THEN "degraded" ELSE "available"]

Analyze(doc) ==
  LET validators == OfType(doc, {"besu-validator"})
      storage == OfType(doc, {"ipfs-kubo"})
      grouped(g) == {s \in validators : GroupOf(doc, s) = g}
      failing == validators \cup storage \cup OfType(doc, {"besu-observer"})
      on(m) == {s \in failing : HostOf(doc, s) = m}
      primary == doc.primary
  IN  {Scenario(doc, "validator", v, {v}, FALSE) : v \in validators}
      \cup {Scenario(doc, "validator_group", g, grouped(g), FALSE) :
              g \in {GroupOf(doc, v) : v \in validators}}
      \cup {Scenario(doc, "machine", m, on(m), HostOf(doc, primary) = m) :
              m \in {HostOf(doc, s) : s \in failing \cup {primary}}}
      \cup {Scenario(doc, "primary_rpc", primary, {}, TRUE)}
      \cup {Scenario(doc, "storage_peer", p, {p}, FALSE) : p \in storage}
=============================================================================
