---------------------------- MODULE WizardProofs ----------------------------
(***************************************************************************)
(* Wizard.tla for any inventories: what the workbench draws is what its    *)
(* draft resolves to, and what is true of every document that the resolver *)
(* makes (Resolver.tla) is therefore true of every draft, whichever        *)
(* operations, undos and resets led to it.                                 *)
(***************************************************************************)
EXTENDS Wizard, PlannerProofs

(* The draft and everything that undo and reset bring back resolve, and    *)
(* the document in hand is the draft's.                                    *)
Resolved ==
  /\ original \in Opened /\ Resolve(original) # Rejected
  /\ undo_stack \in Seq(Range(undo_stack))
  /\ \A doc \in Range(undo_stack) : Resolve(doc) # Rejected
  /\ resolution = Resolve(raw) /\ resolution # Rejected

(* What undo takes from its stack, and what it leaves. *)
LEMMA Popped ==
  ASSUME NEW stack, stack \in Seq(Range(stack)), stack # <<>>
  PROVE  /\ Last(stack) \in Range(stack) /\ Range(Front(stack)) \subseteq Range(stack)
         /\ Front(stack) \in Seq(Range(Front(stack)))
<1>1. Len(stack) \in Nat \ {0} /\ Len(stack) \in 1..Len(stack)
  BY EmptySeq
<1>2. Last(stack) \in Range(stack)
  BY <1>1, ElementOfSeq DEF Last
<1>3. Front(stack) \in Seq(Range(stack))
  BY <1>1, SubSeqProperties DEF Front
<1>4. Range(Front(stack)) \subseteq Range(stack)
  BY <1>3, RangeOfSeq
<1>5. Front(stack) \in Seq(Range(Front(stack)))
  BY <1>3, SeqOfRange
<1> QED
  BY <1>2, <1>4, <1>5

LEMMA Pushed ==
  ASSUME NEW stack, stack \in Seq(Range(stack)), NEW doc
  PROVE  /\ Range(Append(stack, doc)) = Range(stack) \cup {doc}
         /\ Append(stack, doc) \in Seq(Range(Append(stack, doc)))
<1> DEFINE S == Range(stack) \cup {doc}
<1>1. stack \in Seq(S) /\ doc \in S
  OBVIOUS
<1>2. Append(stack, doc) \in Seq(S)
  BY <1>1, AppendProperties
<1>3. Range(Append(stack, doc)) = S
  <2> DEFINE next == Append(stack, doc)
  <2>1. /\ Len(stack) \in Nat /\ Len(next) = Len(stack) + 1 /\ next[Len(stack) + 1] = doc
        /\ \A i \in 1..Len(stack) : next[i] = stack[i]
    BY <1>1, AppendProperties
  <2>2. Range(next) = {next[i] : i \in 1..Len(next)} /\ Range(stack) = {stack[i] : i \in 1..Len(stack)}
    BY <1>1, <1>2, RangeEquality
  <2> HIDE DEF next
  <2>3. 1..Len(next) = (1..Len(stack)) \cup {Len(stack) + 1}
    BY <2>1
  <2>4. {next[i] : i \in 1..Len(next)} = {next[i] : i \in 1..Len(stack)} \cup {next[Len(stack) + 1]}
    BY <2>3
  <2>5. {next[i] : i \in 1..Len(stack)} = {stack[i] : i \in 1..Len(stack)}
    BY <2>1
  <2> QED
    BY <2>1, <2>2, <2>4, <2>5 DEF next
<1> QED
  BY <1>2, <1>3

LEMMA CommitKeeps ==
  ASSUME Resolved, NEW candidate, Commit(candidate)
  PROVE  Resolved'
<1>1. /\ Resolve(candidate) # Rejected /\ resolution' = Resolve(candidate) /\ raw' = candidate
      /\ undo_stack' = Append(undo_stack, raw) /\ original' = original
  BY DEF Commit
<1> QED
  BY <1>1, Pushed DEF Resolved

LEMMA PerformCommits ==
  ASSUME Perform
  PROVE  \E candidate : Commit(candidate)
<1>1. Place => \E candidate : Commit(candidate)
  BY DEF Place, AddMachine, RemoveMachine, SetMachineAddress, SetMachineSite, AddNetwork,
         RemoveNetwork, AddSite, RemoveSite, AddRoute, RemoveRoute
<1>2. Renumber => \E candidate : Commit(candidate)
  BY DEF Renumber, SetValidatorCount, SetObserverCount, RemoveValidatorGroup, RemoveObserverGroup
<1>3. Serve => \E candidate : Commit(candidate)
  BY DEF Serve, AddValidatorGroup, AddObserverGroup, AddRpcNode, RemoveRpcNode, SetPrimaryRpc,
         SetBinding, SetValue, AddStoragePeer, RemoveStoragePeer, SetReplication,
         AddStorageApiReplica, RemoveStorageApiReplica
<1>4. Connect => \E candidate : Commit(candidate)
  <2>1. SetRouting \/ SetLocalityRouting \/ SetProfile \/ SetAcknowledgements \/ SetAdvertise
          => \E candidate : Commit(candidate)
    BY DEF SetRouting, SetLocalityRouting, SetProfile, SetAcknowledgements, SetAdvertise
  <2>2. AddProxy => \E candidate : Commit(candidate)
    BY DEF AddProxy
  <2>3. RemoveProxy \/ SetProxyListener \/ SetProxyTls \/ SetProxySite
          => \E candidate : Commit(candidate)
    BY DEF RemoveProxy, SetProxyListener, SetProxyTls, SetProxySite
  <2>4. AddProxyRoute \/ RemoveProxyRoute => \E candidate : Commit(candidate)
    BY DEF AddProxyRoute, RemoveProxyRoute
  <2> QED
    BY <2>1, <2>2, <2>3, <2>4 DEF Connect
<1>5. MoveGroup \/ SetOverride => \E candidate : Commit(candidate)
  BY DEF MoveGroup, SetOverride
<1> QED
  BY <1>1, <1>2, <1>3, <1>4, <1>5 DEF Perform

(* Whatever operations, undos and resets an operator gives, the document   *)
(* that is drawn and planned is the one that the draft resolves to         *)
(* (session.py resolves before it stores, and again after undo and reset). *)
THEOREM DraftResolved == Spec => []Resolved
<1>1. Init => Resolved
  <2> SUFFICES ASSUME Init PROVE Resolved
    OBVIOUS
  <2>1. original \in Opened /\ resolution = Resolve(original) /\ Resolve(original) # Rejected
    BY DEF Init, Loaded
  <2>2. undo_stack = <<>> /\ raw = original /\ Range(undo_stack) = {}
    BY DEF Init, Range
  <2> QED
    BY <2>1, <2>2 DEF Resolved
<1>2. Resolved /\ [Next]_vars => Resolved'
  <2> SUFFICES ASSUME Resolved, [Next]_vars PROVE Resolved'
    OBVIOUS
  <2>1. CASE Perform
    BY <2>1, PerformCommits, CommitKeeps
  <2>2. CASE Undo
    <3>1. /\ undo_stack # <<>> /\ undo_stack' = Front(undo_stack) /\ raw' = Last(undo_stack)
          /\ resolution' = Resolve(raw') /\ original' = original
      BY <2>2 DEF Undo
    <3>2. raw' \in Range(undo_stack)
      BY <3>1, Popped DEF Resolved
    <3> QED
      BY <3>1, <3>2, Popped DEF Resolved
  <2>3. CASE Reset
    <3>1. undo_stack' = <<>> /\ raw' = original /\ resolution' = Resolve(original) /\ original' = original
      BY <2>3 DEF Reset, Resolved, Loaded
    <3>2. Range(undo_stack') = {}
      BY <3>1 DEF Range
    <3> QED
      BY <3>1, <3>2 DEF Resolved
  <2>4. CASE UNCHANGED vars
    BY <2>4 DEF vars, Resolved
  <2> QED
    BY <2>1, <2>2, <2>3, <2>4 DEF Next
<1> QED
  BY <1>1, <1>2, PTL DEF Spec
-----------------------------------------------------------------------------
(* The resolver, stage by stage.  A document is what the last stage made,  *)
(* or a rejection of one of them.                                          *)

LEMMA TableIs ==
  ASSUME NEW f
  PROVE  Table(f) = f
BY DEF Table

(* Whatever resolves has passed all the checks of inventory.py, and its    *)
(* services are the ones that a machine was given to, on their way through *)
(* the last stages.                                                        *)
Documented(inventory, services, machines, peerings, doc) ==
  /\ Valid(doc) /\ ObjectivesHold(inventory, doc)
  /\ doc.peerings = peerings /\ doc.primary = inventory.primary
  /\ doc.services = WithListeners(WithNetworking(inventory,
                      WithLoopback(inventory, machines, WithExposure(services))), peerings)

LEMMA RoutedIs ==
  ASSUME NEW d, NEW groups, NEW secrets, NEW machines, NEW services,
         Routed(d, groups, secrets, machines, services) # Rejected
  PROVE  \E peerings :
           Documented(d, services, machines, peerings, Routed(d, groups, secrets, machines, services))
<1> DEFINE local == WithLoopback(d, machines, WithExposure(services))
           peerings == Peerings(d, machines, local)
           final == WithListeners(WithNetworking(d, local), peerings)
           doc == Routed(d, groups, secrets, machines, services)
<1>1. doc = Published(d, groups, secrets, machines, local, peerings)
  BY TableIs DEF Routed, Peered
<1> HIDE DEF local, peerings
<1> DEFINE made ==
         [networks |-> [n \in Ids(d.networks) |-> Named(d.networks, n)],
          sites |-> [x \in Ids(d.sites) |-> Named(d.sites, x).lan],
          routes |-> d.routes, machines |-> machines, services |-> final,
          groups |-> WithEdge(d, groups), infrastructure |-> Infrastructure(d),
          nodes |-> Roles(d), primary |-> d.primary, peerings |-> peerings,
          peers |-> [i \in DOMAIN d.peers |-> d.peers[i].id],
          replication |-> d.replication, secrets |-> secrets]
<1>2. doc = Checked(d, made)
  BY <1>1, TableIs DEF Published
<1>3. made.peerings = peerings /\ made.primary = d.primary /\ made.services = final
  OBVIOUS
<1> HIDE DEF made, doc
<1>4. doc = made /\ Valid(made) /\ ObjectivesHold(d, made)
  BY <1>2 DEF Checked, doc
<1> QED
  BY <1>3, <1>4 DEF Documented, doc, local
-----------------------------------------------------------------------------
(* Until callers are known nobody listens for them: through all the stages *)
(* before WithExposure, services have no listeners.                        *)

Fields == {"type", "machine", "connections", "exposure", "listeners", "port"}
Plain(service) ==
  /\ Fields \subseteq DOMAIN service /\ service.listeners = {}
  /\ {"mode", "network", "advertised"} \subseteq DOMAIN service.exposure
AllPlain(services) == \A s \in DOMAIN services : Plain(services[s])
Based(services) == AllPlain(services) /\ {"store-api", "resolver-api"} \subseteq DOMAIN services

LEMMA ServicePlain ==
  ASSUME NEW type, NEW uses
  PROVE  Plain(Service(type, uses))
BY DEF Plain, Fields, Service, Hidden

LEMMA ConnectedPlain ==
  ASSUME NEW service, Plain(service), NEW connections
  PROVE  Plain([service EXCEPT !.connections = connections])
BY DEF Plain, Fields

LEMMA MergePlain ==
  ASSUME NEW f, NEW g, AllPlain(f), AllPlain(g)
  PROVE  AllPlain(f ++ g) /\ DOMAIN (f ++ g) = DOMAIN f \cup DOMAIN g
BY DEF AllPlain, ++

LEMMA TemplatePlain ==
  ASSUME NEW type, NEW node
  PROVE  Plain(Template(type, node))
BY DEF Plain, Fields, Template, Service, Hidden, Private

LEMMA CataloguePlain == Based(Catalogue)
<1>1. \A kind : Plain(Worker(kind))
  BY DEF Worker, Service, Plain, Fields, Hidden
<1>2. Plain(Gateway)
  BY DEF Gateway, Service, Plain, Fields, Hidden
<1>3. Plain([Service("explorer", [rpc |-> "rpc01"]) EXCEPT !.exposure = Private("lan")])
  BY DEF Service, Plain, Fields, Hidden, Private
<1> QED
  BY <1>1, <1>2, <1>3, ServicePlain DEF Catalogue, Based, AllPlain

LEMMA NodesPlain ==
  ASSUME NEW d
  PROVE  Based(WithNodes(d))
<1>1. Based(Own(d))
  BY CataloguePlain, ConnectedPlain DEF Own, Based, AllPlain
<1>2. \A type, S : AllPlain([n \in S |-> Template(type, n)])
  BY TemplatePlain DEF AllPlain
<1> QED
  BY <1>1, <1>2, MergePlain DEF WithNodes, Based

LEMMA InstancesPlain ==
  ASSUME NEW d, NEW services, Based(services)
  PROVE  Based(WithInstances(d, services))
<1>1. AllPlain([s \in DOMAIN d.instances |-> services["resolver-api"]])
  BY DEF Based, AllPlain
<1> QED
  BY <1>1, MergePlain DEF WithInstances, Based

LEMMA BindingsPlain ==
  ASSUME NEW d, NEW services, Based(services)
  PROVE  Based(WithBindings(d, services))
<1>1. \A s \in DOMAIN services : Plain(WithBindings(d, services)[s])
  BY ConnectedPlain DEF WithBindings, Based, AllPlain
<1> QED
  BY <1>1 DEF WithBindings, Based, AllPlain

LEMMA StoragePlain ==
  ASSUME NEW d, NEW services, Based(services)
  PROVE  Based(WithStorage(d, services))
<1> DEFINE clusters == {ClusterId(p) : p \in Ids(d.peers)}
           cluster(c) == LET p == LatestPeer(d, ClusterId, c) IN
             [Template("ipfs-cluster", p) EXCEPT !.connections = [kubo |-> Link(KuboId(p))]]
           made == [c \in clusters |-> cluster(c)]
           kubos == [k \in {KuboId(p) : p \in Ids(d.peers)} |->
                       Template("ipfs-kubo", LatestPeer(d, KuboId, k))]
           all == made ++ kubos ++ services
<1>1. AllPlain(made)
  BY TemplatePlain, ConnectedPlain DEF AllPlain
<1>2. AllPlain(kubos)
  BY TemplatePlain DEF AllPlain
<1> HIDE DEF made, kubos
<1>3. Based(all)
  BY <1>1, <1>2, MergePlain DEF Based
<1>4. WithStorage(d, services) = [all EXCEPT !["store-api"].connections = [c \in clusters |-> Link(c)]]
  BY DEF WithStorage, made, kubos
<1> HIDE DEF all, clusters
<1> QED
  BY <1>3, <1>4, ConnectedPlain DEF Based, AllPlain

LEMMA ReadersPlain ==
  ASSUME NEW d, NEW services, Based(services)
  PROVE  Based(WithReaders(d, services))
<1> DEFINE listing(s) == {i \in DOMAIN d.readers : s \in d.readers[i].consumers}
           served == [s \in DOMAIN services |->
             IF listing(s) = {} THEN services[s]
             ELSE [services[s] EXCEPT !.connections["store_api"] =
                    Link(d.readers[CHOOSE i \in listing(s) : \A j \in listing(s) : j <= i].id)]]
           readers == [r \in Ids(d.readers) |->
                         Reader(d, services["store-api"], Named(d.readers, r))]
<1>1. \A s \in DOMAIN services : Plain(served[s])
  BY ConnectedPlain DEF Based, AllPlain
<1>2. \A r : Plain(Reader(d, services["store-api"], r))
  BY DEF Reader, Based, AllPlain, Plain, Fields
<1>3. Based(served) /\ AllPlain(readers)
  BY <1>1, <1>2 DEF Based, AllPlain
<1>4. WithReaders(d, services) = readers ++ served
  BY DEF WithReaders
<1> HIDE DEF readers, served
<1> QED
  BY <1>3, <1>4, MergePlain DEF Based

LEMMA ExplorerPlain ==
  ASSUME NEW d, NEW services, Based(services)
  PROVE  Based(WithExplorer(d, services))
BY ConnectedPlain DEF WithExplorer, Based, AllPlain

LEMMA MachinesPlain ==
  ASSUME NEW services, NEW groups, NEW listed, Based(services)
  PROVE  AllPlain(WithMachines(services, groups, listed))
BY DEF WithMachines, Based, AllPlain, Plain, Fields

LEMMA ProxiesPlain ==
  ASSUME NEW d, NEW services, NEW groups, AllPlain(services)
  PROVE  AllPlain(WithProxies(d, services, groups))
<1> DEFINE others == Restrict(services, DOMAIN services \ {"edge-proxy"})
           proxies == [p \in Ids(d.proxies) |->
                        LET proxy == Named(d.proxies, p) IN Proxy(proxy, groups[proxy.group].machine)]
<1>1. AllPlain(others)
  BY DEF Restrict, AllPlain
<1>2. \A proxy, machine : Plain(Proxy(proxy, machine))
  BY DEF Proxy, Service, Edge, Hidden, Plain, Fields
<1>3. AllPlain(proxies)
  BY <1>2 DEF AllPlain
<1>4. AllPlain([services EXCEPT !["edge-proxy"].port = d.access.port,
                 !["edge-proxy"].exposure = Edge(d.access.bind, d.access.network)])
  BY DEF AllPlain, Plain, Fields, Edge, Hidden
<1> HIDE DEF others, proxies
<1>5. AllPlain(proxies ++ others)
  BY <1>1, <1>3, MergePlain
<1> QED
  BY <1>1, <1>4, <1>5 DEF WithProxies, others, proxies

LEMMA TransportPlain ==
  ASSUME NEW d, NEW machines, NEW services, AllPlain(services)
  PROVE  AllPlain(WithTransport(d, machines, services))
<1>1. \A s \in DOMAIN services : Plain(WithTransport(d, machines, services)[s])
  BY ConnectedPlain DEF WithTransport, AllPlain
<1> QED
  BY <1>1 DEF WithTransport, AllPlain
-----------------------------------------------------------------------------
(* A document is its services as a machine and a network were given to     *)
(* them, with what the last four stages publish.                           *)
LEMMA Documents ==
  ASSUME NEW d, Resolve(d) # Rejected
  PROVE  \E services, machines, peerings :
           AllPlain(services) /\ Documented(d, services, machines, peerings, Resolve(d))
<1> DEFINE Holds(doc) == \E services, machines, peerings :
             AllPlain(services) /\ Documented(d, services, machines, peerings, doc)
<1>1. ASSUME NEW groups, NEW secrets, NEW machines, NEW services, AllPlain(services),
             Edged(d, groups, secrets, machines, services) # Rejected
      PROVE  Holds(Edged(d, groups, secrets, machines, services))
  <2> DEFINE routed == WithTransport(d, machines, WithProxies(d, services, groups))
  <2>1. AllPlain(routed)
    BY <1>1, ProxiesPlain, TransportPlain
  <2>2. Edged(d, groups, secrets, machines, services) = Routed(d, groups, secrets, machines, routed)
    BY <1>1, TableIs DEF Edged
  <2> HIDE DEF routed
  <2> QED
    BY <1>1, <2>1, <2>2, RoutedIs
<1> HIDE DEF Holds
<1>2. ASSUME NEW secrets, NEW services, Based(services), Kept(d, secrets, services) # Rejected
      PROVE  Holds(Kept(d, secrets, services))
  <2> DEFINE listed == Listed(d, services)
             groups == Grouped(d, services, listed)
             hosted == WithMachines(services, groups, listed)
  <2>1. AllPlain(hosted)
    BY <1>2, MachinesPlain
  <2>2. Kept(d, secrets, services) = Edged(d, groups, secrets, Machines(d), hosted)
    BY <1>2, TableIs DEF Kept, Assigned, Hosted
  <2> HIDE DEF listed, groups, hosted
  <2> QED
    BY <1>1, <1>2, <2>1, <2>2
<1>3. ASSUME NEW services, Based(services), Bound(d, services) # Rejected
      PROVE  Holds(Bound(d, services))
  <2> DEFINE stored == WithStorage(d, WithBindings(d, services))
             read == WithReaders(d, stored)
             kept == WithExplorer(d, read)
             secrets == Secrets(stored)
  <2>1. Based(kept)
    BY <1>3, BindingsPlain, StoragePlain, ReadersPlain, ExplorerPlain
  <2>2. Bound(d, services) = Kept(d, secrets, kept)
    BY <1>3, TableIs DEF Bound, Stored, Read
  <2> HIDE DEF stored, read, kept, secrets
  <2> QED
    BY <1>2, <1>3, <2>1, <2>2
<1>4. Resolve(d) = Bound(d, WithInstances(d, WithNodes(d)))
  BY DEF Resolve
<1>5. Based(WithInstances(d, WithNodes(d)))
  BY NodesPlain, InstancesPlain
<1> QED
  BY <1>3, <1>4, <1>5 DEF Holds

(* The last four stages leave a service what it is, where it is and what   *)
(* it calls.                                                               *)
Alike(x, y) == x.type = y.type /\ x.machine = y.machine /\ x.connections = y.connections
WellShaped(x) == Fields \subseteq DOMAIN x /\ {"mode", "network", "advertised"} \subseteq DOMAIN x.exposure
Same(f, g) == DOMAIN f = DOMAIN g /\ \A s \in DOMAIN g : Alike(f[s], g[s])
Shaped(services) == \A s \in DOMAIN services : WellShaped(services[s])

LEMMA ExposedIs ==
  ASSUME NEW x, WellShaped(x), NEW e, {"mode", "network", "advertised"} \subseteq DOMAIN e
  PROVE  LET y == [x EXCEPT !.exposure = e] IN
         Alike(y, x) /\ WellShaped(y) /\ y.exposure = e /\ y.listeners = x.listeners
BY DEF Alike, WellShaped, Fields

LEMMA PortedIs ==
  ASSUME NEW x, WellShaped(x), NEW p
  PROVE  LET y == [x EXCEPT !.port = p] IN
         Alike(y, x) /\ WellShaped(y) /\ y.exposure = x.exposure /\ y.listeners = x.listeners
BY DEF Alike, WellShaped, Fields

LEMMA ListenedIs ==
  ASSUME NEW x, WellShaped(x), NEW l
  PROVE  LET y == [x EXCEPT !.listeners = l] IN
         Alike(y, x) /\ WellShaped(y) /\ y.exposure = x.exposure /\ y.listeners = l
BY DEF Alike, WellShaped, Fields

LEMMA HiddenIs ==
  /\ {"mode", "network", "advertised"} \subseteq DOMAIN Hidden /\ Hidden.mode # "private"
  /\ \A n : /\ {"mode", "network", "advertised"} \subseteq DOMAIN Private(n)
            /\ Private(n).mode = "private" /\ Private(n).network = n
  /\ {"mode", "network", "advertised"} \subseteq DOMAIN Edge("loopback", None)
  /\ Edge("loopback", None).mode = "loopback"
BY DEF Hidden, Private, Edge, None

LEMMA ExposureIs ==
  ASSUME NEW services, AllPlain(services)
  PROVE  LET exposed == WithExposure(services) IN
         /\ Same(exposed, services) /\ Shaped(exposed)
         /\ \A t \in DOMAIN services : services[t].type # "edge-proxy" =>
              Listening(exposed[t]) \subseteq Required(services, t)
<1> DEFINE exposed == WithExposure(services)
<1> SUFFICES ASSUME NEW t \in DOMAIN services
             PROVE  /\ Alike(exposed[t], services[t]) /\ WellShaped(exposed[t])
                    /\ services[t].type # "edge-proxy"
                         => Listening(exposed[t]) \subseteq Required(services, t)
  BY DEF Same, Shaped, WithExposure
<1> DEFINE x == services[t]
           networks == Required(services, t)
           port == IF x.type \in DOMAIN PortOf THEN PortOf[x.type] ELSE x.port
           ported == [x EXCEPT !.port = port]
           only == CHOOSE n \in networks : TRUE
<1>1. WellShaped(x) /\ x.listeners = {}
  BY DEF AllPlain, Plain, WellShaped
<1>2. exposed[t] =
        CASE Cardinality(networks) = 1 -> [x EXCEPT !.port = port, !.exposure = Private(only)]
          [] Cardinality(networks) # 1 /\ networks # {} ->
               [x EXCEPT !.port = port, !.exposure = Hidden, !.listeners = networks]
          [] networks = {} /\ x.exposure.mode = "private" /\ x.type # "edge-proxy" ->
               [x EXCEPT !.port = port, !.exposure = Hidden]
          [] OTHER -> ported
  BY DEF WithExposure
<1>3. networks = {} => Cardinality(networks) # 1
  BY FS_EmptySet
<1> HIDE DEF networks, port, exposed, x
<1>4. /\ Alike(ported, x) /\ WellShaped(ported) /\ ported.listeners = {}
      /\ ported.exposure = x.exposure
  BY <1>1, PortedIs
<1> HIDE DEF ported, only
<1>5. CASE Cardinality(networks) = 1
  <2>1. exposed[t] = [ported EXCEPT !.exposure = Private(only)]
    BY <1>2, <1>3, <1>5 DEF ported
  <2>2. only \in networks
    BY <1>3, <1>5 DEF only
  <2>3. /\ Alike(exposed[t], ported) /\ WellShaped(exposed[t])
        /\ exposed[t].exposure = Private(only) /\ exposed[t].listeners = {}
    BY <2>1, <1>4, HiddenIs, ExposedIs
  <2>4. Listening(exposed[t]) \subseteq networks
    BY <2>2, <2>3, HiddenIs DEF Listening
  <2> QED
    BY <1>4, <2>3, <2>4 DEF Alike, x, networks
<1>6. CASE Cardinality(networks) # 1 /\ networks # {}
  <2> DEFINE hidden == [ported EXCEPT !.exposure = Hidden]
  <2>1. exposed[t] = [hidden EXCEPT !.listeners = networks]
    BY <1>2, <1>6 DEF ported
  <2>2. Alike(hidden, ported) /\ WellShaped(hidden) /\ hidden.exposure = Hidden
    BY <1>4, HiddenIs, ExposedIs
  <2> HIDE DEF hidden
  <2>3. /\ Alike(exposed[t], hidden) /\ WellShaped(exposed[t])
        /\ exposed[t].exposure = Hidden /\ exposed[t].listeners = networks
    BY <2>1, <2>2, ListenedIs
  <2>4. Listening(exposed[t]) \subseteq networks
    BY <2>3, HiddenIs DEF Listening
  <2> QED
    BY <1>4, <2>2, <2>3, <2>4 DEF Alike, x, networks
<1>7. CASE networks = {} /\ x.exposure.mode = "private" /\ x.type # "edge-proxy"
  <2>1. exposed[t] = [ported EXCEPT !.exposure = Hidden]
    BY <1>2, <1>3, <1>7 DEF ported
  <2>2. /\ Alike(exposed[t], ported) /\ WellShaped(exposed[t])
        /\ exposed[t].exposure = Hidden /\ exposed[t].listeners = {}
    BY <2>1, <1>4, HiddenIs, ExposedIs
  <2>3. Listening(exposed[t]) = {}
    BY <2>2, HiddenIs DEF Listening
  <2> QED
    BY <1>4, <2>2, <2>3 DEF Alike, x
<1>8. CASE networks = {} /\ ~ (x.exposure.mode = "private" /\ x.type # "edge-proxy")
  <2>1. exposed[t] = ported
    BY <1>2, <1>3, <1>8
  <2>2. x.type # "edge-proxy" => Listening(exposed[t]) = {}
    BY <2>1, <1>4, <1>8 DEF Listening
  <2> QED
    BY <1>4, <2>1, <2>2 DEF x
<1> QED
  BY <1>5, <1>6, <1>7, <1>8

LEMMA LoopbackIs ==
  ASSUME NEW d, NEW machines, NEW services, Shaped(services)
  PROVE  LET local == WithLoopback(d, machines, services) IN
         /\ Same(local, services) /\ Shaped(local)
         /\ \A t \in DOMAIN services : Listening(local[t]) \subseteq Listening(services[t])
<1> DEFINE local == WithLoopback(d, machines, services)
<1>1. DOMAIN local = DOMAIN services
  BY DEF WithLoopback
<1>2. ASSUME NEW t \in DOMAIN services
      PROVE  /\ Alike(local[t], services[t]) /\ WellShaped(local[t])
             /\ Listening(local[t]) \subseteq Listening(services[t])
  <2> DEFINE looped == [services[t] EXCEPT !.exposure = Edge("loopback", None)]
  <2>1. local[t] \in {looped, services[t]}
    BY DEF WithLoopback
  <2>2. WellShaped(services[t])
    BY DEF Shaped
  <2>3. /\ Alike(looped, services[t]) /\ WellShaped(looped)
        /\ looped.exposure = Edge("loopback", None) /\ looped.listeners = services[t].listeners
    BY <2>2, HiddenIs, ExposedIs
  <2> HIDE DEF local, looped
  <2>4. Listening(looped) \subseteq Listening(services[t])
    BY <2>3, HiddenIs DEF Listening
  <2> QED
    BY <2>1, <2>2, <2>3, <2>4 DEF Alike
<1> QED
  BY <1>1, <1>2 DEF Same, Shaped

LEMMA NetworkingIs ==
  ASSUME NEW d, NEW services, Shaped(services)
  PROVE  LET named == WithNetworking(d, services) IN
         /\ Same(named, services) /\ Shaped(named)
         /\ \A t \in DOMAIN services : Listening(named[t]) = Listening(services[t])
<1> DEFINE named == WithNetworking(d, services)
<1>1. DOMAIN named = DOMAIN services
  BY DEF WithNetworking
<1>2. ASSUME NEW t \in DOMAIN services
      PROVE  /\ Alike(named[t], services[t]) /\ WellShaped(named[t])
             /\ Listening(named[t]) = Listening(services[t])
  <2> DEFINE e == [services[t].exposure EXCEPT !.advertised = Advertised(d, t)]
             called == [services[t] EXCEPT !.exposure = e]
  <2>1. named[t] \in {called, services[t]}
    BY DEF WithNetworking
  <2>2. WellShaped(services[t])
    BY DEF Shaped
  <2>3. /\ {"mode", "network", "advertised"} \subseteq DOMAIN e
        /\ e.mode = services[t].exposure.mode /\ e.network = services[t].exposure.network
    BY <2>2 DEF WellShaped
  <2> HIDE DEF e
  <2>4. /\ Alike(called, services[t]) /\ WellShaped(called)
        /\ called.exposure = e /\ called.listeners = services[t].listeners
    BY <2>2, <2>3, ExposedIs
  <2> HIDE DEF named, called
  <2>5. Listening(called) = Listening(services[t])
    BY <2>3, <2>4 DEF Listening
  <2> QED
    BY <2>1, <2>2, <2>4, <2>5 DEF Alike
<1> QED
  BY <1>1, <1>2 DEF Same, Shaped

LEMMA ListenersIs ==
  ASSUME NEW services, NEW peerings, Shaped(services)
  PROVE  LET final == WithListeners(services, peerings) IN
         /\ Same(final, services)
         /\ \A t \in DOMAIN services :
              /\ Listening(final[t]) \subseteq Listening(services[t])
                   \cup (StorageNetworks(services, peerings, t) \ {services[t].exposure.network})
              /\ services[t].listeners = {} => Listening(services[t]) \subseteq Listening(final[t])
<1> DEFINE final == WithListeners(services, peerings)
<1>1. DOMAIN final = DOMAIN services
  BY DEF WithListeners
<1>2. ASSUME NEW t \in DOMAIN services
      PROVE  /\ Alike(final[t], services[t])
             /\ Listening(final[t]) \subseteq Listening(services[t])
                  \cup (StorageNetworks(services, peerings, t) \ {services[t].exposure.network})
             /\ services[t].listeners = {} => Listening(services[t]) \subseteq Listening(final[t])
  <2> DEFINE x == services[t]
             networks == StorageNetworks(services, peerings, t)
             hidden == [x EXCEPT !.exposure = Hidden]
             listening == [hidden EXCEPT !.listeners = networks]
  <2>1. final[t] = x \/ (final[t] = listening /\ x.exposure.mode = "private")
    BY DEF WithListeners
  <2>2. WellShaped(x)
    BY DEF Shaped
  <2>3. x.exposure.network \in networks
    BY DEF StorageNetworks
  <2> HIDE DEF final, networks, x
  <2>4. Alike(hidden, x) /\ WellShaped(hidden) /\ hidden.exposure = Hidden
    BY <2>2, HiddenIs, ExposedIs
  <2> HIDE DEF hidden
  <2>5. Alike(listening, hidden) /\ listening.exposure = Hidden /\ listening.listeners = networks
    BY <2>4, ListenedIs
  <2> HIDE DEF listening
  <2>6. Alike(final[t], x)
    BY <2>1, <2>4, <2>5 DEF Alike
  <2>7. Listening(listening) = networks
    BY <2>5, HiddenIs DEF Listening
  <2>8. x.exposure.mode = "private" => Listening(x) = x.listeners \cup {x.exposure.network}
    BY DEF Listening
  <2>9. /\ Listening(final[t]) \subseteq Listening(x) \cup (networks \ {x.exposure.network})
        /\ x.listeners = {} => Listening(x) \subseteq Listening(final[t])
    BY <2>1, <2>3, <2>7, <2>8
  <2> QED
    BY <2>6, <2>9 DEF x, networks
<1> QED
  BY <1>1, <1>2 DEF Same

(* What the four stages make of the services, and on which networks.       *)
Final(inventory, services, machines, peerings) ==
  WithListeners(WithNetworking(inventory,
    WithLoopback(inventory, machines, WithExposure(services))), peerings)

LEMMA FinallyIs ==
  ASSUME NEW d, NEW services, NEW machines, NEW peerings, AllPlain(services)
  PROVE  LET final == Final(d, services, machines, peerings) IN
         /\ Same(final, services)
         /\ \A t \in DOMAIN services : services[t].type # "edge-proxy" =>
              \A n \in Listening(final[t]) :
                \/ n \in Required(services, t)
                \/ \E e \in UNION Range(peerings) : e.to = t /\ e.network = n
                \/ \E s \in DOMAIN services :
                     /\ services[s].machine # services[t].machine
                     /\ \E c \in Range(services[s].connections) : c.service = t /\ c.network = n
<1> DEFINE exposed == WithExposure(services)
           local == WithLoopback(d, machines, exposed)
           named == WithNetworking(d, local)
           final == WithListeners(named, peerings)
<1>1. /\ Same(exposed, services) /\ Shaped(exposed)
      /\ \A t \in DOMAIN services : services[t].type # "edge-proxy" =>
           Listening(exposed[t]) \subseteq Required(services, t)
  BY ExposureIs
<1> HIDE DEF exposed
<1>2. /\ Same(local, exposed) /\ Shaped(local)
      /\ \A t \in DOMAIN exposed : Listening(local[t]) \subseteq Listening(exposed[t])
  BY <1>1, LoopbackIs
<1> HIDE DEF local
<1>3. /\ Same(named, local) /\ Shaped(named)
      /\ \A t \in DOMAIN local : Listening(named[t]) = Listening(local[t])
  BY <1>2, NetworkingIs
<1> HIDE DEF named
<1>4. /\ Same(final, named)
      /\ \A t \in DOMAIN named : Listening(final[t]) \subseteq Listening(named[t])
           \cup (StorageNetworks(named, peerings, t) \ {named[t].exposure.network})
  BY <1>3, ListenersIs
<1> HIDE DEF final
<1>5. Same(named, services) /\ Same(final, services)
  BY <1>1, <1>2, <1>3, <1>4 DEF Same, Alike
<1>6. ASSUME NEW t \in DOMAIN services, services[t].type # "edge-proxy", NEW n \in Listening(final[t]),
             n \notin Required(services, t)
      PROVE  \/ \E e \in UNION Range(peerings) : e.to = t /\ e.network = n
             \/ \E s \in DOMAIN services :
                  /\ services[s].machine # services[t].machine
                  /\ \E c \in Range(services[s].connections) : c.service = t /\ c.network = n
  <2>1. n \notin Listening(named[t])
    BY <1>1, <1>2, <1>3, <1>6 DEF Same
  <2>2. n \in StorageNetworks(named, peerings, t) \ {named[t].exposure.network}
    BY <1>4, <1>5, <1>6, <2>1 DEF Same
  <2>3. \/ \E e \in UNION {peerings[x] : x \in DOMAIN peerings} : e.to = t /\ e.network = n
        \/ \E s \in DOMAIN named : /\ named[s].machine # named[t].machine
             /\ \E c \in Range(named[s].connections) : c.service = t /\ c.network = n
    BY <2>2 DEF StorageNetworks
  <2> QED
    BY <2>3, <1>5 DEF Same, Alike, Range
<1>7. final = Final(d, services, machines, peerings)
  BY DEF final, named, local, exposed, Final
<1> QED
  BY <1>5, <1>6, <1>7

(* A Cluster of a valid document is connected to a Kubo.                   *)
LEMMA KuboBehind ==
  ASSUME NEW doc, Valid(doc), NEW s \in OfType(doc, {"store-api"}),
         NEW c \in Range(doc.services[s].connections)
  PROVE  LET links == doc.services[c.service].connections IN
         /\ c.service \in DOMAIN doc.services /\ DOMAIN links = {"kubo"}
         /\ links["kubo"].service \in OfType(doc, {"ipfs-kubo"})
<1> DEFINE cluster == c.service
           links == doc.services[cluster].connections
<1>1. ValidConnections(doc)
  BY DEF Valid
<1>2. ValidStore(doc, s)
  BY <1>1 DEF ValidConnections, OfType
<1>3. cluster \in OfType(doc, {"ipfs-cluster"})
  BY <1>2 DEF ValidStore, ProvidersOf
<1>4. doc.services[cluster].type = "ipfs-cluster" /\ cluster \in DOMAIN doc.services
  BY <1>3 DEF OfType
<1>5. ProvidersOf(doc, cluster) \subseteq DOMAIN doc.services /\ ValidContract(doc, cluster)
  BY <1>1, <1>4 DEF ValidConnections
<1>6. Contract["ipfs-cluster"] = [kubo |-> "ipfs-kubo"]
  BY DEF Contract, StorageTypes, ChainTypes
<1>7. DOMAIN links = {"kubo"} /\ doc.services[links["kubo"].service].type = "ipfs-kubo"
  <2>1. /\ DOMAIN links = DOMAIN Contract["ipfs-cluster"]
        /\ \A name \in DOMAIN Contract["ipfs-cluster"] :
             doc.services[links[name].service].type \in
               {Contract["ipfs-cluster"][name]} \cup
               IF Contract["ipfs-cluster"][name] = "besu-rpc" THEN {"besu-observer"} ELSE {}
    BY <1>4, <1>5 DEF ValidContract
  <2>2. DOMAIN Contract["ipfs-cluster"] = {"kubo"} /\ Contract["ipfs-cluster"]["kubo"] = "ipfs-kubo"
    BY <1>6
  <2> HIDE DEF links
  <2>3. DOMAIN links = {"kubo"}
    BY <2>1, <2>2
  <2>4. doc.services[links["kubo"].service].type \in {"ipfs-kubo"} \cup {}
    BY <2>1, <2>2
  <2> QED
    BY <2>3, <2>4
<1>8. links["kubo"].service \in ProvidersOf(doc, cluster)
  BY <1>7 DEF ProvidersOf, Range
<1> QED
  BY <1>4, <1>5, <1>7, <1>8 DEF OfType

(* A service that is not a proxy listens on a network of other machines    *)
(* only if one of them calls it there (WithExposure, WithListeners), in    *)
(* every draft of the workbench.                                           *)
LEMMA MinimallyExposed ==
  ASSUME Resolved
  PROVE  MinimalExposure
<1>1. PICK services, machines, peerings :
        AllPlain(services) /\ Documented(raw, services, machines, peerings, resolution)
  BY Documents DEF Resolved
<1> DEFINE final == Final(raw, services, machines, peerings)
<1>2. resolution.services = final /\ resolution.peerings = peerings /\ Valid(resolution)
  BY <1>1 DEF Documented, Final
<1>3. Same(final, services)
  BY <1>1, FinallyIs
<1> SUFFICES ASSUME NEW t \in DOMAIN resolution.services,
                    resolution.services[t].type # "edge-proxy",
                    NEW n \in Listening(resolution.services[t]),
                    ~ \E e \in UNION Range(resolution.peerings) : e.to = t /\ e.network = n
             PROVE  \E s \in DOMAIN resolution.services :
                      /\ Remote(resolution, s, t)
                      /\ \E c \in Range(resolution.services[s].connections) :
                           /\ c.network = n
                           /\ t \in {c.service} \cup ProvidersOf(resolution, c.service)
  BY DEF MinimalExposure, OfType
<1>4. \/ n \in Required(services, t)
      \/ \E s \in DOMAIN services :
           /\ services[s].machine # services[t].machine
           /\ \E c \in Range(services[s].connections) : c.service = t /\ c.network = n
  BY <1>1, <1>2, <1>3, FinallyIs DEF Same, Alike
<1> HIDE DEF final
<1>5. DOMAIN resolution.services = DOMAIN services
  BY <1>2, <1>3 DEF Same
<1>6. \A s \in DOMAIN services :
        /\ resolution.services[s].connections = services[s].connections
        /\ resolution.services[s].type = services[s].type
        /\ Remote(resolution, s, t) <=> services[s].machine # services[t].machine
  BY <1>2, <1>3, <1>5 DEF Same, Alike, Remote, HostOf
<1>7. CASE n \in Required(services, t)
  <2>1. PICK s \in DOMAIN services :
          \/ \E c \in Range(services[s].connections) :
               c.network = n /\ c.service = t /\ Networked(services, s, t)
          \/ \E k \in StoreCalls(services, s) :
               k.network = n /\ k.kubo = t /\ services[s].machine # services[t].machine
    BY <1>7 DEF Required
  <2>2. CASE \E c \in Range(services[s].connections) :
               c.network = n /\ c.service = t /\ Networked(services, s, t)
    BY <1>5, <1>6, <2>2 DEF Networked
  <2>3. CASE \E k \in StoreCalls(services, s) :
               k.network = n /\ k.kubo = t /\ services[s].machine # services[t].machine
    <3>1. services[s].type = "store-api"
      BY <2>3 DEF StoreCalls
    <3>2. PICK c \in Range(services[s].connections) :
            c.network = n /\ services[c.service].connections["kubo"].service = t
      BY <2>3, <3>1 DEF StoreCalls
    <3>3. /\ c \in Range(resolution.services[s].connections)
          /\ s \in OfType(resolution, {"store-api"})
      BY <1>5, <1>6, <3>1 DEF OfType
    <3>4. /\ c.service \in DOMAIN services
          /\ DOMAIN resolution.services[c.service].connections = {"kubo"}
      BY <1>2, <1>5, <3>3, KuboBehind
    <3>5. t \in ProvidersOf(resolution, c.service)
      BY <1>6, <3>2, <3>4 DEF ProvidersOf, Range
    <3> QED
      BY <1>5, <1>6, <2>3, <3>2, <3>3, <3>5
  <2> QED
    BY <2>1, <2>2, <2>3
<1>8. CASE \E s \in DOMAIN services :
             /\ services[s].machine # services[t].machine
             /\ \E c \in Range(services[s].connections) : c.service = t /\ c.network = n
  BY <1>5, <1>6, <1>8
<1> QED
  BY <1>4, <1>7, <1>8

(* In every draft a service that is not a proxy listens on a network of    *)
(* other machines only if one of them calls it there, whatever the         *)
(* inventory and the edits: what WithExposure, WithLoopback, WithListeners *)
(* and the checks that follow them add up to.                              *)
THEOREM Minimal == Spec => []MinimalExposure
BY DraftResolved, MinimallyExposed, PTL
-----------------------------------------------------------------------------
(* Stores and the Kubos behind their Clusters. *)

(* The library's FS_Image, for a function in place of an operator.         *)
LEMMA ImageFinite ==
  ASSUME NEW S, IsFiniteSet(S), NEW f
  PROVE  IsFiniteSet({f[x] : x \in S})
<1> DEFINE T == {f[x] : x \in S}
           g == [x \in S |-> f[x]]
<1>1. g \in Surjection(S, T)
  BY DEF Surjection
<1> QED
  BY <1>1, FS_Surjection

(* In a document with finitely many connections a service has finitely     *)
(* many networks to listen on.                                             *)
LEMMA RequiredFinite ==
  ASSUME NEW services, NEW t, IsFiniteSet(DOMAIN services),
         \A s \in DOMAIN services : IsFiniteSet(DOMAIN services[s].connections)
  PROVE  IsFiniteSet(Required(services, t))
<1> DEFINE calls(s) == {c.network : c \in {d \in Range(services[s].connections) :
                          d.service = t /\ Networked(services, s, t)}}
           stores(s) == {k.network : k \in {j \in StoreCalls(services, s) :
                          j.kubo = t /\ services[s].machine # services[t].machine}}
<1>1. ASSUME NEW s \in DOMAIN services
      PROVE  IsFiniteSet(calls(s) \cup stores(s))
  <2> DEFINE links == Range(services[s].connections)
  <2>1. IsFiniteSet(links)
    <3> DEFINE f == services[s].connections
    <3>1. IsFiniteSet({f[x] : x \in DOMAIN f})
      BY ImageFinite
    <3> QED
      BY <3>1 DEF Range
  <2>2. IsFiniteSet(calls(s))
    <3> DEFINE mine == {d \in links : d.service = t /\ Networked(services, s, t)}
    <3>1. IsFiniteSet(mine)
      BY <2>1, FS_Subset
    <3> DEFINE f == [c \in mine |-> c.network]
    <3>2. IsFiniteSet({f[c] : c \in mine})
      BY <3>1, ImageFinite
    <3>3. {f[c] : c \in mine} = {c.network : c \in mine}
      OBVIOUS
    <3> QED
      BY <3>2, <3>3
  <2>3. IsFiniteSet(StoreCalls(services, s))
    <3> DEFINE call(c) == [kubo |-> services[c.service].connections["kubo"].service,
                           network |-> c.network]
           f == [c \in links |-> call(c)]
    <3>1. IsFiniteSet({f[c] : c \in links})
      BY <2>1, ImageFinite
    <3>2. {f[c] : c \in links} = {call(c) : c \in links}
      OBVIOUS
    <3>3. IsFiniteSet({})
      BY FS_EmptySet
    <3> QED
      BY <3>1, <3>2, <3>3 DEF StoreCalls
  <2>4. IsFiniteSet(stores(s))
    <3> DEFINE mine == {j \in StoreCalls(services, s) :
                          j.kubo = t /\ services[s].machine # services[t].machine}
    <3>1. IsFiniteSet(mine)
      BY <2>3, FS_Subset
    <3> DEFINE f == [k \in mine |-> k.network]
    <3>2. IsFiniteSet({f[k] : k \in mine})
      BY <3>1, ImageFinite
    <3>3. {f[k] : k \in mine} = {k.network : k \in mine}
      OBVIOUS
    <3> QED
      BY <3>2, <3>3
  <2> HIDE DEF calls, stores
  <2> QED
    BY <2>2, <2>4, FS_Union
<1> DEFINE each(s) == calls(s) \cup stores(s)
           sets == {each(s) : s \in DOMAIN services}
<1>2. Required(services, t) = UNION sets
  BY DEF Required
<1> HIDE DEF calls, stores
<1>3. \A S \in sets : IsFiniteSet(S)
  BY <1>1
<1>4. IsFiniteSet(sets)
  <2> DEFINE f == [s \in DOMAIN services |-> each(s)]
  <2> HIDE DEF each
  <2>1. IsFiniteSet({f[s] : s \in DOMAIN services})
    BY ImageFinite
  <2>2. {f[s] : s \in DOMAIN services} = sets
    OBVIOUS
  <2> QED
    BY <2>1, <2>2
<1> HIDE DEF each, sets
<1> QED
  BY <1>2, <1>3, <1>4, FS_UNION

(* WithExposure gives a service every network it is called on, and the     *)
(* stages after it take none away but a loopback endpoint's.               *)
LEMMA CalledListens ==
  ASSUME NEW d, NEW services, NEW machines, NEW peerings, AllPlain(services),
         NEW t \in DOMAIN services, t \notin Direct \cup {d.primary},
         IsFiniteSet(Required(services, t)), NEW n \in Required(services, t)
  PROVE  n \in Listening(Final(d, services, machines, peerings)[t])
<1> DEFINE exposed == WithExposure(services)
           local == WithLoopback(d, machines, exposed)
           named == WithNetworking(d, local)
           final == WithListeners(named, peerings)
           networks == Required(services, t)
           x == services[t]
           port == IF x.type \in DOMAIN PortOf THEN PortOf[x.type] ELSE x.port
           ported == [x EXCEPT !.port = port]
           only == CHOOSE m \in networks : TRUE
<1>1. WellShaped(x) /\ x.listeners = {}
  BY DEF AllPlain, Plain, WellShaped
<1>2. DOMAIN exposed = DOMAIN services
  BY DEF WithExposure
<1>3. exposed[t] =
        CASE Cardinality(networks) = 1 -> [x EXCEPT !.port = port, !.exposure = Private(only)]
          [] Cardinality(networks) # 1 /\ networks # {} ->
               [x EXCEPT !.port = port, !.exposure = Hidden, !.listeners = networks]
          [] networks = {} /\ x.exposure.mode = "private" /\ x.type # "edge-proxy" ->
               [x EXCEPT !.port = port, !.exposure = Hidden]
          [] OTHER -> ported
  BY DEF WithExposure
<1> HIDE DEF networks, port, x
<1>4. /\ Alike(ported, x) /\ WellShaped(ported) /\ ported.listeners = {}
      /\ ported.exposure = x.exposure
  BY <1>1, PortedIs
<1>5. exposed[t] = IF Cardinality(networks) = 1 THEN [ported EXCEPT !.exposure = Private(only)]
                   ELSE [[ported EXCEPT !.exposure = Hidden] EXCEPT !.listeners = networks]
  BY <1>3 DEF networks
<1> HIDE DEF ported, only, exposed
<1>6. /\ WellShaped(exposed[t])
      /\ \/ exposed[t].exposure.mode = "private" /\ exposed[t].exposure.network = n
            /\ exposed[t].listeners = {}
         \/ exposed[t].exposure.mode # "private" /\ exposed[t].listeners = networks
  <2>1. CASE Cardinality(networks) = 1
    <3>1. PICK m : networks = {m}
      BY <2>1, FS_Singleton DEF networks
    <3>2. only = n
      BY <3>1 DEF networks, only
    <3>3. /\ WellShaped(exposed[t]) /\ exposed[t].exposure = Private(n)
          /\ exposed[t].listeners = {}
      BY <1>4, <1>5, <2>1, <3>2, HiddenIs, ExposedIs
    <3> QED
      BY <3>3, HiddenIs
  <2>2. CASE Cardinality(networks) # 1
    <3> DEFINE hidden == [ported EXCEPT !.exposure = Hidden]
    <3>1. WellShaped(hidden) /\ hidden.exposure = Hidden
      BY <1>4, HiddenIs, ExposedIs
    <3>2. exposed[t] = [hidden EXCEPT !.listeners = networks]
      BY <1>5, <2>2
    <3> HIDE DEF hidden
    <3>3. /\ WellShaped(exposed[t]) /\ exposed[t].exposure = Hidden
          /\ exposed[t].listeners = networks
      BY <3>1, <3>2, ListenedIs
    <3> QED
      BY <3>3, HiddenIs
  <2> QED
    BY <2>1, <2>2
<1>7. DOMAIN local = DOMAIN services /\ local[t] = exposed[t]
  BY <1>2 DEF WithLoopback
<1> HIDE DEF local
<1>8. /\ DOMAIN named = DOMAIN services /\ WellShaped(named[t])
      /\ named[t].listeners = exposed[t].listeners
      /\ named[t].exposure.mode = exposed[t].exposure.mode
      /\ named[t].exposure.network = exposed[t].exposure.network
  <2> DEFINE e == [local[t].exposure EXCEPT !.advertised = Advertised(d, t)]
  <2>1. DOMAIN named = DOMAIN services /\ named[t] \in {[local[t] EXCEPT !.exposure = e], local[t]}
    BY <1>7 DEF WithNetworking
  <2>2. /\ {"mode", "network", "advertised"} \subseteq DOMAIN e
        /\ e.mode = local[t].exposure.mode /\ e.network = local[t].exposure.network
    BY <1>6, <1>7 DEF WellShaped
  <2> DEFINE called == [local[t] EXCEPT !.exposure = e]
  <2> HIDE DEF e
  <2>3. WellShaped(local[t])
    BY <1>6, <1>7
  <2>4. WellShaped(called) /\ called.exposure = e /\ called.listeners = local[t].listeners
    BY <2>2, <2>3, ExposedIs
  <2> HIDE DEF called, named
  <2>5. named[t] \in {called, local[t]}
    BY <2>1 DEF called
  <2> QED
    BY <1>7, <2>1, <2>2, <2>3, <2>4, <2>5
<1> HIDE DEF named
<1>9. \/ final[t] = named[t]
      \/ /\ final[t].listeners = StorageNetworks(named, peerings, t)
         /\ named[t].exposure.mode = "private"
  <2> DEFINE hidden == [named[t] EXCEPT !.exposure = Hidden]
  <2>1. \/ final[t] = named[t]
        \/ /\ final[t] = [hidden EXCEPT !.listeners = StorageNetworks(named, peerings, t)]
           /\ named[t].exposure.mode = "private"
    BY <1>8 DEF WithListeners
  <2>2. WellShaped(hidden)
    BY <1>8, HiddenIs, ExposedIs
  <2> HIDE DEF hidden, final
  <2> DEFINE heard == [hidden EXCEPT !.listeners = StorageNetworks(named, peerings, t)]
  <2>3. heard.listeners = StorageNetworks(named, peerings, t)
    BY <2>2, ListenedIs
  <2> HIDE DEF heard
  <2>4. final[t] = named[t] \/ (final[t] = heard /\ named[t].exposure.mode = "private")
    BY <2>1 DEF heard
  <2> QED
    BY <2>3, <2>4
<1>10. named[t].exposure.network \in StorageNetworks(named, peerings, t)
  BY DEF StorageNetworks
<1> HIDE DEF final
<1>11. n \in Listening(final[t])
  BY <1>6, <1>8, <1>9, <1>10 DEF Listening, networks
<1>12. final = Final(d, services, machines, peerings)
  BY DEF final, named, local, exposed, Final
<1> QED
  BY <1>11, <1>12

(* Every Store API reaches the Kubo behind each Cluster it is connected to *)
(* (service_networks in _resolve_exposure, which the inventory's checks do *)
(* not repeat), in every draft that is as files are.                       *)
LEMMA StoresReach ==
  ASSUME Resolved, Ordinary(resolution)
  PROVE  StoreReachesKubo
<1>1. PICK services, machines, peerings :
        AllPlain(services) /\ Documented(raw, services, machines, peerings, resolution)
  BY Documents DEF Resolved
<1> DEFINE final == Final(raw, services, machines, peerings)
<1>2. resolution.services = final /\ resolution.primary = raw.primary /\ Valid(resolution)
  BY <1>1 DEF Documented, Final
<1>3. Same(final, services)
  BY <1>1, FinallyIs
<1> HIDE DEF final
<1>4. DOMAIN resolution.services = DOMAIN services
  BY <1>2, <1>3 DEF Same
<1>5. \A s \in DOMAIN services :
        /\ resolution.services[s].connections = services[s].connections
        /\ resolution.services[s].type = services[s].type
        /\ resolution.services[s].machine = services[s].machine
  BY <1>2, <1>3 DEF Same, Alike
<1> SUFFICES ASSUME NEW s \in OfType(resolution, {"store-api"}),
                    NEW c \in Range(resolution.services[s].connections),
                    Remote(resolution, s, resolution.services[c.service].connections["kubo"].service)
             PROVE  c.network \in Listening(resolution.services[
                      resolution.services[c.service].connections["kubo"].service])
  BY DEF StoreReachesKubo
<1> DEFINE kubo == resolution.services[c.service].connections["kubo"].service
<1>6. c.service \in DOMAIN services /\ kubo \in OfType(resolution, {"ipfs-kubo"})
  BY <1>2, <1>4, KuboBehind
<1>7. kubo \in DOMAIN services /\ kubo \notin Direct \cup {raw.primary}
  BY <1>2, <1>4, <1>6 DEF OfType, Ordinary
<1>8. /\ s \in DOMAIN services /\ services[s].type = "store-api"
      /\ c \in Range(services[s].connections)
      /\ kubo = services[c.service].connections["kubo"].service
      /\ services[s].machine # services[kubo].machine
  BY <1>4, <1>5, <1>6, <1>7 DEF OfType, Remote, HostOf
<1> HIDE DEF kubo
<1>9. c.network \in Required(services, kubo)
  <2> DEFINE call == [kubo |-> kubo, network |-> c.network]
  <2>1. call \in StoreCalls(services, s)
    BY <1>8 DEF StoreCalls
  <2>2. call.kubo = kubo /\ call.network = c.network
    OBVIOUS
  <2> HIDE DEF call
  <2> DEFINE calls == {j \in StoreCalls(services, s) :
                         j.kubo = kubo /\ services[s].machine # services[kubo].machine}
  <2>3. call \in calls
    BY <1>8, <2>1, <2>2
  <2>4. c.network \in {k.network : k \in calls}
    <3> HIDE DEF calls
    <3> QED
      BY <2>2, <2>3
  <2>5. {k.network : k \in calls} \subseteq Required(services, kubo)
    <3> DEFINE linked(x) == {l.network : l \in {m \in Range(services[x].connections) :
                               m.service = kubo /\ Networked(services, x, kubo)}}
               stored(x) == {k.network : k \in {j \in StoreCalls(services, x) :
                               j.kubo = kubo /\ services[x].machine # services[kubo].machine}}
    <3>1. Required(services, kubo) = UNION {linked(x) \cup stored(x) : x \in DOMAIN services}
      BY DEF Required
    <3>2. stored(s) = {k.network : k \in calls}
      OBVIOUS
    <3> HIDE DEF linked, stored, calls
    <3> QED
      BY <1>8, <3>1, <3>2
  <2> QED
    BY <2>4, <2>5
<1>10. IsFiniteSet(Required(services, kubo))
  BY <1>4, <1>5, RequiredFinite DEF Ordinary
<1>11. c.network \in Listening(final[kubo])
  BY <1>1, <1>7, <1>9, <1>10, CalledListens DEF final
<1> QED
  BY <1>2, <1>11 DEF kubo

(* A Store API finds the Kubo of each of its Clusters listening on the     *)
(* network that it calls on, in every ordinary draft, whatever the         *)
(* inventory and the edits.                                                *)
THEOREM Reached == Spec => [](Ordinary(resolution) => StoreReachesKubo)
<1>1. Resolved => (Ordinary(resolution) => StoreReachesKubo)
  BY StoresReach
<1> QED
  BY <1>1, DraftResolved, PTL
-----------------------------------------------------------------------------
(* What a deployment survives, computed twice. *)

Validating(doc) == OfType(doc, {"besu-validator"})
Storing(doc) == OfType(doc, {"ipfs-kubo"})
Failing(doc) == Validating(doc) \cup Storing(doc) \cup OfType(doc, {"besu-observer"})
HostsOf(doc) == {HostOf(doc, s) : s \in DOMAIN doc.services}
At(doc, S, m) == {s \in S : HostOf(doc, s) = m}

(* The objectives, one by one. *)
LEMMA SatisfiedIs ==
  ASSUME NEW doc
  PROVE  LET all == Cardinality(Validating(doc)) IN
         /\ "tolerate_validator_individual" \in Satisfied(doc) <=> all - 1 >= QuorumOf(all)
         /\ "tolerate_validator_group" \in Satisfied(doc) <=>
              \A g \in DOMAIN doc.groups :
                all - Cardinality({s \in Validating(doc) : s \in Range(doc.groups[g].services)})
                  >= QuorumOf(all)
         /\ "tolerate_machine" \in Satisfied(doc) <=>
              \A m \in HostsOf(doc) : all - Cardinality(At(doc, Validating(doc), m)) >= QuorumOf(all)
         /\ "observer_copy" \in Satisfied(doc) <=> OfType(doc, {"besu-observer"}) # {}
         /\ "storage_durable" \in Satisfied(doc) <=>
              \A m \in HostsOf(doc) :
                Cardinality(Storing(doc)) - Cardinality(At(doc, Storing(doc), m))
                  >= doc.replication.target
<1> USE DEF Satisfied, Objectives, Validating, Storing, HostsOf, At
<1>1. "tolerate_validator_individual" \in Satisfied(doc) <=>
        Cardinality(Validating(doc)) - 1 >= QuorumOf(Cardinality(Validating(doc)))
  OBVIOUS
<1>2. "tolerate_validator_group" \in Satisfied(doc) <=>
        \A g \in DOMAIN doc.groups :
          Cardinality(Validating(doc))
            - Cardinality({s \in Validating(doc) : s \in Range(doc.groups[g].services)})
            >= QuorumOf(Cardinality(Validating(doc)))
  OBVIOUS
<1>3. "tolerate_machine" \in Satisfied(doc) <=>
        \A m \in HostsOf(doc) :
          Cardinality(Validating(doc)) - Cardinality(At(doc, Validating(doc), m))
            >= QuorumOf(Cardinality(Validating(doc)))
  OBVIOUS
<1>4. "observer_copy" \in Satisfied(doc) <=> OfType(doc, {"besu-observer"}) # {}
  OBVIOUS
<1>5. "storage_durable" \in Satisfied(doc) <=>
        \A m \in HostsOf(doc) :
          Cardinality(Storing(doc)) - Cardinality(At(doc, Storing(doc), m))
            >= doc.replication.target
  OBVIOUS
<1> QED
  BY <1>1, <1>2, <1>3, <1>4, <1>5

(* A scenario of the report, and the scenarios of each kind. *)
Continues(doc, lost) ==
  Cardinality(Validating(doc) \ lost) >= Quorum(Cardinality(Validating(doc)))
Durable(doc, lost) ==
  LET peers == Cardinality(Storing(doc) \ lost) IN
  ~ (peers < doc.replication.publish)
  /\ ~ (doc.replication.publish <= peers /\ peers < doc.replication.target)

LEMMA ScenarioIs ==
  ASSUME NEW doc, NEW kind, NEW target, NEW lost, NEW primaryLost
  PROVE  LET x == Scenario(doc, kind, target, lost, primaryLost) IN
         /\ x.kind = kind
         /\ x.consensus = "continues" <=> Continues(doc, lost)
         /\ x.storage \in {"available", "degraded"} <=> Durable(doc, lost)
<1> DEFINE peers == Cardinality(Storing(doc) \ lost)
           short == peers < doc.replication.publish
           unmet == doc.replication.publish <= peers /\ peers < doc.replication.target
           x == Scenario(doc, kind, target, lost, primaryLost)
<1>1. /\ x.kind = kind
      /\ x.consensus = IF Continues(doc, lost) THEN "continues" ELSE "quorum_lost"
      /\ x.storage = CASE short -> "publication_unavailable"
                       [] unmet -> "durability_target_unmet"
                       [] OTHER -> IF Storing(doc) \cap lost # {} THEN "degraded" ELSE "available"
  BY DEF Scenario, Continues, Validating, Storing
<1>2. Durable(doc, lost) <=> ~ short /\ ~ unmet
  BY DEF Durable
<1> HIDE DEF x
<1>3. x.storage \in {"available", "degraded"} <=> ~ short /\ ~ unmet
  <2> HIDE DEF peers, short, unmet
  <2>1. CASE short /\ ~ unmet
    BY <1>1, <2>1
  <2>2. CASE unmet /\ ~ short
    BY <1>1, <2>2
  <2>3. CASE short /\ unmet
    BY <1>1, <2>3
  <2>4. CASE ~ short /\ ~ unmet
    BY <1>1, <2>4
  <2> QED
    BY <2>1, <2>2, <2>3, <2>4
<1> QED
  BY <1>1, <1>2, <1>3 DEF x

LEMMA AnalyzeIs ==
  ASSUME NEW doc
  PROVE  LET report == Analyze(doc)
             hosts == {HostOf(doc, s) : s \in Failing(doc) \cup {doc.primary}}
             group(v) == {s \in Validating(doc) : GroupOf(doc, s) = GroupOf(doc, v)}
         IN  /\ (\A x \in report : x.kind = "validator" => x.consensus = "continues")
                  <=> \A v \in Validating(doc) : Continues(doc, {v})
             /\ (\A x \in report : x.kind = "validator_group" => x.consensus = "continues")
                  <=> \A v \in Validating(doc) : Continues(doc, group(v))
             /\ (\A x \in report : x.kind = "machine" => x.consensus = "continues")
                  <=> \A m \in hosts : Continues(doc, At(doc, Failing(doc), m))
             /\ (\A x \in report : x.kind = "machine" => x.storage \in {"available", "degraded"})
                  <=> \A m \in hosts : Durable(doc, At(doc, Failing(doc), m))
<1> DEFINE hosts == {HostOf(doc, s) : s \in Failing(doc) \cup {doc.primary}}
           grouped(g) == {s \in Validating(doc) : GroupOf(doc, s) = g}
           one(v) == Scenario(doc, "validator", v, {v}, FALSE)
           many(g) == Scenario(doc, "validator_group", g, grouped(g), FALSE)
           host(m) == Scenario(doc, "machine", m, At(doc, Failing(doc), m), HostOf(doc, doc.primary) = m)
           rpc == Scenario(doc, "primary_rpc", doc.primary, {}, TRUE)
           peer(p) == Scenario(doc, "storage_peer", p, {p}, FALSE)
           groups == {GroupOf(doc, v) : v \in Validating(doc)}
           report == {one(v) : v \in Validating(doc)} \cup {many(g) : g \in groups}
                     \cup {host(m) : m \in hosts} \cup {rpc} \cup {peer(p) : p \in Storing(doc)}
<1>1. Analyze(doc) = report
  BY DEF Analyze, Validating, Storing, Failing, At
<1>2. /\ \A v : one(v).kind = "validator" /\ (one(v).consensus = "continues" <=> Continues(doc, {v}))
      /\ \A g : /\ many(g).kind = "validator_group"
                /\ many(g).consensus = "continues" <=> Continues(doc, grouped(g))
      /\ \A m : /\ host(m).kind = "machine"
                /\ host(m).consensus = "continues" <=> Continues(doc, At(doc, Failing(doc), m))
                /\ host(m).storage \in {"available", "degraded"}
                     <=> Durable(doc, At(doc, Failing(doc), m))
      /\ rpc.kind = "primary_rpc"
      /\ \A p : peer(p).kind = "storage_peer"
  <2>1. ASSUME NEW v
        PROVE  one(v).kind = "validator" /\ (one(v).consensus = "continues" <=> Continues(doc, {v}))
    <3> DEFINE lost == {v}
               primaryLost == FALSE
    <3> HIDE DEF lost, primaryLost
    <3>1. LET x == Scenario(doc, "validator", v, lost, primaryLost) IN
          x.kind = "validator" /\ (x.consensus = "continues" <=> Continues(doc, lost))
      BY ScenarioIs
    <3> QED
      BY <3>1 DEF lost, primaryLost
  <2>2. ASSUME NEW g
        PROVE  /\ many(g).kind = "validator_group"
               /\ many(g).consensus = "continues" <=> Continues(doc, grouped(g))
    <3> DEFINE lost == grouped(g)
               primaryLost == FALSE
    <3> HIDE DEF lost, primaryLost
    <3>1. LET x == Scenario(doc, "validator_group", g, lost, primaryLost) IN
          x.kind = "validator_group" /\ (x.consensus = "continues" <=> Continues(doc, lost))
      BY ScenarioIs
    <3> QED
      BY <3>1 DEF lost, primaryLost
  <2>3. ASSUME NEW m
        PROVE  /\ host(m).kind = "machine"
               /\ host(m).consensus = "continues" <=> Continues(doc, At(doc, Failing(doc), m))
               /\ host(m).storage \in {"available", "degraded"}
                    <=> Durable(doc, At(doc, Failing(doc), m))
    <3> DEFINE lost == At(doc, Failing(doc), m)
               primaryLost == HostOf(doc, doc.primary) = m
    <3> HIDE DEF lost, primaryLost
    <3>1. LET x == Scenario(doc, "machine", m, lost, primaryLost) IN
          /\ x.kind = "machine" /\ (x.consensus = "continues" <=> Continues(doc, lost))
          /\ x.storage \in {"available", "degraded"} <=> Durable(doc, lost)
      BY ScenarioIs
    <3> QED
      BY <3>1 DEF lost, primaryLost
  <2>4. rpc.kind = "primary_rpc" /\ \A p : peer(p).kind = "storage_peer"
    BY DEF Scenario
  <2> HIDE DEF one, many, host, rpc, peer, grouped
  <2> QED
    BY <2>1, <2>2, <2>3, <2>4
<1> HIDE DEF one, many, host, rpc, peer, grouped
<1>3. /\ (\A x \in report : x.kind = "validator" => x.consensus = "continues")
           <=> \A v \in Validating(doc) : Continues(doc, {v})
      /\ (\A x \in report : x.kind = "validator_group" => x.consensus = "continues")
           <=> \A g \in groups : Continues(doc, grouped(g))
      /\ (\A x \in report : x.kind = "machine" => x.consensus = "continues")
           <=> \A m \in hosts : Continues(doc, At(doc, Failing(doc), m))
      /\ (\A x \in report : x.kind = "machine" => x.storage \in {"available", "degraded"})
           <=> \A m \in hosts : Durable(doc, At(doc, Failing(doc), m))
  <2>1. (\A x \in report : x.kind = "validator" => x.consensus = "continues")
          <=> \A v \in Validating(doc) : Continues(doc, {v})
    BY <1>2
  <2>2. (\A x \in report : x.kind = "validator_group" => x.consensus = "continues")
          <=> \A g \in groups : Continues(doc, grouped(g))
    BY <1>2
  <2>3. (\A x \in report : x.kind = "machine" => x.consensus = "continues")
          <=> \A m \in hosts : Continues(doc, At(doc, Failing(doc), m))
    BY <1>2
  <2>4. (\A x \in report : x.kind = "machine" => x.storage \in {"available", "degraded"})
          <=> \A m \in hosts : Durable(doc, At(doc, Failing(doc), m))
    BY <1>2
  <2> QED
    BY <2>1, <2>2, <2>3, <2>4
<1>4. (\A g \in groups : Continues(doc, grouped(g)))
        <=> \A v \in Validating(doc) : Continues(doc, grouped(GroupOf(doc, v)))
  OBVIOUS
<1> HIDE DEF report, hosts
<1> QED
  BY <1>1, <1>3, <1>4 DEF grouped, hosts

LEMMA Loss ==
  ASSUME NEW S, IsFiniteSet(S), NEW lost
  PROVE  /\ Cardinality(S) \in Nat /\ Cardinality(S \cap lost) \in Nat
         /\ Cardinality(S \ lost) = Cardinality(S) - Cardinality(S \cap lost)
BY FS_CardinalityType, FS_Intersection, FS_Difference

(* All the validators there are make a quorum. *)
LEMMA QuorumHolds ==
  /\ \A n : Quorum(n) = QuorumOf(n)
  /\ \A n \in Nat : Quorum(n) \in Nat /\ (n >= 1 => n >= Quorum(n))
BY DEF Quorum, QuorumOf

LEMMA CountsFinite ==
  ASSUME NEW doc, Ordinary(doc)
  PROVE  /\ IsFiniteSet(Validating(doc)) /\ IsFiniteSet(Storing(doc))
         /\ Cardinality(Validating(doc)) \in Nat /\ Cardinality(Validating(doc)) >= 1
<1>1. Validating(doc) \in SUBSET DOMAIN doc.services /\ Storing(doc) \in SUBSET DOMAIN doc.services
  BY DEF Validating, Storing, OfType
<1>2. IsFiniteSet(Validating(doc)) /\ IsFiniteSet(Storing(doc))
  BY <1>1, FS_Subset DEF Ordinary
<1>3. Cardinality(Validating(doc)) \in Nat /\ Cardinality(Validating(doc)) # 0
  BY <1>2, FS_CardinalityType, FS_EmptySet DEF Ordinary, Validating
<1> QED
  BY <1>2, <1>3

(* A loss leaves a quorum exactly when the resolver counts one.            *)
LEMMA ContinuesIs ==
  ASSUME NEW doc, Ordinary(doc), NEW lost
  PROVE  LET all == Cardinality(Validating(doc)) IN
         /\ Continues(doc, lost) <=> all - Cardinality(Validating(doc) \cap lost) >= QuorumOf(all)
         /\ Validating(doc) \cap lost = {} => Continues(doc, lost)
<1> DEFINE all == Cardinality(Validating(doc))
           gone == Cardinality(Validating(doc) \cap lost)
<1>1. /\ all \in Nat /\ gone \in Nat /\ Cardinality(Validating(doc) \ lost) = all - gone
      /\ all >= 1
  BY Loss, CountsFinite
<1>2. Quorum(all) = QuorumOf(all) /\ Quorum(all) \in Nat /\ all >= Quorum(all)
  BY <1>1, QuorumHolds
<1>3. Validating(doc) \cap lost = {} => gone = 0
  BY FS_EmptySet
<1>4. Continues(doc, lost) <=> all - gone >= Quorum(all)
  BY <1>1 DEF Continues
<1> HIDE DEF all, gone
<1>5. gone = 0 => all - gone >= Quorum(all)
  BY <1>1, <1>2
<1> QED
  BY <1>2, <1>3, <1>4, <1>5 DEF all, gone

LEMMA MachinesAgree ==
  ASSUME NEW doc, Ordinary(doc)
  PROVE  "tolerate_machine" \in Satisfied(doc) <=>
           \A m \in {HostOf(doc, s) : s \in Failing(doc) \cup {doc.primary}} :
             Continues(doc, At(doc, Failing(doc), m))
<1> DEFINE hosts == {HostOf(doc, s) : s \in Failing(doc) \cup {doc.primary}}
           lost(m) == At(doc, Failing(doc), m)
<1>1. \A m : Validating(doc) \cap lost(m) = At(doc, Validating(doc), m)
  BY DEF At, Failing
<1>2. \A m : At(doc, Validating(doc), m) # {} => m \in hosts /\ m \in HostsOf(doc)
  BY DEF At, Failing, HostsOf, Validating, OfType
<1> HIDE DEF hosts, lost
<1>3. \A m : /\ Continues(doc, lost(m)) <=>
                  Cardinality(Validating(doc)) - Cardinality(At(doc, Validating(doc), m))
                    >= QuorumOf(Cardinality(Validating(doc)))
             /\ At(doc, Validating(doc), m) = {} => Continues(doc, lost(m))
  BY <1>1, ContinuesIs
<1>4. "tolerate_machine" \in Satisfied(doc) <=> \A m \in HostsOf(doc) : Continues(doc, lost(m))
  BY <1>3, SatisfiedIs
<1>5. (\A m \in HostsOf(doc) : Continues(doc, lost(m))) <=> \A m \in hosts : Continues(doc, lost(m))
  BY <1>2, <1>3
<1> QED
  BY <1>4, <1>5 DEF hosts, lost

LEMMA ValidatorsAgree ==
  ASSUME NEW doc, Ordinary(doc)
  PROVE  "tolerate_validator_individual" \in Satisfied(doc) <=>
           \A v \in Validating(doc) : Continues(doc, {v})
<1> DEFINE all == Cardinality(Validating(doc))
<1>1. \A v \in Validating(doc) : Continues(doc, {v}) <=> all - 1 >= QuorumOf(all)
  <2> SUFFICES ASSUME NEW v \in Validating(doc)
               PROVE  Continues(doc, {v}) <=> all - 1 >= QuorumOf(all)
    OBVIOUS
  <2>1. Validating(doc) \cap {v} = {v} /\ Cardinality({v}) = 1
    BY FS_Singleton
  <2> QED
    BY <2>1, ContinuesIs
<1>2. Validating(doc) # {}
  BY DEF Ordinary, Validating
<1> HIDE DEF all
<1> QED
  BY <1>1, <1>2, SatisfiedIs DEF all

(* A group of the document is what GroupOf gives its validators.           *)
LEMMA GroupsAgree ==
  ASSUME NEW doc, Ordinary(doc), GroupsHold(doc)
  PROVE  "tolerate_validator_group" \in Satisfied(doc) <=>
           \A v \in Validating(doc) :
             Continues(doc, {s \in Validating(doc) : GroupOf(doc, s) = GroupOf(doc, v)})
<1> DEFINE all == Cardinality(Validating(doc))
           listed(g) == {s \in Validating(doc) : s \in Range(doc.groups[g].services)}
           grouped(g) == {s \in Validating(doc) : GroupOf(doc, s) = g}
<1>1. \A s \in Validating(doc) : GroupsWith(doc, s) = {GroupOf(doc, s)}
  <2> SUFFICES ASSUME NEW s \in Validating(doc)
               PROVE  GroupsWith(doc, s) = {GroupOf(doc, s)}
    OBVIOUS
  <2>1. GroupsWith(doc, s) # {} /\ s \in DOMAIN doc.services
    BY DEF Ordinary, Validating, OfType
  <2>2. Cardinality(GroupsWith(doc, s)) = 1
    BY <2>1 DEF GroupsHold
  <2>3. IsFiniteSet(GroupsWith(doc, s))
    BY FS_Subset DEF Ordinary, GroupsWith
  <2>4. PICK g : GroupsWith(doc, s) = {g}
    BY <2>2, <2>3, FS_Singleton
  <2> QED
    BY <2>4 DEF GroupOf
<1>2. \A g \in DOMAIN doc.groups : listed(g) = grouped(g)
  BY <1>1 DEF GroupsWith
<1>3. \A v \in Validating(doc) : GroupOf(doc, v) \in DOMAIN doc.groups
  BY <1>1 DEF GroupsWith
<1>4. \A g : Validating(doc) \cap grouped(g) = grouped(g)
  OBVIOUS
<1>5. \A g : grouped(g) # {} => \E v \in Validating(doc) : GroupOf(doc, v) = g
  OBVIOUS
<1> HIDE DEF listed, grouped
<1>6. \A g : /\ Continues(doc, grouped(g)) <=> all - Cardinality(grouped(g)) >= QuorumOf(all)
             /\ grouped(g) = {} => Continues(doc, grouped(g))
  BY <1>4, ContinuesIs
<1>7. "tolerate_validator_group" \in Satisfied(doc) <=>
        \A g \in DOMAIN doc.groups : Continues(doc, grouped(g))
  <2>1. "tolerate_validator_group" \in Satisfied(doc) <=>
          \A g \in DOMAIN doc.groups : all - Cardinality(listed(g)) >= QuorumOf(all)
    BY SatisfiedIs DEF listed
  <2> HIDE DEF all
  <2> QED
    BY <2>1, <1>2, <1>6
<1>8. (\A g \in DOMAIN doc.groups : Continues(doc, grouped(g))) <=>
        \A v \in Validating(doc) : Continues(doc, grouped(GroupOf(doc, v)))
  BY <1>3, <1>5, <1>6
<1> QED
  BY <1>7, <1>8 DEF grouped

(* Storage keeps its replication target on the loss of a machine exactly   *)
(* when the resolver says so: publishing needs no more than the target.    *)
LEMMA StorageAgrees ==
  ASSUME NEW doc, Ordinary(doc), Valid(doc)
  PROVE  "storage_durable" \in Satisfied(doc) <=>
           \A m \in {HostOf(doc, s) : s \in Failing(doc) \cup {doc.primary}} :
             Durable(doc, At(doc, Failing(doc), m))
<1> DEFINE hosts == {HostOf(doc, s) : s \in Failing(doc) \cup {doc.primary}}
           lost(m) == At(doc, Failing(doc), m)
           all == Cardinality(Storing(doc))
           gone(m) == Cardinality(At(doc, Storing(doc), m))
           publish == doc.replication.publish
           target == doc.replication.target
           survives(m) == all - gone(m) >= target
<1>1. publish \in Nat /\ target \in Nat /\ publish <= target
  BY DEF Ordinary, Valid, ValidStorage
<1>2. \A m : Storing(doc) \cap lost(m) = At(doc, Storing(doc), m)
  BY DEF At, Failing
<1>3. \A m : At(doc, Storing(doc), m) # {} => m \in hosts /\ m \in HostsOf(doc)
  BY DEF At, Failing, HostsOf, Storing, OfType
<1>4. all \in Nat /\ \A m : gone(m) \in Nat /\ Cardinality(Storing(doc) \ lost(m)) = all - gone(m)
  <2>1. IsFiniteSet(Storing(doc))
    BY CountsFinite
  <2>2. all \in Nat
    BY <2>1, FS_CardinalityType
  <2>3. ASSUME NEW m
        PROVE  gone(m) \in Nat /\ Cardinality(Storing(doc) \ lost(m)) = all - gone(m)
    <3>1. Storing(doc) \cap lost(m) = At(doc, Storing(doc), m)
      BY <1>2
    <3> HIDE DEF lost
    <3> QED
      BY <2>1, <3>1, Loss
  <2> QED
    BY <2>2, <2>3
<1>5. \A m : At(doc, Storing(doc), m) = {} => gone(m) = 0
  BY FS_EmptySet
<1>6. PICK k \in Storing(doc) : TRUE
  BY DEF Valid, ValidCardinality, RequiredTypes, Storing
<1>7. At(doc, Storing(doc), HostOf(doc, k)) # {}
  BY <1>6 DEF At
<1>8. \A m : Durable(doc, lost(m)) <=>
        ~ (all - gone(m) < publish) /\ ~ (publish <= all - gone(m) /\ all - gone(m) < target)
  BY <1>4 DEF Durable
<1>9. "storage_durable" \in Satisfied(doc) <=> \A m \in HostsOf(doc) : survives(m)
  BY SatisfiedIs
<1> HIDE DEF hosts, lost, all, gone, publish, target
<1>10. \A m : Durable(doc, lost(m)) <=> survives(m)
  BY <1>1, <1>4, <1>8
<1>11. \A m, n : At(doc, Storing(doc), n) = {} /\ survives(m) => survives(n)
  BY <1>1, <1>4, <1>5
<1> HIDE DEF survives
<1>12. (\A m \in HostsOf(doc) : survives(m)) <=> \A m \in hosts : survives(m)
  BY <1>3, <1>7, <1>11
<1> QED
  BY <1>9, <1>10, <1>12 DEF hosts, lost

(* availability.analyze and the objectives of inventory_resolver.py count  *)
(* the same losses, in every draft that is as files are and has a plan.    *)
LEMMA ReportsAgree ==
  ASSUME Resolved, Ordinary(resolution)
  PROVE  AvailabilityAgrees
<1>1. Valid(resolution)
  BY Documents DEF Resolved, Documented
<1> SUFFICES ASSUME Plannable(resolution)
             PROVE  LET report == Analyze(resolution) IN
               /\ ("tolerate_validator_individual" \in Satisfied(resolution)) <=>
                    \A x \in report : x.kind = "validator" => x.consensus = "continues"
               /\ ("tolerate_validator_group" \in Satisfied(resolution)) <=>
                    \A x \in report : x.kind = "validator_group" => x.consensus = "continues"
               /\ ("tolerate_machine" \in Satisfied(resolution)) <=>
                    \A x \in report : x.kind = "machine" => x.consensus = "continues"
               /\ ("storage_durable" \in Satisfied(resolution)) <=>
                    \A x \in report : x.kind = "machine" =>
                      x.storage \in {"available", "degraded"}
               /\ ("observer_copy" \in Satisfied(resolution)) <=>
                    \E s \in DOMAIN resolution.services :
                      resolution.services[s].type = "besu-observer"
  BY DEF AvailabilityAgrees
<1>2. GroupsHold(resolution)
  BY DEF Plannable
<1>3. ("observer_copy" \in Satisfied(resolution)) <=>
        \E s \in DOMAIN resolution.services : resolution.services[s].type = "besu-observer"
  BY SatisfiedIs DEF OfType
<1> QED
  BY <1>1, <1>2, <1>3, ValidatorsAgree, GroupsAgree, MachinesAgree, StorageAgrees, AnalyzeIs

(* The report on what a deployment survives and the resolver's objectives  *)
(* agree in every ordinary draft that has a plan, whatever the inventory   *)
(* and the edits.                                                          *)
THEOREM Agreed == Spec => [](Ordinary(resolution) => AvailabilityAgrees)
<1>1. Resolved => (Ordinary(resolution) => AvailabilityAgrees)
  BY ReportsAgree
<1> QED
  BY <1>1, DraftResolved, PTL
-----------------------------------------------------------------------------
(* Whatever edits, undos and resets an operator makes, a draft whose       *)
(* groups hold has a plan, and the plan is in order (planner.py), since    *)
(* the draft has passed the checks of inventory.py.                        *)
THEOREM DraftsPlanned == Spec => []PlanInOrder
<1>1. ASSUME Resolved PROVE PlanInOrder
  <2>1. Valid(resolution)
    BY <1>1, Documents DEF Resolved, Documented
  <2> QED
    BY <2>1, ValidPlanned DEF PlanInOrder
<1> QED
  BY <1>1, DraftResolved, PTL
-----------------------------------------------------------------------------
(* Instances of the chain are numbered through their groups in the order   *)
(* of the file (inventory_resolver.py), and operations.py adds a group at  *)
(* its end: whatever the groups and their counts, every instance that has  *)
(* a number keeps it and its group, and the numbers after are the new      *)
(* group's.  It is what InstancesStay needs of AddValidatorGroup and       *)
(* AddObserverGroup.                                                       *)
THEOREM NumbersStay ==
  ASSUME NEW Names, NEW groups \in Seq([id : Names, count : Nat]),
         NEW group \in Names, NEW count \in Nat
  PROVE  LET before == GroupOfInstance(groups)
             after == GroupOfInstance(AddGroup(groups, group, count))
         IN  /\ DOMAIN before \subseteq DOMAIN after
             /\ \A i \in DOMAIN before : after[i] = before[i]
             /\ \A i \in DOMAIN after \ DOMAIN before : after[i] = group
<1> DEFINE instances(g) == [i \in 1..g.count |-> g.id]
           new == [id |-> group, count |-> count]
           more == AddGroup(groups, group, count)
           pieces == [g \in DOMAIN groups |-> instances(groups[g])]
           all == [g \in DOMAIN more |-> instances(more[g])]
           n == Len(groups)
<1>1. new \in [id : Names, count : Nat]
  OBVIOUS
<1>2. /\ more \in Seq([id : Names, count : Nat]) /\ n \in Nat /\ Len(more) = n + 1
      /\ more[n + 1] = new /\ \A g \in 1..n : more[g] = groups[g]
  BY <1>1, AppendProperties, LenProperties DEF AddGroup
<1>3. \A g \in [id : Names, count : Nat] : instances(g) \in Seq(Names)
  <2> TAKE g \in [id : Names, count : Nat]
  <2>1. g.count \in Nat /\ g.id \in Names
    OBVIOUS
  <2> QED
    BY <2>1, IsASeq
<1>4. GroupOfInstance(groups) = FlattenSeq(pieces) /\ GroupOfInstance(more) = FlattenSeq(all)
  BY DEF GroupOfInstance
<1>5. DOMAIN groups = 1..n /\ DOMAIN more = 1..n + 1 /\ \A g \in 1..n : groups[g] \in [id : Names, count : Nat]
  BY <1>2, LenProperties, ElementOfSeq
<1> HIDE DEF instances, new, more
<1>6. pieces = [g \in 1..n |-> instances(groups[g])] /\ all = [g \in 1..n + 1 |-> instances(more[g])]
  BY <1>5
<1> HIDE DEF pieces, all
<1>7. pieces \in Seq(Seq(Names)) /\ Len(pieces) = n /\ DOMAIN pieces = 1..n
  BY <1>2, <1>3, <1>5, <1>6, IsASeq
<1>8. all = Append(pieces, instances(new))
  <2> DEFINE appended == Append(pieces, instances(new))
  <2>1. /\ appended \in Seq(Seq(Names)) /\ Len(appended) = n + 1
        /\ appended[n + 1] = instances(new) /\ \A g \in 1..n : appended[g] = pieces[g]
    BY <1>1, <1>3, <1>7, AppendProperties
  <2> HIDE DEF appended
  <2>2. DOMAIN appended = 1..n + 1 /\ appended = [g \in 1..n + 1 |-> appended[g]]
    BY <2>1, LenProperties
  <2>3. ASSUME NEW g \in 1..n + 1 PROVE appended[g] = instances(more[g])
    <3>1. CASE g \in 1..n
      BY <1>2, <1>6, <2>1, <3>1
    <3>2. CASE g = n + 1
      BY <1>2, <2>1, <3>2
    <3> QED
      BY <1>2, <3>1, <3>2
  <2>4. appended = all
    BY <1>6, <2>2, <2>3
  <2> QED
    BY <2>4 DEF appended
<1> DEFINE before == FlattenSeq(pieces)
           after == FlattenSeq(all)
           added == instances(new)
<1>9. before \in Seq(Names) /\ added \in Seq(Names)
  BY <1>1, <1>3, <1>7, Flattened
<1>10. Joins(Names, before, added, after)
  <2>1. after = before \o added
    BY <1>1, <1>3, <1>7, <1>8, FlattenedAppend
  <2>2. Joins(Names, before, added, before \o added)
    BY <1>9, Joined, Zenon
  <2> HIDE DEF before, added, after
  <2> QED
    BY <2>1, <2>2
<1>11. \A i \in 1..Len(added) : added[i] = group
  BY <1>9 DEF instances, new
<1>12. GroupOfInstance(groups) = before /\ GroupOfInstance(more) = after
  BY <1>4
<1> HIDE DEF before, added, after
<1>13. /\ DOMAIN before = 1..Len(before) /\ DOMAIN after = 1..Len(after)
       /\ \A y \in 1..Len(before) : y \in 1..Len(after) /\ after[y] = before[y]
       /\ \A y \in 1..Len(after) : y \in 1..Len(before) \/ after[y] = group
  <2>1. /\ after \in Seq(Names)
        /\ \A y \in 1..Len(before) : y \in 1..Len(after) /\ after[y] = before[y]
        /\ \A x \in 1..Len(added) : after[Len(before) + x] = added[x]
        /\ \A y \in 1..Len(after) :
             y \in 1..Len(before) \/ \E x \in 1..Len(added) : y = Len(before) + x
    BY <1>10 DEF Joins
  <2>2. DOMAIN before = 1..Len(before) /\ DOMAIN after = 1..Len(after)
    BY <1>9, <2>1, LenProperties
  <2> QED
    BY <1>11, <2>1, <2>2
<1> QED
  BY <1>12, <1>13 DEF more
=============================================================================
