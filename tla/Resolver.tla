------------------------------ MODULE Resolver ------------------------------
(***************************************************************************)
(* inventory_resolver.py: the expansion of an operator's compact inventory *)
(* into a deployment document.  It is a function of the inventory alone,   *)
(* so it is written as operators, in the order of the code's stages.  Each *)
(* stage takes the services as the one before leaves them.                 *)
(*                                                                         *)
(* What has an order in the JSON file that the result depends on (chain    *)
(* groups, RPC nodes, peers, readers, proxies, networks) is a sequence; the*)
(* rest are functions and sets.  Identifiers are strings, as in the file,  *)
(* since the resolver makes some of its own and they may meet the          *)
(* operator's.                                                             *)
(***************************************************************************)
EXTENDS Topology

CONSTANT Suffix   \* a storage peer's identifier without the prefix storage-

Rejected == [rejected |-> TRUE]
Ids(items) == {item.id : item \in Range(items)}
Table(f) == CHOOSE g \in {f} : g = f   \* f, which TLC evaluates once to compare it
Named(items, id) == CHOOSE item \in Range(items) : item.id = id

Enumerated(S) == FoldSet(LAMBDA x, s : Append(s, x), <<>>, S)   \* in some order

Link(s) == [service |-> s, network |-> None]
Hidden == [mode |-> None, network |-> None, advertised |-> {}]
Private(n) == [Hidden EXCEPT !.mode = "private", !.network = n]

Service(type, uses) ==
  [type |-> type, machine |-> None, connections |-> [c \in DOMAIN uses |-> Link(uses[c])],
   exposure |-> Hidden, listeners |-> {}, port |-> 0, mode |-> "read_write",
   node |-> None, worker |-> None, sites |-> <<>>, tls |-> [mode |-> "http", secrets |-> {}]]

(* The applications of the catalogue, with the identifiers they connect to. *)
MinterUses == [database |-> "minter-postgres", store_api |-> "store-api", rpc |-> "rpc01",
               contracts |-> "contracts-deploy", migration |-> "minter-migrate"]
DashboardUses == [database |-> "dashboard-mysql", admin_api |-> "admin-api",
                  minter_api |-> "minter-api", resolver_api |-> "resolver-api",
                  store_api |-> "store-api"]
Worker(kind) == [Service("minter-worker", MinterUses) EXCEPT !.worker = kind]
Gateway ==
  LET uses == [resolver |-> "resolver-api", dashboard |-> "dashboard",
               explorer |-> "explorer", minter |-> "minter-api"]
      route(r) == [id |-> r, path |-> r, service |-> uses[r]]
  IN  [Service("edge-proxy", uses) EXCEPT
        !.sites = <<[host |-> None, origin |-> [scheme |-> "http", host |-> None],
                     routes |-> <<route("resolver"), route("dashboard"),
                                  route("explorer"), route("minter")>>]>>]

Catalogue ==
  [s \in {"explorer", "minter-postgres", "minter-migrate", "store-api", "minter-api",
          "metadata-worker", "replication-worker", "chain-worker", "admin-api", "resolver-api",
          "dashboard-mysql", "dashboard-migrate", "dashboard", "contracts-deploy", "edge-proxy"} |->
    CASE s = "explorer" -> [Service("explorer", [rpc |-> "rpc01"]) EXCEPT !.exposure = Private("lan")]
      [] s = "minter-migrate" -> Service("minter-migrate", [database |-> "minter-postgres"])
      [] s = "minter-api" -> Service("minter-api", MinterUses)
      [] s = "metadata-worker" -> Worker("metadata")
      [] s = "replication-worker" -> Worker("replication")
      [] s = "chain-worker" -> Worker("chain")
      [] s = "admin-api" ->
           Service("admin-api", [rpc |-> "rpc01", contracts |-> "contracts-deploy"])
      [] s = "resolver-api" -> Service("resolver-api",
           [rpc |-> "rpc01", store_api |-> "store-api", contracts |-> "contracts-deploy"])
      [] s = "dashboard-migrate" -> Service("dashboard-migrate", DashboardUses)
      [] s = "dashboard" ->
           Service("dashboard", DashboardUses ++ [migration |-> "dashboard-migrate"])
      [] s = "contracts-deploy" -> Service("contracts-deploy", [rpc |-> "rpc01"])
      [] s = "edge-proxy" -> Gateway
      [] OTHER -> Service(s, Empty)]

(* Its templates; the networks of the private ones are examples. *)
Template(type, node) ==
  [Service(type, Empty) EXCEPT !.node = node,
     !.exposure = IF type = "besu-rpc" THEN Private("lan")
                  ELSE IF type \in StorageTypes THEN Private("vpn") ELSE Hidden]

-----------------------------------------------------------------------------
(* Instances.  Validators and observers are numbered through their groups  *)
(* in the order of the file, so where one runs depends on the ones before. *)

GroupOfInstance(groups) ==
  FlattenSeq([g \in DOMAIN groups |-> [i \in 1..groups[g].count |-> groups[g].id]])
ValidatorId(i) == "validator0" \o ToString(i)
ObserverId(i) == "observer0" \o ToString(i)
Validators(raw) == {ValidatorId(i) : i \in DOMAIN GroupOfInstance(raw.validators)}
Observers(raw) == {ObserverId(i) : i \in DOMAIN GroupOfInstance(raw.observers)}

Chain(raw) ==
  /\ raw.peers # <<>> /\ raw.validators # <<>>
  /\ \A g \in Range(raw.validators \o raw.observers) : g.count >= 1
  /\ raw.primary \in Ids(raw.rpcs)

Own(raw) ==
  [s \in DOMAIN Catalogue |-> [Catalogue[s] EXCEPT !.connections =
    [c \in DOMAIN @ |-> IF @[c].service = "rpc01" THEN Link(raw.primary) ELSE @[c]]]]

WithNodes(raw) ==
  [n \in Observers(raw) |-> Template("besu-observer", n)] ++
  [n \in Validators(raw) |-> Template("besu-validator", n)] ++
  [n \in Ids(raw.rpcs) |-> Template("besu-rpc", n)] ++ Own(raw)

Roles(raw) ==
  [n \in Observers(raw) |-> "observer"] ++ [n \in Ids(raw.rpcs) |-> "rpc"] ++
  [n \in Validators(raw) |-> "validator"]

WithInstances(raw, services) ==
  [s \in DOMAIN raw.instances |-> services["resolver-api"]] ++ services

Bindings(raw) ==
  raw.bindings ++ [s \in DOMAIN raw.instances |-> raw.instances[s].rpc]

BindingsHold(raw, services) ==
  \A s \in DOMAIN Bindings(raw) :
    /\ s \in DOMAIN services /\ "rpc" \in DOMAIN services[s].connections
    /\ Bindings(raw)[s] \in Ids(raw.rpcs) \cup Observers(raw)

WithBindings(raw, services) ==
  [s \in DOMAIN services |->
    IF s \in DOMAIN Bindings(raw)
    THEN [services[s] EXCEPT !.connections["rpc"] = Link(Bindings(raw)[s])] ELSE services[s]]

(* Two peers may have one suffix; the later then takes both identifiers. *)
KuboId(p) == "ipfs-storage-" \o Suffix[p]
ClusterId(p) == "cluster-storage-" \o Suffix[p]
LatestPeer(raw, id(_), s) ==
  raw.peers[CHOOSE i \in DOMAIN raw.peers : id(raw.peers[i].id) = s /\
    \A j \in DOMAIN raw.peers : id(raw.peers[j].id) = s => j <= i].id

WithStorage(raw, services) ==
  LET clusters == {ClusterId(p) : p \in Ids(raw.peers)}
      cluster(c) == LET p == LatestPeer(raw, ClusterId, c) IN
        [Template("ipfs-cluster", p) EXCEPT !.connections = [kubo |-> Link(KuboId(p))]]
      all == [c \in clusters |-> cluster(c)] ++
             [k \in {KuboId(p) : p \in Ids(raw.peers)} |->
                Template("ipfs-kubo", LatestPeer(raw, KuboId, k))] ++ services
  IN  [all EXCEPT !["store-api"].connections = [c \in clusters |-> Link(c)]]

(* Readers.  A reader sees the Clusters of its own site, and the last one  *)
(* that lists a consumer serves it.                                        *)
SiteOf(raw, group) == raw.machines[raw.placement[group]].site
SameSite(raw, g, h) ==
  None \in {SiteOf(raw, g), SiteOf(raw, h)} \/ SiteOf(raw, g) = SiteOf(raw, h)

Placed(raw, group) ==
  group \in DOMAIN raw.placement /\ raw.placement[group] \in DOMAIN raw.machines

Reader(raw, store, r) ==
  LET near == {ClusterId(p.id) : p \in {q \in Range(raw.peers) : SameSite(raw, r.group, q.group)}}
  IN  [store EXCEPT !.mode = "read_only", !.connections = Restrict(@, DOMAIN @ \cap near)]

ReadersHold(raw, services) ==
  \A r \in Range(raw.readers) :
    /\ r.id \notin DOMAIN services /\ Placed(raw, r.group)
    /\ \A p \in Range(raw.peers) : Placed(raw, p.group)
    /\ r.consumers # {}
    /\ \A s \in r.consumers :
         /\ s \in DOMAIN services /\ services[s].type = "resolver-api"
         /\ "store_api" \in DOMAIN services[s].connections

WithReaders(raw, services) ==
  LET listing(s) == {i \in DOMAIN raw.readers : s \in raw.readers[i].consumers}
      served == [s \in DOMAIN services |->
        IF listing(s) = {} THEN services[s]
        ELSE [services[s] EXCEPT !.connections["store_api"] =
               Link(raw.readers[CHOOSE i \in listing(s) : \A j \in listing(s) : j <= i].id)]]
  IN  [r \in Ids(raw.readers) |->
         Reader(raw, services["store-api"], Named(raw.readers, r))] ++ served

InstancesHold(raw, services) ==
  \A s \in DOMAIN raw.instances : LET r == raw.instances[s].reader IN
    /\ r \in DOMAIN services /\ services[r].type = "store-api"
    /\ services[r].mode = "read_only"
    /\ services[s].connections["store_api"].service = r

(* Removing the explorer removes the connections to it. *)
WithExplorer(raw, services) ==
  IF raw.explorer.enabled THEN services
  ELSE [s \in DOMAIN services \ {"explorer"} |-> [services[s] EXCEPT !.connections =
         Restrict(@, {c \in DOMAIN @ : @[c].service # "explorer"})]]

-----------------------------------------------------------------------------
(* Groups.  Every service is listed under a group, in this order; the      *)
(* later group takes the machine of a service that two of them list.       *)

Home(override) == IF override = None THEN "apps" ELSE override

Listed(raw, services) ==
  LET nodes(groups, id(_)) ==
        [i \in DOMAIN GroupOfInstance(groups) |-> <<GroupOfInstance(groups)[i], id(i)>>]
      pairs(f) == LET s == Enumerated(DOMAIN f) IN [i \in DOMAIN s |-> <<f[s[i]].group, s[i]>>]
      items(s) == [i \in DOMAIN s |-> <<s[i].group, s[i].id>>]
      peers == FlattenSeq([i \in DOMAIN raw.peers |-> LET p == raw.peers[i] IN
                 <<<<p.group, KuboId(p.id)>>, <<p.group, ClusterId(p.id)>>>>])
      dynamic == Validators(raw) \cup Observers(raw) \cup Ids(raw.rpcs) \cup Ids(raw.readers)
                 \cup DOMAIN raw.instances \cup OfType([services |-> services], StorageTypes)
      moved(s) == CASE s = "explorer" -> Home(raw.explorer.group)
                    [] s = "resolver-api" -> Home(raw.resolver)
                    [] OTHER -> "apps"
      own == Enumerated({s \in DOMAIN services \ dynamic : moved(s) = "apps"})
      away == SelectSeq(<<"explorer", "resolver-api">>, LAMBDA s :
                s \in DOMAIN services /\ moved(s) # "apps")
      all == [i \in DOMAIN own |-> <<"apps", own[i]>>] \o items(raw.rpcs) \o
             nodes(raw.validators, ValidatorId) \o nodes(raw.observers, ObserverId) \o
             peers \o items(raw.readers) \o pairs(raw.instances) \o
             [i \in DOMAIN away |-> <<moved(away[i]), away[i]>>]
  IN  SelectSeq(all, LAMBDA p : p[2] \in DOMAIN services)

(* A service that an override moves must be one of the catalogue's own. *)
OverridesHold(raw, services) ==
  LET taken == Validators(raw) \cup Observers(raw) \cup Ids(raw.rpcs) IN
  /\ raw.explorer.enabled /\ Home(raw.explorer.group) # "apps" => "explorer" \notin taken
  /\ Home(raw.resolver) # "apps" => "resolver-api" \notin taken

Members(listed, g) == LET mine == SelectSeq(listed, LAMBDA p : p[1] = g) IN
  [i \in DOMAIN mine |-> mine[i][2]]

Kind(services, ids) ==
  LET types == {services[s].type : s \in ids} IN
  CASE types \subseteq StorageTypes -> "storage"
    [] types = {"besu-observer"} -> "observers"
    [] types = {"besu-validator"} -> "validators"
    [] OTHER -> "apps"

Grouped(raw, services, listed) ==
  [g \in {p[1] : p \in Range(listed)} |-> LET ids == Members(listed, g) IN
    [kind |-> Kind(services, Range(ids)), machine |-> raw.placement[g], services |-> ids,
     members |-> SelectSeq(ids, LAMBDA s :
       ~ (g = "apps" /\ s \in DOMAIN Catalogue /\ services[s].type = Catalogue[s].type))]]

WithMachines(services, groups, listed) ==
  LET first(g) == CHOOSE i \in DOMAIN listed : listed[i][1] = g /\
                    \A j \in DOMAIN listed : listed[j][1] = g => i <= j
      host(s) == CHOOSE g \in {p[1] : p \in {q \in Range(listed) : q[2] = s}} :
                   \A h \in {p[1] : p \in {q \in Range(listed) : q[2] = s}} : first(h) <= first(g)
  IN  [s \in DOMAIN services |-> [services[s] EXCEPT !.machine = groups[host(s)].machine]]

-----------------------------------------------------------------------------
(* The web edge: the operator's proxies, or the catalogue's, or none.  A    *)
(* proxy joins the services when it is read, and can be a route's target   *)
(* from then on.                                                           *)

ProxiesHold(raw, services, groups) ==
  raw.access.mode = "proxies" =>
    /\ raw.proxies # <<>>
    /\ \A k \in DOMAIN raw.proxies :
         LET proxy == raw.proxies[k]
             routes == HttpRoutes(proxy)
             present == (DOMAIN services \ {"edge-proxy"}) \cup Ids(SubSeq(raw.proxies, 1, k - 1))
         IN  /\ proxy.group \in DOMAIN groups
             /\ (proxy.bind = "private") = (proxy.network # None)
             /\ \A r \in Range(routes) : r.service \in present
             /\ \A i, j \in DOMAIN routes : i # j => routes[i].id # routes[j].id

Edge(bind, network) == [Hidden EXCEPT !.mode = bind, !.network = network]

Proxy(proxy, machine) ==
  LET routes == Range(HttpRoutes(proxy)) IN
  [Service("edge-proxy", [c \in {r.id : r \in routes} |-> Named(HttpRoutes(proxy), c).service])
    EXCEPT !.machine = machine, !.sites = proxy.sites, !.tls = proxy.tls, !.port = proxy.port,
           !.exposure = Edge(proxy.bind, proxy.network)]

WithProxies(raw, services, groups) ==
  LET others == Restrict(services, DOMAIN services \ {"edge-proxy"}) IN
  CASE raw.access.mode = "proxies" ->
         [p \in Ids(raw.proxies) |->
            LET proxy == Named(raw.proxies, p) IN Proxy(proxy, groups[proxy.group].machine)] ++ others
    [] raw.access.mode = "gateway" ->
         [services EXCEPT !["edge-proxy"].port = raw.access.port,
            !["edge-proxy"].exposure = Edge(raw.access.bind, raw.access.network)]
    [] OTHER -> others

(* A proxy joins its group after the group has its kind. *)
WithEdge(raw, groups) ==
  IF raw.access.mode = "gateway" THEN groups
  ELSE [g \in DOMAIN groups |-> [groups[g] EXCEPT !.services =
         SelectSeq(@, LAMBDA s : s # "edge-proxy") \o
         IF raw.access.mode # "proxies" THEN <<>>
         ELSE LET here == SelectSeq(raw.proxies, LAMBDA p : p.group = g)
              IN  [k \in DOMAIN here |-> here[k].id]]]

-----------------------------------------------------------------------------
(* Routing. *)

Machines(raw) ==
  [m \in DOMAIN raw.machines |->
    IF raw.machines[m].execution \in {"local", "docker-lab"} /\ raw.machines[m].addresses = Empty
    THEN [raw.machines[m] EXCEPT !.addresses =
           raw.networks[1].id :> Hosts[raw.networks[1].cidr][1]]
    ELSE raw.machines[m]]

PolicyFor(raw, kind) ==
  IF kind \in DOMAIN raw.routing THEN raw.routing[kind]
  ELSE IF "defaults" \in DOMAIN raw.routing THEN raw.routing["defaults"]
  ELSE [by |-> "none"]

Selected(raw, selector, target) ==
  IF selector # "site_lan" THEN selector
  ELSE IF target.site \in Ids(raw.sites) THEN Named(raw.sites, target.site).lan
  ELSE None

(* The network from one machine to another, or none. *)
NetworkFor(raw, source, target, kind) ==
  LET policy == PolicyFor(raw, kind) IN
  CASE policy.by = "none" -> None
    [] policy.by = "name" -> Selected(raw, policy.name, target)
    [] policy.by = "locality" /\ None \in {source.site, target.site} -> None
    [] OTHER -> Selected(raw, IF source.site = target.site THEN policy.same ELSE policy.cross,
                         target)

TrafficTo(type) ==
  CASE type = "ipfs-cluster" -> "storage_api"
    [] type = "ipfs-kubo" -> "storage_p2p"
    [] OTHER -> "application_api"

Networked(services, s, t) ==
  /\ services[s].machine # services[t].machine
  /\ services[t].type # "contracts-deploy"

WithTransport(raw, machines, services) ==
  [s \in DOMAIN services |-> [services[s] EXCEPT !.connections =
    [c \in DOMAIN @ |-> LET t == @[c].service IN
      IF ~ Networked(services, s, t) THEN @[c]
      ELSE [@[c] EXCEPT !.network =
             NetworkFor(raw, machines[services[s].machine], machines[services[t].machine],
                        TrafficTo(services[t].type))]]]]

TransportHolds(raw, machines, services) ==
  \A s \in DOMAIN services : \A c \in Range(services[s].connections) :
    Networked(services, s, c.service) =>
      /\ c.network \in DOMAIN machines[services[c.service].machine].addresses
      /\ LET mine == DOMAIN machines[services[s].machine].addresses IN
         c.network \in mine \/ \E n \in mine : <<n, c.network>> \in raw.routes

StoreCallsNone(services, s) == {}   \* mutant: only connections are calls

(* A Store API calls the Kubo behind every Cluster that it is connected to. *)
StoreCalls(services, s) ==
  IF services[s].type # "store-api" THEN {}
  ELSE {[kubo |-> services[c.service].connections["kubo"].service, network |-> c.network] :
          c \in Range(services[s].connections)}

RequiredByType(services, t) ==   \* mutant: a call of one service of a type is a call of all
  UNION {{c.network : c \in {d \in Range(services[s].connections) :
             services[d.service].type = services[t].type /\ Networked(services, s, d.service)}}
         \cup {k.network : k \in {j \in StoreCalls(services, s) :
             j.kubo = t /\ services[s].machine # services[t].machine}} :
         s \in DOMAIN services}

(* The networks on which a service has callers on other machines. *)
Required(services, t) ==
  UNION {{c.network : c \in {d \in Range(services[s].connections) :
             d.service = t /\ Networked(services, s, t)}}
         \cup {k.network : k \in {j \in StoreCalls(services, s) :
             j.kubo = t /\ services[s].machine # services[t].machine}} :
         s \in DOMAIN services}

PortOf == ("store-api" :> 8003) @@ ("minter-api" :> 8001) @@ ("admin-api" :> 8000) @@
          ("resolver-api" :> 8002) @@ ("dashboard" :> 8081) @@ ("explorer" :> 25000) @@
          ("besu-rpc" :> 8545) @@ ("ipfs-kubo" :> 5001) @@ ("ipfs-cluster" :> 9094)

PortsKnown(services) ==
  \A s \in DOMAIN services :
    Required(services, s) # {} => services[s].type \in DOMAIN PortOf \cup {"edge-proxy"}

(* Only what another machine needs is published. *)
WithExposure(services) ==
  [s \in DOMAIN services |->
    LET service == services[s]
        networks == Required(services, s)
        port == IF service.type \in DOMAIN PortOf THEN PortOf[service.type] ELSE service.port
    IN  CASE Cardinality(networks) = 1 ->
               [service EXCEPT !.port = port, !.exposure = Private(CHOOSE n \in networks : TRUE)]
          [] Cardinality(networks) # 1 /\ networks # {} ->
               [service EXCEPT !.port = port, !.exposure = Hidden, !.listeners = networks]
          [] networks = {} /\ service.exposure.mode = "private" /\ service.type # "edge-proxy" ->
               [service EXCEPT !.port = port, !.exposure = Hidden]
          [] OTHER -> [service EXCEPT !.port = port]]

Direct == {"store-api", "minter-api", "admin-api", "resolver-api", "dashboard", "explorer"}

(* Endpoints that the controller's own machine needs. *)
WithLoopback(raw, machines, services) ==
  LET local == \A m \in DOMAIN machines : machines[m].execution \in {"local", "docker-lab"}
      direct == IF raw.access.mode # "local-direct" THEN {}
                ELSE {s \in (Direct \cup {raw.primary}) \cap DOMAIN services :
                        services[s].machine = raw.placement["apps"]}
      probed == IF local /\ services[raw.primary].exposure.mode = None THEN {raw.primary} ELSE {}
  IN  [s \in DOMAIN services |->
        IF s \in direct \cup probed
        THEN [services[s] EXCEPT !.exposure = Edge("loopback", None)] ELSE services[s]]

(* Advertised addresses and ports. *)
Advertised(raw, s) == raw.networking[s] \cap {"advertise_address", "advertise_port"}

NetworkingHolds(raw, services) ==
  \A s \in DOMAIN raw.networking :
    /\ s \in DOMAIN services
    /\ Advertised(raw, s) # {} => services[s].exposure.mode = "private"
    /\ "p2p_advertise_port" \in raw.networking[s]
         => services[s].type \in ChainTypes \cup StorageTypes

WithNetworking(raw, services) ==
  [s \in DOMAIN services |->
    IF s \in DOMAIN raw.networking
    THEN [services[s] EXCEPT !.exposure.advertised = Advertised(raw, s)] ELSE services[s]]

(* The peer-to-peer edges that a policy by site gives. *)
BySite(policy) == policy.by = "locality" \/ (policy.by = "name" /\ policy.name = "site_lan")

Edges(raw, machines, services, types, kind) ==
  LET peers == {s \in DOMAIN services : services[s].type \in types}
      network(s, t) == NetworkFor(raw, machines[services[s].machine],
                                  machines[services[t].machine], kind)
  IN  {[from |-> p[1], to |-> p[2], network |-> network(p[1], p[2])] :
         p \in {q \in peers \X peers : q[1] # q[2]}}

Peerings(raw, machines, services) ==
  (IF ~ BySite(PolicyFor(raw, "blockchain_p2p")) THEN Empty
   ELSE [blockchain |-> Edges(raw, machines, services, ChainTypes, "blockchain_p2p")]) ++
  (IF ~ BySite(PolicyFor(raw, "storage_p2p")) THEN Empty
   ELSE [ipfs |-> Edges(raw, machines, services, {"ipfs-kubo"}, "storage_p2p"),
         cluster |-> Edges(raw, machines, services, {"ipfs-cluster"}, "storage_p2p")])

PeeringsHold(machines, services, peerings) ==
  \A e \in UNION Range(peerings) : e.network \in DOMAIN machines[services[e.to].machine].addresses

(* Storage that peers call on a network of their own listens there too. *)
StorageNetworks(services, peerings, t) ==
  {services[t].exposure.network}
  \cup {e.network : e \in {f \in UNION {peerings[x] : x \in DOMAIN peerings \cap
          {IF services[t].type = "ipfs-kubo" THEN "ipfs" ELSE "cluster"}} : f.to = t}}
  \cup UNION {{c.network : c \in {d \in Range(services[s].connections) : d.service = t}} \ {None}
              : s \in {x \in DOMAIN services : services[x].machine # services[t].machine}}

WithListeners(services, peerings) ==
  [s \in DOMAIN services |->
    IF /\ services[s].type \in StorageTypes /\ services[s].exposure.mode = "private"
       /\ Cardinality(StorageNetworks(services, peerings, s)) > 1
    THEN [services[s] EXCEPT !.exposure = Hidden,
                             !.listeners = StorageNetworks(services, peerings, s)]
    ELSE services[s]]

(* The network of each peer-to-peer mesh when no edges are given. *)
Infrastructure(raw) ==
  LET network(kind) ==
        IF kind \notin DOMAIN raw.routing THEN "vpn"
        ELSE LET policy == raw.routing[kind] IN
             IF policy.by = "name" THEN IF policy.name = "site_lan" THEN "vpn" ELSE policy.name
             ELSE IF policy.cross # "site_lan" THEN policy.cross
             ELSE IF raw.sites = <<>> THEN "vpn" ELSE raw.sites[1].lan
  IN  [besu |-> network("blockchain_p2p"),
       ipfs |-> network("storage_p2p"), cluster |-> network("storage_p2p")]

Secrets(services) ==
  ("contract-signer" :> {"contracts-deploy"}) @@
  ("ipfs-swarm-key" :> OfType([services |-> services], {"ipfs-kubo"})) @@
  ("ipfs-cluster-secret" :> OfType([services |-> services], {"ipfs-cluster"})) @@
  ("minter-runtime-env" :> {"minter-postgres", "minter-migrate", "minter-api",
     "metadata-worker", "replication-worker", "chain-worker", "admin-api"}) @@
  ("dashboard-runtime-env" :> {"dashboard-mysql", "dashboard-migrate", "dashboard"})

-----------------------------------------------------------------------------
(* Production inventories state what they tolerate, or that they do not. *)

Objectives == {"tolerate_validator_individual", "tolerate_validator_group", "tolerate_machine",
               "observer_copy", "rpc_redundant", "storage_durable"}

QuorumOf(n) == (2 * n) \div 3 + 1

Satisfied(doc) ==
  LET count(type, P(_)) == Cardinality({s \in OfType(doc, {type}) : P(s)})
      all == Cardinality(OfType(doc, {"besu-validator"}))
      survives(lost) == all - lost >= QuorumOf(all)
      hosts == {HostOf(doc, s) : s \in DOMAIN doc.services}
  IN  {o \in Objectives :
        CASE o = "tolerate_validator_individual" -> survives(1)
          [] o = "tolerate_validator_group" -> \A g \in DOMAIN doc.groups :
               survives(count("besu-validator", LAMBDA s : s \in Range(doc.groups[g].services)))
          [] o = "tolerate_machine" -> \A m \in hosts :
               survives(count("besu-validator", LAMBDA s : HostOf(doc, s) = m))
          [] o = "observer_copy" -> OfType(doc, {"besu-observer"}) # {}
          [] o = "rpc_redundant" -> Cardinality(OfType(doc, {"besu-rpc"})) >= 2
          [] OTHER -> \A m \in hosts :
               Cardinality(OfType(doc, {"ipfs-kubo"}))
                 - count("ipfs-kubo", LAMBDA s : HostOf(doc, s) = m) >= doc.replication.target}

ObjectivesHold(raw, doc) ==
  raw.profile = "production" =>
    /\ raw.objectives # {}
    /\ raw.acknowledged = raw.objectives \ Satisfied(doc)

-----------------------------------------------------------------------------
(* resolve_inventory: the document, or its rejection at any of the stages, *)
(* here the last stage first.                                              *)

Checked(raw, doc) == IF Valid(doc) /\ ObjectivesHold(raw, doc) THEN doc ELSE Rejected

Published(raw, groups, secrets, machines, services, peerings) ==
  IF ~ NetworkingHolds(raw, services) \/ ~ PeeringsHold(machines, services, peerings)
  THEN Rejected
  ELSE Checked(raw,
         [networks |-> [n \in Ids(raw.networks) |-> Named(raw.networks, n)],
          sites |-> [x \in Ids(raw.sites) |-> Named(raw.sites, x).lan],
          routes |-> raw.routes, machines |-> machines,
          services |-> Table(WithListeners(Table(WithNetworking(raw, services)), peerings)),
          groups |-> Table(WithEdge(raw, groups)), infrastructure |-> Infrastructure(raw),
          nodes |-> Roles(raw), primary |-> raw.primary, peerings |-> peerings,
          peers |-> [i \in DOMAIN raw.peers |-> raw.peers[i].id],
          replication |-> raw.replication, secrets |-> secrets])

Peered(raw, groups, secrets, machines, services) ==
  Published(raw, groups, secrets, machines, services, Table(Peerings(raw, machines, services)))

Routed(raw, groups, secrets, machines, services) ==
  IF TransportHolds(raw, machines, services) /\ PortsKnown(services)
  THEN Peered(raw, groups, secrets, machines,
              Table(WithLoopback(raw, machines, Table(WithExposure(services)))))
  ELSE Rejected

Edged(raw, groups, secrets, machines, services) ==
  IF ProxiesHold(raw, services, groups)
  THEN Routed(raw, groups, secrets, machines,
              Table(WithTransport(raw, machines, Table(WithProxies(raw, services, groups)))))
  ELSE Rejected

Hosted(raw, listed, groups, secrets, services) ==
  Edged(raw, groups, secrets, Table(Machines(raw)), Table(WithMachines(services, groups, listed)))

Assigned(raw, listed, secrets, services) ==
  IF \A p \in Range(listed) : Placed(raw, p[1])
  THEN Hosted(raw, listed, Table(Grouped(raw, services, listed)), secrets, services)
  ELSE Rejected

Kept(raw, secrets, services) ==
  IF InstancesHold(raw, services)
  THEN Assigned(raw, Listed(raw, services), secrets, services) ELSE Rejected

Read(raw, secrets, services) ==
  IF OverridesHold(raw, services)
  THEN Kept(raw, secrets, Table(WithExplorer(raw, services))) ELSE Rejected

Stored(raw, services) ==
  IF Placed(raw, "apps") /\ ReadersHold(raw, services)
  THEN Read(raw, Secrets(services), Table(WithReaders(raw, services))) ELSE Rejected

Bound(raw, services) ==
  IF BindingsHold(raw, services)
  THEN Stored(raw, Table(WithStorage(raw, WithBindings(raw, services)))) ELSE Rejected

Resolve(raw) ==
  IF Chain(raw) /\ raw.networks # <<>> /\ DOMAIN raw.instances \cap DOMAIN WithNodes(raw) = {}
  THEN Bound(raw, WithInstances(raw, WithNodes(raw))) ELSE Rejected
=============================================================================
