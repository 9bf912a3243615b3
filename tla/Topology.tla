------------------------------ MODULE Topology ------------------------------
(***************************************************************************)
(* The resolved deployment document (version 3) and the checks that        *)
(* deployment_v3/inventory.py makes of it: validate_inventory, which every *)
(* entry point runs, and groups_for_inventory, which only the planner runs.*)
(* A document is one record; the settings, images and components, which    *)
(* no other part of the system reads while it edits or plans, are left out.*)
(***************************************************************************)
EXTENDS Naturals, Sequences, FiniteSets, SequencesExt

CONSTANT Hosts   \* the host addresses of every address block, in order

None == ""
Empty == [x \in {} |-> x]
\* The function f, and g where f is not defined: TLC's @@, which proofs cannot expand.
f ++ g == [x \in DOMAIN f \cup DOMAIN g |-> IF x \in DOMAIN f THEN f[x] ELSE g[x]]
Distinct(s) == IsInjective(s)

ChainTypes == {"besu-validator", "besu-rpc", "besu-observer"}
StorageTypes == {"ipfs-kubo", "ipfs-cluster"}
WebTypes == {"dashboard", "explorer", "minter-api", "resolver-api"}

Minting == [database |-> "minter-postgres", store_api |-> "store-api", rpc |-> "besu-rpc",
            contracts |-> "contracts-deploy", migration |-> "minter-migrate"]
Migrating == [database |-> "dashboard-mysql", admin_api |-> "admin-api",
              minter_api |-> "minter-api", resolver_api |-> "resolver-api",
              store_api |-> "store-api"]

(* What each type of service connects to: CONNECTION_CONTRACTS. *)
Contract ==
  [t \in ChainTypes \cup StorageTypes \cup {"contracts-deploy", "explorer", "minter-postgres",
          "minter-migrate", "minter-api", "minter-worker", "admin-api", "resolver-api",
          "dashboard-mysql", "dashboard-migrate", "dashboard"} |->
    CASE t \in {"explorer", "contracts-deploy"} -> [rpc |-> "besu-rpc"]
      [] t \in {"minter-api", "minter-worker"} -> Minting
      [] t = "minter-migrate" -> [database |-> "minter-postgres"]
      [] t = "admin-api" -> [rpc |-> "besu-rpc", contracts |-> "contracts-deploy"]
      [] t = "resolver-api" ->
           [rpc |-> "besu-rpc", store_api |-> "store-api", contracts |-> "contracts-deploy"]
      [] t = "dashboard" -> Migrating ++ [migration |-> "dashboard-migrate"]
      [] t = "dashboard-migrate" -> Migrating
      [] t = "ipfs-cluster" -> [kubo |-> "ipfs-kubo"]
      [] OTHER -> Empty]

ServiceTypes == DOMAIN Contract \cup {"store-api", "edge-proxy"}
RequiredTypes == {"besu-rpc", "minter-api", "minter-postgres", "store-api", "admin-api",
                  "resolver-api", "dashboard", "ipfs-kubo", "ipfs-cluster"}

OfType(doc, types) == {s \in DOMAIN doc.services : doc.services[s].type \in types}
HostOf(doc, s) == doc.services[s].machine
NetworksOf(doc, m) == DOMAIN doc.machines[m].addresses
ProvidersOf(doc, s) == {c.service : c \in Range(doc.services[s].connections)}
Remote(doc, s, t) == HostOf(doc, s) # HostOf(doc, t)
HttpRoutes(service) == FlattenSeq([i \in DOMAIN service.sites |-> service.sites[i].routes])

(* A machine reaches a network that it is on or has a declared route to. *)
Reaches(doc, m, n) ==
  n \in NetworksOf(doc, m) \/ \E a \in NetworksOf(doc, m) : <<a, n>> \in doc.routes

(* The networks on which other machines can call a service. *)
Listening(service) ==
  service.listeners \cup
  IF service.exposure.mode = "private" THEN {service.exposure.network} ELSE {}

ValidNetworks(doc) ==
  /\ DOMAIN doc.networks # {}
  /\ \A s \in DOMAIN doc.sites :
       doc.sites[s] \in DOMAIN doc.networks /\ doc.networks[doc.sites[s]].kind = "lan"
  /\ \A r \in doc.routes : r[1] # r[2] /\ {r[1], r[2]} \subseteq DOMAIN doc.networks
  /\ Range(doc.infrastructure) \subseteq DOMAIN doc.networks

ValidMachines(doc) ==
  /\ \A m \in DOMAIN doc.machines :
       /\ NetworksOf(doc, m) # {} /\ NetworksOf(doc, m) \subseteq DOMAIN doc.networks
       /\ \A n \in NetworksOf(doc, m) :
            doc.machines[m].addresses[n] \in Range(Hosts[doc.networks[n].cidr])
       /\ LET site == doc.machines[m].site IN
          site # None => site \in DOMAIN doc.sites /\ doc.sites[site] \in NetworksOf(doc, m)
  /\ \A m1, m2 \in DOMAIN doc.machines :
       \A n \in NetworksOf(doc, m1) \cap NetworksOf(doc, m2) :
         m1 # m2 => doc.machines[m1].addresses[n] # doc.machines[m2].addresses[n]

ValidService(doc, s) ==
  LET service == doc.services[s]
      exposure == service.exposure
  IN  /\ service.type \in ServiceTypes
      /\ service.machine \in DOMAIN doc.machines
      /\ \A c \in Range(service.connections) : c.network \in DOMAIN doc.networks \cup {None}
      /\ exposure.mode # None => service.listeners = {}
      /\ Listening(service) \subseteq NetworksOf(doc, service.machine)
      /\ exposure.mode # "private" => exposure.network = None /\ exposure.advertised = {}

(* _proxy_routes, and the connections that an edge proxy must have. *)
ValidProxy(doc, s) ==
  LET service == doc.services[s]
      routes == HttpRoutes(service)
      site(i) == service.sites[i]
      public == {p \in (DOMAIN service.sites) \X (DOMAIN routes) : p[2] \in DOMAIN site(p[1]).routes}
  IN  /\ service.tls.mode \in {"http", "direct", "external"}
      /\ service.tls.mode # "direct" => service.tls.secrets = {}
      /\ service.sites # <<>>
      /\ \A i \in DOMAIN service.sites :
           /\ site(i).routes # <<>>
           /\ site(i).host # None => site(i).origin.host = site(i).host
           /\ service.tls.mode = "direct" => site(i).origin.scheme = "https"
      /\ \A i, j \in DOMAIN routes : i # j => routes[i].id # routes[j].id
      /\ \A p, q \in public :
           p # q => \/ site(p[1]).host # site(q[1]).host
                    \/ site(p[1]).routes[p[2]].path # site(q[1]).routes[q[2]].path
      /\ {r.id : r \in Range(routes)} = DOMAIN service.connections
      /\ \A t \in ProvidersOf(doc, s) : doc.services[t].type \in WebTypes

(* A Store API that writes sees every Cluster; a reader sees those of its site. *)
ValidStore(doc, s) ==
  LET providers == ProvidersOf(doc, s) IN
  /\ s = "store-api" => doc.services[s].mode = "read_write"
  /\ providers # {} /\ providers \subseteq OfType(doc, {"ipfs-cluster"})
  /\ doc.services[s].mode # "read_only" => providers = OfType(doc, {"ipfs-cluster"})

ValidContract(doc, s) ==
  LET links == doc.services[s].connections
      contract == Contract[doc.services[s].type]
  IN  /\ DOMAIN links = DOMAIN contract
      /\ \A name \in DOMAIN contract :
           doc.services[links[name].service].type \in
             {contract[name]} \cup IF contract[name] = "besu-rpc" THEN {"besu-observer"} ELSE {}

ValidConnections(doc) ==
  \A s \in DOMAIN doc.services :
    /\ ProvidersOf(doc, s) \subseteq DOMAIN doc.services
    /\ CASE doc.services[s].type = "store-api" -> ValidStore(doc, s)
         [] doc.services[s].type = "edge-proxy" -> ValidProxy(doc, s)
         [] OTHER -> ValidContract(doc, s)

PolicyPort == ("besu-rpc" :> 8545) @@ ("ipfs-kubo" :> 5001) @@ ("ipfs-cluster" :> 9094) @@
              ("edge-proxy" :> 80)

ValidCardinality(doc) ==
  /\ \A t \in RequiredTypes : OfType(doc, {t}) # {}
  /\ \A p, q \in OfType(doc, {"edge-proxy"}) : p # q => Remote(doc, p, q)
  /\ {doc.services[w].worker : w \in OfType(doc, {"minter-worker"})}
       = {"metadata", "replication", "chain"}
  /\ Cardinality({HostOf(doc, s) :
       s \in OfType(doc, {"minter-api", "minter-postgres", "minter-worker"})}) = 1

(* No two services of a machine take the same port of the same interface. *)
Ports(service) ==
  {<<"private", n, service.port>> : n \in service.listeners} \cup
  IF service.exposure.mode = None THEN {}
  ELSE {<<service.exposure.mode, service.exposure.network, service.port>>}

ValidPorts(doc) ==
  /\ \A s \in OfType(doc, DOMAIN PolicyPort) :
       doc.services[s].exposure.mode = "private"
         => doc.services[s].port = PolicyPort[doc.services[s].type]
  /\ \A s, t \in {x \in DOMAIN doc.services : Ports(doc.services[x]) # {}} :
       s # t /\ ~ Remote(doc, s, t) => Ports(doc.services[s]) \cap Ports(doc.services[t]) = {}

(* A connection between machines takes a network its provider listens on. *)
ValidTransport(doc) ==
  \A s \in DOMAIN doc.services : \A c \in Range(doc.services[s].connections) :
    \/ doc.services[c.service].type = "contracts-deploy"
    \/ ~ Remote(doc, s, c.service) /\ c.network = None
    \/ /\ Remote(doc, s, c.service)
       /\ c.network \in Listening(doc.services[c.service])
       /\ Reaches(doc, HostOf(doc, s), c.network)

Family == [blockchain |-> ChainTypes, ipfs |-> {"ipfs-kubo"}, cluster |-> {"ipfs-cluster"}]

ValidPeerings(doc) ==
  \A f \in DOMAIN Family :
    LET edges == IF f \in DOMAIN doc.peerings THEN doc.peerings[f] ELSE {}
        policy == doc.infrastructure[IF f = "blockchain" THEN "besu" ELSE f]
        hosts == {HostOf(doc, s) : s \in OfType(doc, Family[f])}
    IN  /\ \A e \in edges :
             /\ e.from # e.to /\ {e.from, e.to} \subseteq OfType(doc, Family[f])
             /\ e.network \in NetworksOf(doc, HostOf(doc, e.to))
             /\ Reaches(doc, HostOf(doc, e.from), e.network)
        /\ edges = {} /\ Cardinality(hosts) > 1
             => \A m \in hosts : policy \in NetworksOf(doc, m)

ValidChain(doc) ==
  LET role(r) == {n \in DOMAIN doc.nodes : doc.nodes[n] = r} IN
  /\ role("validator") # {} /\ doc.primary \in role("rpc")
  /\ DOMAIN doc.nodes = {doc.services[s].node : s \in OfType(doc, ChainTypes)}

ValidStorage(doc) ==
  /\ Range(doc.peers) = {doc.services[s].node : s \in OfType(doc, {"ipfs-kubo"})}
  /\ 1 <= doc.replication.publish
  /\ doc.replication.publish <= doc.replication.target
  /\ doc.replication.target <= Len(doc.peers)

ValidSecrets(doc) ==
  /\ \A x \in DOMAIN doc.secrets : doc.secrets[x] \subseteq DOMAIN doc.services
  /\ \A p \in OfType(doc, {"edge-proxy"}) : \A x \in doc.services[p].tls.secrets :
       x \in DOMAIN doc.secrets /\ p \in doc.secrets[x]

(* validate_inventory.  The order is the code's, and a later check relies *)
(* on the earlier ones.                                                    *)
Valid(doc) ==
  /\ ValidNetworks(doc) /\ ValidMachines(doc)
  /\ \A s \in DOMAIN doc.services : ValidService(doc, s)
  /\ ValidConnections(doc) /\ ValidCardinality(doc) /\ ValidPorts(doc)
  /\ ValidTransport(doc) /\ ValidPeerings(doc)
  /\ ValidChain(doc) /\ ValidStorage(doc) /\ ValidSecrets(doc)

-----------------------------------------------------------------------------
(* groups_for_inventory: which logical server runs a service. *)

AllowedIn == [validators |-> {"besu-validator"}, observers |-> {"besu-observer"},
              storage |-> StorageTypes, apps |-> ServiceTypes]

GroupsOn(doc, m) == {g \in DOMAIN doc.groups : doc.groups[g].machine = m}
GroupsWith(doc, s) == {g \in DOMAIN doc.groups : s \in Range(doc.groups[g].services)}

ValidGroup(doc, g) ==
  LET group == doc.groups[g] IN
  /\ group.machine \in DOMAIN doc.machines
  /\ group.members # <<>> /\ group.services # <<>>
  /\ Distinct(group.services)
  /\ \A s \in Range(group.services) :
       /\ s \in DOMAIN doc.services
       /\ doc.services[s].type \in AllowedIn[group.kind]
       /\ HostOf(doc, s) = group.machine

(* A service that no group names falls to the only group of its machine. *)
GroupsHold(doc) ==
  /\ DOMAIN doc.groups # {}
  /\ \A g \in DOMAIN doc.groups : ValidGroup(doc, g)
  /\ \A s \in DOMAIN doc.services :
       \/ Cardinality(GroupsWith(doc, s)) = 1
       \/ GroupsWith(doc, s) = {} /\ Cardinality(GroupsOn(doc, HostOf(doc, s))) = 1

GroupOf(doc, s) ==
  IF GroupsWith(doc, s) # {} THEN CHOOSE g \in GroupsWith(doc, s) : TRUE
  ELSE CHOOSE g \in GroupsOn(doc, HostOf(doc, s)) : TRUE
=============================================================================
