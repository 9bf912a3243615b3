------------------------------- MODULE Wizard -------------------------------
(***************************************************************************)
(* The web workbench on one inventory: every operation of operations.py,   *)
(* undo and reset, one request at a time (Drafts has them overlap).  *)
(* An operation checks its parameters against the draft, changes a copy,   *)
(* and commits it only if the copy resolves.  A rejected operation leaves  *)
(* everything but the error message alone, so it is not a step.            *)
(*                                                                         *)
(* The parameters are the identifiers that the draft has and, for what is  *)
(* new, the constants below.                                               *)
(***************************************************************************)
EXTENDS Planner, Resolver

CONSTANTS
  Opened,      \* the inventories that the workbench opens
  NewIds,      \* identifiers typed for something new
  NewHomes,    \* addresses typed for a new machine
  Executions,  \* ways of execution typed for it
  Rerouted,    \* kinds of traffic whose routing is edited
  Tuned,       \* services whose RPC binding or addresses are edited
  Dialled,     \* addresses and ports that are advertised, none included
  Targets,     \* services that a proxy's route names
  Listeners,   \* listeners typed for a proxy
  Hostnames,   \* host and public origin typed for a proxy's site
  MaxCount, MaxUndo

VARIABLES original, raw, undo_stack, resolution
vars == <<original, raw, undo_stack, resolution>>

(* What an inventory resolves to when it is opened or reset. *)
Loaded == [doc \in Opened |-> Resolve(doc)]

Init ==
  /\ original \in {doc \in Opened : Loaded[doc] # Rejected}
  /\ raw = original /\ undo_stack = <<>> /\ resolution = Loaded[original]

(* session.apply. *)
Commit(candidate) ==
  /\ Len(undo_stack) < MaxUndo
  /\ LET resolved == Resolve(candidate) IN resolved # Rejected /\ resolution' = resolved
  /\ undo_stack' = Append(undo_stack, raw)
  /\ raw' = candidate
  /\ UNCHANGED original

Undo ==
  /\ undo_stack # <<>>
  /\ undo_stack' = Front(undo_stack) /\ raw' = Last(undo_stack)
  /\ resolution' = Resolve(raw')
  /\ UNCHANGED original

Reset ==
  /\ undo_stack' = <<>> /\ raw' = original /\ resolution' = Loaded[original]
  /\ UNCHANGED original

With(f, id, value) == (id :> value) ++ f
Except(f, id) == Restrict(f, DOMAIN f \ {id})
Without(items, id) == SelectSeq(items, LAMBDA item : item.id # id)
Groups == DOMAIN raw.placement
Networks == Ids(raw.networks)

-----------------------------------------------------------------------------
(* Machines, networks, sites and routes. *)

MoveGroup ==
  \E group \in Groups, machine \in DOMAIN raw.machines :
    Commit([raw EXCEPT !.placement[group] = machine])

AddMachine ==
  \E id \in NewIds \ DOMAIN raw.machines, execution \in Executions,
     addresses \in NewHomes, site \in Ids(raw.sites) \cup {None} :
    /\ execution # "local" => addresses # Empty
    /\ Commit([raw EXCEPT !.machines = With(@, id,
         [execution |-> execution, addresses |-> addresses, site |-> site])])

RemoveMachine ==
  \E id \in DOMAIN raw.machines : Commit([raw EXCEPT !.machines = Except(@, id)])

SetMachineAddress ==
  \E id \in DOMAIN raw.machines, n \in Range(raw.networks) :
    \E address \in Range(Hosts[n.cidr]) :
      /\ raw.machines[id].execution # "local"
      /\ Commit([raw EXCEPT !.machines[id].addresses = With(@, n.id, address)])

SetMachineSite ==
  \E id \in DOMAIN raw.machines, site \in Ids(raw.sites) \cup {None} :
    Commit([raw EXCEPT !.machines[id].site = site])

AddNetwork ==
  \E id \in NewIds \ Networks, kind \in {"lan", "vpn"}, cidr \in DOMAIN Hosts :
    Commit([raw EXCEPT !.networks = Append(@, [id |-> id, kind |-> kind, cidr |-> cidr])])

RemoveNetwork == \E id \in Networks : Commit([raw EXCEPT !.networks = Without(@, id)])

AddSite ==
  \E id \in NewIds \ Ids(raw.sites), lan \in Networks :
    Commit([raw EXCEPT !.sites = Append(@, [id |-> id, lan |-> lan])])

RemoveSite == \E id \in Ids(raw.sites) : Commit([raw EXCEPT !.sites = Without(@, id)])

AddRoute ==
  \E from, to \in Networks :
    /\ from # to /\ <<from, to>> \notin raw.routes
    /\ Commit([raw EXCEPT !.routes = @ \cup {<<from, to>>}])

RemoveRoute == \E route \in raw.routes : Commit([raw EXCEPT !.routes = @ \ {route}])

-----------------------------------------------------------------------------
(* The chain. *)

SetCount(groups, id, count) ==
  [i \in DOMAIN groups |-> IF groups[i].id = id THEN [groups[i] EXCEPT !.count = count] ELSE groups[i]]

SetValidatorCount ==
  \E group \in Ids(raw.validators), count \in 1..MaxCount :
    Commit([raw EXCEPT !.validators = SetCount(@, group, count)])

SetObserverCount ==
  \E group \in Ids(raw.observers), count \in 1..MaxCount :
    Commit([raw EXCEPT !.observers = SetCount(@, group, count)])

AddGroupFirst(groups, group, count) ==   \* mutant: before the others
  <<[id |-> group, count |-> count]>> \o groups

(* A new group is the last of the file, and its instances the last numbers. *)
AddGroup(groups, group, count) == Append(groups, [id |-> group, count |-> count])

AddValidatorGroup ==
  \E group \in NewIds \ (Groups \cup Ids(raw.validators)), machine \in DOMAIN raw.machines,
     count \in 1..MaxCount :
    Commit([raw EXCEPT !.validators = AddGroup(@, group, count),
                       !.placement = With(@, group, machine)])

AddObserverGroup ==
  \E group \in NewIds \ (Groups \cup Ids(raw.observers)), machine \in DOMAIN raw.machines,
     count \in 1..MaxCount :
    Commit([raw EXCEPT !.observers = AddGroup(@, group, count),
                       !.placement = With(@, group, machine)])

RemoveValidatorGroup ==
  \E group \in Ids(raw.validators) :
    Commit([raw EXCEPT !.validators = Without(@, group), !.placement = Except(@, group)])

RemoveObserverGroup ==
  \E group \in Ids(raw.observers) :
    Commit([raw EXCEPT !.observers = Without(@, group), !.placement = Except(@, group)])

AddRpcNode ==
  \E node \in NewIds \ Ids(raw.rpcs), group \in Groups :
    Commit([raw EXCEPT !.rpcs = Append(@, [id |-> node, group |-> group])])

(* The first node that is left becomes the primary one. *)
RemoveRpcNode ==
  \E node \in Ids(raw.rpcs) :
    LET left == Without(raw.rpcs, node) IN
    /\ left # <<>>
    /\ Commit([raw EXCEPT !.rpcs = left,
                          !.primary = IF @ = node THEN left[1].id ELSE @,
                          !.bindings = Restrict(@, {s \in DOMAIN @ : @[s] # node})])

SetPrimaryRpc == \E node \in Ids(raw.rpcs) : Commit([raw EXCEPT !.primary = node])

SetBinding ==
  \E consumer \in Tuned, provider \in Ids(raw.rpcs) \cup Observers(raw) \cup {None} :
    Commit([raw EXCEPT !.bindings =
      IF provider = None THEN Except(@, consumer) ELSE With(@, consumer, provider)])

(* The chain identifier, the observers' permitted lag, the artifact's path, *)
(* QBFT's timing and the label: values that no check relates to another.    *)
SetValue ==
  \E field \in DOMAIN raw.numbers, value \in 1..MaxCount :
    Commit([raw EXCEPT !.numbers[field] = value])

-----------------------------------------------------------------------------
(* Routing, storage and the rest. *)

SetRouting ==
  \E role \in Rerouted, network \in Networks :
    Commit([raw EXCEPT !.routing = With(@, role, [by |-> "name", name |-> network])])

SetLocalityRouting ==
  \E role \in Rerouted, same, cross \in Networks \cup {"site_lan"} :
    Commit([raw EXCEPT !.routing =
      With(@, role, [by |-> "locality", same |-> same, cross |-> cross])])

AddStoragePeer ==
  \E peer \in NewIds \ Ids(raw.peers), group \in Groups :
    Commit([raw EXCEPT !.peers = Append(@, [id |-> peer, group |-> group])])

RemoveStoragePeer == \E peer \in Ids(raw.peers) : Commit([raw EXCEPT !.peers = Without(@, peer)])

SetReplication ==
  \E publish, target \in 1..MaxCount :
    Commit([raw EXCEPT !.replication = [publish |-> publish, target |-> target]])

AddStorageApiReplica ==
  \E id \in NewIds \ Ids(raw.readers), group \in Groups,
     consumers \in (SUBSET ({"resolver-api"} \cup DOMAIN raw.instances)) \ {{}} :
    Commit([raw EXCEPT !.readers =
      Append(@, [id |-> id, group |-> group, consumers |-> consumers])])

RemoveStorageApiReplica ==
  \E id \in Ids(raw.readers) : Commit([raw EXCEPT !.readers = Without(@, id)])

(* A proxy stays with the group of the service that it was put beside. *)
MayLeave(current, group) ==
  \A p \in Range(raw.proxies) : p.group = current => group = current

SetOverride ==
  \E group \in Groups :
    \/ /\ MayLeave(raw.explorer.group, group)
       /\ Commit([raw EXCEPT !.explorer.group = group])
    \/ /\ MayLeave(raw.resolver, group)
       /\ Commit([raw EXCEPT !.resolver = group])

SetProfile ==
  \E profile \in {"local", "lab", "production"} : Commit([raw EXCEPT !.profile = profile])

(* Of the lists with an objective that is not selected, one stands for all. *)
SetAcknowledgements ==
  \E objectives \in (SUBSET raw.objectives) \cup {Objectives} :
    Commit([raw EXCEPT !.acknowledged = objectives])

ServiceIds(inventory) ==
  (DOMAIN Catalogue \ {"edge-proxy"}) \cup Ids(inventory.rpcs) \cup Validators(inventory)
  \cup Observers(inventory) \cup {KuboId(p) : p \in Ids(inventory.peers)}
  \cup {ClusterId(p) : p \in Ids(inventory.peers)} \cup Ids(inventory.proxies)
  \cup DOMAIN inventory.instances \cup Ids(inventory.readers)

SetAdvertise ==
  \E service \in Tuned \cap ServiceIds(raw),
     fields \in Dialled :
    Commit([raw EXCEPT !.networking =
      IF fields = {} THEN Except(@, service) ELSE With(@, service, fields)])

-----------------------------------------------------------------------------
(* The web edge. *)

RouteTargets ==
  Targets \cap ({"dashboard", "explorer", "minter-api", "resolver-api"} \cup DOMAIN raw.instances)

GroupIsApps(group) ==
  group \notin Ids(raw.validators) \cup Ids(raw.observers) \cup {p.group : p \in Range(raw.peers)}

Listens(proxy, listener) ==
  [proxy EXCEPT !.bind = listener.bind, !.network = listener.network, !.port = listener.port]

(* The resolver takes no proxies beside the older access field. *)
AddProxy ==
  \E id \in NewIds \ Ids(raw.proxies), group \in Groups, service \in RouteTargets,
     listener \in Listeners, name \in Hostnames, mode \in {"http", "external"} :
    /\ GroupIsApps(group) /\ raw.access.mode \in {"proxies", None}
    /\ LET site == [host |-> name.host, origin |-> name.origin,
                    routes |-> <<[id |-> id, path |-> "/", service |-> service]>>]
           proxy == [id |-> id, group |-> group, bind |-> None, network |-> None, port |-> 0,
                     tls |-> [mode |-> mode, secrets |-> {}], sites |-> <<site>>]
       IN  Commit([raw EXCEPT !.proxies = Append(@, Listens(proxy, listener)),
                              !.access.mode = "proxies"])

RemoveProxy ==
  \E id \in Ids(raw.proxies) :
    /\ Without(raw.proxies, id) # <<>>
    /\ Commit([raw EXCEPT !.proxies = Without(@, id)])

SetProxyListener ==
  \E p \in DOMAIN raw.proxies, listener \in Listeners :
    /\ listener.network \in Networks \cup {None}
    /\ Commit([raw EXCEPT !.proxies[p] = Listens(@, listener)])

SetProxyTls ==
  \E p \in DOMAIN raw.proxies, mode \in {"http", "external", "direct"} :
    Commit([raw EXCEPT !.proxies[p].tls =
      [mode |-> mode, secrets |-> IF mode = "direct" THEN NewIds ELSE {}]])

SetProxySite ==
  \E p \in DOMAIN raw.proxies, name \in Hostnames :
    \E i \in DOMAIN raw.proxies[p].sites :
      Commit([raw EXCEPT !.proxies[p].sites[i] =
        [@ EXCEPT !.host = name.host, !.origin = name.origin]])

AddProxyRoute ==
  \E p \in DOMAIN raw.proxies, route \in NewIds, path \in {"/", "/new/"},
     service \in RouteTargets :
    \E i \in DOMAIN raw.proxies[p].sites :
      /\ route \notin Ids(raw.proxies[p].sites[i].routes)
      /\ Commit([raw EXCEPT !.proxies[p].sites[i].routes =
           Append(@, [id |-> route, path |-> path, service |-> service])])

RemoveProxyRoute ==
  \E p \in DOMAIN raw.proxies : \E i \in DOMAIN raw.proxies[p].sites :
    LET routes == raw.proxies[p].sites[i].routes IN
    \E route \in Ids(routes) :
      /\ Without(routes, route) # <<>>
      /\ Commit([raw EXCEPT !.proxies[p].sites[i].routes = Without(@, route)])

-----------------------------------------------------------------------------
Place == AddMachine \/ RemoveMachine \/ SetMachineAddress \/ SetMachineSite
         \/ AddNetwork \/ RemoveNetwork \/ AddSite \/ RemoveSite \/ AddRoute \/ RemoveRoute
Renumber == SetValidatorCount \/ SetObserverCount \/ RemoveValidatorGroup \/ RemoveObserverGroup
Serve == AddValidatorGroup \/ AddObserverGroup \/ AddRpcNode \/ RemoveRpcNode \/ SetPrimaryRpc
         \/ SetBinding \/ SetValue \/ AddStoragePeer \/ RemoveStoragePeer \/ SetReplication
         \/ AddStorageApiReplica \/ RemoveStorageApiReplica
Connect == SetRouting \/ SetLocalityRouting \/ SetProfile \/ SetAcknowledgements \/ SetAdvertise
           \/ AddProxy \/ RemoveProxy \/ SetProxyListener \/ SetProxyTls \/ SetProxySite
           \/ AddProxyRoute \/ RemoveProxyRoute
Perform == MoveGroup \/ SetOverride \/ Renumber \/ Place \/ Serve \/ Connect

Next == Perform \/ Undo \/ Reset

Spec == Init /\ [][Next]_vars

-----------------------------------------------------------------------------
(* What an edit must not do. *)

(* An edit that places no group elsewhere, recounts or removes no group of *)
(* the chain, and moves no override leaves every instance that it keeps on *)
(* the machine where it is.  Instances are numbered through their groups,  *)
(* so what is deployed as observer01 must not become another machine's.    *)
InstancesStay ==
  [][ LET edited == Len(undo_stack') > Len(undo_stack)
          placed == \A g \in Groups \cap DOMAIN raw'.placement :
                      raw'.placement[g] = raw.placement[g]
          counted == /\ Range(raw.validators) \subseteq Range(raw'.validators)
                     /\ Range(raw.observers) \subseteq Range(raw'.observers)
          overridden == raw'.explorer # raw.explorer \/ raw'.resolver # raw.resolver
      IN  edited /\ placed /\ counted /\ ~ overridden
            => \A s \in DOMAIN resolution.services \cap DOMAIN resolution'.services :
                 HostOf(resolution', s) = HostOf(resolution, s) ]_vars

(* A draft whose groups hold has a plan: the checks of inventory.py let no *)
(* services need each other in a circle, whatever edits were made.  The    *)
(* plan applies every provider before its consumers and gates every phase  *)
(* once, after the last service of it and before any service of a later    *)
(* one: what the deployment controller takes from a plan without looking.  *)
PlanInOrder == GroupsHold(resolution) => Plannable(resolution) /\ InOrder(resolution)

(* The report on what a deployment survives says of each objective what    *)
(* the resolver decided when it asked for acknowledgements: the two are    *)
(* computed apart, one before and one after the plan.                      *)
AvailabilityAgrees ==
  Plannable(resolution) =>
    LET report == Analyze(resolution)
        all(kind, P(_)) == \A x \in report : x.kind = kind => P(x)
        agrees(objective, holds) == (objective \in Satisfied(resolution)) <=> holds
        continues(x) == x.consensus = "continues"
    IN  /\ agrees("tolerate_validator_individual", all("validator", continues))
        /\ agrees("tolerate_validator_group", all("validator_group", continues))
        /\ agrees("tolerate_machine", all("machine", continues))
        /\ agrees("storage_durable",
             all("machine", LAMBDA x : x.storage \in {"available", "degraded"}))
        /\ agrees("observer_copy", \E s \in DOMAIN resolution.services :
             resolution.services[s].type = "besu-observer")

(* Every Store API reaches the Kubo behind each Cluster it is connected    *)
(* to, on the network it reaches that Cluster on.  The connection is not   *)
(* in the document, so no check of the document sees to it.                *)
StoreReachesKubo ==
  \A s \in OfType(resolution, {"store-api"}) :
    \A c \in Range(resolution.services[s].connections) :
      LET kubo == resolution.services[c.service].connections["kubo"].service IN
      Remote(resolution, s, kubo) => c.network \in Listening(resolution.services[kubo])

(* A service that is not a proxy listens on a network of other machines    *)
(* only if one of them calls it there: a consumer, a peer, or a Store API  *)
(* that reaches a Kubo through its Cluster.                                *)
MinimalExposure ==
  \A t \in DOMAIN resolution.services \ OfType(resolution, {"edge-proxy"}) :
    \A n \in Listening(resolution.services[t]) :
      \/ \E e \in UNION Range(resolution.peerings) : e.to = t /\ e.network = n
      \/ \E s \in DOMAIN resolution.services :
           /\ Remote(resolution, s, t)
           /\ \E c \in Range(resolution.services[s].connections) :
                /\ c.network = n
                /\ t \in {c.service} \cup ProvidersOf(resolution, c.service)

(* What every document that is made from a file is like, and no check of   *)
(* it says: it is finite, its factors are numbers, it has validators and   *)
(* each is listed under a group, and the Kubos, which the resolver names   *)
(* itself, have not taken the name of an application or of the primary RPC.*)
Ordinary(doc) ==
  /\ IsFiniteSet(DOMAIN doc.services) /\ IsFiniteSet(DOMAIN doc.groups)
  /\ \A s \in DOMAIN doc.services : IsFiniteSet(DOMAIN doc.services[s].connections)
  /\ doc.replication.publish \in Nat /\ doc.replication.target \in Nat
  /\ OfType(doc, {"besu-validator"}) # {}
  /\ \A v \in OfType(doc, {"besu-validator"}) : GroupsWith(doc, v) # {}
  /\ OfType(doc, {"ipfs-kubo"}) \cap (Direct \cup {doc.primary}) = {}
OrdinaryDraft == Ordinary(resolution)

(* "A change is committed only when the whole compact inventory still      *)
(* resolves into a valid v3 plan" (session.py): every draft has a plan.    *)
DraftPlans == Plannable(resolution)
=============================================================================
