------------------------------ MODULE MCWizard ------------------------------
(* A small inventory for Wizard, after local-two-site.json of the examples:   *)
(* two sites joined by a VPN, one machine in each.                            *)
EXTENDS Wizard

MCHosts == ("cidr-a" :> <<"a1", "a2">>) @@ ("cidr-b" :> <<"b1">>)
           @@ ("cidr-v" :> <<"v1", "v2", "v3">>)
MCSuffix == ("storage-a" :> "a") @@ ("storage-b" :> "b") @@ ("new" :> "new")

Net(id, kind, cidr) == [id |-> id, kind |-> kind, cidr |-> cidr]
Host(execution, addresses, site) ==
  [execution |-> execution, addresses |-> addresses, site |-> site]
Counted(id, count) == [id |-> id, count |-> count]
In(id, group) == [id |-> id, group |-> group]
BySites == [by |-> "locality", same |-> "site_lan", cross |-> "vpn"]
Local == [host |-> "localhost", origin |-> [scheme |-> "http", host |-> "localhost"]]
Listener(bind, network, port) == [bind |-> bind, network |-> network, port |-> port]
EdgeOf(id, group, port, service) ==
  [id |-> id, group |-> group, bind |-> "loopback", network |-> None, port |-> port,
   tls |-> [mode |-> "http", secrets |-> {}],
   sites |-> <<[host |-> Local.host, origin |-> Local.origin,
                routes |-> <<[id |-> "root", path |-> "/", service |-> service]>>]>>]

Traffic == {"blockchain_p2p", "storage_p2p", "storage_api", "application_api"}

TwoSite ==
  [networks |-> <<Net("lan-a", "lan", "cidr-a"), Net("lan-b", "lan", "cidr-b"),
                  Net("vpn", "vpn", "cidr-v")>>,
   sites |-> <<[id |-> "site-a", lan |-> "lan-a"], [id |-> "site-b", lan |-> "lan-b"]>>,
   routes |-> {},
   machines |-> [near |-> Host("ssh", ("lan-a" :> "a1") @@ ("vpn" :> "v1"), "site-a"),
                 far  |-> Host("ssh", ("lan-b" :> "b1") @@ ("vpn" :> "v2"), "site-b")],
   placement |-> ("apps" :> "near") @@ ("chain" :> "near") @@ ("watch" :> "far") @@
                 ("store-a" :> "near") @@ ("store-b" :> "far"),
   validators |-> <<Counted("chain", 2)>>,
   observers |-> <<Counted("watch", 1)>>,
   rpcs |-> <<In("rpc01", "apps")>>, primary |-> "rpc01",
   bindings |-> ("resolver-api" :> "observer01"),
   peers |-> <<In("storage-a", "store-a"), In("storage-b", "store-b")>>,
   replication |-> [publish |-> 1, target |-> 1],
   readers |-> <<[id |-> "reader", group |-> "watch", consumers |-> {"resolver-api"}]>>,
   instances |-> Empty, explorer |-> [enabled |-> TRUE, group |-> None],
   resolver |-> "watch", access |-> [mode |-> "proxies", bind |-> None, network |-> None, port |-> 0],
   proxies |-> <<EdgeOf("gateway", "apps", 80, "dashboard"),
                 EdgeOf("edge", "watch", 8080, "resolver-api")>>,
   routing |-> [r \in Traffic |-> BySites], networking |-> Empty,
   profile |-> "lab", objectives |-> {"tolerate_machine"},
   acknowledged |-> {"tolerate_machine"}, numbers |-> [chain_id |-> 1]]

MCOpened == {TwoSite}
MCNewIds == {"new"}
MCNewHomes == {("lan-a" :> "a2") @@ ("vpn" :> "v3")}
MCTuned == {"resolver-api", "cluster-storage-b"}
MCExecutions == {"ssh", "local"}
MCRerouted == {"storage_api", "storage_p2p"}
MCDialled == {{}, {"advertise_address"}, {"p2p_advertise_port"}}
MCTargets == {"dashboard", "resolver-api"}
MCListeners == {Listener("public", None, 80), Listener("private", "vpn", 80)}
MCHostnames == {Local, [host |-> "example", origin |-> [scheme |-> "https", host |-> "example"]]}
=============================================================================
