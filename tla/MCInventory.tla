---------------------------- MODULE MCInventory ----------------------------
(* A small cloud with one entity or two of every kind, for TLC. *)
EXTENDS Inventory

MCHostId == [nodeA |-> "nodeA", nodeB |-> "nodeB"] @@ ("nodeA.example.com" :> "nodeA")

Server(id, power, image) ==
    [id |-> id, flavor |-> "f1", tenant |-> "t1", image |-> image, power |-> power]
Hypervisor(id, host, servers) == [id |-> id, host |-> host, servers |-> servers, vmware |-> FALSE]
Volume(id, instance) ==
    [id |-> id, instance |-> instance, tenant |-> {"t1"}, type |-> {"fast"}]
Port(id, owner, device) ==
    [id |-> id, network |-> "n1", tenant |-> {"t1"}, owner |-> owner, device |-> device,
     subnets |-> {"sn1"}]
Network(id, tenant) == [id |-> id, tenant |-> tenant]
Router(id, gateway, subnets) ==
    [id |-> id, tenant |-> "t2", gateway |-> gateway, gatewaySubnets |-> subnets]
FloatingIp(id, router, port) ==
    [id |-> id, network |-> "n1", tenant |-> "t1", router |-> router, port |-> port]
Snapshot(id) == [id |-> id, volume |-> {"v1"}, tenant |-> {"t1"}]

\* Tenant t2 is disabled and still referred to.
SmallCloud == [
    tenants |-> {[id |-> "t1", enabled |-> TRUE], [id |-> "t2", enabled |-> FALSE]},
    flavors |-> {[id |-> "f1", public |-> TRUE], [id |-> "f2", public |-> FALSE]},
    images |-> {[id |-> "i1"]},
    hypervisors |-> {Hypervisor("h1", "nodeA.example.com", {"s1"}), Hypervisor("h2", "nodeB", {})},
    servers |-> {Server("s1", "running", {"i1"})},
    services |-> {[id |-> "1", binary |-> "nova-compute", host |-> "nodeA", zone |-> {"z1"}]},
    agents |-> {[id |-> "a1", kind |-> "l3", host |-> "nodeA", zone |-> {}, serves |-> {"r1"}],
                [id |-> "a2", kind |-> "dhcp", host |-> "nodeA", zone |-> {"z1"}, serves |-> {"n1"}]},
    networks |-> {Network("n1", "t2")},
    subnets |-> {[id |-> "sn1", network |-> "n1", tenant |-> "t2"]},
    routers |-> {Router("r1", {"n1"}, {"sn1"})},
    ports |-> {Port("p1", "compute", {"s1"}), Port("p2", "router_interface", {"r1"})},
    floatingips |-> {FloatingIp("fip1", {"r1"}, {"p1"})},
    volumetypes |-> {[id |-> "vt1", name |-> "fast"]},
    volumes |-> {Volume("v1", {"s1"})},
    volsnapshots |-> {},
    cinder_services |-> {[id |-> "c1", binary |-> "cinder-volume", host |-> "ceph@ceph", zone |-> {"z1"}],
                         [id |-> "c2", binary |-> "cinder-scheduler", host |-> "nodeB", zone |-> {}]},
    volume_pools |-> {[id |-> "pl1", name |-> "pl1"]}]
MCClouds == {SmallCloud}

Change(list, out, in, type, traits) ==
    [list |-> list, out |-> out, in |-> in, event |-> [type |-> type, traits |-> traits]]
Silent(list, out, in) == Change(list, out, in, "none", NoRefs)

\* The traits of a notification of each kind, as the tests of events.py post them.
ServerTraits(s, state) ==
    [instance_id |-> {s.id}, tenant_id |-> {s.tenant}, instance_type |-> {s.flavor},
     image_name |-> s.image, host_name |-> {"nodeA"}, state |-> {state}]
PortTraits(p) ==
    [id |-> {p.id}, tenant_id |-> p.tenant, network_id |-> {p.network},
     device_id |-> p.device, device_owner |-> {p.owner}, fixed_ips |-> p.subnets]
FloatingIpTraits(f) ==
    [id |-> {f.id}, tenant_id |-> {f.tenant}, floating_network_id |-> {f.network}]
    @@ Given("router_id", f.router) @@ Given("port_id", f.port)

MCEdits == {
    LET s == Server("s2", "running", {}) IN
    Change("servers", {}, {s}, "compute.instance.create.start",
           [instance_id |-> {"s2"}, tenant_id |-> {"t1"}, flavor_name |-> {"f1"}, state |-> {"building"}]),
    Change("hypervisors", {Hypervisor("h1", "nodeA.example.com", {"s1"}), Hypervisor("h2", "nodeB", {})},
           {Hypervisor("h1", "nodeA.example.com", {}), Hypervisor("h2", "nodeB", {"s1"})},
           "compute.instance.live_migration._post.end", [instance_id |-> {"s1"}, host |-> {"nodeB"}]),
    LET s == Server("s1", "shutdown", {"i1"}) IN
    Change("servers", {Server("s1", "running", {"i1"})}, {s},
           "compute.instance.power_off.end", ServerTraits(s, "stopped")),
    Change("volumes", {Volume("v1", {"s1"})}, {Volume("v1", {})},
           "volume.detach.end", [volume_id |-> {"v1"}, tenant_id |-> {"t1"}]),
    Change("volsnapshots", {}, {Snapshot("sp1")}, "snapshot.create.end",
           [snapshot_id |-> {"sp1"}, tenant_id |-> {"t1"}, volume_id |-> {"v1"}]),
    LET p == Port("p3", "compute", {"s1"}) IN
    Change("ports", {}, {p}, "port.create.end", PortTraits(p)),
    LET f == FloatingIp("fip1", {}, {}) IN
    Change("floatingips", {FloatingIp("fip1", {"r1"}, {"p1"})}, {f},
           "floatingip.update.end", FloatingIpTraits(f)),
    Change("floatingips", {FloatingIp("fip1", {"r1"}, {"p1"})}, {},
           "floatingip.delete.end", [id |-> {"fip1"}]),
    Change("networks", {}, {Network("n2", "t3")}, "network.create.end",
           [id |-> {"n2"}, tenant_id |-> {"t3"}]),
    Change("routers", {Router("r1", {"n1"}, {"sn1"})}, {Router("r1", {"n1"}, {})},
           "router.update.end",
           [id |-> {"r1"}, tenant_id |-> {"t2"}, gateway |-> {"n1"}, gateway_subnets |-> {}]),
    Silent("tenants", {[id |-> "t1", enabled |-> TRUE]}, {[id |-> "t1", enabled |-> FALSE]}) }

=============================================================================
