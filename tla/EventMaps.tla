----------------------------- MODULE EventMaps -----------------------------
(***************************************************************************)
(* The mapping functions of events.py: what one notification of OpenStack  *)
(* changes in the model.  An event is [type |-> t, traits |-> f], where f  *)
(* maps the names of the traits it carries to sets of values: a reference  *)
(* is a set with at most one uid, a list of references a set of uids.      *)
(*                                                                         *)
(* A map is [id |-> component, set |-> setter -> values, host |-> hosts,   *)
(* do |-> d].  With d = "update" it changes a component that exists, with  *)
(* "add" it creates the component first when it is missing, with "remove"  *)
(* it deletes it.  "host" is what set_host_name was given: the relation    *)
(* that changes is not the component's own but one of the hypervisor on    *)
(* that host.  No map is <<>>, and a map m is <<m>>.                       *)
(***************************************************************************)
EXTENDS ModelerMaps

Has(e, trait) == trait \in DOMAIN e.traits

\* The only value of a trait that names one thing.
Value(e, trait) == CHOOSE v \in e.traits[trait] : TRUE

\* The component named by the first of the traits the event carries; none
\* when it carries none of them.
make_id(e, kind, traits) ==
    LET carried == SelectSeq(traits, LAMBDA t : Has(e, t))
    IN  IF carried = <<>> THEN {} ELSE {<<kind, Value(e, Head(carried))>>}

instance_id(e)    == make_id(e, "server", <<"instance_id", "resource_id">>)
floatingip_id(e)  == make_id(e, "floatingip", <<"id", "resource_id">>)
network_id(e)     == make_id(e, "network", <<"id", "resource_id">>)
port_id(e)        == make_id(e, "port", <<"id", "resource_id">>)
router_id(e)      == make_id(e, "router", <<"id", "resource_id">>)
subnet_id(e)      == make_id(e, "subnet", <<"id", "resource_id">>)
volume_id(e)      == make_id(e, "volume", <<"volume_id", "resource_id">>)
volsnapshot_id(e) == make_id(e, "volsnapshot", <<"snapshot_id", "resource_id">>)

\* The map of a component, if the event names it.
ForComponent(ids, set, do) ==
    IF ids = {} THEN <<>> ELSE <<[id |-> CHOOSE i \in ids : TRUE, set |-> set, host |-> {}, do |-> do]>>

\* set_<relation> from a trait, if the event carries it; a trait without a
\* value clears the relation.
_apply_trait_rel(e, trait, setter, kind) ==
    IF Has(e, trait) THEN [s \in {setter} |-> Ids(kind, e.traits[trait])] ELSE NoRefs

TenantRel(e) == _apply_trait_rel(e, "tenant_id", "tenant", "tenant")

-----------------------------------------------------------------------------
(* Instances. *)

\* The power state that goes with a VM state; other states say nothing.
PowerOfState == [active |-> "running", building |-> "running", paused |-> "paused",
                 suspended |-> "suspended", stopped |-> "shutdown", deleted |-> "shutdown",
                 shelved |-> "shutdown", shelved_offloaded |-> "shutdown"]

\* One setter of two traits: of those an event carries, the order of a
\* dictionary decides which is set last.
OneOf(e, traits) == {t \in traits : Has(e, t)}
_apply_either(e, traits, setter, kind) ==
    IF OneOf(e, traits) = {} THEN NoRefs
    ELSE _apply_trait_rel(e, CHOOSE t \in OneOf(e, traits) : TRUE, setter, kind)

\* Flavor and image are given by name.
_apply_instance_traits(e) ==
    _apply_either(e, {"flavor_name", "instance_type"}, "flavor_name", "flavor")
    ++ _apply_trait_rel(e, "image_name", "image_name", "image")
    ++ TenantRel(e)
    ++ (IF Has(e, "state") /\ Value(e, "state") \in DOMAIN PowerOfState
        THEN [powerState |-> {<<"power", PowerOfState[Value(e, "state")]>>}] ELSE NoRefs)

\* set_host_name, in the map of an instance.
OnHost(e, map) ==
    IF map = <<>> \/ OneOf(e, {"host_name", "host"}) = {} THEN map
    ELSE LET trait == CHOOSE t \in OneOf(e, {"host_name", "host"}) : TRUE
         IN  <<[map[1] EXCEPT !.host = Ids("host", e.traits[trait])]>>

InstanceMap(e, set, do) == OnHost(e, ForComponent(instance_id(e), set, do))

instance_create(e) == InstanceMap(e, _apply_instance_traits(e), "add")
instance_update(e) == InstanceMap(e, _apply_instance_traits(e), "update")
instance_delete(e) == ForComponent(instance_id(e), NoRefs, "remove")

\* The handlers that know the power state whatever the traits say.
instance_power(e, power) ==
    InstanceMap(e, [powerState |-> {<<"power", power>>}] ++ _apply_instance_traits(e), "update")
instance_powered_on(e)  == instance_power(e, "running")
instance_powered_off(e) == instance_power(e, "shutdown")
instance_suspended(e)   == instance_power(e, "suspended")

-----------------------------------------------------------------------------
(* Networks.  A creation is an update that may create. *)

OrAdd(map) == IF map = <<>> THEN <<>> ELSE <<[map[1] EXCEPT !.do = "add"]>>

floatingip_update(e) == ForComponent(floatingip_id(e),
    TenantRel(e)
    ++ _apply_trait_rel(e, "floating_network_id", "network", "network")
    ++ _apply_trait_rel(e, "router_id", "router", "router")
    ++ _apply_trait_rel(e, "port_id", "port", "port"), "update")
floatingip_create(e)     == OrAdd(floatingip_update(e))
floatingip_delete_end(e) == ForComponent(floatingip_id(e), NoRefs, "remove")

network_update(e)     == ForComponent(network_id(e), TenantRel(e), "update")
network_create(e)     == OrAdd(network_update(e))
network_delete_end(e) == ForComponent(network_id(e), NoRefs, "remove")

\* The instance of a port is set to none when it does not belong to compute.
port_update(e) == ForComponent(port_id(e),
    TenantRel(e)
    ++ _apply_trait_rel(e, "network_id", "network", "network")
    ++ (IF Has(e, "device_id") /\ Has(e, "device_owner")
        THEN [instance |-> get_port_instance([owner |-> Value(e, "device_owner"),
                                              device |-> e.traits["device_id"]])]
        ELSE NoRefs)
    ++ _apply_trait_rel(e, "fixed_ips", "subnets", "subnet"), "update")
port_create(e)     == OrAdd(port_update(e))
port_delete_end(e) == ForComponent(port_id(e), NoRefs, "remove")

\* make_id is called without traits to try, so it finds no network: the
\* relation is cleared, whatever the gateway's network is.
_apply_router_gateway_info(e) ==
    IF Has(e, "gateway") /\ e.traits["gateway"] # {}
    THEN [network |-> {}, subnets |-> Ids("subnet", e.traits["gateway_subnets"])]
    ELSE NoRefs

router_update(e) ==
    ForComponent(router_id(e), TenantRel(e) ++ _apply_router_gateway_info(e), "update")
router_create(e)     == OrAdd(router_update(e))
router_delete_end(e) == ForComponent(router_id(e), NoRefs, "remove")

subnet_update(e) == ForComponent(subnet_id(e),
    TenantRel(e) ++ _apply_trait_rel(e, "network_id", "network", "network"), "update")
subnet_create(e)     == OrAdd(subnet_update(e))
subnet_delete_end(e) == ForComponent(subnet_id(e), NoRefs, "remove")

-----------------------------------------------------------------------------
(* Volumes and snapshots. *)

CinderTenantRel(e) ==
    IF Has(e, "tenant_id") THEN TenantRel(e)
    ELSE _apply_trait_rel(e, "project_id", "tenant", "tenant")

\* A mutant: a detachment is an update like another.
volume_update_NoDetach(e) == ForComponent(volume_id(e),
    CinderTenantRel(e)
    ++ (IF Has(e, "instance_id") THEN [instance |-> Ids("server", e.traits["instance_id"])] ELSE NoRefs)
    ++ _apply_trait_rel(e, "type", "volType", "volType"), "update")

\* A detachment clears the instance, whatever the traits say; the type of a
\* volume event is the uuid of the type.
volume_update(e) == ForComponent(volume_id(e),
    CinderTenantRel(e)
    ++ (IF e.type = "volume.detach.end" THEN [instance |-> {}]
        ELSE IF Has(e, "instance_id") /\ e.traits["instance_id"] # {}
        THEN [instance |-> Ids("server", e.traits["instance_id"])] ELSE NoRefs)
    ++ _apply_trait_rel(e, "type", "volType", "volType"), "update")
volume_create(e)     == OrAdd(volume_update(e))
volume_delete_end(e) == ForComponent(volume_id(e), NoRefs, "remove")

volsnapshot_create(e) == ForComponent(volsnapshot_id(e),
    CinderTenantRel(e) ++ _apply_trait_rel(e, "volume_id", "volume", "volume"), "add")
volsnapshot_delete_end(e) == ForComponent(volsnapshot_id(e), NoRefs, "remove")

-----------------------------------------------------------------------------
\* The events of an instance after which only its traits are updated.
InstanceUpdates == {"compute.instance." \o t : t \in {
    "create.end", "create.error", "update", "live_migration._post.end", "reboot.start",
    "reboot.end", "shutdown.start", "rebuild.start", "rebuild.end", "rescue.end",
    "unrescue.end", "finish_resize.end", "resize.revert.end", "resize.end"}}

\* MAPPERS: an event of any other type has no map.
map_event(e) ==
    CASE e.type = "compute.instance.create.start"  -> instance_create(e)
      [] e.type \in InstanceUpdates                -> instance_update(e)
      [] e.type = "compute.instance.delete.end"    -> instance_delete(e)
      [] e.type \in {"compute.instance.power_on.end", "compute.instance.resume"}
                                                   -> instance_powered_on(e)
      [] e.type \in {"compute.instance.power_off.end", "compute.instance.shutdown.end"}
                                                   -> instance_powered_off(e)
      [] e.type = "compute.instance.suspend"       -> instance_suspended(e)
      [] e.type = "floatingip.create.end"          -> floatingip_create(e)
      [] e.type \in {"floatingip.update.start", "floatingip.update.end"}
                                                   -> floatingip_update(e)
      [] e.type = "floatingip.delete.end"          -> floatingip_delete_end(e)
      [] e.type = "network.create.end"             -> network_create(e)
      [] e.type = "network.update.end"             -> network_update(e)
      [] e.type = "network.delete.end"             -> network_delete_end(e)
      [] e.type = "port.create.end"                -> port_create(e)
      [] e.type = "port.update.end"                -> port_update(e)
      [] e.type = "port.delete.end"                -> port_delete_end(e)
      [] e.type = "router.create.end"              -> router_create(e)
      [] e.type = "router.update.end"              -> router_update(e)
      [] e.type = "router.delete.end"              -> router_delete_end(e)
      [] e.type = "subnet.create.end"              -> subnet_create(e)
      [] e.type = "subnet.update.end"              -> subnet_update(e)
      [] e.type = "subnet.delete.end"              -> subnet_delete_end(e)
      [] e.type = "volume.create.end"              -> volume_create(e)
      [] e.type \in {"volume.update.end", "volume.attach.end", "volume.detach.end"}
                                                   -> volume_update(e)
      [] e.type = "volume.delete.end"              -> volume_delete_end(e)
      [] e.type = "snapshot.create.end"            -> volsnapshot_create(e)
      [] e.type = "snapshot.delete.end"            -> volsnapshot_delete_end(e)
      [] OTHER                                     -> <<>>

=============================================================================
