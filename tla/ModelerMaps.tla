---------------------------- MODULE ModelerMaps ----------------------------
(***************************************************************************)
(* The mapping functions of the modeler: what OpenStackInfrastructure.     *)
(* process() makes of the answers collect() gathered.  "results" holds one *)
(* set per API call; an entity is a record of the fields the mapping       *)
(* reads, an optional field a set with at most one element.  Titles, sizes *)
(* and most states are left out: what is kept is which components a cycle  *)
(* reports, which components each of them refers to, and the power state   *)
(* of instances, which the events report too.                              *)
(*                                                                         *)
(* An object map is [id |-> component, set |-> setter -> components]; a    *)
(* setter missing from "set" leaves its relation as it is.                 *)
(***************************************************************************)
EXTENDS FiniteSets, Sequences, SequencesExt

CONSTANTS
    Region,         \* device.zOpenStackRegionName
    HostId,         \* host reference -> host id: what the host map of the cycle says
    IgnoredHosts,   \* cinder-volume host references that match host_ignore_pattern
    NovaApiHosts,   \* device.zOpenStackNovaApiHosts
    CinderApiHosts, \* device.zOpenStackCinderApiHosts
    ExtraHosts,     \* device.zOpenStackExtraHosts
    ExtraApiEndpoints \* device.zOpenStackExtraApiEndpoints

NoRefs == [r \in {} |-> {}]

ObjectMap(id, set) == [id |-> id, set |-> set]

\* prepId('<kind>-<uid>') of every uid of a set.
Ids(kind, uids) == {<<kind, u>> : u \in uids}

\* A setter that is only called when there is something to set.
Given(setter, refs) == [s \in IF refs = {} THEN {} ELSE {setter} |-> refs]

\* The setters of two maps.
f ++ g == [s \in DOMAIN f \cup DOMAIN g |-> IF s \in DOMAIN f THEN f[s] ELSE g[s]]

RegionId == <<"region", Region>>

-----------------------------------------------------------------------------
(* Tenants, region, zones, flavors and images. *)

process_quota_tenants(results) == {t.id : t \in {x \in results.tenants : x.enabled}}

map_tenants(results) ==
    {ObjectMap(<<"tenant", t>>, NoRefs) : t \in process_quota_tenants(results)}

map_regions == {ObjectMap(RegionId, NoRefs)}

\* Cinder services have no id, so only nova services make zones.
map_zones(results) ==
    {ObjectMap(<<"zone", z>>, [parentOrg |-> {RegionId}]) :
        z \in UNION {s.zone : s \in results.services}}

map_flavors(results) == {ObjectMap(<<"flavor", f.id>>, NoRefs) : f \in results.flavors}

map_images(results) == {ObjectMap(<<"image", i.id>>, NoRefs) : i \in results.images}

-----------------------------------------------------------------------------
(* Hypervisors, servers, hosts. *)

\* An answer that was lost left an empty list where the mapping wants a dictionary.
HypervisorsUnreadable(results) ==
    \E h \in results.hypervisors : h.id \in results.hypervisor_details_lost

map_hypervisors(results) ==
    {ObjectMap(<<"hypervisor", h.id>>,
               [instances |-> Ids("server", h.servers)]
               ++ Given("hostByName", IF h.vmware THEN {} ELSE {<<"host", HostId[h.host]>>})) :
        h \in results.hypervisors}

\* A mutant: the power state is left to the events.
map_servers_PowerByEvents(results) ==
    {ObjectMap(<<"server", s.id>>,
               [flavor |-> {<<"flavor", s.flavor>>}, tenant |-> {<<"tenant", s.tenant>>}]
               ++ Given("image", Ids("image", s.image))) :
        s \in results.servers}

map_servers(results) ==
    {ObjectMap(<<"server", s.id>>,
               [flavor |-> {<<"flavor", s.flavor>>}, tenant |-> {<<"tenant", s.tenant>>},
                powerState |-> {<<"power", s.power>>}]
               ++ Given("image", Ids("image", s.image))) :
        s \in results.servers}

\* The host of a service after replace_hosts_with_ids: none for a reference
\* the host map was not given.
HostsOf(s) == IF s.host \in IgnoredHosts /\ s.binary = "cinder-volume"
              THEN {} ELSE {HostId[s.host]}

ConfiguredHosts == {HostId[h] : h \in NovaApiHosts \cup CinderApiHosts \cup ExtraHosts}

\* The hosts with another source than the URL of an API.
SourcedHosts(results) ==
    ConfiguredHosts
    \cup {HostId[x.host] : x \in results.services \cup results.agents}
    \cup UNION {HostsOf(s) : s \in results.cinder_services}

\* The host's zone: that of a nova service on it, else of a cinder service,
\* else the region.  Which of several is taken depends on the API's order.
getHostOrgComponent(host, results) ==
    LET Zones(services) == UNION {s.zone : s \in {x \in services : HostsOf(x) = {host}}}
        nova   == Zones(results.services)
        cinder == Zones(results.cinder_services)
    IN  CASE nova # {}                 -> <<"zone", CHOOSE z \in nova : TRUE>>
          [] nova = {} /\ cinder # {}  -> <<"zone", CHOOSE z \in cinder : TRUE>>
          [] OTHER                     -> RegionId

map_hosts(results) ==
    {ObjectMap(<<"host", h>>, [orgComponent |-> {getHostOrgComponent(h, results)}]) :
        h \in SourcedHosts(results)}

-----------------------------------------------------------------------------
(* Nova, cinder and neutron services. *)

\* The name and the id of a service's zone; a service without one gets the region's.
getServiceZoneNameId(s) ==
    IF s.zone = {} THEN <<Region, RegionId>>
    ELSE LET z == CHOOSE z \in s.zone : TRUE IN <<z, <<"zone", z>>>>

Software(id, hosts, org) ==
    ObjectMap(id, [hostedOn |-> Ids("host", hosts), orgComponent |-> {org}])

ServiceId(s) == <<"service", s.binary, HostsOf(s), getServiceZoneNameId(s)[1]>>
ServiceMap(s) == Software(ServiceId(s), HostsOf(s), getServiceZoneNameId(s)[2])

\* The hosts of the API service "binary": configured, seen in the list of
\* services, or named by the API's URL and known.
process_api_hosts(results, binary, configured, services, url) ==
    {HostId[h] : h \in configured}
    \cup {HostId[s.host] : s \in {x \in services : x.binary = binary}}
    \cup ({HostId[h] : h \in url} \cap SourcedHosts(results))

ApiServices(binary, hosts) ==
    {Software(<<"service", binary, {h}, Region>>, {h}, RegionId) : h \in hosts}

nova_api_hosts(results) ==
    process_api_hosts(results, "nova-api", NovaApiHosts, results.services, results.nova_url)

map_nova_services(results) ==
    {ServiceMap(s) : s \in {x \in results.services : x.binary # "nova-api"}}
    \cup ApiServices("nova-api", nova_api_hosts(results))

\* The host map the API hosts are looked up in is only bound in the loop over
\* the services of nova: without any of them it is an unbound local.
HostMapUnbound(results) == results.services = {} /\ nova_api_hosts(results) # {}

\* cinder_api_hosts is a set: appending a host to it raises an AttributeError.
CinderApiUnlisted(results) ==
    \E s \in results.cinder_services :
        s.binary = "cinder-api" /\ HostId[s.host] \notin {HostId[h] : h \in CinderApiHosts}

map_cinder_services(results) ==
    {ServiceMap(s) : s \in results.cinder_services}
    \cup ApiServices("cinder-api",
            process_api_hosts(results, "cinder-api", CinderApiHosts, {}, results.cinder_url))

\* Routers, networks and subnets are what the agent's own call answered.
map_agents(results) ==
    LET Served(a, what) == UNION {s[what] : s \in {x \in results.served : x.agent = a.id}}
    IN  {ObjectMap(<<"agent", a.id>>,
               [routers |-> Ids("router", Served(a, "routers")),
                networks |-> Ids("network", Served(a, "networks")),
                subnets |-> Ids("subnet", Served(a, "subnets")),
                hostedOn |-> {<<"host", HostId[a.host]>>},
                orgComponent |-> IF a.zone # {} THEN Ids("zone", a.zone)
                                 ELSE {getHostOrgComponent(HostId[a.host], results)}]) :
            a \in results.agents}

-----------------------------------------------------------------------------
(* Networks. *)

map_networks(results) ==
    {ObjectMap(<<"network", n.id>>, [tenant |-> {<<"tenant", n.tenant>>}]) :
        n \in results.networks}

map_subnets(results) ==
    {ObjectMap(<<"subnet", s.id>>,
               [network |-> {<<"network", s.network>>}, tenant |-> {<<"tenant", s.tenant>>}]) :
        s \in results.subnets}

\* utils.get_port_instance: the server of a port that belongs to compute.
get_port_instance(p) == IF p.owner = "compute" THEN Ids("server", p.device) ELSE {}

map_ports(results) ==
    {ObjectMap(<<"port", p.id>>,
               Given("subnets", Ids("subnet", p.subnets))
               ++ Given("tenant", Ids("tenant", p.tenant))
               ++ Given("instance", get_port_instance(p))
               ++ Given("network", {<<"network", p.network>>})
               ++ Given("router", IF p.owner = "router_interface"
                                  THEN Ids("router", p.device) ELSE {})) :
        p \in results.ports}

\* What map_ports leaves for the routers: the subnets of a device's ports.
process_device_subnet_list(results, device) ==
    UNION {p.subnets : p \in {x \in results.ports : device \in x.device}}

map_routers(results) ==
    {ObjectMap(<<"router", r.id>>,
               [tenant |-> {<<"tenant", r.tenant>>}]
               ++ Given("network", Ids("network", r.gateway))
               ++ Given("subnets", Ids("subnet", process_device_subnet_list(results, r.id)
                                                 \cup r.gatewaySubnets))) :
        r \in results.routers}

map_floatingips(results) ==
    {ObjectMap(<<"floatingip", f.id>>,
               [network |-> {<<"network", f.network>>}, tenant |-> {<<"tenant", f.tenant>>}]
               ++ Given("router", Ids("router", f.router))
               ++ Given("port", Ids("port", f.port))) :
        f \in results.floatingips}

-----------------------------------------------------------------------------
(* Volumes, quotas, endpoints. *)

map_voltypes(results) == {ObjectMap(<<"volType", v.id>>, NoRefs) : v \in results.volumetypes}

\* The type of a volume is reported by name, and looked up among the types.
map_volumes(results) ==
    LET TypesNamed(names) == {t \in results.volumetypes : t.name \in names}
        First(types) == IF types = {} THEN {} ELSE {(CHOOSE t \in types : TRUE).id}
    IN  {ObjectMap(<<"volume", v.id>>,
               Given("instance", Ids("server", v.instance))
               ++ Given("tenant", Ids("tenant", v.tenant))
               ++ Given("volType", Ids("volType", First(TypesNamed(v.type))))) :
            v \in results.volumes}

map_volumesnapshots(results) ==
    {ObjectMap(<<"snapshot", s.id>>,
               Given("volume", Ids("volume", s.volume))
               ++ Given("tenant", Ids("tenant", s.tenant))) :
        s \in results.volsnapshots}

map_pools(results) == {ObjectMap(<<"pool", p.name>>, NoRefs) : p \in results.volume_pools}

\* Only for the tenants keystone reported and enabled.
map_quotas(results) ==
    {ObjectMap(<<"quota", t>>, [tenant |-> {<<"tenant", t>>}]) :
        t \in results.quotas \cap process_quota_tenants(results)}

map_api_endpoints == {ObjectMap(<<"apiendpoint", "zOpenStackAuthUrl">>, NoRefs)}

-----------------------------------------------------------------------------
(* process() *)

\* hashlib.new() wants the name of an algorithm: with any extra endpoint
\* map_api_endpoints raises.
process_raises(results) ==
    \/ HypervisorsUnreadable(results)
    \/ CinderApiUnlisted(results)
    \/ HostMapUnbound(results)
    \/ ExtraApiEndpoints # {}

\* The maps in the order they are applied, without the dummy tenants.
DiscoveredMaps(results) == <<
    map_tenants(results), map_regions, map_flavors(results), map_images(results),
    map_servers(results), map_zones(results), map_hosts(results), map_hypervisors(results),
    map_nova_services(results) \cup map_cinder_services(results),
    map_networks(results), map_subnets(results), map_routers(results), map_ports(results),
    map_agents(results), map_floatingips(results), map_voltypes(results),
    map_volumes(results), map_volumesnapshots(results), map_pools(results),
    map_quotas(results), map_api_endpoints >>

AllMaps(maps) == UNION {maps[i] : i \in 1..Len(maps)}

\* Tenants that a component refers to and keystone did not report.
DummyTenants(maps) ==
    LET known == {m.id : m \in maps[1]}
        all   == UNION {m.set["tenant"] : m \in {x \in AllMaps(maps) : "tenant" \in DOMAIN x.set}}
    IN  {ObjectMap(t, NoRefs) : t \in all \ known}

\* Mutants: without dummy tenants, and hypervisors before their hosts.
process_NoDummies(results) == DiscoveredMaps(results)
process_HypervisorsFirst(results) ==
    LET maps == DiscoveredMaps(results)
    IN  [maps EXCEPT ![1] = @ \cup DummyTenants(maps), ![7] = maps[8], ![8] = maps[7]]

process(results) ==
    LET maps == DiscoveredMaps(results) IN [maps EXCEPT ![1] = @ \cup DummyTenants(maps)]

=============================================================================
