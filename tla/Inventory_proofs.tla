-------------------------- MODULE Inventory_proofs --------------------------
(***************************************************************************)
(* A cycle of the modeler reports what was there, for whatever clouds,     *)
(* changes of them and losses: ComponentsReported and ReferencesReported.  *)
(*                                                                         *)
(* In three parts.  What the mappings and ApplyDataMap make of any answers *)
(* is a matter of the operators alone.  What the answers are is the        *)
(* inductive invariant: at each call of the plan, the lists before it are  *)
(* each at most what one cloud of the cycle had and, unless their call was *)
(* lost, at least what one had; those after it are empty; and of each      *)
(* agent and tenant there is an answer or a call still to be made.  The    *)
(* promises follow by going from an entity that was there all the time to  *)
(* its list, its map and the reference, and back.                          *)
(***************************************************************************)
EXTENDS Inventory, FiniteSetTheorems, TLAPS

\* All that the setters of a map say: <<relation, component>>.
Sets(f) == UNION {{<<RelationOf(s), t>> : t \in f[s]} : s \in DOMAIN f}

\* A setter is there just when there is something to set.
LEMMA GivenSets ==
    ASSUME NEW setter, NEW refs
    PROVE  /\ DOMAIN Given(setter, refs) = IF refs = {} THEN {} ELSE {setter}
           /\ DOMAIN Given(setter, refs) \subseteq {setter}
           /\ refs # {} => Given(setter, refs)[setter] = refs
  BY DEF Given

\* The ids a setter is given are the references of its relation.
LEMMA IdsRefs ==
    ASSUME NEW relation, NEW kind, NEW uids
    PROVE  {<<relation, t>> : t \in Ids(kind, uids)} = Refs(relation, kind, uids)
  BY DEF Ids, Refs

\* What a conditional setter says.
LEMMA SetsOfGiven ==
    ASSUME NEW setter, NEW kind, NEW uids
    PROVE  Sets(Given(setter, Ids(kind, uids))) = Refs(RelationOf(setter), kind, uids)
<1>1. ASSUME NEW refs
      PROVE  Sets(Given(setter, refs)) = {<<RelationOf(setter), t>> : t \in refs}
  <2>1. CASE refs = {}
    <3>1. DOMAIN Given(setter, refs) = {}
      BY <2>1, GivenSets
    <3> QED
      BY <2>1, <3>1 DEF Sets
  <2>2. CASE refs # {}
    <3>1. /\ DOMAIN Given(setter, refs) = {setter}
          /\ Given(setter, refs)[setter] = refs
      BY <2>2, GivenSets
    <3> QED
      BY <3>1 DEF Sets
  <2> QED
    BY <2>1, <2>2
<1>2. {<<RelationOf(setter), t>> : t \in Ids(kind, uids)} = Refs(RelationOf(setter), kind, uids)
  BY IdsRefs
<1> QED
  BY <1>1, <1>2

\* A map without setters says nothing.
LEMMA SetsOfNone ==
    /\ Sets(NoRefs) = {}
    /\ DOMAIN NoRefs = {}
  BY DEF Sets, NoRefs

\* The relation of each setter the mappings use.
LEMMA Relations ==
    /\ \A s \in {"flavor", "tenant", "image", "powerState", "instances", "network", "subnets",
                 "instance", "router", "routers", "networks", "hostedOn", "orgComponent",
                 "parentOrg", "port", "volType", "volume"} : RelationOf(s) = s
    /\ RelationOf("hostByName") = "host"
    /\ RelationOf("flavor_name") = "flavor"
    /\ RelationOf("image_name") = "image"
  BY DEF RelationOf, ByName

\* Maps with different setters say together what each of them says.
LEMMA MergeSets ==
    ASSUME NEW f, NEW g, DOMAIN f \cap DOMAIN g = {}
    PROVE  /\ DOMAIN (f ++ g) = DOMAIN f \cup DOMAIN g
           /\ Sets(f ++ g) = Sets(f) \cup Sets(g)
<1>1. /\ DOMAIN (f ++ g) = DOMAIN f \cup DOMAIN g
      /\ \A s \in DOMAIN f : (f ++ g)[s] = f[s]
      /\ \A s \in DOMAIN g : (f ++ g)[s] = g[s]
  BY DEF ++
<1>2. Sets(f ++ g) = Sets(f) \cup Sets(g)
  BY <1>1 DEF Sets
<1> QED
  BY <1>1, <1>2

\* The id of the type found for a volume.
TypeFound(res, v) ==
    LET types == {t \in res.volumetypes : t.name \in v.type}
    IN  IF types = {} THEN {} ELSE {(CHOOSE t \in types : TRUE).id}

\* What the map of an entity sets, and which setters it calls whatever there is.
LEMMA ServerSets ==
    ASSUME NEW res, NEW m \in map_servers(res)
    PROVE  \E x \in res.servers :
              /\ m.id = <<"server", x.id>>
              /\ Sets(m.set) = Bears("server", x)
              /\ {"flavor", "tenant", "powerState"} \subseteq DOMAIN m.set
<1> DEFINE f(x) == [flavor |-> {<<"flavor", x.flavor>>}, tenant |-> {<<"tenant", x.tenant>>},
      powerState |-> {<<"power", x.power>>}]
           g(x) == Given("image", Ids("image", x.image))
<1>1. PICK x \in res.servers : m = ObjectMap(<<"server", x.id>>, f(x) ++ g(x))
  BY DEF map_servers
<1>2. m.id = <<"server", x.id>> /\ m.set = f(x) ++ g(x)
  BY <1>1 DEF ObjectMap
<1>3. /\ DOMAIN f(x) = {"flavor", "tenant", "powerState"}
      /\ Sets(f(x)) = Refs("flavor", "flavor", {x.flavor}) \cup Refs("tenant", "tenant",
               {x.tenant}) \cup Refs("powerState", "power", {x.power})
  <2>1. DOMAIN f(x) = {"flavor", "tenant", "powerState"}
    OBVIOUS
  <2> QED
    BY <2>1, Relations DEF Sets, Refs, Ids
<1>4. /\ DOMAIN g(x) \subseteq {"image"}
      /\ Sets(g(x)) = Refs("image", "image", x.image)
  <2>1. DOMAIN g(x) \subseteq {"image"}
    BY GivenSets
  <2>2. Sets(g(x)) = Refs("image", "image", x.image)
    BY SetsOfGiven, Relations
  <2> QED
    BY <2>1, <2>2
<1> HIDE DEF f, g
<1>5. /\ DOMAIN (f(x) ++ g(x)) = DOMAIN f(x) \cup DOMAIN g(x)
      /\ Sets(f(x) ++ g(x)) = Sets(f(x)) \cup Sets(g(x))
  <2>1. DOMAIN (f(x)) \cap DOMAIN g(x) = {}
    BY <1>3, <1>4
  <2> QED
    BY <2>1, MergeSets
<1>6. Sets(m.set) = Bears("server", x)
  BY <1>2, <1>3, <1>4, <1>5 DEF Bears
<1>7. {"flavor", "tenant", "powerState"} \subseteq DOMAIN m.set
  BY <1>2, <1>3, <1>5
<1> QED
  BY <1>2, <1>6, <1>7

\* A hypervisor's map says what the hypervisor bears.
LEMMA HypervisorSets ==
    ASSUME NEW res, NEW m \in map_hypervisors(res)
    PROVE  \E x \in res.hypervisors :
              /\ m.id = <<"hypervisor", x.id>>
              /\ Sets(m.set) = Bears("hypervisor", x)
              /\ {"instances"} \subseteq DOMAIN m.set
<1> DEFINE f(x) == [instances |-> Ids("server", x.servers)]
           g(x) == Given("hostByName", IF x.vmware THEN {} ELSE {<<"host", HostId[x.host]>>})
<1>1. PICK x \in res.hypervisors : m = ObjectMap(<<"hypervisor", x.id>>, f(x) ++ g(x))
  BY DEF map_hypervisors
<1>2. m.id = <<"hypervisor", x.id>> /\ m.set = f(x) ++ g(x)
  BY <1>1 DEF ObjectMap
<1>3. /\ DOMAIN f(x) = {"instances"}
      /\ Sets(f(x)) = Refs("instances", "server", x.servers)
  <2>1. DOMAIN f(x) = {"instances"}
    OBVIOUS
  <2> QED
    BY <2>1, Relations, IdsRefs DEF Sets
<1>4. /\ DOMAIN g(x) \subseteq {"hostByName"}
      /\ Sets(g(x)) = Refs("host", "host", IF x.vmware THEN {} ELSE {HostId[x.host]})
  <2>1. (IF x.vmware THEN {} ELSE {<<"host", HostId[x.host]>>}) = Ids("host", IF x.vmware
              THEN {} ELSE {HostId[x.host]})
    BY DEF Ids
  <2>2. DOMAIN g(x) \subseteq {"hostByName"}
    BY GivenSets
  <2>3. Sets(g(x)) = Refs("host", "host", IF x.vmware THEN {} ELSE {HostId[x.host]})
    BY <2>1, SetsOfGiven, Relations
  <2> QED
    BY <2>2, <2>3
<1> HIDE DEF f, g
<1>5. /\ DOMAIN (f(x) ++ g(x)) = DOMAIN f(x) \cup DOMAIN g(x)
      /\ Sets(f(x) ++ g(x)) = Sets(f(x)) \cup Sets(g(x))
  <2>1. DOMAIN (f(x)) \cap DOMAIN g(x) = {}
    BY <1>3, <1>4
  <2> QED
    BY <2>1, MergeSets
<1>6. Sets(m.set) = Bears("hypervisor", x)
  BY <1>2, <1>3, <1>4, <1>5 DEF Bears
<1>7. {"instances"} \subseteq DOMAIN m.set
  BY <1>2, <1>3, <1>5
<1> QED
  BY <1>2, <1>6, <1>7

\* A network's map says what the network bears.
LEMMA NetworkSets ==
    ASSUME NEW res, NEW m \in map_networks(res)
    PROVE  \E x \in res.networks :
              /\ m.id = <<"network", x.id>>
              /\ Sets(m.set) = Bears("network", x)
              /\ {"tenant"} \subseteq DOMAIN m.set
<1> DEFINE f(x) == [tenant |-> {<<"tenant", x.tenant>>}]
<1>1. PICK x \in res.networks : m = ObjectMap(<<"network", x.id>>, f(x))
  BY DEF map_networks
<1>2. m.id = <<"network", x.id>> /\ m.set = f(x)
  BY <1>1 DEF ObjectMap
<1>3. /\ DOMAIN f(x) = {"tenant"}
      /\ Sets(f(x)) = Refs("tenant", "tenant", {x.tenant})
  <2>1. DOMAIN f(x) = {"tenant"}
    OBVIOUS
  <2> QED
    BY <2>1, Relations DEF Sets, Refs, Ids
<1> HIDE DEF f
<1>4. Sets(m.set) = Bears("network", x)
  BY <1>2, <1>3 DEF Bears
<1>5. {"tenant"} \subseteq DOMAIN m.set
  BY <1>2, <1>3
<1> QED
  BY <1>2, <1>4, <1>5

\* A subnet's map says what the subnet bears.
LEMMA SubnetSets ==
    ASSUME NEW res, NEW m \in map_subnets(res)
    PROVE  \E x \in res.subnets :
              /\ m.id = <<"subnet", x.id>>
              /\ Sets(m.set) = Bears("subnet", x)
              /\ {"network", "tenant"} \subseteq DOMAIN m.set
<1> DEFINE f(x) == [network |-> {<<"network", x.network>>}, tenant |-> {<<"tenant", x.tenant>>}]
<1>1. PICK x \in res.subnets : m = ObjectMap(<<"subnet", x.id>>, f(x))
  BY DEF map_subnets
<1>2. m.id = <<"subnet", x.id>> /\ m.set = f(x)
  BY <1>1 DEF ObjectMap
<1>3. /\ DOMAIN f(x) = {"network", "tenant"}
      /\ Sets(f(x)) = Refs("network", "network", {x.network}) \cup Refs("tenant", "tenant",
               {x.tenant})
  <2>1. DOMAIN f(x) = {"network", "tenant"}
    OBVIOUS
  <2> QED
    BY <2>1, Relations DEF Sets, Refs, Ids
<1> HIDE DEF f
<1>4. Sets(m.set) = Bears("subnet", x)
  BY <1>2, <1>3 DEF Bears
<1>5. {"network", "tenant"} \subseteq DOMAIN m.set
  BY <1>2, <1>3
<1> QED
  BY <1>2, <1>4, <1>5

\* A port's map says what the port bears.
LEMMA PortSets ==
    ASSUME NEW res, NEW m \in map_ports(res)
    PROVE  \E x \in res.ports :
              /\ m.id = <<"port", x.id>>
              /\ Sets(m.set) = Bears("port", x)
              /\ {"network"} \subseteq DOMAIN m.set
<1> DEFINE f(x) == Given("subnets", Ids("subnet", x.subnets))
           g(x) == Given("tenant", Ids("tenant", x.tenant))
           h(x) == Given("instance", get_port_instance(x))
           i(x) == Given("network", {<<"network", x.network>>})
           j(x) == Given("router", IF x.owner = "router_interface" THEN Ids("router",
                 x.device) ELSE {})
<1>1. PICK x \in res.ports : m = ObjectMap(<<"port", x.id>>, f(x) ++ g(x) ++ h(x) ++ i(x) ++ j(x))
  BY DEF map_ports
<1>2. m.id = <<"port", x.id>> /\ m.set = f(x) ++ g(x) ++ h(x) ++ i(x) ++ j(x)
  BY <1>1 DEF ObjectMap
<1>3. /\ DOMAIN f(x) \subseteq {"subnets"}
      /\ Sets(f(x)) = Refs("subnets", "subnet", x.subnets)
  <2>1. DOMAIN f(x) \subseteq {"subnets"}
    BY GivenSets
  <2>2. Sets(f(x)) = Refs("subnets", "subnet", x.subnets)
    BY SetsOfGiven, Relations
  <2> QED
    BY <2>1, <2>2
<1>4. /\ DOMAIN g(x) \subseteq {"tenant"}
      /\ Sets(g(x)) = Refs("tenant", "tenant", x.tenant)
  <2>1. DOMAIN g(x) \subseteq {"tenant"}
    BY GivenSets
  <2>2. Sets(g(x)) = Refs("tenant", "tenant", x.tenant)
    BY SetsOfGiven, Relations
  <2> QED
    BY <2>1, <2>2
<1>5. /\ DOMAIN h(x) \subseteq {"instance"}
      /\ Sets(h(x)) = Refs("instance", "server", IF x.owner = "compute" THEN x.device ELSE {})
  <2>1. get_port_instance(x) = Ids("server", IF x.owner = "compute" THEN x.device ELSE {})
    BY DEF Ids, get_port_instance
  <2>2. DOMAIN h(x) \subseteq {"instance"}
    BY GivenSets
  <2>3. Sets(h(x)) = Refs("instance", "server", IF x.owner = "compute" THEN x.device ELSE {})
    BY <2>1, SetsOfGiven, Relations
  <2> QED
    BY <2>2, <2>3
<1>6. /\ DOMAIN i(x) \subseteq {"network"}
      /\ Sets(i(x)) = Refs("network", "network", {x.network})
  <2>1. {<<"network", x.network>>} = Ids("network", {x.network})
    BY DEF Ids
  <2>2. DOMAIN i(x) \subseteq {"network"}
    BY GivenSets
  <2>3. Sets(i(x)) = Refs("network", "network", {x.network})
    BY <2>1, SetsOfGiven, Relations
  <2> QED
    BY <2>2, <2>3
<1>7. /\ DOMAIN j(x) \subseteq {"router"}
      /\ Sets(j(x)) = Refs("router", "router", IF x.owner = "router_interface" THEN x.device
               ELSE {})
  <2>1. (IF x.owner = "router_interface" THEN Ids("router", x.device) ELSE {}) = Ids("router",
              IF x.owner = "router_interface" THEN x.device ELSE {})
    BY DEF Ids
  <2>2. DOMAIN j(x) \subseteq {"router"}
    BY GivenSets
  <2>3. Sets(j(x)) = Refs("router", "router", IF x.owner = "router_interface" THEN x.device ELSE {})
    BY <2>1, SetsOfGiven, Relations
  <2> QED
    BY <2>2, <2>3
<1> HIDE DEF f, g, h, i, j
<1>8. /\ DOMAIN (f(x) ++ g(x)) = DOMAIN f(x) \cup DOMAIN g(x)
      /\ Sets(f(x) ++ g(x)) = Sets(f(x)) \cup Sets(g(x))
  <2>1. DOMAIN (f(x)) \cap DOMAIN g(x) = {}
    BY <1>3, <1>4
  <2> QED
    BY <2>1, MergeSets
<1>9. /\ DOMAIN (f(x) ++ g(x) ++ h(x)) = DOMAIN f(x) \cup DOMAIN g(x) \cup DOMAIN h(x)
      /\ Sets(f(x) ++ g(x) ++ h(x)) = Sets(f(x)) \cup Sets(g(x)) \cup Sets(h(x))
  <2>1. DOMAIN (f(x) ++ g(x)) \cap DOMAIN h(x) = {}
    BY <1>3, <1>4, <1>5, <1>8
  <2> QED
    BY <2>1, <1>8, MergeSets
<1>10. /\ DOMAIN (f(x) ++ g(x) ++ h(x) ++ i(x)) = DOMAIN f(x) \cup DOMAIN g(x)
                \cup DOMAIN h(x) \cup DOMAIN i(x)
      /\ Sets(f(x) ++ g(x) ++ h(x) ++ i(x)) = Sets(f(x)) \cup Sets(g(x)) \cup Sets(h(x))
               \cup Sets(i(x))
  <2>1. DOMAIN (f(x) ++ g(x) ++ h(x)) \cap DOMAIN i(x) = {}
    BY <1>3, <1>4, <1>5, <1>6, <1>9
  <2> QED
    BY <2>1, <1>9, MergeSets
<1>11. /\ DOMAIN (f(x) ++ g(x) ++ h(x) ++ i(x) ++ j(x)) = DOMAIN f(x) \cup DOMAIN g(x)
                \cup DOMAIN h(x) \cup DOMAIN i(x) \cup DOMAIN j(x)
      /\ Sets(f(x) ++ g(x) ++ h(x) ++ i(x) ++ j(x)) = Sets(f(x)) \cup Sets(g(x))
               \cup Sets(h(x)) \cup Sets(i(x)) \cup Sets(j(x))
  <2>1. DOMAIN (f(x) ++ g(x) ++ h(x) ++ i(x)) \cap DOMAIN j(x) = {}
    BY <1>3, <1>4, <1>5, <1>6, <1>7, <1>10
  <2>2. /\ DOMAIN (f(x) ++ g(x) ++ h(x) ++ i(x) ++ j(x))
                 = DOMAIN (f(x) ++ g(x) ++ h(x) ++ i(x)) \cup DOMAIN j(x)
        /\ Sets(f(x) ++ g(x) ++ h(x) ++ i(x) ++ j(x)) = Sets(f(x) ++ g(x) ++ h(x) ++ i(x))
                 \cup Sets(j(x))
    BY <2>1, MergeSets
  <2> QED
    BY <2>2, <1>10
<1>12. Sets(m.set) = Bears("port", x)
  BY <1>2, <1>3, <1>4, <1>5, <1>6, <1>7, <1>11 DEF Bears
<1>13. {"network"} \subseteq DOMAIN m.set
  <2>1. DOMAIN i(x) = {"network"}
    BY DEF i, Given
  <2> QED
    BY <1>2, <1>11, <2>1
<1> QED
  BY <1>2, <1>12, <1>13

\* A router's map says what the router bears, and the subnets of the ports on it.
LEMMA RouterSets ==
    ASSUME NEW res, NEW m \in map_routers(res)
    PROVE  \E x \in res.routers :
              /\ m.id = <<"router", x.id>>
              /\ Sets(m.set) = Bears("router", x)
                    \cup Refs("subnets", "subnet", process_device_subnet_list(res, x.id))
              /\ {"tenant"} \subseteq DOMAIN m.set
<1> DEFINE f(x) == [tenant |-> {<<"tenant", x.tenant>>}]
           g(x) == Given("network", Ids("network", x.gateway))
           h(x) == Given("subnets", Ids("subnet", process_device_subnet_list(res, x.id)
                 \cup x.gatewaySubnets))
<1>1. PICK x \in res.routers : m = ObjectMap(<<"router", x.id>>, f(x) ++ g(x) ++ h(x))
  BY DEF map_routers
<1>2. m.id = <<"router", x.id>> /\ m.set = f(x) ++ g(x) ++ h(x)
  BY <1>1 DEF ObjectMap
<1>3. /\ DOMAIN f(x) = {"tenant"}
      /\ Sets(f(x)) = Refs("tenant", "tenant", {x.tenant})
  <2>1. DOMAIN f(x) = {"tenant"}
    OBVIOUS
  <2> QED
    BY <2>1, Relations DEF Sets, Refs, Ids
<1>4. /\ DOMAIN g(x) \subseteq {"network"}
      /\ Sets(g(x)) = Refs("network", "network", x.gateway)
  <2>1. DOMAIN g(x) \subseteq {"network"}
    BY GivenSets
  <2>2. Sets(g(x)) = Refs("network", "network", x.gateway)
    BY SetsOfGiven, Relations
  <2> QED
    BY <2>1, <2>2
<1>5. /\ DOMAIN h(x) \subseteq {"subnets"}
      /\ Sets(h(x)) = Refs("subnets", "subnet", process_device_subnet_list(res, x.id)
               \cup x.gatewaySubnets)
  <2>1. DOMAIN h(x) \subseteq {"subnets"}
    BY GivenSets
  <2>2. Sets(h(x)) = Refs("subnets", "subnet", process_device_subnet_list(res, x.id)
              \cup x.gatewaySubnets)
    BY SetsOfGiven, Relations
  <2> QED
    BY <2>1, <2>2
<1> HIDE DEF f, g, h
<1>6. /\ DOMAIN (f(x) ++ g(x)) = DOMAIN f(x) \cup DOMAIN g(x)
      /\ Sets(f(x) ++ g(x)) = Sets(f(x)) \cup Sets(g(x))
  <2>1. DOMAIN (f(x)) \cap DOMAIN g(x) = {}
    BY <1>3, <1>4
  <2> QED
    BY <2>1, MergeSets
<1>7. /\ DOMAIN (f(x) ++ g(x) ++ h(x)) = DOMAIN f(x) \cup DOMAIN g(x) \cup DOMAIN h(x)
      /\ Sets(f(x) ++ g(x) ++ h(x)) = Sets(f(x)) \cup Sets(g(x)) \cup Sets(h(x))
  <2>1. DOMAIN (f(x) ++ g(x)) \cap DOMAIN h(x) = {}
    BY <1>3, <1>4, <1>5, <1>6
  <2> QED
    BY <2>1, <1>6, MergeSets
<1>8. Sets(m.set) = Bears("router", x)
             \cup Refs("subnets", "subnet", process_device_subnet_list(res, x.id))
  BY <1>2, <1>3, <1>4, <1>5, <1>7 DEF Bears, Refs
<1>9. {"tenant"} \subseteq DOMAIN m.set
  BY <1>2, <1>3, <1>7
<1> QED
  BY <1>2, <1>8, <1>9

\* A floating IP's map says what the floating IP bears.
LEMMA FloatingIpSets ==
    ASSUME NEW res, NEW m \in map_floatingips(res)
    PROVE  \E x \in res.floatingips :
              /\ m.id = <<"floatingip", x.id>>
              /\ Sets(m.set) = Bears("floatingip", x)
              /\ {"network", "tenant"} \subseteq DOMAIN m.set
<1> DEFINE f(x) == [network |-> {<<"network", x.network>>}, tenant |-> {<<"tenant", x.tenant>>}]
           g(x) == Given("router", Ids("router", x.router))
           h(x) == Given("port", Ids("port", x.port))
<1>1. PICK x \in res.floatingips : m = ObjectMap(<<"floatingip", x.id>>, f(x) ++ g(x) ++ h(x))
  BY DEF map_floatingips
<1>2. m.id = <<"floatingip", x.id>> /\ m.set = f(x) ++ g(x) ++ h(x)
  BY <1>1 DEF ObjectMap
<1>3. /\ DOMAIN f(x) = {"network", "tenant"}
      /\ Sets(f(x)) = Refs("network", "network", {x.network}) \cup Refs("tenant", "tenant",
               {x.tenant})
  <2>1. DOMAIN f(x) = {"network", "tenant"}
    OBVIOUS
  <2> QED
    BY <2>1, Relations DEF Sets, Refs, Ids
<1>4. /\ DOMAIN g(x) \subseteq {"router"}
      /\ Sets(g(x)) = Refs("router", "router", x.router)
  <2>1. DOMAIN g(x) \subseteq {"router"}
    BY GivenSets
  <2>2. Sets(g(x)) = Refs("router", "router", x.router)
    BY SetsOfGiven, Relations
  <2> QED
    BY <2>1, <2>2
<1>5. /\ DOMAIN h(x) \subseteq {"port"}
      /\ Sets(h(x)) = Refs("port", "port", x.port)
  <2>1. DOMAIN h(x) \subseteq {"port"}
    BY GivenSets
  <2>2. Sets(h(x)) = Refs("port", "port", x.port)
    BY SetsOfGiven, Relations
  <2> QED
    BY <2>1, <2>2
<1> HIDE DEF f, g, h
<1>6. /\ DOMAIN (f(x) ++ g(x)) = DOMAIN f(x) \cup DOMAIN g(x)
      /\ Sets(f(x) ++ g(x)) = Sets(f(x)) \cup Sets(g(x))
  <2>1. DOMAIN (f(x)) \cap DOMAIN g(x) = {}
    BY <1>3, <1>4
  <2> QED
    BY <2>1, MergeSets
<1>7. /\ DOMAIN (f(x) ++ g(x) ++ h(x)) = DOMAIN f(x) \cup DOMAIN g(x) \cup DOMAIN h(x)
      /\ Sets(f(x) ++ g(x) ++ h(x)) = Sets(f(x)) \cup Sets(g(x)) \cup Sets(h(x))
  <2>1. DOMAIN (f(x) ++ g(x)) \cap DOMAIN h(x) = {}
    BY <1>3, <1>4, <1>5, <1>6
  <2> QED
    BY <2>1, <1>6, MergeSets
<1>8. Sets(m.set) = Bears("floatingip", x)
  BY <1>2, <1>3, <1>4, <1>5, <1>7 DEF Bears
<1>9. {"network", "tenant"} \subseteq DOMAIN m.set
  BY <1>2, <1>3, <1>7
<1> QED
  BY <1>2, <1>8, <1>9

\* A volume's map says what the volume bears, and the type found by its name.
LEMMA VolumeSets ==
    ASSUME NEW res, NEW m \in map_volumes(res)
    PROVE  \E x \in res.volumes :
              /\ m.id = <<"volume", x.id>>
              /\ Sets(m.set) = Bears("volume", x)
                    \cup Refs("volType", "volType", TypeFound(res, x))
<1> DEFINE f(x) == Given("instance", Ids("server", x.instance))
           g(x) == Given("tenant", Ids("tenant", x.tenant))
           h(x) == Given("volType", Ids("volType", TypeFound(res, x)))
<1>1. PICK x \in res.volumes : m = ObjectMap(<<"volume", x.id>>, f(x) ++ g(x) ++ h(x))
  BY DEF map_volumes, TypeFound
<1>2. m.id = <<"volume", x.id>> /\ m.set = f(x) ++ g(x) ++ h(x)
  BY <1>1 DEF ObjectMap
<1>3. /\ DOMAIN f(x) \subseteq {"instance"}
      /\ Sets(f(x)) = Refs("instance", "server", x.instance)
  <2>1. DOMAIN f(x) \subseteq {"instance"}
    BY GivenSets
  <2>2. Sets(f(x)) = Refs("instance", "server", x.instance)
    BY SetsOfGiven, Relations
  <2> QED
    BY <2>1, <2>2
<1>4. /\ DOMAIN g(x) \subseteq {"tenant"}
      /\ Sets(g(x)) = Refs("tenant", "tenant", x.tenant)
  <2>1. DOMAIN g(x) \subseteq {"tenant"}
    BY GivenSets
  <2>2. Sets(g(x)) = Refs("tenant", "tenant", x.tenant)
    BY SetsOfGiven, Relations
  <2> QED
    BY <2>1, <2>2
<1>5. /\ DOMAIN h(x) \subseteq {"volType"}
      /\ Sets(h(x)) = Refs("volType", "volType", TypeFound(res, x))
  <2>1. DOMAIN h(x) \subseteq {"volType"}
    BY GivenSets
  <2>2. Sets(h(x)) = Refs("volType", "volType", TypeFound(res, x))
    BY SetsOfGiven, Relations
  <2> QED
    BY <2>1, <2>2
<1> HIDE DEF f, g, h
<1>6. /\ DOMAIN (f(x) ++ g(x)) = DOMAIN f(x) \cup DOMAIN g(x)
      /\ Sets(f(x) ++ g(x)) = Sets(f(x)) \cup Sets(g(x))
  <2>1. DOMAIN (f(x)) \cap DOMAIN g(x) = {}
    BY <1>3, <1>4
  <2> QED
    BY <2>1, MergeSets
<1>7. /\ DOMAIN (f(x) ++ g(x) ++ h(x)) = DOMAIN f(x) \cup DOMAIN g(x) \cup DOMAIN h(x)
      /\ Sets(f(x) ++ g(x) ++ h(x)) = Sets(f(x)) \cup Sets(g(x)) \cup Sets(h(x))
  <2>1. DOMAIN (f(x) ++ g(x)) \cap DOMAIN h(x) = {}
    BY <1>3, <1>4, <1>5, <1>6
  <2> QED
    BY <2>1, <1>6, MergeSets
<1>8. Sets(m.set) = Bears("volume", x)
             \cup Refs("volType", "volType", TypeFound(res, x))
  BY <1>2, <1>3, <1>4, <1>5, <1>7 DEF Bears
<1> QED
  BY <1>2, <1>8

\* A snapshot's map says what the snapshot bears.
LEMMA SnapshotSets ==
    ASSUME NEW res, NEW m \in map_volumesnapshots(res)
    PROVE  \E x \in res.volsnapshots :
              /\ m.id = <<"snapshot", x.id>>
              /\ Sets(m.set) = Bears("snapshot", x)
<1> DEFINE f(x) == Given("volume", Ids("volume", x.volume))
           g(x) == Given("tenant", Ids("tenant", x.tenant))
<1>1. PICK x \in res.volsnapshots : m = ObjectMap(<<"snapshot", x.id>>, f(x) ++ g(x))
  BY DEF map_volumesnapshots
<1>2. m.id = <<"snapshot", x.id>> /\ m.set = f(x) ++ g(x)
  BY <1>1 DEF ObjectMap
<1>3. /\ DOMAIN f(x) \subseteq {"volume"}
      /\ Sets(f(x)) = Refs("volume", "volume", x.volume)
  <2>1. DOMAIN f(x) \subseteq {"volume"}
    BY GivenSets
  <2>2. Sets(f(x)) = Refs("volume", "volume", x.volume)
    BY SetsOfGiven, Relations
  <2> QED
    BY <2>1, <2>2
<1>4. /\ DOMAIN g(x) \subseteq {"tenant"}
      /\ Sets(g(x)) = Refs("tenant", "tenant", x.tenant)
  <2>1. DOMAIN g(x) \subseteq {"tenant"}
    BY GivenSets
  <2>2. Sets(g(x)) = Refs("tenant", "tenant", x.tenant)
    BY SetsOfGiven, Relations
  <2> QED
    BY <2>1, <2>2
<1> HIDE DEF f, g
<1>5. /\ DOMAIN (f(x) ++ g(x)) = DOMAIN f(x) \cup DOMAIN g(x)
      /\ Sets(f(x) ++ g(x)) = Sets(f(x)) \cup Sets(g(x))
  <2>1. DOMAIN (f(x)) \cap DOMAIN g(x) = {}
    BY <1>3, <1>4
  <2> QED
    BY <2>1, MergeSets
<1>6. Sets(m.set) = Bears("snapshot", x)
  BY <1>2, <1>3, <1>4, <1>5 DEF Bears
<1> QED
  BY <1>2, <1>6

\* A quota's map names its tenant.
LEMMA QuotaSets ==
    ASSUME NEW res, NEW m \in map_quotas(res)
    PROVE  \E x \in Entities(res, "quota") :
              /\ m.id = <<"quota", x.id>>
              /\ Sets(m.set) = Bears("quota", x)
              /\ {"tenant"} \subseteq DOMAIN m.set
<1> DEFINE f(t) == [tenant |-> {<<"tenant", t>>}]
<1>1. PICK t \in res.quotas \cap process_quota_tenants(res) : m = ObjectMap(<<"quota", t>>, f(t))
  BY DEF map_quotas
<1>2. PICK x \in Entities(res, "quota") : x.id = t
  BY <1>1 DEF process_quota_tenants, Entities
<1>3. m.id = <<"quota", x.id>> /\ m.set = f(x.id)
  BY <1>1, <1>2 DEF ObjectMap
<1>4. DOMAIN f(x.id) = {"tenant"}
  OBVIOUS
<1>5. Sets(f(x.id)) = Refs("tenant", "tenant", {x.id})
  BY <1>4, Relations DEF Sets, Refs
<1> QED
  BY <1>3, <1>4, <1>5 DEF Bears

\* An agent's map says what each answer about it listed.
LEMMA AgentSets ==
    ASSUME NEW res, NEW m \in map_agents(res)
    PROVE  \E x \in res.agents :
              /\ m.id = <<"agent", x.id>>
              /\ \A s \in {y \in res.served : y.agent = x.id} :
                    Refs("routers", "router", s.routers) \cup Refs("networks", "network",
                          s.networks)
                        \subseteq Sets(m.set)
              /\ "tenant" \notin DOMAIN m.set
<1> DEFINE Served(a, what) == UNION {s[what] : s \in {y \in res.served : y.agent = a.id}}
           f(a) == [routers |-> Ids("router", Served(a, "routers")),
                    networks |-> Ids("network", Served(a, "networks")),
                    subnets |-> Ids("subnet", Served(a, "subnets")),
                    hostedOn |-> {<<"host", HostId[a.host]>>},
                    orgComponent |-> IF a.zone # {} THEN Ids("zone", a.zone)
                                     ELSE {getHostOrgComponent(HostId[a.host], res)}]
<1>1. PICK x \in res.agents : m = ObjectMap(<<"agent", x.id>>, f(x))
  BY DEF map_agents
<1>2. m.id = <<"agent", x.id>> /\ m.set = f(x)
  BY <1>1 DEF ObjectMap
<1>3. /\ DOMAIN f(x) = {"routers", "networks", "subnets", "hostedOn", "orgComponent"}
      /\ f(x)["routers"] = Ids("router", Served(x, "routers"))
      /\ f(x)["networks"] = Ids("network", Served(x, "networks"))
  OBVIOUS
<1>4. ASSUME NEW s \in {y \in res.served : y.agent = x.id}
      PROVE  /\ s.routers \subseteq Served(x, "routers")
             /\ s.networks \subseteq Served(x, "networks")
  OBVIOUS
<1> HIDE DEF f, Served
<1>5. ASSUME NEW s \in {y \in res.served : y.agent = x.id}
      PROVE  Refs("routers", "router", s.routers) \cup Refs("networks", "network", s.networks)
                 \subseteq Sets(m.set)
  <2>1. ASSUME NEW p \in Refs("routers", "router", s.routers)
        PROVE  p \in Sets(m.set)
    BY <1>2, <1>3, <1>4, Relations DEF Sets, Refs, Ids
  <2>2. ASSUME NEW p \in Refs("networks", "network", s.networks)
        PROVE  p \in Sets(m.set)
    BY <1>2, <1>3, <1>4, Relations DEF Sets, Refs, Ids
  <2> QED
    BY <2>1, <2>2
<1> QED
  BY <1>2, <1>3, <1>5

\* The other kinds refer to nothing that is tracked here.
LEMMA PlainSets ==
    ASSUME NEW res
    PROVE  /\ \A m \in map_tenants(res) : \E x \in Entities(res, "tenant") :
                  m.id = <<"tenant", x.id>> /\ Sets(m.set) = Bears("tenant", x)
           /\ \A m \in map_flavors(res) : \E x \in res.flavors :
                  m.id = <<"flavor", x.id>> /\ Sets(m.set) = Bears("flavor", x)
           /\ \A m \in map_images(res) : \E x \in res.images :
                  m.id = <<"image", x.id>> /\ Sets(m.set) = Bears("image", x)
           /\ \A m \in map_voltypes(res) : \E x \in res.volumetypes :
                  m.id = <<"volType", x.id>> /\ Sets(m.set) = Bears("volType", x)
<1>1. \A id : ObjectMap(id, NoRefs).id = id /\ Sets(ObjectMap(id, NoRefs).set) = {}
  BY SetsOfNone DEF ObjectMap
<1>2. \A kind \in {"tenant", "flavor", "image", "volType"} : \A x : Bears(kind, x) = {}
  BY DEF Bears
<1>3. \A m \in map_tenants(res) : \E x \in Entities(res, "tenant") :
          m.id = <<"tenant", x.id>> /\ Sets(m.set) = {}
  BY <1>1 DEF map_tenants, process_quota_tenants, Entities
<1>4. \A m \in map_flavors(res) : \E x \in res.flavors :
          m.id = <<"flavor", x.id>> /\ Sets(m.set) = {}
  BY <1>1 DEF map_flavors
<1>5. \A m \in map_images(res) : \E x \in res.images :
          m.id = <<"image", x.id>> /\ Sets(m.set) = {}
  BY <1>1 DEF map_images
<1>6. \A m \in map_voltypes(res) : \E x \in res.volumetypes :
          m.id = <<"volType", x.id>> /\ Sets(m.set) = {}
  BY <1>1 DEF map_voltypes
<1> QED
  BY <1>2, <1>3, <1>4, <1>5, <1>6

\* Zones, hosts, services, pools and the rest have ids of their own kinds and
\* name no tenant.
LEMMA OtherSets ==
    ASSUME NEW res
    PROVE  /\ \A m \in map_regions : m.id[1] = "region" /\ "tenant" \notin DOMAIN m.set
           /\ \A m \in map_zones(res) : m.id[1] = "zone" /\ "tenant" \notin DOMAIN m.set
           /\ \A m \in map_hosts(res) : m.id[1] = "host" /\ "tenant" \notin DOMAIN m.set
           /\ \A m \in map_nova_services(res) \cup map_cinder_services(res) :
                  m.id[1] = "service" /\ "tenant" \notin DOMAIN m.set
           /\ \A m \in map_pools(res) : m.id[1] = "pool" /\ "tenant" \notin DOMAIN m.set
           /\ \A m \in map_api_endpoints : m.id[1] = "apiendpoint" /\ "tenant" \notin DOMAIN m.set
<1>1. \A id : ObjectMap(id, NoRefs).id = id /\ "tenant" \notin DOMAIN ObjectMap(id, NoRefs).set
  BY SetsOfNone DEF ObjectMap
<1>2. \A m \in map_regions : m.id[1] = "region" /\ "tenant" \notin DOMAIN m.set
  BY <1>1 DEF map_regions, RegionId
<1>3. \A m \in map_zones(res) : m.id[1] = "zone" /\ "tenant" \notin DOMAIN m.set
  BY DEF map_zones, ObjectMap
<1>4. \A m \in map_hosts(res) : m.id[1] = "host" /\ "tenant" \notin DOMAIN m.set
  BY DEF map_hosts, ObjectMap
<1>5. \A id, hosts, org : /\ Software(id, hosts, org).id = id
                          /\ "tenant" \notin DOMAIN Software(id, hosts, org).set
  BY DEF Software, ObjectMap
<1>6. \A s : ServiceMap(s).id[1] = "service" /\ "tenant" \notin DOMAIN ServiceMap(s).set
  BY <1>5 DEF ServiceMap, ServiceId
<1>7. ASSUME NEW binary, NEW hosts, NEW m \in ApiServices(binary, hosts)
      PROVE  m.id[1] = "service" /\ "tenant" \notin DOMAIN m.set
  <2>1. PICK h \in hosts : m = Software(<<"service", binary, {h}, Region>>, {h}, RegionId)
    BY DEF ApiServices
  <2>2. m.id = <<"service", binary, {h}, Region>> /\ "tenant" \notin DOMAIN m.set
    BY <1>5, <2>1
  <2> QED
    BY <2>2
<1>8. ASSUME NEW m \in map_nova_services(res) \cup map_cinder_services(res)
      PROVE  m.id[1] = "service" /\ "tenant" \notin DOMAIN m.set
  BY <1>6, <1>7 DEF map_nova_services, map_cinder_services
<1>9. \A m \in map_pools(res) : m.id[1] = "pool" /\ "tenant" \notin DOMAIN m.set
  BY DEF map_pools, ObjectMap, NoRefs
<1>10. \A m \in map_api_endpoints : m.id[1] = "apiendpoint" /\ "tenant" \notin DOMAIN m.set
  BY <1>1 DEF map_api_endpoints
<1> QED
  BY <1>2, <1>3, <1>4, <1>8, <1>9, <1>10

-----------------------------------------------------------------------------
(* process(): the maps in their order. *)

\* The maps of process() at each place of its order.
LEMMA ProcessMaps ==
    ASSUME NEW res
    PROVE  /\ Len(process(res)) = 21
           /\ DOMAIN process(res) = 1..21
           /\ process(res)[1] = map_tenants(res) \cup DummyTenants(DiscoveredMaps(res))
           /\ process(res)[2] = map_regions
           /\ process(res)[3] = map_flavors(res)
           /\ process(res)[4] = map_images(res)
           /\ process(res)[5] = map_servers(res)
           /\ process(res)[6] = map_zones(res)
           /\ process(res)[7] = map_hosts(res)
           /\ process(res)[8] = map_hypervisors(res)
           /\ process(res)[9] = map_nova_services(res) \cup map_cinder_services(res)
           /\ process(res)[10] = map_networks(res)
           /\ process(res)[11] = map_subnets(res)
           /\ process(res)[12] = map_routers(res)
           /\ process(res)[13] = map_ports(res)
           /\ process(res)[14] = map_agents(res)
           /\ process(res)[15] = map_floatingips(res)
           /\ process(res)[16] = map_voltypes(res)
           /\ process(res)[17] = map_volumes(res)
           /\ process(res)[18] = map_volumesnapshots(res)
           /\ process(res)[19] = map_pools(res)
           /\ process(res)[20] = map_quotas(res)
           /\ process(res)[21] = map_api_endpoints
<1> DEFINE M == DiscoveredMaps(res)
           D == M[1] \cup DummyTenants(M)
<1>1. process(res) = [M EXCEPT ![1] = D]
  BY DEF process
<1> QED
  BY <1>1 DEF DiscoveredMaps

-----------------------------------------------------------------------------
(* ApplyDataMap. *)

\* A map makes a reference of all it says, once the component meant exists.
LEMMA NewRefsAre ==
    ASSUME NEW m, NEW present, NEW y
    PROVE  y \in NewRefs(m, present) <=>
              \E p \in Sets(m.set) : /\ y = <<m.id, p[1], p[2]>>
                                     /\ p[1] \in Attributes \/ p[2] \in present
<1>1. \A s : RelationOf(s) \in Attributes <=> s \in Attributes
  BY DEF RelationOf, ByName, Attributes
<1>2. ASSUME y \in NewRefs(m, present)
      PROVE  \E p \in Sets(m.set) : /\ y = <<m.id, p[1], p[2]>>
                                    /\ p[1] \in Attributes \/ p[2] \in present
  <2>1. PICK s \in DOMAIN m.set : y \in {<<m.id, RelationOf(s), t>> : t \in Found(m, s, present)}
    BY <1>2 DEF NewRefs, Setters
  <2>0. PICK t \in Found(m, s, present) : y = <<m.id, RelationOf(s), t>>
    BY <2>1
  <2>2. t \in m.set[s] /\ (s \in Attributes \/ t \in present)
    BY DEF Found
  <2>3. <<RelationOf(s), t>> \in Sets(m.set)
    BY <2>2 DEF Sets
  <2> QED
    BY <1>1, <2>0, <2>2, <2>3
<1>3. ASSUME NEW p \in Sets(m.set), y = <<m.id, p[1], p[2]>>,
             p[1] \in Attributes \/ p[2] \in present
      PROVE  y \in NewRefs(m, present)
  <2>0. PICK s \in DOMAIN m.set : p \in {<<RelationOf(s), t>> : t \in m.set[s]}
    BY DEF Sets
  <2>1. PICK t \in m.set[s] : p = <<RelationOf(s), t>>
    BY <2>0
  <2>2. t \in Found(m, s, present)
    BY <1>1, <1>3, <2>1 DEF Found
  <2>3. s \in Setters(m, present)
    BY <2>2 DEF Setters
  <2> QED
    BY <1>3, <2>1, <2>2, <2>3 DEF NewRefs
<1> QED
  BY <1>2, <1>3

\* The components the first n of the maps name, and those that exist then.
NamedBy(maps, n) == {m.id : m \in UNION {maps[i] : i \in 1..n}}
Present(maps, n) == model.components \cup NamedBy(maps, n)

\* What ApplyDataMap makes of a list of maps: its components are those named,
\* a reference is an old one no map overwrote or a new one, and a new one
\* between components that are named is there.
LEMMA Applied ==
    ASSUME NEW maps
    PROVE  LET n == Len(maps) IN
           /\ ApplyAll(maps).components = NamedBy(maps, n)
           /\ \A y \in ApplyAll(maps).refs :
                 \/ /\ y \in model.refs
                    /\ \A i \in 1..n : \A m \in maps[i] :
                          <<y[1], y[2]>> \notin Overwritten(m, Present(maps, i))
                 \/ \E i \in 1..n : \E m \in maps[i] : y \in NewRefs(m, Present(maps, i))
           /\ \A i \in 1..n : \A m \in maps[i] : \A y \in NewRefs(m, Present(maps, i)) :
                 /\ y[1] \in NamedBy(maps, n)
                 /\ y[2] \in Attributes \/ y[3] \in NamedBy(maps, n)
                 => y \in ApplyAll(maps).refs
<1> DEFINE n == Len(maps)
           gone == UNION {UNION {Overwritten(m, Present(maps, i)) : m \in maps[i]} : i \in 1..n}
           new == UNION {UNION {NewRefs(m, Present(maps, i)) : m \in maps[i]} : i \in 1..n}
           kept == {x \in model.refs : <<x[1], x[2]>> \notin gone}
<1>1. ApplyAll(maps) = Keep(NamedBy(maps, n), kept \cup new)
  BY DEF ApplyAll, NamedBy, Present
<1>2. /\ ApplyAll(maps).components = NamedBy(maps, n)
      /\ ApplyAll(maps).refs = {x \in kept \cup new :
             x[1] \in NamedBy(maps, n) /\ (x[2] \in Attributes \/ x[3] \in NamedBy(maps, n))}
  BY <1>1 DEF Keep
<1> QED
  BY <1>2

-----------------------------------------------------------------------------
(* Which maps are of which kind. *)

StageOf == [tenant |-> 1, flavor |-> 3, image |-> 4, server |-> 5, hypervisor |-> 8,
    network |-> 10, subnet |-> 11, router |-> 12, port |-> 13, agent |-> 14,
    floatingip |-> 15, volType |-> 16, volume |-> 17, snapshot |-> 18, quota |-> 20]

KindAt == <<"tenant", "region", "flavor", "image", "server", "zone", "host", "hypervisor",
    "service", "network", "subnet", "router", "port", "agent", "floatingip", "volType",
    "volume", "snapshot", "pool", "quota", "apiendpoint">>

\* The references that two entities make.
Extra(res, kind, x) ==
    CASE kind = "router" -> Refs("subnets", "subnet", process_device_subnet_list(res, x.id))
      [] kind = "volume" -> Refs("volType", "volType", TypeFound(res, x))
      [] OTHER -> {}

\* The setters that are called whatever there is to set.
Fixed(kind) ==
    CASE kind = "server"                         -> {"flavor", "tenant", "powerState"}
      [] kind = "hypervisor"                     -> {"instances"}
      [] kind = "port"                           -> {"network"}
      [] kind \in {"subnet", "floatingip"}       -> {"network", "tenant"}
      [] kind \in {"network", "router", "quota"} -> {"tenant"}
      [] OTHER                                   -> {}

\* A map of a kind is made from an entity answered, says what that bears, and
\* calls the setters that are called whatever there is to set.
LEMMA MapsOfKinds ==
    ASSUME NEW res, NEW kind \in Kinds \ {"tenant", "agent"},
           NEW m \in process(res)[StageOf[kind]]
    PROVE  \E x \in Entities(res, kind) :
              /\ m.id = <<kind, x.id>>
              /\ Sets(m.set) = Bears(kind, x) \cup Extra(res, kind, x)
              /\ Fixed(kind) \subseteq DOMAIN m.set
<1> DEFINE P(k) == \E x \in Entities(res, k) :
              /\ m.id = <<k, x.id>>
              /\ Sets(m.set) = Bears(k, x) \cup Extra(res, k, x)
              /\ Fixed(k) \subseteq DOMAIN m.set
<1>1. CASE kind = "quota"
  <2>1. m \in map_quotas(res)
    BY <1>1, ProcessMaps DEF StageOf
  <2>2. Fixed("quota") = {"tenant"} /\ \A x : Extra(res, "quota", x) = {}
    BY DEF Fixed, Extra
  <2> QED
    BY <1>1, <2>1, <2>2, QuotaSets
<1>2. CASE kind = "flavor"
  <2>1. m \in map_flavors(res)
    BY <1>2, ProcessMaps DEF StageOf
  <2>2. Fixed("flavor") = {} /\ \A x : Extra(res, "flavor", x) = {}
    BY DEF Fixed, Extra
  <2>3. Entities(res, "flavor") = res.flavors
    BY DEF Entities, ListOf
  <2> QED
    BY <1>2, <2>1, <2>2, <2>3, PlainSets
<1>3. CASE kind = "image"
  <2>1. m \in map_images(res)
    BY <1>3, ProcessMaps DEF StageOf
  <2>2. Fixed("image") = {} /\ \A x : Extra(res, "image", x) = {}
    BY DEF Fixed, Extra
  <2>3. Entities(res, "image") = res.images
    BY DEF Entities, ListOf
  <2> QED
    BY <1>3, <2>1, <2>2, <2>3, PlainSets
<1>4. CASE kind = "volType"
  <2>1. m \in map_voltypes(res)
    BY <1>4, ProcessMaps DEF StageOf
  <2>2. Fixed("volType") = {} /\ \A x : Extra(res, "volType", x) = {}
    BY DEF Fixed, Extra
  <2>3. Entities(res, "volType") = res.volumetypes
    BY DEF Entities, ListOf
  <2> QED
    BY <1>4, <2>1, <2>2, <2>3, PlainSets
<1>5. CASE kind = "server"
  <2>1. m \in map_servers(res)
    BY <1>5, ProcessMaps DEF StageOf
  <2>2. Fixed("server") = {"flavor", "tenant", "powerState"} /\ \A x : Extra(res, "server", x) = {}
    BY DEF Fixed, Extra
  <2>3. Entities(res, "server") = res.servers
    BY DEF Entities, ListOf
  <2> QED
    BY <1>5, <2>1, <2>2, <2>3, ServerSets
<1>6. CASE kind = "hypervisor"
  <2>1. m \in map_hypervisors(res)
    BY <1>6, ProcessMaps DEF StageOf
  <2>2. Fixed("hypervisor") = {"instances"} /\ \A x : Extra(res, "hypervisor", x) = {}
    BY DEF Fixed, Extra
  <2>3. Entities(res, "hypervisor") = res.hypervisors
    BY DEF Entities, ListOf
  <2> QED
    BY <1>6, <2>1, <2>2, <2>3, HypervisorSets
<1>7. CASE kind = "network"
  <2>1. m \in map_networks(res)
    BY <1>7, ProcessMaps DEF StageOf
  <2>2. Fixed("network") = {"tenant"} /\ \A x : Extra(res, "network", x) = {}
    BY DEF Fixed, Extra
  <2>3. Entities(res, "network") = res.networks
    BY DEF Entities, ListOf
  <2> QED
    BY <1>7, <2>1, <2>2, <2>3, NetworkSets
<1>8. CASE kind = "subnet"
  <2>1. m \in map_subnets(res)
    BY <1>8, ProcessMaps DEF StageOf
  <2>2. Fixed("subnet") = {"network", "tenant"} /\ \A x : Extra(res, "subnet", x) = {}
    BY DEF Fixed, Extra
  <2>3. Entities(res, "subnet") = res.subnets
    BY DEF Entities, ListOf
  <2> QED
    BY <1>8, <2>1, <2>2, <2>3, SubnetSets
<1>9. CASE kind = "port"
  <2>1. m \in map_ports(res)
    BY <1>9, ProcessMaps DEF StageOf
  <2>2. Fixed("port") = {"network"} /\ \A x : Extra(res, "port", x) = {}
    BY DEF Fixed, Extra
  <2>3. Entities(res, "port") = res.ports
    BY DEF Entities, ListOf
  <2> QED
    BY <1>9, <2>1, <2>2, <2>3, PortSets
<1>10. CASE kind = "router"
  <2>1. m \in map_routers(res)
    BY <1>10, ProcessMaps DEF StageOf
  <2>2. Fixed("router") = {"tenant"} /\ \A x : Extra(res, "router", x) = Refs("subnets",
              "subnet", process_device_subnet_list(res, x.id))
    BY DEF Fixed, Extra
  <2>3. Entities(res, "router") = res.routers
    BY DEF Entities, ListOf
  <2> QED
    BY <1>10, <2>1, <2>2, <2>3, RouterSets
<1>11. CASE kind = "floatingip"
  <2>1. m \in map_floatingips(res)
    BY <1>11, ProcessMaps DEF StageOf
  <2>2. Fixed("floatingip") = {"network", "tenant"} /\ \A x : Extra(res, "floatingip", x) = {}
    BY DEF Fixed, Extra
  <2>3. Entities(res, "floatingip") = res.floatingips
    BY DEF Entities, ListOf
  <2> QED
    BY <1>11, <2>1, <2>2, <2>3, FloatingIpSets
<1>12. CASE kind = "volume"
  <2>1. m \in map_volumes(res)
    BY <1>12, ProcessMaps DEF StageOf
  <2>2. Fixed("volume") = {} /\ \A x : Extra(res, "volume", x) = Refs("volType", "volType",
              TypeFound(res, x))
    BY DEF Fixed, Extra
  <2>3. Entities(res, "volume") = res.volumes
    BY DEF Entities, ListOf
  <2> QED
    BY <1>12, <2>1, <2>2, <2>3, VolumeSets
<1>13. CASE kind = "snapshot"
  <2>1. m \in map_volumesnapshots(res)
    BY <1>13, ProcessMaps DEF StageOf
  <2>2. Fixed("snapshot") = {} /\ \A x : Extra(res, "snapshot", x) = {}
    BY DEF Fixed, Extra
  <2>3. Entities(res, "snapshot") = res.volsnapshots
    BY DEF Entities, ListOf
  <2> QED
    BY <1>13, <2>1, <2>2, <2>3, SnapshotSets
<1> QED
  BY <1>1, <1>2, <1>3, <1>4, <1>5, <1>6, <1>7, <1>8, <1>9, <1>10, <1>11, <1>12,
        <1>13 DEF Kinds, ListOf

\* The setter of tenants is the only one of their relation.
LEMMA TenantSetter ==
    ASSUME NEW m, NEW t
    PROVE  <<"tenant", t>> \in Sets(m.set) <=> "tenant" \in DOMAIN m.set /\ t \in m.set["tenant"]
<1>1. \A s : RelationOf(s) = "tenant" <=> s = "tenant"
  BY DEF RelationOf, ByName
<1> QED
  BY <1>1 DEF Sets

\* What is referred to as a tenant is a tenant.
LEMMA BearsTenants ==
    ASSUME NEW kind \in Kinds, NEW x, NEW t, <<"tenant", t>> \in Bears(kind, x)
    PROVE  \E u : t = <<"tenant", u>>
  BY DEF Bears, Refs

\* A map that names a tenant is made from an entity that refers to it.
LEMMA TenantsNamed ==
    ASSUME NEW res, NEW i \in 2..21, NEW m \in process(res)[i],
           "tenant" \in DOMAIN m.set, NEW t \in m.set["tenant"]
    PROVE  \E kind \in Kinds \ {"tenant", "agent"} : \E x \in Entities(res, kind) :
              /\ i = StageOf[kind]
              /\ m.id = <<kind, x.id>>
              /\ <<"tenant", t>> \in Bears(kind, x)
<1>1. CASE i \in {3, 4, 5, 8, 10, 11, 12, 13, 15, 16, 17, 18, 20}
  <2>1. KindAt[i] \in Kinds \ {"tenant", "agent"} /\ StageOf[KindAt[i]] = i
    BY <1>1 DEF KindAt, StageOf, Kinds, ListOf
  <2>2. PICK x \in Entities(res, KindAt[i]) :
              /\ m.id = <<KindAt[i], x.id>>
              /\ Sets(m.set) = Bears(KindAt[i], x) \cup Extra(res, KindAt[i], x)
    BY <2>1, MapsOfKinds
  <2>3. <<"tenant", t>> \in Sets(m.set)
    BY TenantSetter
  <2>4. <<"tenant", t>> \notin Extra(res, KindAt[i], x)
    BY DEF Extra, Refs
  <2> QED
    BY <2>1, <2>2, <2>3, <2>4
<1>2. CASE i = 14
  BY <1>2, ProcessMaps, AgentSets
<1>3. CASE i \in {2, 6, 7, 9, 19, 21}
  <2>1. \/ m \in map_regions
        \/ m \in map_zones(res)
        \/ m \in map_hosts(res)
        \/ m \in map_nova_services(res) \cup map_cinder_services(res)
        \/ m \in map_pools(res)
        \/ m \in map_api_endpoints
    BY <1>3, ProcessMaps
  <2> QED
    BY <2>1, OtherSets
<1> QED
  BY <1>1, <1>2, <1>3

\* The tenants: those listed and enabled, and those that a map names.
LEMMA TenantMaps ==
    ASSUME NEW res
    PROVE  /\ \A m \in process(res)[1] :
                 /\ Sets(m.set) = {}
                 /\ \/ \E x \in Entities(res, "tenant") : m.id = <<"tenant", x.id>>
                    \/ \E i \in 2..21 : \E n \in process(res)[i] :
                          "tenant" \in DOMAIN n.set /\ m.id \in n.set["tenant"]
           /\ \A x \in Entities(res, "tenant") : \E m \in process(res)[1] : m.id = <<"tenant",
                    x.id>>
           /\ \A i \in 2..21 : \A n \in process(res)[i] : "tenant" \in DOMAIN n.set =>
                 \A t \in n.set["tenant"] : \E m \in process(res)[1] : m.id = t
<1> DEFINE M == DiscoveredMaps(res)
           known == {m.id : m \in M[1]}
           all == UNION {m.set["tenant"] : m \in {x \in AllMaps(M) : "tenant" \in DOMAIN x.set}}
<1>1. process(res)[1] = map_tenants(res) \cup {ObjectMap(t, NoRefs) : t \in all \ known}
  BY ProcessMaps DEF DummyTenants
<1>2. \A t : ObjectMap(t, NoRefs).id = t /\ Sets(ObjectMap(t, NoRefs).set) = {}
  BY SetsOfNone DEF ObjectMap
<1>3. \A m \in map_tenants(res) : Sets(m.set) = {} /\ "tenant" \notin DOMAIN m.set
  BY SetsOfNone DEF map_tenants, ObjectMap
<1>4. /\ M[1] = map_tenants(res)
      /\ Len(M) = 21
      /\ \A i \in 2..21 : M[i] = process(res)[i]
  BY DEF DiscoveredMaps, process
<1>5. \A m : m \in AllMaps(M) <=> m \in map_tenants(res) \/ \E i \in 2..21 : m \in process(res)[i]
  BY <1>4 DEF AllMaps
<1>6. \A t : t \in all <=> \E i \in 2..21 : \E n \in process(res)[i] :
                              "tenant" \in DOMAIN n.set /\ t \in n.set["tenant"]
  BY <1>3, <1>5
<1>7. /\ \A m \in map_tenants(res) : \E x \in Entities(res, "tenant") : m.id = <<"tenant", x.id>>
      /\ \A x \in Entities(res, "tenant") : \E m \in map_tenants(res) : m.id = <<"tenant", x.id>>
  BY <1>2 DEF map_tenants, process_quota_tenants, Entities
<1> HIDE DEF M, all
<1>8. \A t \in all : \E m \in process(res)[1] : m.id = t
  BY <1>1, <1>2, <1>4
<1>9. ASSUME NEW m \in process(res)[1]
      PROVE  /\ Sets(m.set) = {}
             /\ \/ \E x \in Entities(res, "tenant") : m.id = <<"tenant", x.id>>
                \/ \E i \in 2..21 : \E n \in process(res)[i] :
                      "tenant" \in DOMAIN n.set /\ m.id \in n.set["tenant"]
  <2>1. CASE m \in map_tenants(res)
    BY <1>3, <1>7, <2>1
  <2>2. CASE m \notin map_tenants(res)
    <3>1. PICK t \in all : m = ObjectMap(t, NoRefs)
      BY <1>1, <2>2
    <3> QED
      BY <1>2, <1>6, <3>1
  <2> QED
    BY <2>1, <2>2
<1>10. \A x \in Entities(res, "tenant") : \E m \in process(res)[1] : m.id = <<"tenant", x.id>>
  BY <1>1, <1>7
<1>11. ASSUME NEW i \in 2..21, NEW n \in process(res)[i], "tenant" \in DOMAIN n.set,
              NEW t \in n.set["tenant"]
       PROVE  \E m \in process(res)[1] : m.id = t
  BY <1>6, <1>8, <1>11
<1> QED
  BY <1>9, <1>10, <1>11

\* All maps at a place of process()'s order are of one kind.
LEMMA KindsInOrder ==
    ASSUME NEW res, NEW i \in 1..21, NEW m \in process(res)[i]
    PROVE  m.id[1] = KindAt[i]
<1>1. CASE i \in {3, 4, 5, 8, 10, 11, 12, 13, 15, 16, 17, 18, 20}
  <2>1. KindAt[i] \in Kinds \ {"tenant", "agent"} /\ StageOf[KindAt[i]] = i
    BY <1>1 DEF KindAt, StageOf, Kinds, ListOf
  <2> QED
    BY <2>1, MapsOfKinds
<1>2. CASE i = 14
  <2>1. m \in map_agents(res)
    BY <1>2, ProcessMaps
  <2> QED
    BY <1>2, <2>1, AgentSets DEF KindAt
<1>3. CASE i \in {2, 6, 7, 9, 19, 21}
  <2>1. \/ i = 2 /\ m \in map_regions
        \/ i = 6 /\ m \in map_zones(res)
        \/ i = 7 /\ m \in map_hosts(res)
        \/ i = 9 /\ m \in map_nova_services(res) \cup map_cinder_services(res)
        \/ i = 19 /\ m \in map_pools(res)
        \/ i = 21 /\ m \in map_api_endpoints
    BY <1>3, ProcessMaps
  <2> QED
    BY <2>1, OtherSets DEF KindAt
<1>4. CASE i = 1
  <2>1. CASE \E x \in Entities(res, "tenant") : m.id = <<"tenant", x.id>>
    BY <1>4, <2>1 DEF KindAt
  <2>2. CASE \E j \in 2..21 : \E n \in process(res)[j] :
                "tenant" \in DOMAIN n.set /\ m.id \in n.set["tenant"]
    <3>1. PICK kind \in Kinds : \E x : <<"tenant", m.id>> \in Bears(kind, x)
      BY <2>2, TenantsNamed
    <3> QED
      BY <1>4, <3>1, BearsTenants DEF KindAt
  <2> QED
    BY <1>4, <2>1, <2>2, TenantMaps
<1> QED
  BY <1>1, <1>2, <1>3, <1>4

-----------------------------------------------------------------------------
(* What a cycle knows while it asks. *)

\* The lists that one call answers whole, and the place of the call in Plan.
PlaceOf == [tenants |-> 2, images |-> 5, hypervisors |-> 6, servers |-> 8, agents |-> 10,
    networks |-> 11, subnets |-> 12, routers |-> 13, ports |-> 14, floatingips |-> 15,
    volumes |-> 17, volumetypes |-> 18, volsnapshots |-> 19]

\* The calls that the answer of another adds.
AddedBy(name) ==
    CASE name = "hypervisors_detailed" -> {"hypervisor_detail_id"}
      [] name = "agents"               -> {"agent_l3_routers", "agent_dhcp_networks"}
      [] name = "servers"              -> {"servers_single"}
      [] name = "volumes"              -> {"volumes_single"}
      [] name = "volsnapshots"         -> {"volsnapshots_single"}
      [] name = "volume_pools"         -> {"quotas"}
      [] OTHER                         -> {}
SingleOf == [servers |-> "servers_single", volumes |-> "volumes_single",
             volsnapshots |-> "volsnapshots_single"]

IsSeq(s) == s \in Seq({s[i] : i \in DOMAIN s})

\* The calls "line": first k that the call before them has added, then the
\* last n of Plan.
Line(line, n, k) ==
    /\ IsSeq(line) /\ Len(line) = k + n
    /\ \A i \in 1..n : line[k + i] = Plan[21 - n + i]
    /\ \A i \in 1..k : n < 21 /\ line[i][1] \in AddedBy(Plan[21 - n][1])

\* A list of the results is at most one that was there and, unless its call
\* was lost, at least one that was there.
Told(list) ==
    /\ \E c \in during : results[list] \subseteq c[list]
    /\ list \notin failed => \E c \in during : c[list] \subseteq results[list]

ToldFlavors(n) ==
    /\ \A f \in results.flavors : \E c \in during : f \in c.flavors
    /\ 21 - n < 3 => results.flavors = {}
    /\ 21 - n >= 3 /\ "flavors" \notin failed =>
          \E c \in during : {f \in c.flavors : f.public} \subseteq results.flavors
    /\ 21 - n >= 4 /\ "private_flavors" \notin failed =>
          \E c \in during : {f \in c.flavors : ~f.public} \subseteq results.flavors

\* What each agent serves was answered, was lost or is still to be asked.
ServedWhole(a, list, field) ==
    \E s \in results.served : \E c \in during :
        /\ s.agent = a.id
        /\ {x.id : x \in {y \in c[list] : y.id \in a.serves}} \subseteq s[field]
ToldServed(k) ==
    \A a \in results.agents :
        /\ \/ a.kind # "l3"
           \/ "agent_l3_routers" \in failed
           \/ \E i \in 1..k : todo[i] = <<"agent_l3_routers", a>>
           \/ ServedWhole(a, "routers", "routers")
        /\ \/ a.kind # "dhcp"
           \/ "agent_dhcp_networks" \in failed
           \/ \E i \in 1..k : todo[i] = <<"agent_dhcp_networks", a>>
           \/ ServedWhole(a, "networks", "networks")

ToldQuotas(k) ==
    \A t \in results.tenants :
        \/ "quotas" \in failed
        \/ t.id \in results.quotas
        \/ \E i \in 1..k : todo[i] = <<"quotas", t>>

Answers(n, k) ==
    /\ \A list \in DOMAIN PlaceOf :
          IF PlaceOf[list] <= 21 - n THEN Told(list) ELSE results[list] = {}
    /\ \A list \in DOMAIN SingleOf :
          (\E i \in 1..k : todo[i][1] = SingleOf[list]) => k = 1 /\ results[list] = {}
    /\ ToldFlavors(n)
    /\ 21 - n >= 10 => ToldServed(k)
    /\ n = 0 => ToldQuotas(k)

\* A flavor that was there all the time was public or private all the time.
VisibilityKept ==
    \A c, d \in during : \A f \in c.flavors, g \in d.flavors :
        /\ f.id = g.id
        /\ \A b \in during : \E h \in b.flavors : h.id = f.id
        => f.public = g.public

Collecting ==
    /\ cloud \in during
    /\ \A c \in during : WellFormed(c)
    /\ DOMAIN results = DOMAIN NoResults
    /\ VisibilityKept
    /\ \E n \in 0..21, k \in Nat : Line(todo, n, k) /\ Answers(n, k)

\* The relations of a kind that a map of the modeler or of an event sets.
RefsKnown ==
    \A x \in model.refs : x[1][1] \in Kinds \ {"agent"} =>
        Pair(x) \in KeptByModeler \/ x[2] \in Fixed(x[1][1])

MapKnown(m) ==
    m.id[1] \in Kinds \ {"agent"} => \A p \in Sets(m.set) :
        <<m.id[1], p[1]>> \in KeptByModeler \/ p[1] \in Fixed(m.id[1])

IInv ==
    /\ WellFormed(cloud)
    /\ phase = "collecting" => Collecting
    /\ IsSeq(pending) /\ \A i \in 1..Len(pending) : MapKnown(pending[i])
    /\ RefsKnown

-----------------------------------------------------------------------------
(* Sequences of calls. *)

\* A sequence is one over any set that has its elements.
LEMMA IsSeqIs ==
    ASSUME NEW s
    PROVE  IsSeq(s) <=> \E S : s \in Seq(S)
<1>1. ASSUME NEW S, s \in Seq(S)
      PROVE  IsSeq(s)
  <2>1. s = [i \in 1..Len(s) |-> s[i]] /\ Len(s) \in Nat /\ DOMAIN s = 1..Len(s)
    BY <1>1
  <2> QED
    BY <2>1 DEF IsSeq
<1> QED
  BY <1>1 DEF IsSeq

\* Head and tail of a sequence.
LEMMA SeqFacts ==
    ASSUME NEW s, IsSeq(s)
    PROVE  /\ Len(s) \in Nat /\ DOMAIN s = 1..Len(s)
           /\ s # <<>> <=> Len(s) > 0
           /\ s # <<>> => /\ IsSeq(Tail(s))
                          /\ Head(s) = s[1]
                          /\ Len(Tail(s)) = Len(s) - 1
                          /\ \A i \in 1..Len(s)-1 : Tail(s)[i] = s[i + 1]
<1>1. PICK S : s \in Seq(S)
  BY IsSeqIs
<1>2. s # <<>> => Tail(s) \in Seq(S)
  BY <1>1
<1>3. s # <<>> => IsSeq(Tail(s))
  BY <1>2, IsSeqIs
<1> QED
  BY <1>1, <1>3

\* What a concatenation is made of.
LEMMA ConcatFacts ==
    ASSUME NEW s, NEW t, IsSeq(s), IsSeq(t)
    PROVE  /\ IsSeq(s \o t)
           /\ Len(s \o t) = Len(s) + Len(t)
           /\ \A i \in 1..Len(s) : (s \o t)[i] = s[i]
           /\ \A i \in 1..Len(t) : (s \o t)[Len(s) + i] = t[i]
<1>1. PICK S : s \in Seq(S)
  BY IsSeqIs
<1>2. PICK T : t \in Seq(T)
  BY IsSeqIs
<1>3. s \in Seq(S \cup T) /\ t \in Seq(S \cup T)
  BY <1>1, <1>2
<1>4. s \o t \in Seq(S \cup T)
  BY <1>3
<1>5. IsSeq(s \o t)
  BY <1>4, IsSeqIs
<1> QED
  BY <1>3, <1>5

\* The sequence of a finite set has all its members.
LEMMA SetToSeqFacts ==
    ASSUME NEW S, IsFiniteSet(S)
    PROVE  /\ Cardinality(S) \in Nat
           /\ SetToSeq(S) \in [1..Cardinality(S) -> S]
           /\ \A x \in S : \E i \in 1..Cardinality(S) : SetToSeq(S)[i] = x
<1> DEFINE n == Cardinality(S)
           f == SetToSeq(S)
<1>1. n \in Nat /\ ExistsBijection(1..n, S)
  BY FS_CardinalityType
<1>2. \E g \in [1..n -> S] : IsInjective(g)
  BY <1>1 DEF ExistsBijection, Bijection, Injection
<1>3. f \in [1..n -> S] /\ IsInjective(f)
  BY <1>2 DEF SetToSeq
<1>4. f \in Injection(1..n, S)
  BY <1>3 DEF Injection
<1>5. Cardinality(1..n) = n
  BY <1>1, FS_Interval
<1>6. f \in Surjection(1..n, S)
  BY <1>4, <1>5, FS_Injection
<1> QED
  BY <1>1, <1>3, <1>6 DEF Surjection

\* The calls for the members of a set.
EachOf(call, S) == [i \in 1..Cardinality(S) |-> <<call, SetToSeq(S)[i]>>]

\* Each() calls once for every member of a finite set, and nothing else.
LEMMA EachFacts ==
    ASSUME NEW call, NEW S, IsFiniteSet(S)
    PROVE  /\ IsSeq(EachOf(call, S))
           /\ \A i \in 1..Len(EachOf(call, S)) : EachOf(call, S)[i][1] = call
           /\ \A x \in S : \E i \in 1..Len(EachOf(call, S)) : EachOf(call, S)[i] = <<call, x>>
<1>1. EachOf(call, S) \in Seq({call} \X S)
  BY SetToSeqFacts DEF EachOf
<1>2. IsSeq(EachOf(call, S))
  BY <1>1, IsSeqIs
<1>3. Len(EachOf(call, S)) = Cardinality(S)
  BY SetToSeqFacts DEF EachOf
<1> QED
  BY <1>2, <1>3, SetToSeqFacts DEF EachOf

Conditional == {"hypervisors_detailed", "agents", "servers", "volumes", "volsnapshots",
      "volume_pools"}

\* Calls that the call "name" adds.
Adds(calls, name) ==
    /\ IsSeq(calls)
    /\ \A i \in 1..Len(calls) : calls[i][1] \in AddedBy(name)

\* The calls for all that the answers list.
AddsAll(calls, name, answers) ==
    /\ name = "agents" => \A a \in answers.agents :
          /\ a.kind = "l3" => \E i \in 1..Len(calls) : calls[i] = <<"agent_l3_routers", a>>
          /\ a.kind = "dhcp" => \E i \in 1..Len(calls) : calls[i] = <<"agent_dhcp_networks", a>>
    /\ name = "volume_pools" => \A t \in answers.tenants :
          \E i \in 1..Len(calls) : calls[i] = <<"quotas", t>>
    /\ name \in DOMAIN SingleOf => Len(calls) = IF answers[name] = {} THEN 1 ELSE 0

\* What the answer of a call adds to the calls.
LEMMA FurtherFacts ==
    ASSUME NEW name, NEW answers,
           IsFiniteSet(answers.hypervisors), IsFiniteSet(answers.agents),
                 IsFiniteSet(answers.tenants)
    PROVE  /\ Adds(Further(name, answers), name)
           /\ AddsAll(Further(name, answers), name, answers)
           /\ name \notin Conditional => Further(name, answers) = <<>>
<1> DEFINE Agents(kind) == {a \in answers.agents : a.kind = kind}
           F == Further(name, answers)
<1> USE DEF Adds, AddsAll
<1>0. IsSeq(<<>>) /\ Len(<<>>) = 0
  <2>1. <<>> \in Seq({})
    OBVIOUS
  <2> QED
    BY <2>1, IsSeqIs
<1>1. CASE name \notin Conditional
  <2>1. F = <<>>
    BY <1>1 DEF Further, Conditional
  <2> QED
    BY <1>0, <1>1, <2>1 DEF Conditional, SingleOf
<1>2. CASE name = "hypervisors_detailed"
  <2>1. F = EachOf("hypervisor_detail_id", answers.hypervisors)
    BY <1>2 DEF Further, EachOf
  <2> QED
    BY <1>2, <2>1, EachFacts DEF AddedBy, SingleOf, Conditional
<1>3. CASE name = "agents"
  <2> DEFINE a3 == EachOf("agent_l3_routers", Agents("l3"))
             ad == EachOf("agent_dhcp_networks", Agents("dhcp"))
  <2>1. F = a3 \o ad
    BY <1>3 DEF Further, EachOf
  <2>2. IsFiniteSet(Agents("l3")) /\ IsFiniteSet(Agents("dhcp"))
    BY <1>3, FS_Subset
  <2>3. /\ IsSeq(a3) /\ IsSeq(ad)
        /\ \A i \in 1..Len(a3) : a3[i][1] = "agent_l3_routers"
        /\ \A i \in 1..Len(ad) : ad[i][1] = "agent_dhcp_networks"
        /\ \A x \in Agents("l3") : \E i \in 1..Len(a3) : a3[i] = <<"agent_l3_routers", x>>
        /\ \A x \in Agents("dhcp") : \E i \in 1..Len(ad) : ad[i] = <<"agent_dhcp_networks", x>>
    BY <2>2, EachFacts
  <2> HIDE DEF a3, ad
  <2>4. /\ IsSeq(F) /\ Len(F) = Len(a3) + Len(ad)
        /\ \A i \in 1..Len(a3) : F[i] = a3[i]
        /\ \A i \in 1..Len(ad) : F[Len(a3) + i] = ad[i]
        /\ Len(a3) \in Nat /\ Len(ad) \in Nat
    BY <2>1, <2>3, ConcatFacts, SeqFacts
  <2>5. ASSUME NEW i \in 1..Len(F)
        PROVE  F[i][1] \in AddedBy("agents")
    <3>1. CASE i <= Len(a3)
      BY <2>3, <2>4, <3>1 DEF AddedBy
    <3>2. CASE i > Len(a3)
      <4>1. PICK j \in 1..Len(ad) : i = Len(a3) + j
        <5>1. i - Len(a3) \in 1..Len(ad) /\ i = Len(a3) + (i - Len(a3))
          BY <2>4, <3>2
        <5> QED
          BY <5>1
      <4> QED
        BY <2>3, <2>4, <4>1 DEF AddedBy
    <3> QED
      BY <2>4, <3>1, <3>2
  <2>6. ASSUME NEW a \in answers.agents, a.kind = "l3"
        PROVE  \E i \in 1..Len(F) : F[i] = <<"agent_l3_routers", a>>
    <3>1. PICK i \in 1..Len(a3) : a3[i] = <<"agent_l3_routers", a>>
      BY <2>3, <2>6
    <3> QED
      BY <2>4, <3>1
  <2>7. ASSUME NEW a \in answers.agents, a.kind = "dhcp"
        PROVE  \E i \in 1..Len(F) : F[i] = <<"agent_dhcp_networks", a>>
    <3>1. PICK i \in 1..Len(ad) : ad[i] = <<"agent_dhcp_networks", a>>
      BY <2>3, <2>7
    <3>2. Len(a3) + i \in 1..Len(F)
      BY <2>4
    <3> QED
      BY <2>4, <3>1, <3>2
  <2> QED
    BY <1>3, <2>4, <2>5, <2>6, <2>7 DEF SingleOf, Conditional
<1>4. CASE name \in DOMAIN SingleOf
  <2>1. F = IF answers[name] = {} THEN <<<<SingleOf[name], SingleOf[name]>>>> ELSE <<>>
    BY <1>4 DEF Further, Calls, Call, SingleOf
  <2>2. CASE answers[name] = {}
    <3>1. /\ F \in Seq({<<SingleOf[name], SingleOf[name]>>})
          /\ Len(F) = 1 /\ F[1] = <<SingleOf[name], SingleOf[name]>>
      BY <2>1, <2>2
    <3>2. IsSeq(F)
      BY <3>1, IsSeqIs
    <3>3. SingleOf[name] \in AddedBy(name)
      BY <1>4 DEF AddedBy, SingleOf
    <3> QED
      BY <1>4, <2>2, <3>1, <3>2, <3>3 DEF SingleOf, Conditional
  <2>3. CASE answers[name] # {}
    BY <1>0, <1>4, <2>1, <2>3 DEF SingleOf, Conditional
  <2> QED
    BY <2>2, <2>3
<1>5. CASE name = "volume_pools"
  <2>1. F = EachOf("quotas", answers.tenants)
    BY <1>5 DEF Further, EachOf
  <2>2. IsFiniteSet(answers.tenants)
    BY <1>5
  <2>3. /\ IsSeq(F)
        /\ \A i \in 1..Len(F) : F[i][1] = "quotas"
        /\ \A x \in answers.tenants : \E i \in 1..Len(F) : F[i] = <<"quotas", x>>
    <3> DEFINE E == EachOf("quotas", answers.tenants)
    <3>1. /\ IsSeq(E)
          /\ \A i \in 1..Len(E) : E[i][1] = "quotas"
          /\ \A x \in answers.tenants : \E i \in 1..Len(E) : E[i] = <<"quotas", x>>
      BY <2>2, EachFacts
    <3>2. F = E
      BY <2>1
    <3> HIDE DEF E, F
    <3> QED
      BY <3>1, <3>2
  <2>4. /\ AddedBy("volume_pools") = {"quotas"}
        /\ "volume_pools" \in Conditional \ DOMAIN SingleOf
    BY DEF AddedBy, SingleOf, Conditional
  <2> HIDE DEF F
  <2> QED
    BY <1>5, <2>3, <2>4 DEF F
<1> QED
  BY <1>1, <1>2, <1>3, <1>4, <1>5 DEF Conditional, SingleOf

-----------------------------------------------------------------------------
(* One call of a cycle. *)

\* The names of the calls in their order.
LEMMA PlanIs ==
    /\ Len(Plan) = 21
    /\ IsSeq(Plan)
    /\ \A p \in 1..21 :
          /\ Plan[p][1] \notin {"hypervisor_detail_id", "agent_l3_routers", "agent_dhcp_networks",
                "servers_single", "volumes_single", "volsnapshots_single", "quotas"}
          /\ Plan[p][1] \in DOMAIN PlaceOf \cup {"flavors", "private_flavors", "nova_url",
                   "cinder_url",
                "hypervisors_detailed", "services", "cinder_services", "volume_pools"}
          /\ \A list \in DOMAIN PlaceOf : Plan[p][1] = list <=> PlaceOf[list] = p
          /\ Plan[p][1] = "flavors" <=> p = 3
          /\ Plan[p][1] = "private_flavors" <=> p = 4
          /\ Plan[p][1] = "hypervisors_detailed" <=> p = 7
          /\ Plan[p][1] = "volume_pools" <=> p = 21
<1> DEFINE N == <<"nova_url", "tenants", "flavors", "private_flavors", "images",
    "hypervisors", "hypervisors_detailed", "servers", "services", "agents", "networks",
    "subnets", "routers", "ports", "floatingips", "cinder_url", "volumes", "volumetypes",
    "volsnapshots", "cinder_services", "volume_pools">>
<1>1. Plan = [i \in 1..Len(N) |-> <<N[i], N[i]>>]
  BY DEF Plan, Calls, Call
<1>2. Len(N) = 21
  OBVIOUS
<1>3. Plan = [i \in 1..21 |-> <<N[i], N[i]>>]
  BY <1>1, <1>2
<1>4. \A p \in 1..21 : Plan[p][1] = N[p]
  <2> HIDE DEF N
  <2> QED
    BY <1>3
<1>5. Plan \in Seq({<<N[i], N[i]>> : i \in 1..21}) /\ Len(Plan) = 21
  <2> HIDE DEF N
  <2> QED
    BY <1>3
<1>7. ASSUME NEW p \in 1..21
      PROVE  /\ N[p] \notin {"hypervisor_detail_id", "agent_l3_routers", "agent_dhcp_networks",
                "servers_single", "volumes_single", "volsnapshots_single", "quotas"}
             /\ N[p] \in DOMAIN PlaceOf \cup {"flavors", "private_flavors", "nova_url",
                      "cinder_url",
                    "hypervisors_detailed", "services", "cinder_services", "volume_pools"}
             /\ \A list \in DOMAIN PlaceOf : N[p] = list <=> PlaceOf[list] = p
             /\ N[p] = "flavors" <=> p = 3
             /\ N[p] = "private_flavors" <=> p = 4
             /\ N[p] = "hypervisors_detailed" <=> p = 7
             /\ N[p] = "volume_pools" <=> p = 21
  BY DEF PlaceOf
<1> HIDE DEF N
<1> QED
  BY <1>4, <1>5, <1>7, IsSeqIs

\* What an added call tells of the call that added it.
LEMMA AddedByPlan ==
    ASSUME NEW p \in 1..21, NEW name \in AddedBy(Plan[p][1])
    PROVE  /\ name \notin Conditional \cup DOMAIN PlaceOf \cup {"flavors", "private_flavors"}
           /\ \A list \in DOMAIN SingleOf : name = SingleOf[list] => p = PlaceOf[list]
           /\ name \in {"agent_l3_routers", "agent_dhcp_networks"} => p = 10
           /\ name = "quotas" => p = 21
<1>1. PICK first : first = Plan[p][1]
  OBVIOUS
<1>2. /\ \A list \in DOMAIN PlaceOf : first = list <=> PlaceOf[list] = p
      /\ first = "volume_pools" <=> p = 21
  BY <1>1, PlanIs
<1> QED
  BY <1>1, <1>2 DEF AddedBy, PlaceOf, SingleOf, Conditional

\* What the results are after a call, its answer lost or not: what was lost
\* is among the calls of "lost".
Yields(name, arg, answers, lost) ==
    /\ DOMAIN answers = DOMAIN NoResults
    /\ failed \subseteq lost
    /\ \A list \in DOMAIN PlaceOf :
          /\ name = list => answers[list] = cloud[list] \/ (answers[list]
                   = results[list] /\ list \in lost)
          /\ name # list => \/ answers[list] = results[list]
                            \/ /\ list \in DOMAIN SingleOf /\ name = SingleOf[list]
                               /\ answers[list] \subseteq cloud[list]
    /\ \/ answers.flavors = results.flavors
       \/ /\ name = "flavors"
          /\ answers.flavors = {f \in cloud.flavors : f.public}
       \/ /\ name = "private_flavors"
          /\ answers.flavors = results.flavors \cup {f \in cloud.flavors : ~f.public}
    /\ name = "flavors" =>
          \/ "flavors" \in lost
          \/ answers.flavors = {f \in cloud.flavors : f.public}
    /\ name = "private_flavors" =>
          \/ "private_flavors" \in lost
          \/ answers.flavors = results.flavors \cup {f \in cloud.flavors : ~f.public}
    /\ results.served \subseteq answers.served
    /\ name \in {"agent_l3_routers", "agent_dhcp_networks"} =>
          name \in lost \/ ServedBy(arg) \in answers.served
    /\ results.quotas \subseteq answers.quotas
    /\ name = "quotas" => "quotas" \in lost \/ arg.id \in answers.quotas

AllCalls == {Plan[p][1] : p \in 1..21} \cup UNION {AddedBy(Plan[p][1]) : p \in 1..21}

\* An answer fills one place of the results.
LEMMA OnePlace ==
    ASSUME NEW key \in DOMAIN results, NEW v, NEW A, A = [results EXCEPT ![key] = v]
    PROVE  /\ DOMAIN A = DOMAIN results
           /\ A[key] = v
           /\ \A l \in DOMAIN results : l # key => A[l] = results[l]
  OBVIOUS

\* The names of the calls collect() makes.
LEMMA CallNames ==
    AllCalls \subseteq DOMAIN PlaceOf \cup {"flavors", "private_flavors", "nova_url", "cinder_url",
          "servers_single", "volumes_single", "volsnapshots_single", "agent_l3_routers",
          "agent_dhcp_networks", "quotas", "hypervisors_detailed", "hypervisor_detail_id",
          "services", "cinder_services", "volume_pools"}
<1>1. ASSUME NEW p \in 1..21
      PROVE  Plan[p][1] \in DOMAIN PlaceOf \cup {"flavors", "private_flavors", "nova_url",
            "cinder_url",
                "hypervisors_detailed", "services", "cinder_services", "volume_pools"}
  BY PlanIs DEF PlaceOf
<1>2. \A name : AddedBy(name) \subseteq {"servers_single", "volumes_single", "volsnapshots_single",
          "agent_l3_routers", "agent_dhcp_networks", "quotas", "hypervisor_detail_id"}
  BY DEF AddedBy
<1> QED
  BY <1>1, <1>2 DEF AllCalls

\* An answered call fills its own list from the cloud there is.
LEMMA AnsweredYields ==
    ASSUME NEW name \in AllCalls, NEW arg, DOMAIN results = DOMAIN NoResults
    PROVE  Yields(name, arg, Answered(name, arg), failed)
<1> DEFINE A == Answered(name, arg)
<1> SUFFICES Yields(name, arg, A, failed)
  OBVIOUS
<1>0. /\ DOMAIN NoResults = DOMAIN PlaceOf \cup {"flavors", "services", "cinder_services",
               "volume_pools",
             "hypervisor_details_lost", "served", "quotas", "nova_url", "cinder_url"}
      /\ DOMAIN PlaceOf = {"tenants", "images", "hypervisors", "servers", "agents", "networks",
               "subnets",
             "routers", "ports", "floatingips", "volumes", "volumetypes", "volsnapshots"}
      /\ DOMAIN SingleOf = {"servers", "volumes", "volsnapshots"}
      /\ SingleOf["servers"] = "servers_single"
      /\ SingleOf["volumes"] = "volumes_single"
      /\ SingleOf["volsnapshots"] = "volsnapshots_single"
  BY DEF NoResults, PlaceOf, SingleOf
<1>1. CASE name = "flavors"
  <2>1. A = [results EXCEPT !["flavors"] = {f \in cloud.flavors : f.public}]
    BY <1>1 DEF Answered
  <2>2. PICK v : v = {f \in cloud.flavors : f.public}
    OBVIOUS
  <2>3. /\ DOMAIN A = DOMAIN results
        /\ A["flavors"] = v
        /\ \A l \in DOMAIN results : l # "flavors" => A[l] = results[l]
    BY <1>0, <2>1, <2>2, OnePlace
  <2> HIDE DEF A
  <2> QED
    BY <1>0, <1>1, <2>2, <2>3 DEF Yields
<1>2. CASE name = "private_flavors"
  <2>1. A = [results EXCEPT !["flavors"] = results.flavors \cup {f \in cloud.flavors : ~f.public}]
    BY <1>2 DEF Answered
  <2>2. PICK v : v = results.flavors \cup {f \in cloud.flavors : ~f.public}
    OBVIOUS
  <2>3. /\ DOMAIN A = DOMAIN results
        /\ A["flavors"] = v
        /\ \A l \in DOMAIN results : l # "flavors" => A[l] = results[l]
    BY <1>0, <2>1, <2>2, OnePlace
  <2> HIDE DEF A
  <2> QED
    BY <1>0, <1>2, <2>2, <2>3 DEF Yields
<1>3. CASE name = "nova_url"
  <2>1. A = [results EXCEPT !["nova_url"] = NovaUrl]
    BY <1>3 DEF Answered
  <2>2. PICK v : v = NovaUrl
    OBVIOUS
  <2>3. /\ DOMAIN A = DOMAIN results
        /\ A["nova_url"] = v
        /\ \A l \in DOMAIN results : l # "nova_url" => A[l] = results[l]
    BY <1>0, <2>1, <2>2, OnePlace
  <2> HIDE DEF A
  <2> QED
    BY <1>0, <1>3, <2>3 DEF Yields
<1>4. CASE name = "cinder_url"
  <2>1. A = [results EXCEPT !["cinder_url"] = CinderUrl]
    BY <1>4 DEF Answered
  <2>2. PICK v : v = CinderUrl
    OBVIOUS
  <2>3. /\ DOMAIN A = DOMAIN results
        /\ A["cinder_url"] = v
        /\ \A l \in DOMAIN results : l # "cinder_url" => A[l] = results[l]
    BY <1>0, <2>1, <2>2, OnePlace
  <2> HIDE DEF A
  <2> QED
    BY <1>0, <1>4, <2>3 DEF Yields
<1>5. CASE name = "servers_single"
  <2>1. A = [results EXCEPT !["servers"] = {s \in cloud.servers : s.tenant = OwnTenant}]
    BY <1>5 DEF Answered
  <2>2. PICK v : v = {s \in cloud.servers : s.tenant = OwnTenant}
    OBVIOUS
  <2>3. /\ DOMAIN A = DOMAIN results
        /\ A["servers"] = v
        /\ \A l \in DOMAIN results : l # "servers" => A[l] = results[l]
    BY <1>0, <2>1, <2>2, OnePlace
  <2> HIDE DEF A
  <2>4. v \subseteq cloud["servers"]
    BY <2>2
  <2> QED
    BY <1>0, <1>5, <2>3, <2>4 DEF Yields
<1>6. CASE name = "volumes_single"
  <2>1. A = [results EXCEPT !["volumes"] = {v \in cloud.volumes : OwnTenant \in v.tenant}]
    BY <1>6 DEF Answered
  <2>2. PICK v : v = {x \in cloud.volumes : OwnTenant \in x.tenant}
    OBVIOUS
  <2>3. /\ DOMAIN A = DOMAIN results
        /\ A["volumes"] = v
        /\ \A l \in DOMAIN results : l # "volumes" => A[l] = results[l]
    BY <1>0, <2>1, <2>2, OnePlace
  <2> HIDE DEF A
  <2>4. v \subseteq cloud["volumes"]
    BY <2>2
  <2> QED
    BY <1>0, <1>6, <2>3, <2>4 DEF Yields
<1>7. CASE name = "volsnapshots_single"
  <2>1. A = [results EXCEPT !["volsnapshots"] = {s \in cloud.volsnapshots : OwnTenant \in s.tenant}]
    BY <1>7 DEF Answered
  <2>2. PICK v : v = {s \in cloud.volsnapshots : OwnTenant \in s.tenant}
    OBVIOUS
  <2>3. /\ DOMAIN A = DOMAIN results
        /\ A["volsnapshots"] = v
        /\ \A l \in DOMAIN results : l # "volsnapshots" => A[l] = results[l]
    BY <1>0, <2>1, <2>2, OnePlace
  <2> HIDE DEF A
  <2>4. v \subseteq cloud["volsnapshots"]
    BY <2>2
  <2> QED
    BY <1>0, <1>7, <2>3, <2>4 DEF Yields
<1>8. CASE name \in {"agent_l3_routers", "agent_dhcp_networks"}
  <2>1. A = [results EXCEPT !["served"] = results.served \cup {ServedBy(arg)}]
    BY <1>8 DEF Answered
  <2>2. PICK v : v = results.served \cup {ServedBy(arg)}
    OBVIOUS
  <2>3. /\ DOMAIN A = DOMAIN results
        /\ A["served"] = v
        /\ \A l \in DOMAIN results : l # "served" => A[l] = results[l]
    BY <1>0, <2>1, <2>2, OnePlace
  <2> HIDE DEF A
  <2>4. results["served"] \subseteq v /\ ServedBy(arg) \in v
    BY <2>2
  <2> QED
    BY <1>0, <1>8, <2>3, <2>4 DEF Yields
<1>9. CASE name = "quotas"
  <2>1. A = [results EXCEPT !["quotas"] = results.quotas \cup {arg.id}]
    BY <1>9 DEF Answered
  <2>2. PICK v : v = results.quotas \cup {arg.id}
    OBVIOUS
  <2>3. /\ DOMAIN A = DOMAIN results
        /\ A["quotas"] = v
        /\ \A l \in DOMAIN results : l # "quotas" => A[l] = results[l]
    BY <1>0, <2>1, <2>2, OnePlace
  <2> HIDE DEF A
  <2>4. results["quotas"] \subseteq v /\ arg.id \in v
    BY <2>2
  <2> QED
    BY <1>0, <1>9, <2>3, <2>4 DEF Yields
<1>10. CASE name \in {"hypervisors_detailed", "hypervisor_detail_id"}
  <2>1. A = results
    BY <1>10 DEF Answered
  <2> HIDE DEF A
  <2> QED
    BY <1>0, <1>10, <2>1 DEF Yields
<1>11. CASE name \in DOMAIN PlaceOf \cup {"services", "cinder_services", "volume_pools"}
  <2>1. A = [results EXCEPT ![name] = cloud[name]]
    BY <1>0, <1>11 DEF Answered
  <2>2. PICK v : v = cloud[name]
    OBVIOUS
  <2>3. /\ DOMAIN A = DOMAIN results
        /\ A[name] = v
        /\ \A l \in DOMAIN results : l # name => A[l] = results[l]
    BY <1>0, <1>11, <2>1, <2>2, OnePlace
  <2> HIDE DEF A
  <2> QED
    BY <1>0, <1>11, <2>2, <2>3 DEF Yields
<1>12. name \in DOMAIN PlaceOf \cup {"flavors", "private_flavors", "nova_url", "cinder_url",
          "servers_single", "volumes_single", "volsnapshots_single", "agent_l3_routers",
          "agent_dhcp_networks", "quotas", "hypervisors_detailed", "hypervisor_detail_id",
          "services", "cinder_services", "volume_pools"}
  BY CallNames
<1> QED
  BY <1>1, <1>2, <1>3, <1>4, <1>5, <1>6, <1>7, <1>8, <1>9, <1>10, <1>11, <1>12

\* A lost call fills nothing and is remembered as lost.
LEMMA LostYields ==
    ASSUME NEW name \in AllCalls, NEW arg, DOMAIN results = DOMAIN NoResults
    PROVE  Yields(name, arg, Lost(name, arg), failed \cup {name})
<1> DEFINE A == Lost(name, arg)
<1> SUFFICES Yields(name, arg, A, failed \cup {name})
  OBVIOUS
<1>0. /\ DOMAIN NoResults = DOMAIN PlaceOf \cup {"flavors", "services", "cinder_services",
               "volume_pools",
             "hypervisor_details_lost", "served", "quotas", "nova_url", "cinder_url"}
      /\ DOMAIN PlaceOf = {"tenants", "images", "hypervisors", "servers", "agents", "networks",
               "subnets",
             "routers", "ports", "floatingips", "volumes", "volumetypes", "volsnapshots"}
      /\ DOMAIN SingleOf = {"servers", "volumes", "volsnapshots"}
      /\ SingleOf["servers"] = "servers_single"
      /\ SingleOf["volumes"] = "volumes_single"
      /\ SingleOf["volsnapshots"] = "volsnapshots_single"
  BY DEF NoResults, PlaceOf, SingleOf
<1>1. /\ DOMAIN A = DOMAIN NoResults
      /\ \A l \in DOMAIN NoResults : l # "hypervisor_details_lost" => A[l] = results[l]
  BY DEF Lost
<1> HIDE DEF A
<1> QED
  BY <1>0, <1>1 DEF Yields

\* The calls move up by one: the next of Plan with those its answer adds
\* before the rest, or one of those that were added.
LEMMA NextOfPlan ==
    ASSUME NEW line, NEW n \in 0..21, Line(line, n, 0), line # <<>>, NEW further, Adds(further,
          Head(line)[1])
    PROVE  /\ n \in 1..21
           /\ Head(line) = Plan[22 - n]
           /\ Line(further \o Tail(line), n - 1, Len(further))
           /\ \A i \in 1..Len(further) : (further \o Tail(line))[i] = further[i]
<1>0. PICK K \in Nat : K = Len(further) /\ IsSeq(further)
  BY SeqFacts DEF Adds
<1>1. /\ IsSeq(line) /\ Len(line) = n
      /\ \A i \in 1..n : line[0 + i] = Plan[21 - n + i]
  BY DEF Line
<1>2. /\ n \in 1..21
      /\ IsSeq(Tail(line)) /\ Len(Tail(line)) = n - 1
      /\ Head(line) = line[1]
      /\ \A i \in 1..n-1 : Tail(line)[i] = line[i + 1]
  BY <1>1, SeqFacts
<1>3. line[0 + 1] = Plan[21 - n + 1]
  BY <1>1, <1>2
<1>4. Head(line) = Plan[22 - n]
  <2>1. 0 + 1 = 1 /\ 21 - n + 1 = 22 - n
    OBVIOUS
  <2> QED
    BY <1>2, <1>3, <2>1
<1>5. /\ IsSeq(further \o Tail(line))
      /\ Len(further \o Tail(line)) = K + (n - 1)
      /\ \A i \in 1..K : (further \o Tail(line))[i] = further[i]
      /\ \A i \in 1..n-1 : (further \o Tail(line))[K + i] = Tail(line)[i]
  BY <1>0, <1>2, ConcatFacts
<1>6. ASSUME NEW i \in 1..n-1
      PROVE  (further \o Tail(line))[K + i] = Plan[21 - (n - 1) + i]
  <2>1. Tail(line)[i] = line[i + 1]
    BY <1>2
  <2>2. i + 1 \in 1..n /\ 0 + (i + 1) = i + 1 /\ 21 - n + (i + 1) = 21 - (n - 1) + i
    BY <1>2
  <2>3. line[0 + (i + 1)] = Plan[21 - n + (i + 1)]
    BY <1>1, <2>2
  <2> QED
    BY <1>5, <2>1, <2>2, <2>3
<1>7. 21 - (n - 1) = 22 - n /\ n - 1 < 21
  BY <1>2
<1> QED
  BY <1>0, <1>2, <1>4, <1>5, <1>6, <1>7 DEF Line, Adds

\* The call at the head of a line is one of those added, while any is left.
LEMMA NextOfAdded ==
    ASSUME NEW line, NEW n \in 0..21, NEW k \in Nat \ {0}, Line(line, n, k)
    PROVE  /\ line # <<>> /\ n < 21
           /\ Head(line) = line[1]
           /\ Head(line)[1] \in AddedBy(Plan[21 - n][1])
           /\ Line(Tail(line), n, k - 1)
           /\ \A i \in 1..k-1 : Tail(line)[i] = line[i + 1]
<1>1. /\ IsSeq(line) /\ Len(line) = k + n
      /\ \A i \in 1..n : line[k + i] = Plan[21 - n + i]
      /\ \A i \in 1..k : n < 21 /\ line[i][1] \in AddedBy(Plan[21 - n][1])
  BY DEF Line
<1>2. /\ line # <<>>
      /\ IsSeq(Tail(line)) /\ Len(Tail(line)) = (k - 1) + n
      /\ Head(line) = line[1]
      /\ \A i \in 1..k+n-1 : Tail(line)[i] = line[i + 1]
  BY <1>1, SeqFacts
<1>3. 1 \in 1..k
  OBVIOUS
<1>4. ASSUME NEW i \in 1..n
      PROVE  Tail(line)[k - 1 + i] = Plan[21 - n + i]
  <2>1. k - 1 + i \in 1..k+n-1 /\ (k - 1 + i) + 1 = k + i
    OBVIOUS
  <2> QED
    BY <1>1, <1>2, <2>1
<1>5. ASSUME NEW i \in 1..k-1
      PROVE  /\ Tail(line)[i] = line[i + 1]
             /\ n < 21 /\ Tail(line)[i][1] \in AddedBy(Plan[21 - n][1])
  <2>1. i \in 1..k+n-1 /\ i + 1 \in 1..k
    OBVIOUS
  <2> QED
    BY <1>1, <1>2, <2>1
<1> QED
  BY <1>1, <1>2, <1>3, <1>4, <1>5 DEF Line

\* What was told stays told: "during" and the lost calls only grow.
LEMMA ToldStays ==
    ASSUME NEW list, Told(list), during \subseteq during', failed \subseteq failed',
           results'[list] = results[list]
    PROVE  Told(list)'
  BY DEF Told

\* What an agent was known to serve stays known.
LEMMA ServedStays ==
    ASSUME NEW a, NEW list, NEW field, ServedWhole(a, list, field),
           during \subseteq during', results.served \subseteq results'.served
    PROVE  ServedWhole(a, list, field)'
  BY DEF ServedWhole

\* An agent's own call answers all that the agent serves.
LEMMA ServedNow ==
    ASSUME NEW a, cloud \in during, during' = during, ServedBy(a) \in results'.served
    PROVE  /\ a.kind = "l3" => ServedWhole(a, "routers", "routers")'
           /\ a.kind = "dhcp" => ServedWhole(a, "networks", "networks")'
<1> DEFINE s == ServedBy(a)
<1>1. /\ s.agent = a.id
      /\ a.kind = "l3" => s.routers = {r.id : r \in {r \in cloud.routers : r.id \in a.serves}}
      /\ a.kind = "dhcp" => s.networks = {n.id : n \in {n \in cloud.networks : n.id \in a.serves}}
  BY DEF ServedBy
<1> HIDE DEF s
<1>2. s \in results'.served
  BY DEF s
<1> QED
  BY <1>1, <1>2 DEF ServedWhole

\* The lists of the results stay finite.
LEMMA ListsFinite ==
    ASSUME NEW n, NEW k, Answers(n, k), \A c \in during : WellFormed(c), cloud \in during,
           NEW name, NEW arg, NEW answers, NEW lost, Yields(name, arg, answers, lost)
    PROVE  \A list \in DOMAIN PlaceOf : IsFiniteSet(answers[list])
<1>1. DOMAIN PlaceOf \subseteq Lists
  BY DEF PlaceOf, Lists
<1>2. ASSUME NEW list \in DOMAIN PlaceOf, NEW c \in during, NEW S, S \subseteq c[list]
      PROVE  IsFiniteSet(S)
  <2>1. IsFiniteSet(c[list])
    BY <1>1 DEF WellFormed
  <2> QED
    BY <1>2, <2>1, FS_Subset
<1>3. ASSUME NEW list \in DOMAIN PlaceOf
      PROVE  IsFiniteSet(results[list])
  <2>1. CASE results[list] = {}
    BY <2>1, FS_EmptySet
  <2>2. CASE Told(list)
    BY <1>2, <2>2 DEF Told
  <2> QED
    BY <2>1, <2>2 DEF Answers
<1>4. ASSUME NEW list \in DOMAIN PlaceOf
      PROVE  answers[list] = results[list] \/ answers[list] \subseteq cloud[list]
  BY DEF Yields
<1> QED
  BY <1>2, <1>3, <1>4

\* The call after those Plan has asked, and what it adds.
LEMMA PlanCallKeeps ==
    ASSUME cloud \in during, \A c \in during : WellFormed(c), during' = during,
           NEW n \in 0..21, Line(todo, n, 0), Answers(n, 0), todo # <<>>,
           NEW name, name = Head(todo)[1], NEW arg,
           NEW answers, NEW lost, Yields(name, arg, answers, lost),
           Proceed(name, answers), failed' = lost
    PROVE  \E m \in 0..21, j \in Nat : Line(todo, m, j)' /\ Answers(m, j)'
<1> DEFINE F == Further(name, answers)
<1>1. \A list \in DOMAIN PlaceOf : IsFiniteSet(answers[list])
  BY ListsFinite
<1>2. Adds(F, name) /\ AddsAll(F, name, answers)
  <2>1. {"hypervisors", "agents", "tenants"} \subseteq DOMAIN PlaceOf
    BY DEF PlaceOf
  <2> QED
    BY <1>1, <2>1, FurtherFacts
<1>3. PICK K \in Nat : K = Len(F)
  BY <1>2, SeqFacts DEF Adds
<1>4. todo' = F \o Tail(todo) /\ results' = answers
  BY DEF Proceed
<1> HIDE DEF F
<1>5. /\ n \in 1..21 /\ name = Plan[22 - n][1]
      /\ Line(todo, n - 1, K)'
      /\ \A i \in 1..K : todo'[i] = F[i]
  <2>1. Adds(F, Head(todo)[1])
    BY <1>2
  <2> DEFINE Fits(line) == Line(line, n, 0) /\ line # <<>> /\ Adds(F, Head(line)[1])
  <2>3. \A line : Fits(line) => n \in 1..21 /\ Head(line) = Plan[22 - n]
    BY NextOfPlan
  <2>4. \A line : Fits(line) => Line(F \o Tail(line), n - 1, Len(F))
    BY NextOfPlan
  <2>5. \A line : Fits(line) => \A i \in 1..Len(F) : (F \o Tail(line))[i] = F[i]
    BY NextOfPlan
  <2>2. /\ n \in 1..21 /\ Head(todo) = Plan[22 - n]
        /\ Line(F \o Tail(todo), n - 1, Len(F))
        /\ \A i \in 1..Len(F) : (F \o Tail(todo))[i] = F[i]
    BY <2>1, <2>3, <2>4, <2>5
  <2> QED
    BY <1>3, <1>4, <2>2 DEF Line
<1> DEFINE p == 22 - n
<1>6. /\ p \in 1..21 /\ 21 - (n - 1) = p /\ 21 - n = p - 1 /\ name = Plan[p][1]
      /\ n - 1 \in 0..21
  <2>1. n \in 1..21
    BY <1>5
  <2>2. p \in 1..21 /\ 21 - (n - 1) = p /\ 21 - n = p - 1 /\ n - 1 \in 0..21
    BY ONLY <2>1
  <2> QED
    BY <1>5, <2>2
<1> HIDE DEF p
<1>7. /\ \A list \in DOMAIN PlaceOf : name = list <=> PlaceOf[list] = p
      /\ \A list \in DOMAIN SingleOf : name # SingleOf[list]
      /\ name = "flavors" <=> p = 3
      /\ name = "private_flavors" <=> p = 4
      /\ name = "volume_pools" <=> p = 21
      /\ \A list \in DOMAIN PlaceOf : PlaceOf[list] \in 1..21
  <2>0. p \in 1..21
    BY <1>6
  <2>1. PICK q : q = Plan[p][1]
    OBVIOUS
  <2>2. /\ q \notin {"servers_single", "volumes_single", "volsnapshots_single"}
        /\ \A list \in DOMAIN PlaceOf : q = list <=> PlaceOf[list] = p
        /\ q = "flavors" <=> p = 3
        /\ q = "private_flavors" <=> p = 4
        /\ q = "volume_pools" <=> p = 21
    <3>1. \A i \in 1..21 : Plan[i][1] \notin {"servers_single", "volumes_single",
                "volsnapshots_single"}
      BY PlanIs
    <3>2. \A i \in 1..21 : \A list \in DOMAIN PlaceOf : Plan[i][1] = list <=> PlaceOf[list] = i
      BY PlanIs
    <3>3. \A i \in 1..21 : Plan[i][1] = "flavors" <=> i = 3
      BY PlanIs
    <3>4. \A i \in 1..21 : Plan[i][1] = "private_flavors" <=> i = 4
      BY PlanIs
    <3>5. \A i \in 1..21 : Plan[i][1] = "volume_pools" <=> i = 21
      BY PlanIs
    <3>6. q \notin {"servers_single", "volumes_single", "volsnapshots_single"}
      BY <2>0, <2>1, <3>1
    <3>7. \A list \in DOMAIN PlaceOf : q = list <=> PlaceOf[list] = p
      BY <2>0, <2>1, <3>2
    <3>8. q = "flavors" <=> p = 3
      BY <2>0, <2>1, <3>3
    <3>9. q = "private_flavors" <=> p = 4
      BY <2>0, <2>1, <3>4
    <3>10. q = "volume_pools" <=> p = 21
      BY <2>0, <2>1, <3>5
    <3> QED
      BY <3>6, <3>7, <3>8, <3>9, <3>10
  <2>3. \A list \in DOMAIN PlaceOf : PlaceOf[list] \in 1..21
    BY DEF PlaceOf
  <2>4. \A list \in DOMAIN SingleOf : q # SingleOf[list]
    BY <2>2 DEF SingleOf
  <2> QED
    BY <1>6, <2>1, <2>2, <2>3, <2>4
<1>8. during \subseteq during' /\ failed \subseteq failed'
  BY DEF Yields
<1>9. ASSUME NEW list \in DOMAIN PlaceOf
      PROVE  (IF PlaceOf[list] <= p THEN Told(list) ELSE results[list] = {})'
  <2>1. CASE PlaceOf[list] = p
    <3>1. results[list] = {}
      BY <1>6, <1>7, <2>1 DEF Answers
    <3>2. answers[list] = cloud[list] \/ (answers[list] = {} /\ list \in lost)
      BY <1>7, <2>1, <3>1 DEF Yields
    <3>3. Told(list)'
      BY <1>4, <3>2 DEF Told
    <3> QED
      BY <1>7, <2>1, <3>3
  <2>2. CASE PlaceOf[list] # p
    <3>1. results'[list] = results[list]
      BY <1>4, <1>7, <2>2 DEF Yields
    <3>2. IF PlaceOf[list] <= p - 1 THEN Told(list) ELSE results[list] = {}
      BY <1>6 DEF Answers
    <3>3. PlaceOf[list] <= p <=> PlaceOf[list] <= p - 1
      <4>1. PlaceOf[list] \in Int /\ p \in Int
        BY <1>6, <1>7
      <4> HIDE <1>6
      <4> QED
        BY <2>2, <4>1
    <3> QED
      BY <1>8, <3>1, <3>2, <3>3, ToldStays
  <2> QED
    BY <2>1, <2>2
<1>10. ASSUME NEW list \in DOMAIN SingleOf, NEW i \in 1..K, todo'[i][1] = SingleOf[list]
       PROVE  K = 1 /\ results'[list] = {}
  <2>1. SingleOf[list] \in AddedBy(name)
    BY <1>2, <1>3, <1>5, <1>10 DEF Adds
  <2>2. list = name
    BY <2>1 DEF SingleOf, AddedBy
  <2> QED
    BY <1>2, <1>3, <1>4, <2>2 DEF AddsAll
<1>11. ToldFlavors(n - 1)'
  <2>1. ToldFlavors(n)
    BY DEF Answers
  <2>2. CASE p = 3
    <3>1. results.flavors = {}
      BY <1>6, <2>1, <2>2 DEF ToldFlavors
    <3>2. answers.flavors = {f \in cloud.flavors : f.public} \/ (answers.flavors
                = {} /\ "flavors" \in lost)
      BY <1>7, <2>2, <3>1 DEF Yields
    <3> QED
      BY <1>4, <1>6, <2>2, <3>2 DEF ToldFlavors
  <2>3. CASE p = 4
    <3>1. /\ \A f \in results.flavors : \E c \in during : f \in c.flavors
          /\ "flavors" \notin failed => \E c \in during : {f \in c.flavors : f.public} \subseteq results.flavors
      BY <1>6, <2>1, <2>3 DEF ToldFlavors
    <3>2. \/ answers.flavors = results.flavors \cup {f \in cloud.flavors : ~f.public}
          \/ answers.flavors = results.flavors /\ "private_flavors" \in lost
      BY <1>7, <2>3 DEF Yields
    <3>3. results.flavors \subseteq answers.flavors
      BY <3>2
    <3>4. ASSUME NEW f \in answers.flavors
          PROVE  \E c \in during : f \in c.flavors
      BY <3>1, <3>2
    <3>5. "private_flavors" \notin lost => {f \in cloud.flavors : ~f.public} \subseteq answers.flavors
      BY <3>2
    <3> QED
      BY <1>4, <1>6, <1>8, <2>3, <3>1, <3>3, <3>4, <3>5 DEF ToldFlavors
  <2>4. CASE p \notin {3, 4}
    <3>1. answers.flavors = results.flavors
      BY <1>7, <2>4 DEF Yields
    <3>2. p < 3 \/ p > 4
      BY <1>6, <2>4
    <3> QED
      BY <1>4, <1>6, <1>8, <2>1, <3>1, <3>2 DEF ToldFlavors
  <2> QED
    BY <2>2, <2>3, <2>4
<1>12. p >= 10 => ToldServed(K)'
  <2>1. CASE p = 10
    <3>1. name = "agents"
      BY <1>7, <2>1 DEF PlaceOf
    <3>2. ASSUME NEW a \in answers.agents
          PROVE  /\ a.kind = "l3" => \E i \in 1..K : todo'[i] = <<"agent_l3_routers", a>>
                 /\ a.kind = "dhcp" => \E i \in 1..K : todo'[i] = <<"agent_dhcp_networks", a>>
      BY <1>2, <1>3, <1>5, <3>1 DEF AddsAll
    <3> QED
      BY <1>4, <3>2 DEF ToldServed
  <2>2. CASE p > 10
    <3>1. ToldServed(0)
      BY <1>6, <2>2 DEF Answers
    <3>2. answers.agents = results.agents
      <4>1. "agents" \in DOMAIN PlaceOf \ DOMAIN SingleOf /\ PlaceOf["agents"] = 10
        BY DEF PlaceOf, SingleOf
      <4>2. name # "agents"
        BY <1>7, <2>2, <4>1
      <4> QED
        BY <4>1, <4>2 DEF Yields
    <3>3. results.served \subseteq results'.served
      BY <1>4 DEF Yields
    <3>4. ASSUME NEW a \in answers.agents
          PROVE  /\ a.kind # "l3" \/ "agent_l3_routers" \in failed'
                    \/ ServedWhole(a, "routers", "routers")'
                 /\ a.kind # "dhcp" \/ "agent_dhcp_networks" \in failed'
                    \/ ServedWhole(a, "networks", "networks")'
      <4>1. \A list, field : ServedWhole(a, list, field) => ServedWhole(a, list, field)'
        BY <1>8, <3>3, ServedStays
      <4>2. 1..0 = {}
        OBVIOUS
      <4> QED
        BY <1>8, <3>1, <3>2, <4>1, <4>2 DEF ToldServed
    <3> QED
      BY <1>4, <3>4 DEF ToldServed
  <2> QED
    BY <1>6, <2>1, <2>2
<1>13. n - 1 = 0 => ToldQuotas(K)'
  <2>1. SUFFICES ASSUME n - 1 = 0
                 PROVE  ToldQuotas(K)'
    OBVIOUS
  <2>2. name = "volume_pools"
    BY <1>6, <1>7, <2>1
  <2> QED
    BY <1>2, <1>3, <1>4, <1>5, <2>2 DEF ToldQuotas, AddsAll
<1>14. Answers(n - 1, K)'
  BY <1>6, <1>9, <1>10, <1>11, <1>12, <1>13 DEF Answers
<1> QED
  BY <1>5, <1>6, <1>14

\* One of the calls that were added.
LEMMA AddedCallKeeps ==
    ASSUME cloud \in during, \A c \in during : WellFormed(c), during' = during,
           NEW n \in 0..21, NEW k \in Nat \ {0}, Line(todo, n, k), Answers(n, k),
           NEW name, name = Head(todo)[1], NEW arg, arg = Head(todo)[2],
           NEW answers, NEW lost, Yields(name, arg, answers, lost),
           Proceed(name, answers), failed' = lost
    PROVE  Line(todo, n, k - 1)' /\ Answers(n, k - 1)'
<1>1. /\ todo # <<>> /\ n < 21
      /\ Head(todo) = todo[1]
      /\ name \in AddedBy(Plan[21 - n][1])
      /\ Line(Tail(todo), n, k - 1)
      /\ \A i \in 1..k-1 : Tail(todo)[i] = todo[i + 1]
  BY NextOfAdded
<1> DEFINE p == 21 - n
<1>2. p \in 1..21
  BY <1>1
<1>3. /\ name \notin Conditional \cup DOMAIN PlaceOf \cup {"flavors", "private_flavors"}
      /\ \A list \in DOMAIN SingleOf : name = SingleOf[list] => p = PlaceOf[list]
      /\ name = "quotas" => p = 21
  <2> HIDE DEF p
  <2>1. name \in AddedBy(Plan[p][1])
    BY <1>1 DEF p
  <2> QED
    BY <1>2, <2>1, AddedByPlan
<1>4. IsFiniteSet(answers.hypervisors) /\ IsFiniteSet(answers.agents) /\ IsFiniteSet(answers.tenants)
  <2>1. {"hypervisors", "agents", "tenants"} \subseteq DOMAIN PlaceOf
    BY DEF PlaceOf
  <2> QED
    BY <2>1, ListsFinite
<1>5. Further(name, answers) = <<>>
  BY <1>3, <1>4, FurtherFacts
<1>6. todo' = Tail(todo) /\ results' = answers
  <2>1. IsSeq(Tail(todo))
    BY <1>1 DEF Line
  <2>2. <<>> \o Tail(todo) = Tail(todo)
    BY <2>1 DEF IsSeq
  <2> QED
    BY <1>5, <2>2 DEF Proceed
<1>7. Line(todo, n, k - 1)'
  BY <1>1, <1>6 DEF Line
<1>8. during \subseteq during' /\ failed \subseteq failed'
  BY DEF Yields
<1>9. ASSUME NEW i \in 1..k-1
      PROVE  i + 1 \in 1..k /\ todo'[i] = todo[i + 1]
  <2>1. i + 1 \in 1..k
    OBVIOUS
  <2> QED
    BY <1>1, <1>6, <2>1
<1>10. 1 \in 1..k /\ todo[1][1] = name /\ todo[1][2] = arg
  BY <1>1
<1>11. ASSUME NEW list \in DOMAIN PlaceOf
       PROVE  (IF PlaceOf[list] <= 21 - n THEN Told(list) ELSE results[list] = {})'
  <2>1. IF PlaceOf[list] <= 21 - n THEN Told(list) ELSE results[list] = {}
    BY DEF Answers
  <2>2. CASE answers[list] = results[list]
    BY <1>6, <1>8, <2>1, <2>2, ToldStays
  <2>3. CASE answers[list] # results[list]
    <3>1. /\ list \in DOMAIN SingleOf /\ name = SingleOf[list]
          /\ answers[list] \subseteq cloud[list]
      BY <1>3, <2>3 DEF Yields
    <3>2. results[list] = {}
      BY <1>10, <3>1 DEF Answers
    <3>3. PlaceOf[list] <= 21 - n
      BY <1>2, <1>3, <3>1
    <3>4. Told(list)
      BY <2>1, <3>3
    <3>5. Told(list)'
      BY <1>6, <1>8, <3>1, <3>2, <3>4 DEF Told
    <3> QED
      BY <3>3, <3>5
  <2> QED
    BY <2>2, <2>3
<1>12. ASSUME NEW list \in DOMAIN SingleOf, NEW i \in 1..k-1, todo'[i][1] = SingleOf[list]
       PROVE  k - 1 = 1 /\ results'[list] = {}
  <2>1. i + 1 \in 1..k /\ todo[i + 1][1] = SingleOf[list]
    BY <1>9, <1>12
  <2>2. k = 1
    BY <2>1 DEF Answers
  <2> QED
    BY <2>2
<1>13. ToldFlavors(n)'
  <2>1. answers.flavors = results.flavors
    BY <1>3 DEF Yields
  <2>2. ToldFlavors(n)
    BY DEF Answers
  <2> QED
    BY <1>6, <1>8, <2>1, <2>2 DEF ToldFlavors
<1>14. answers.agents = results.agents /\ answers.tenants = results.tenants
  <2>1. {"agents", "tenants"} \subseteq DOMAIN PlaceOf \ DOMAIN SingleOf
    BY DEF PlaceOf, SingleOf
  <2> QED
    BY <1>3, <2>1 DEF Yields
<1>15. ASSUME 21 - n >= 10
       PROVE  ToldServed(k - 1)'
  <2>1. ToldServed(k)
    BY <1>15 DEF Answers
  <2>2. results.served \subseteq results'.served
    BY <1>6 DEF Yields
  <2>3. ASSUME NEW a \in results.agents
        PROVE  /\ \/ a.kind # "l3"
                  \/ "agent_l3_routers" \in failed'
                  \/ \E i \in 1..k-1 : todo'[i] = <<"agent_l3_routers", a>>
                  \/ ServedWhole(a, "routers", "routers")'
               /\ \/ a.kind # "dhcp"
                  \/ "agent_dhcp_networks" \in failed'
                  \/ \E i \in 1..k-1 : todo'[i] = <<"agent_dhcp_networks", a>>
                  \/ ServedWhole(a, "networks", "networks")'
    <3>1. ASSUME NEW call \in {"agent_l3_routers", "agent_dhcp_networks"}, todo[1] = <<call, a>>
          PROVE  \/ call \in failed'
                 \/ /\ a.kind = "l3" => ServedWhole(a, "routers", "routers")'
                    /\ a.kind = "dhcp" => ServedWhole(a, "networks", "networks")'
      <4>1. name = call /\ arg = a
        BY <1>10, <3>1
      <4>2. call \in failed' \/ ServedBy(a) \in results'.served
        BY <1>6, <4>1 DEF Yields
      <4> QED
        BY <4>2, ServedNow
    <3>2. ASSUME NEW i \in 1..k, i # 1
          PROVE  i - 1 \in 1..k-1 /\ todo'[i - 1] = todo[i]
      <4>1. i - 1 \in 1..k-1 /\ (i - 1) + 1 = i
        BY <3>2
      <4> QED
        BY <1>9, <4>1
    <3>3. ServedWhole(a, "routers", "routers") => ServedWhole(a, "routers", "routers")'
      BY <1>8, <2>2, ServedStays
    <3>4. ServedWhole(a, "networks", "networks") => ServedWhole(a, "networks", "networks")'
      BY <1>8, <2>2, ServedStays
    <3>5. \/ a.kind # "l3"
          \/ "agent_l3_routers" \in failed'
          \/ \E i \in 1..k-1 : todo'[i] = <<"agent_l3_routers", a>>
          \/ ServedWhole(a, "routers", "routers")'
      <4>1. CASE \E i \in 1..k : todo[i] = <<"agent_l3_routers", a>>
        BY <3>1, <3>2, <4>1
      <4> QED
        BY <1>8, <2>1, <3>3, <4>1 DEF ToldServed
    <3>6. \/ a.kind # "dhcp"
          \/ "agent_dhcp_networks" \in failed'
          \/ \E i \in 1..k-1 : todo'[i] = <<"agent_dhcp_networks", a>>
          \/ ServedWhole(a, "networks", "networks")'
      <4>1. CASE \E i \in 1..k : todo[i] = <<"agent_dhcp_networks", a>>
        BY <3>1, <3>2, <4>1
      <4> QED
        BY <1>8, <2>1, <3>4, <4>1 DEF ToldServed
    <3> QED
      BY <3>5, <3>6
  <2> QED
    BY <1>6, <1>14, <2>3 DEF ToldServed
<1>16. ASSUME n = 0
       PROVE  ToldQuotas(k - 1)'
  <2>1. ToldQuotas(k)
    BY <1>16 DEF Answers
  <2>2. results.quotas \subseteq answers.quotas
    BY DEF Yields
  <2>3. ASSUME NEW t \in results.tenants
        PROVE  \/ "quotas" \in failed'
               \/ t.id \in answers.quotas
               \/ \E i \in 1..k-1 : todo'[i] = <<"quotas", t>>
    <3>1. CASE \E i \in 1..k : todo[i] = <<"quotas", t>>
      <4>1. PICK i \in 1..k : todo[i] = <<"quotas", t>>
        BY <3>1
      <4>2. CASE i = 1
        <5>1. name = "quotas" /\ arg = t
          BY <1>10, <4>1, <4>2
        <5> QED
          BY <5>1 DEF Yields
      <4>3. CASE i # 1
        <5>1. i - 1 \in 1..k-1 /\ (i - 1) + 1 = i
          BY <4>3
        <5> QED
          BY <1>9, <4>1, <5>1
      <4> QED
        BY <4>2, <4>3
    <3> QED
      BY <1>8, <2>1, <2>2, <3>1 DEF ToldQuotas
  <2> QED
    BY <1>6, <1>14, <2>3 DEF ToldQuotas
<1>17. Answers(n, k - 1)'
  BY <1>11, <1>12, <1>13, <1>15, <1>16 DEF Answers
<1> QED
  BY <1>7, <1>17

\* Any call: the names are those of the calls there are.
LEMMA CallKeeps ==
    ASSUME Collecting, todo # <<>>, during' = during, cloud' = cloud,
           NEW name, name = Head(todo)[1], NEW arg, arg = Head(todo)[2],
           NEW answers, NEW lost, Yields(name, arg, answers, lost),
           Proceed(name, answers), failed' = lost
    PROVE  Collecting'
<1>1. PICK n \in 0..21, k \in Nat : Line(todo, n, k) /\ Answers(n, k)
  BY DEF Collecting
<1>2. cloud \in during /\ (\A c \in during : WellFormed(c)) /\ VisibilityKept
  BY DEF Collecting
<1>3. \E m \in 0..21, j \in Nat : Line(todo, m, j)' /\ Answers(m, j)'
  <2>1. CASE k = 0
    BY <1>1, <1>2, <2>1, PlanCallKeeps
  <2>2. CASE k # 0
    <3>1. Line(todo, n, k - 1)' /\ Answers(n, k - 1)'
      BY <1>1, <1>2, <2>2, AddedCallKeeps
    <3>2. k - 1 \in Nat
      BY <2>2
    <3> QED
      BY <3>1, <3>2
  <2> QED
    BY <2>1, <2>2
<1>4. DOMAIN results' = DOMAIN NoResults
  BY DEF Proceed, Yields
<1>5. (\A c \in during' : WellFormed(c)) /\ VisibilityKept'
  BY <1>2 DEF VisibilityKept
<1>6. WellFormed(cloud)' <=> WellFormed(cloud)
  BY DEF WellFormed
<1> QED
  BY <1>2, <1>3, <1>4, <1>5 DEF Collecting

\* The next call is one collect() makes.
LEMMA NamesOfCalls ==
    ASSUME Collecting, todo # <<>>
    PROVE  Head(todo)[1] \in AllCalls
<1>1. PICK n \in 0..21, k \in Nat : Line(todo, n, k)
  BY DEF Collecting
<1>2. IsSeq(todo) /\ Len(todo) > 0 /\ Head(todo) = todo[1] /\ Len(todo) = k + n
  BY <1>1, SeqFacts DEF Line
<1>3. CASE k = 0
  <2>1. 1 \in 1..n /\ 0 + 1 = 1 /\ 21 - n + 1 \in 1..21
    BY <1>2, <1>3
  <2>2. todo[k + 1] = Plan[21 - n + 1]
    BY <1>1, <2>1 DEF Line
  <2> QED
    BY <1>2, <1>3, <2>1, <2>2 DEF AllCalls
<1>4. CASE k # 0
  <2>1. 1 \in 1..k
    BY <1>4
  <2>2. n < 21 /\ todo[1][1] \in AddedBy(Plan[21 - n][1])
    BY <1>1, <2>1 DEF Line
  <2>3. 21 - n \in 1..21
    BY <2>2
  <2> QED
    BY <1>2, <2>2, <2>3 DEF AllCalls
<1> QED
  BY <1>3, <1>4

-----------------------------------------------------------------------------
(* The maps of events set relations that are known. *)

\* All the setters set what a map of the modeler keeps or always sets.
KnownFor(kind, setters) ==
    \A s \in setters : <<kind, RelationOf(s)>> \in KeptByModeler \/ RelationOf(s) \in Fixed(kind)

AllKnown(maps) == IsSeq(maps) /\ \A i \in 1..Len(maps) : MapKnown(maps[i])

\* A map whose setters are known to its kind sets known relations.
LEMMA OneMapKnown ==
    ASSUME NEW kind, NEW v, NEW m, m.id = <<kind, v>>,
           kind \in Kinds \ {"agent"} => KnownFor(kind, DOMAIN m.set)
    PROVE  MapKnown(m)
<1>1. ASSUME NEW p \in Sets(m.set)
      PROVE  \E s \in DOMAIN m.set : p[1] = RelationOf(s)
  BY DEF Sets
<1> QED
  BY <1>1 DEF MapKnown, KnownFor

\* No map, or one.
LEMMA NoneOrOne ==
    /\ AllKnown(<<>>)
    /\ \A m : MapKnown(m) => AllKnown(<<m>>)
<1>1. <<>> \in Seq({}) /\ \A m : <<m>> \in Seq({m})
  OBVIOUS
<1>2. IsSeq(<<>>) /\ \A m : IsSeq(<<m>>)
  BY <1>1, IsSeqIs
<1> QED
  BY <1>2 DEF AllKnown

\* make_id names no component or one of its kind.
NoneOrOf(ids, kind) == ids = {} \/ \E v : ids = {<<kind, v>>}

\* make_id() makes one id or none, of the kind it was asked for.
LEMMA MakeId ==
    ASSUME NEW e, NEW kind, NEW traits
    PROVE  NoneOrOf(make_id(e, kind, traits), kind)
  BY DEF make_id, NoneOrOf

\* The maps for a component set what they were given.
LEMMA ComponentKnown ==
    ASSUME NEW kind, NEW ids, NoneOrOf(ids, kind), NEW set, NEW do,
           kind \in Kinds \ {"agent"} => KnownFor(kind, DOMAIN set)
    PROVE  /\ AllKnown(ForComponent(ids, set, do))
           /\ AllKnown(OrAdd(ForComponent(ids, set, do)))
<1>1. CASE ids = {}
  <2>1. ForComponent(ids, set, do) = <<>>
    BY <1>1 DEF ForComponent
  <2> QED
    BY <2>1, NoneOrOne DEF OrAdd
<1>2. CASE ids # {}
  <2>1. PICK v : ids = {<<kind, v>>}
    BY <1>2 DEF NoneOrOf
  <2> DEFINE m == [id |-> <<kind, v>>, set |-> set, host |-> {}, do |-> do]
             a == [id |-> <<kind, v>>, set |-> set, host |-> {}, do |-> "add"]
  <2>2. (CHOOSE i \in ids : TRUE) = <<kind, v>>
    BY <2>1
  <2>3. ForComponent(ids, set, do) = <<m>>
    BY <1>2, <2>2 DEF ForComponent
  <2>4. OrAdd(<<m>>) = <<a>>
    <3>1. <<m>> # <<>> /\ <<m>>[1] = m
      OBVIOUS
    <3>2. [m EXCEPT !.do = "add"] = a
      OBVIOUS
    <3> HIDE DEF m, a
    <3> QED
      BY <3>1, <3>2 DEF OrAdd
  <2>5. MapKnown(m)
    <3>1. m.id = <<kind, v>> /\ m.set = set
      OBVIOUS
    <3> QED
      BY <3>1, OneMapKnown
  <2>6. MapKnown(a)
    <3>1. a.id = <<kind, v>> /\ a.set = set
      OBVIOUS
    <3> QED
      BY <3>1, OneMapKnown
  <2> HIDE DEF m, a
  <2> QED
    BY <2>3, <2>4, <2>5, <2>6, NoneOrOne
<1> QED
  BY <1>1, <1>2

\* The map of an instance sets what it was given, whatever host it names.
LEMMA InstanceKnown ==
    ASSUME NEW e, NEW set, NEW do, KnownFor("server", DOMAIN set)
    PROVE  AllKnown(InstanceMap(e, set, do))
<1>1. NoneOrOf(instance_id(e), "server")
  BY MakeId DEF instance_id
<1>2. PICK map : map = ForComponent(instance_id(e), set, do)
  OBVIOUS
<1>3. AllKnown(map) /\ InstanceMap(e, set, do) = OnHost(e, map)
  BY <1>1, <1>2, ComponentKnown DEF InstanceMap
<1>4. CASE OnHost(e, map) = map
  BY <1>3, <1>4
<1>5. CASE OnHost(e, map) # map
  <2>1. PICK hosts : OnHost(e, map) = <<[map[1] EXCEPT !.host = hosts]>>
    BY <1>5 DEF OnHost
  <2>2. PICK i : map = <<[id |-> i, set |-> set, host |-> {}, do |-> do]>>
    BY <1>2, <1>5 DEF OnHost, ForComponent
  <2> DEFINE m == [id |-> i, set |-> set, host |-> {}, do |-> do]
             n == [m EXCEPT !.host = hosts]
  <2>3. n.id = m.id /\ n.set = m.set
    OBVIOUS
  <2>4. map = <<m>> /\ OnHost(e, map) = <<n>>
    BY <2>1, <2>2
  <2> HIDE DEF m, n
  <2>5. MapKnown(m)
    <3>1. Len(<<m>>) = 1 /\ <<m>>[1] = m
      OBVIOUS
    <3> QED
      BY <1>3, <2>4, <3>1 DEF AllKnown
  <2>6. MapKnown(n)
    BY <2>3, <2>5 DEF MapKnown
  <2> QED
    BY <1>3, <2>4, <2>6, NoneOrOne
<1> QED
  BY <1>4, <1>5

\* The setters of two maps.
LEMMA MergeDomain ==
    ASSUME NEW f, NEW g
    PROVE  DOMAIN (f ++ g) = DOMAIN f \cup DOMAIN g
  BY DEF ++

\* A trait gives at most its own setter.
LEMMA TraitDomain ==
    ASSUME NEW e, NEW trait, NEW setter, NEW kind
    PROVE  DOMAIN _apply_trait_rel(e, trait, setter, kind) \subseteq {setter}
  BY DEF _apply_trait_rel, NoRefs

\* The setters of the event mappers are known to the kinds they are used for.
LEMMA KnownSetters ==
    /\ KnownFor("server", {"flavor_name", "image_name", "tenant", "powerState"})
    /\ KnownFor("floatingip", {"tenant", "network", "router", "port"})
    /\ KnownFor("network", {"tenant"})
    /\ KnownFor("port", {"tenant", "network", "instance", "subnets"})
    /\ KnownFor("router", {"tenant", "network", "subnets"})
    /\ KnownFor("subnet", {"tenant", "network"})
    /\ KnownFor("volume", {"tenant", "instance", "volType"})
<1>1. KnownFor("server", {"flavor_name", "image_name", "tenant", "powerState"})
  BY Relations DEF KnownFor, KeptByModeler, Fixed
<1>2. KnownFor("floatingip", {"tenant", "network", "router", "port"})
  BY Relations DEF KnownFor, KeptByModeler, Fixed
<1>3. KnownFor("network", {"tenant"})
  BY Relations DEF KnownFor, KeptByModeler, Fixed
<1>4. KnownFor("port", {"tenant", "network", "instance", "subnets"})
  BY Relations DEF KnownFor, KeptByModeler, Fixed
<1>5. KnownFor("router", {"tenant", "network", "subnets"})
  BY Relations DEF KnownFor, KeptByModeler, Fixed
<1>6. KnownFor("subnet", {"tenant", "network"})
  BY Relations DEF KnownFor, KeptByModeler, Fixed
<1>7. KnownFor("volume", {"tenant", "instance", "volType"})
  BY Relations DEF KnownFor, KeptByModeler, Fixed
<1> QED
  BY <1>1, <1>2, <1>3, <1>4, <1>5, <1>6, <1>7

\* Fewer setters are known too.
LEMMA FewerKnown ==
    ASSUME NEW kind, NEW S, NEW T, KnownFor(kind, S), T \subseteq S
    PROVE  KnownFor(kind, T)
  BY DEF KnownFor

\* The setters each mapper may call.
LEMMA EventSetters ==
    ASSUME NEW e
    PROVE  /\ DOMAIN _apply_instance_traits(e) \subseteq {"flavor_name", "image_name",
                                                          "tenant", "powerState"}
           /\ DOMAIN TenantRel(e) \subseteq {"tenant"}
           /\ DOMAIN CinderTenantRel(e) \subseteq {"tenant"}
           /\ DOMAIN _apply_router_gateway_info(e) \subseteq {"network", "subnets"}
<1>1. DOMAIN TenantRel(e) \subseteq {"tenant"}
  BY TraitDomain DEF TenantRel
<1>2. DOMAIN CinderTenantRel(e) \subseteq {"tenant"}
  BY <1>1, TraitDomain DEF CinderTenantRel
<1>3. DOMAIN _apply_router_gateway_info(e) \subseteq {"network", "subnets"}
  BY DEF _apply_router_gateway_info, NoRefs
<1>4. DOMAIN _apply_instance_traits(e) \subseteq {"flavor_name", "image_name", "tenant",
            "powerState"}
  <2> DEFINE f == _apply_either(e, {"flavor_name", "instance_type"}, "flavor_name", "flavor")
             g == _apply_trait_rel(e, "image_name", "image_name", "image")
             t == TenantRel(e)
             h == IF Has(e, "state") /\ Value(e, "state") \in DOMAIN PowerOfState
                  THEN [powerState |-> {<<"power", PowerOfState[Value(e, "state")]>>}] ELSE NoRefs
  <2>1. DOMAIN f \subseteq {"flavor_name"} /\ DOMAIN g \subseteq {"image_name"}
    BY TraitDomain, SetsOfNone DEF _apply_either
  <2>2. DOMAIN h \subseteq {"powerState"}
    BY DEF NoRefs
  <2>3. _apply_instance_traits(e) = f ++ g ++ t ++ h
    BY DEF _apply_instance_traits
  <2>4. DOMAIN t \subseteq {"tenant"}
    BY <1>1
  <2> HIDE DEF f, g, h, t
  <2>5. /\ DOMAIN (f ++ g) = DOMAIN f \cup DOMAIN g
        /\ DOMAIN (f ++ g ++ t) = DOMAIN (f ++ g) \cup DOMAIN t
        /\ DOMAIN (f ++ g ++ t ++ h) = DOMAIN (f ++ g ++ t) \cup DOMAIN h
    BY MergeDomain
  <2> QED
    BY <2>1, <2>2, <2>3, <2>4, <2>5
<1> QED
  BY <1>1, <1>2, <1>3, <1>4

\* No setters are known.
LEMMA NoneKnown ==
    ASSUME NEW kind
    PROVE  KnownFor(kind, DOMAIN NoRefs)
  BY SetsOfNone DEF KnownFor

\* The maps of instance events set known relations.
LEMMA InstanceMaps ==
    ASSUME NEW e
    PROVE  /\ AllKnown(instance_create(e)) /\ AllKnown(instance_update(e)) /\ AllKnown(instance_delete(e))
           /\ AllKnown(instance_powered_on(e)) /\ AllKnown(instance_powered_off(e))
           /\ AllKnown(instance_suspended(e))
<1>1. NoneOrOf(instance_id(e), "server")
  BY MakeId DEF instance_id
<1>2. KnownFor("server", DOMAIN _apply_instance_traits(e))
  BY EventSetters, KnownSetters, FewerKnown
<1>3. AllKnown(instance_create(e)) /\ AllKnown(instance_update(e))
  BY <1>2, InstanceKnown DEF instance_create, instance_update
<1>4. AllKnown(instance_delete(e))
  BY <1>1, NoneKnown, ComponentKnown DEF instance_delete
<1>5. ASSUME NEW power
      PROVE  AllKnown(instance_power(e, power))
  <2> DEFINE f == [powerState |-> {<<"power", power>>}]
             g == _apply_instance_traits(e)
  <2>1. DOMAIN f = {"powerState"}
    OBVIOUS
  <2>2. DOMAIN (f ++ g) = DOMAIN f \cup DOMAIN g
    BY MergeDomain
  <2>3. KnownFor("server", DOMAIN (f ++ g))
    <3>1. DOMAIN (f ++ g) \subseteq {"flavor_name", "image_name", "tenant", "powerState"}
      BY <2>1, <2>2, EventSetters
    <3> QED
      BY <3>1, KnownSetters, FewerKnown
  <2> HIDE DEF f, g
  <2>4. AllKnown(InstanceMap(e, f ++ g, "update"))
    BY <2>3, InstanceKnown
  <2> QED
    BY <2>4 DEF f, g, instance_power
<1> QED
  BY <1>3, <1>4, <1>5 DEF instance_powered_on, instance_powered_off, instance_suspended

\* The maps of network, subnet and router events set known relations.
LEMMA NetworkMaps ==
    ASSUME NEW e
    PROVE  /\ AllKnown(network_create(e)) /\ AllKnown(network_update(e)) /\ AllKnown(network_delete_end(e))
           /\ AllKnown(subnet_create(e)) /\ AllKnown(subnet_update(e)) /\ AllKnown(subnet_delete_end(e))
           /\ AllKnown(router_create(e)) /\ AllKnown(router_update(e)) /\ AllKnown(router_delete_end(e))
<1>1. NoneOrOf(network_id(e), "network") /\ NoneOrOf(subnet_id(e),
            "subnet") /\ NoneOrOf(router_id(e), "router")
  BY MakeId DEF network_id, subnet_id, router_id
<1>2. KnownFor("network", DOMAIN TenantRel(e))
  BY EventSetters, KnownSetters, FewerKnown
<1>3. AllKnown(network_create(e)) /\ AllKnown(network_update(e))
  BY <1>1, <1>2, ComponentKnown DEF network_create, network_update
<1>4. AllKnown(network_delete_end(e)) /\ AllKnown(subnet_delete_end(e)) /\ AllKnown(router_delete_end(e))
  BY <1>1, NoneKnown, ComponentKnown DEF network_delete_end, subnet_delete_end, router_delete_end
<1>5. KnownFor("subnet", DOMAIN (TenantRel(e) ++ _apply_trait_rel(e, "network_id", "network",
            "network")))
  <2> DEFINE f == TenantRel(e)
             g == _apply_trait_rel(e, "network_id", "network", "network")
  <2>1. DOMAIN f \subseteq {"tenant"} /\ DOMAIN g \subseteq {"network"}
    BY TraitDomain, EventSetters
  <2> HIDE DEF f, g
  <2>2. DOMAIN (f ++ g) = DOMAIN f \cup DOMAIN g
    BY MergeDomain
  <2>3. KnownFor("subnet", DOMAIN (f ++ g))
    BY <2>1, <2>2, KnownSetters, FewerKnown
  <2> QED
    BY <2>3 DEF f, g
<1>6. AllKnown(subnet_create(e)) /\ AllKnown(subnet_update(e))
  BY <1>1, <1>5, ComponentKnown DEF subnet_create, subnet_update
<1>7. KnownFor("router", DOMAIN (TenantRel(e) ++ _apply_router_gateway_info(e)))
  <2>1. DOMAIN (TenantRel(e) ++ _apply_router_gateway_info(e)) \subseteq {"tenant", "network",
              "subnets"}
    BY MergeDomain, EventSetters
  <2> QED
    BY <2>1, KnownSetters, FewerKnown
<1>8. AllKnown(router_create(e)) /\ AllKnown(router_update(e))
  BY <1>1, <1>7, ComponentKnown DEF router_create, router_update
<1> QED
  BY <1>3, <1>4, <1>6, <1>8

\* The maps of port and floating IP events set known relations.
LEMMA PortMaps ==
    ASSUME NEW e
    PROVE  /\ AllKnown(port_create(e)) /\ AllKnown(port_update(e)) /\ AllKnown(port_delete_end(e))
           /\ AllKnown(floatingip_create(e)) /\ AllKnown(floatingip_update(e))
           /\ AllKnown(floatingip_delete_end(e))
<1>1. NoneOrOf(port_id(e), "port") /\ NoneOrOf(floatingip_id(e), "floatingip")
  BY MakeId DEF port_id, floatingip_id
<1>2. AllKnown(port_delete_end(e)) /\ AllKnown(floatingip_delete_end(e))
  BY <1>1, NoneKnown, ComponentKnown DEF port_delete_end, floatingip_delete_end
<1>3. AllKnown(port_create(e)) /\ AllKnown(port_update(e))
  <2> DEFINE f == TenantRel(e)
             g == _apply_trait_rel(e, "network_id", "network", "network")
             h == IF Has(e, "device_id") /\ Has(e, "device_owner")
                  THEN [instance |-> get_port_instance([owner |-> Value(e, "device_owner"),
                                                        device |-> e.traits["device_id"]])]
                  ELSE NoRefs
             i == _apply_trait_rel(e, "fixed_ips", "subnets", "subnet")
  <2>1. DOMAIN f \subseteq {"tenant"} /\ DOMAIN g \subseteq {"network"} /\ DOMAIN i \subseteq {"subnets"}
    BY TraitDomain, EventSetters
  <2>2. DOMAIN h \subseteq {"instance"}
    BY DEF NoRefs
  <2>3. /\ port_update(e) = ForComponent(port_id(e), f ++ g ++ h ++ i, "update")
        /\ port_create(e) = OrAdd(port_update(e))
    BY DEF port_update, port_create
  <2> HIDE DEF f, g, h, i
  <2>4. /\ DOMAIN (f ++ g) = DOMAIN f \cup DOMAIN g
        /\ DOMAIN (f ++ g ++ h) = DOMAIN (f ++ g) \cup DOMAIN h
        /\ DOMAIN (f ++ g ++ h ++ i) = DOMAIN (f ++ g ++ h) \cup DOMAIN i
    BY MergeDomain
  <2>5. DOMAIN (f ++ g ++ h ++ i) \subseteq {"tenant", "network", "instance", "subnets"}
    BY <2>1, <2>2, <2>4
  <2>6. KnownFor("port", DOMAIN (f ++ g ++ h ++ i))
    BY <2>5, KnownSetters, FewerKnown
  <2> QED
    BY <1>1, <2>3, <2>6, ComponentKnown
<1>4. AllKnown(floatingip_create(e)) /\ AllKnown(floatingip_update(e))
  <2> DEFINE f == TenantRel(e)
             g == _apply_trait_rel(e, "floating_network_id", "network", "network")
             h == _apply_trait_rel(e, "router_id", "router", "router")
             i == _apply_trait_rel(e, "port_id", "port", "port")
  <2>1. /\ DOMAIN f \subseteq {"tenant"} /\ DOMAIN g \subseteq {"network"}
        /\ DOMAIN h \subseteq {"router"} /\ DOMAIN i \subseteq {"port"}
    BY TraitDomain, EventSetters
  <2>3. /\ floatingip_update(e) = ForComponent(floatingip_id(e), f ++ g ++ h ++ i, "update")
        /\ floatingip_create(e) = OrAdd(floatingip_update(e))
    BY DEF floatingip_update, floatingip_create
  <2> HIDE DEF f, g, h, i
  <2>4. /\ DOMAIN (f ++ g) = DOMAIN f \cup DOMAIN g
        /\ DOMAIN (f ++ g ++ h) = DOMAIN (f ++ g) \cup DOMAIN h
        /\ DOMAIN (f ++ g ++ h ++ i) = DOMAIN (f ++ g ++ h) \cup DOMAIN i
    BY MergeDomain
  <2>5. DOMAIN (f ++ g ++ h ++ i) \subseteq {"tenant", "network", "router", "port"}
    BY <2>1, <2>4
  <2>6. KnownFor("floatingip", DOMAIN (f ++ g ++ h ++ i))
    BY <2>5, KnownSetters, FewerKnown
  <2> QED
    BY <1>1, <2>3, <2>6, ComponentKnown
<1> QED
  BY <1>2, <1>3, <1>4

\* The maps of volume events set known relations.
LEMMA VolumeMaps ==
    ASSUME NEW e
    PROVE  /\ AllKnown(volume_create(e)) /\ AllKnown(volume_update(e)) /\ AllKnown(volume_delete_end(e))
           /\ AllKnown(volsnapshot_create(e)) /\ AllKnown(volsnapshot_delete_end(e))
<1>1. NoneOrOf(volume_id(e), "volume") /\ NoneOrOf(volsnapshot_id(e), "volsnapshot")
  BY MakeId DEF volume_id, volsnapshot_id
<1>2. AllKnown(volume_delete_end(e))
  BY <1>1, NoneKnown, ComponentKnown DEF volume_delete_end
<1>3. AllKnown(volume_create(e)) /\ AllKnown(volume_update(e))
  <2> DEFINE f == CinderTenantRel(e)
             g == IF e.type = "volume.detach.end" THEN [instance |-> {}]
                  ELSE IF Has(e, "instance_id") /\ e.traits["instance_id"] # {}
                  THEN [instance |-> Ids("server", e.traits["instance_id"])] ELSE NoRefs
             h == _apply_trait_rel(e, "type", "volType", "volType")
  <2>1. DOMAIN f \subseteq {"tenant"} /\ DOMAIN h \subseteq {"volType"}
    BY TraitDomain, EventSetters
  <2>2. DOMAIN g \subseteq {"instance"}
    BY DEF NoRefs
  <2>3. /\ volume_update(e) = ForComponent(volume_id(e), f ++ g ++ h, "update")
        /\ volume_create(e) = OrAdd(volume_update(e))
    BY DEF volume_update, volume_create
  <2> HIDE DEF f, g, h
  <2>4. /\ DOMAIN (f ++ g) = DOMAIN f \cup DOMAIN g
        /\ DOMAIN (f ++ g ++ h) = DOMAIN (f ++ g) \cup DOMAIN h
    BY MergeDomain
  <2>5. DOMAIN (f ++ g ++ h) \subseteq {"tenant", "instance", "volType"}
    BY <2>1, <2>2, <2>4
  <2>6. KnownFor("volume", DOMAIN (f ++ g ++ h))
    BY <2>5, KnownSetters, FewerKnown
  <2> QED
    BY <1>1, <2>3, <2>6, ComponentKnown
<1>4. "volsnapshot" \notin Kinds
  BY DEF Kinds, ListOf
<1>5. AllKnown(volsnapshot_create(e)) /\ AllKnown(volsnapshot_delete_end(e))
  BY <1>1, <1>4, ComponentKnown DEF volsnapshot_create, volsnapshot_delete_end
<1> QED
  BY <1>2, <1>3, <1>5

\* Whatever an event says.
LEMMA EventMapsKnown ==
    ASSUME NEW e
    PROVE  AllKnown(map_event(e))
<1>1. /\ AllKnown(instance_create(e)) /\ AllKnown(instance_update(e)) /\ AllKnown(instance_delete(e))
      /\ AllKnown(instance_powered_on(e)) /\ AllKnown(instance_powered_off(e))
      /\ AllKnown(instance_suspended(e))
  BY InstanceMaps
<1>2. /\ AllKnown(network_create(e)) /\ AllKnown(network_update(e)) /\ AllKnown(network_delete_end(e))
      /\ AllKnown(subnet_create(e)) /\ AllKnown(subnet_update(e)) /\ AllKnown(subnet_delete_end(e))
      /\ AllKnown(router_create(e)) /\ AllKnown(router_update(e)) /\ AllKnown(router_delete_end(e))
  BY NetworkMaps
<1>3. /\ AllKnown(port_create(e)) /\ AllKnown(port_update(e)) /\ AllKnown(port_delete_end(e))
      /\ AllKnown(floatingip_create(e)) /\ AllKnown(floatingip_update(e))
      /\ AllKnown(floatingip_delete_end(e))
  BY PortMaps
<1>4. /\ AllKnown(volume_create(e)) /\ AllKnown(volume_update(e)) /\ AllKnown(volume_delete_end(e))
      /\ AllKnown(volsnapshot_create(e)) /\ AllKnown(volsnapshot_delete_end(e))
  BY VolumeMaps
<1>5. AllKnown(<<>>)
  BY NoneOrOne
<1> QED
  BY <1>1, <1>2, <1>3, <1>4, <1>5 DEF map_event

-----------------------------------------------------------------------------
(* The invariant. *)

\* What an entity bears is of a known relation.
LEMMA BearsKnown ==
    ASSUME NEW kind \in Kinds \ {"agent"}, NEW x, NEW res, NEW p \in Bears(kind, x)
          \cup Extra(res, kind, x)
    PROVE  <<kind, p[1]>> \in KeptByModeler \/ p[1] \in Fixed(kind)
<1>1. CASE kind \in {"server", "hypervisor", "network", "quota", "subnet"}
  BY <1>1 DEF Bears, Extra, Refs, KeptByModeler, Fixed
<1>2. CASE kind \in {"port", "router", "floatingip", "volume", "snapshot"}
  BY <1>2 DEF Bears, Extra, Refs, KeptByModeler, Fixed
<1>3. CASE kind \in {"tenant", "flavor", "image", "volType"}
  BY <1>3 DEF Bears, Extra
<1> QED
  BY <1>1, <1>2, <1>3 DEF Kinds, ListOf

\* The maps of the modeler set known relations.
LEMMA ModelerMapsKnown ==
    ASSUME NEW res, NEW i \in 1..21, NEW m \in process(res)[i]
    PROVE  MapKnown(m)
<1>1. SUFFICES ASSUME m.id[1] \in Kinds \ {"agent"}, NEW p \in Sets(m.set)
               PROVE  <<m.id[1], p[1]>> \in KeptByModeler \/ p[1] \in Fixed(m.id[1])
  BY DEF MapKnown
<1>2. m.id[1] = KindAt[i]
  BY KindsInOrder
<1>3. CASE i = 1
  BY <1>3, TenantMaps
<1>4. CASE i # 1
  <2>1. KindAt[i] # "tenant" /\ (KindAt[i] \in Kinds => StageOf[KindAt[i]] = i)
    BY <1>4 DEF KindAt, StageOf, Kinds, ListOf
  <2>2. PICK x : Sets(m.set) = Bears(KindAt[i], x) \cup Extra(res, KindAt[i], x)
    BY <1>1, <1>2, <2>1, MapsOfKinds
  <2> QED
    BY <1>1, <1>2, <2>2, BearsKnown
<1> QED
  BY <1>3, <1>4

\* A reference a known map makes is of a known relation.
LEMMA NewRefsKnown ==
    ASSUME NEW m, MapKnown(m), NEW present, NEW y \in NewRefs(m, present),
           y[1][1] \in Kinds \ {"agent"}
    PROVE  Pair(y) \in KeptByModeler \/ y[2] \in Fixed(y[1][1])
<1>1. PICK p \in Sets(m.set) : y = <<m.id, p[1], p[2]>>
  BY NewRefsAre
<1> QED
  BY <1>1 DEF MapKnown, Pair

\* Two lists of known maps are one.
LEMMA BothKnown ==
    ASSUME NEW s, NEW t, AllKnown(s), AllKnown(t)
    PROVE  AllKnown(s \o t)
<1>1. /\ IsSeq(s \o t)
      /\ Len(s \o t) = Len(s) + Len(t)
      /\ \A i \in 1..Len(s) : (s \o t)[i] = s[i]
      /\ \A i \in 1..Len(t) : (s \o t)[Len(s) + i] = t[i]
      /\ Len(s) \in Nat /\ Len(t) \in Nat
  BY ConcatFacts, SeqFacts DEF AllKnown
<1>2. ASSUME NEW i \in 1..Len(s \o t)
      PROVE  MapKnown((s \o t)[i])
  <2>1. CASE i <= Len(s)
    BY <1>1, <2>1 DEF AllKnown
  <2>2. CASE i > Len(s)
    <3>1. i - Len(s) \in 1..Len(t) /\ Len(s) + (i - Len(s)) = i
      BY <1>1, <2>2
    <3> QED
      BY <1>1, <3>1 DEF AllKnown
  <2> QED
    BY <1>1, <2>1, <2>2
<1> QED
  BY <1>1, <1>2 DEF AllKnown

\* The first and the rest of a list of known maps.
LEMMA RestKnown ==
    ASSUME NEW s, AllKnown(s), s # <<>>
    PROVE  AllKnown(Tail(s)) /\ MapKnown(Head(s))
<1>1. /\ Len(s) \in Nat /\ Len(s) > 0
      /\ IsSeq(Tail(s)) /\ Head(s) = s[1] /\ Len(Tail(s)) = Len(s) - 1
      /\ \A i \in 1..Len(s)-1 : Tail(s)[i] = s[i + 1]
  BY SeqFacts DEF AllKnown
<1>2. ASSUME NEW i \in 1..Len(Tail(s))
      PROVE  MapKnown(Tail(s)[i])
  <2>1. i \in 1..Len(s)-1 /\ i + 1 \in 1..Len(s)
    BY <1>1
  <2> QED
    BY <1>1, <2>1 DEF AllKnown
<1> QED
  BY <1>1, <1>2 DEF AllKnown

\* A step that leaves the cycle alone leaves what it knows.
LEMMA CollectingStays ==
    ASSUME Collecting, UNCHANGED <<cloud, todo, results, failed, during>>
    PROVE  Collecting'
<1>1. PICK n \in 0..21, k \in Nat : Line(todo, n, k) /\ Answers(n, k)
  BY DEF Collecting
<1>2. Line(todo, n, k)'
  BY <1>1
<1>3. Answers(n, k)'
  <2>1. \A list : Told(list) => Told(list)'
    BY DEF Told
  <2>2. ToldFlavors(n) => ToldFlavors(n)'
    BY DEF ToldFlavors
  <2>3. \A a, list, field : ServedWhole(a, list, field) => ServedWhole(a, list, field)'
    BY DEF ServedWhole
  <2>4. ToldServed(k) => ToldServed(k)'
    BY <2>3 DEF ToldServed
  <2>5. ToldQuotas(k) => ToldQuotas(k)'
    BY DEF ToldQuotas
  <2> QED
    BY <1>1, <2>1, <2>2, <2>4, <2>5 DEF Answers
<1> QED
  BY <1>2, <1>3 DEF Collecting, VisibilityKept

\* No change of the cloud turns a flavor's visibility.
LEMMA VisibilityStays ==
    ASSUME WellFormed(cloud), cloud \in during, \A c \in during : WellFormed(c), VisibilityKept,
           NEW e \in Edits, Edit(e), during' = during \cup {cloud'}
    PROVE  VisibilityKept'
<1>1. /\ DOMAIN cloud = Lists /\ e.list \in Lists
      /\ WellFormed(cloud')
      /\ cloud' = [cloud EXCEPT ![e.list] = (@ \ e.out) \cup e.in]
  BY CloudsAssumption DEF Edit, WellFormed
<1>2. "flavors" \in Lists
  BY DEF Lists
<1>3. /\ \A f, h \in cloud.flavors : f.id = h.id => f = h
      /\ \A f, h \in cloud'.flavors : f.id = h.id => f = h
  BY <1>1, <1>2 DEF WellFormed
<1>4. ASSUME NEW f \in cloud'.flavors, NEW h \in cloud.flavors, f.id = h.id
      PROVE  f.public = h.public
  <2>1. CASE e.list # "flavors"
    <3>1. cloud'.flavors = cloud.flavors
      BY <1>1, <1>2, <2>1
    <3> QED
      BY <1>3, <1>4, <3>1
  <2>2. CASE e.list = "flavors"
    <3>1. cloud'.flavors = (cloud.flavors \ e.out) \cup e.in
      BY <1>1, <2>2
    <3>2. CASE f \in cloud.flavors
      BY <1>3, <1>4, <3>2
    <3>3. CASE f \in e.in /\ h \in e.out
      BY <1>4, <2>2, <3>3, CloudsAssumption
    <3>4. CASE h \notin e.out
      BY <1>3, <1>4, <3>1, <3>4
    <3> QED
      BY <3>1, <3>2, <3>3, <3>4
  <2> QED
    BY <2>1, <2>2
<1>5. ASSUME NEW c \in during', NEW d \in during', NEW f \in c.flavors, NEW g \in d.flavors,
             f.id = g.id, \A b \in during' : \E h \in b.flavors : h.id = f.id
      PROVE  f.public = g.public
  <2>1. \A b \in during : \E h \in b.flavors : h.id = f.id
    BY <1>5
  <2>2. PICK h \in cloud.flavors : h.id = f.id
    BY <2>1
  <2>3. f.public = h.public
    <3>1. CASE c \in during
      BY <2>1, <2>2, <3>1 DEF VisibilityKept
    <3>2. CASE c = cloud'
      BY <1>4, <2>2, <3>2
    <3> QED
      BY <3>1, <3>2
  <2>4. g.public = h.public
    <3>1. CASE d \in during
      BY <1>5, <2>1, <2>2, <3>1 DEF VisibilityKept
    <3>2. CASE d = cloud'
      BY <1>4, <1>5, <2>2, <3>2
    <3> QED
      BY <3>1, <3>2
  <2> QED
    BY <2>3, <2>4
<1> QED
  BY <1>5 DEF VisibilityKept

\* A change of the cloud leaves what a cycle knows true: of more clouds, less
\* is true all the time and more at some time.
LEMMA EditKeeps ==
    ASSUME WellFormed(cloud), Collecting, NEW e \in Edits, Edit(e), phase = "collecting"
    PROVE  Collecting'
<1>1. PICK n \in 0..21, k \in Nat : Line(todo, n, k) /\ Answers(n, k)
  BY DEF Collecting
<1>2. /\ cloud \in during /\ VisibilityKept
      /\ \A c \in during : WellFormed(c)
      /\ DOMAIN results = DOMAIN NoResults
  BY DEF Collecting
<1>3. /\ during' = during \cup {cloud'}
      /\ WellFormed(cloud')
      /\ todo' = todo /\ results' = results /\ failed' = failed
  BY DEF Edit
<1>4. during \subseteq during' /\ cloud' \in during'
  BY <1>3
<1>5. \A c \in during' : WellFormed(c)
  BY <1>2, <1>3
<1>6. VisibilityKept'
  BY <1>2, <1>3, VisibilityStays
<1>7. Line(todo, n, k)'
  BY <1>1, <1>3
<1>8. Answers(n, k)'
  <2>1. ASSUME NEW list \in DOMAIN PlaceOf
        PROVE  (IF PlaceOf[list] <= 21 - n THEN Told(list) ELSE results[list] = {})'
    <3>1. IF PlaceOf[list] <= 21 - n THEN Told(list) ELSE results[list] = {}
      BY <1>1 DEF Answers
    <3> QED
      BY <1>3, <1>4, <3>1, ToldStays
  <2>2. ASSUME NEW list \in DOMAIN SingleOf, NEW i \in 1..k, todo'[i][1] = SingleOf[list]
        PROVE  k = 1 /\ results'[list] = {}
    BY <1>1, <1>3, <2>2 DEF Answers
  <2>3. ToldFlavors(n)'
    <3>1. ToldFlavors(n)
      BY <1>1 DEF Answers
    <3> QED
      BY <1>3, <1>4, <3>1 DEF ToldFlavors
  <2>4. ASSUME 21 - n >= 10
        PROVE  ToldServed(k)'
    <3>1. ToldServed(k)
      BY <1>1, <2>4 DEF Answers
    <3>2. results.served \subseteq results'.served
      BY <1>3
    <3>3. \A a, list, field : ServedWhole(a, list, field) => ServedWhole(a, list, field)'
      BY <1>4, <3>2, ServedStays
    <3> QED
      BY <1>3, <3>1, <3>3 DEF ToldServed
  <2>5. ASSUME n = 0
        PROVE  ToldQuotas(k)'
    BY <1>1, <1>3, <2>5 DEF Answers, ToldQuotas
  <2> QED
    BY <2>1, <2>2, <2>3, <2>4, <2>5 DEF Answers
<1> QED
  BY <1>2, <1>3, <1>4, <1>5, <1>6, <1>7, <1>8 DEF Collecting

\* A cycle begins with every call of the plan before it.
LEMMA BeginKeeps ==
    ASSUME WellFormed(cloud), Begin
    PROVE  Collecting'
<1>1. /\ during' = {cloud} /\ cloud' = cloud
      /\ todo' = Plan /\ results' = NoResults /\ failed' = {}
  BY DEF Begin
<1>2. Line(todo, 21, 0)'
  <2>1. \A i \in 1..21 : Plan[0 + i] = Plan[21 - 21 + i]
    OBVIOUS
  <2> QED
    BY <1>1, <2>1, PlanIs DEF Line
<1>3. Answers(21, 0)'
  <2>1. \A list \in DOMAIN PlaceOf : PlaceOf[list] > 0 /\ NoResults[list] = {}
    BY DEF PlaceOf, NoResults
  <2>2. NoResults.flavors = {}
    BY DEF NoResults
  <2>3. ToldFlavors(21)'
    BY <1>1, <2>2 DEF ToldFlavors
  <2>4. \A list \in DOMAIN PlaceOf : ~(PlaceOf[list] <= 21 - 21) /\ results'[list] = {}
    <3>1. \A list \in DOMAIN PlaceOf : PlaceOf[list] \in Nat
      BY DEF PlaceOf
    <3> QED
      BY <1>1, <2>1, <3>1
  <2>5. ~(21 - 21 >= 10) /\ 21 # 0 /\ 1..0 = {}
    OBVIOUS
  <2> QED
    BY <2>3, <2>4, <2>5 DEF Answers
<1>4. VisibilityKept'
  <2>1. \A f, g \in cloud.flavors : f.id = g.id => f = g
    BY DEF WellFormed, Lists
  <2> QED
    BY <1>1, <2>1 DEF VisibilityKept
<1>5. (\A c \in during : WellFormed(c))'
  BY <1>1
<1> QED
  BY <1>1, <1>2, <1>3, <1>4, <1>5 DEF Collecting

\* The inductive invariant: during a cycle every list is what its call answered,
\* or still to be asked; the model and the maps of events have known relations.
THEOREM IInvHolds == Spec => []IInv
<1>1. Init => IInv
  <2> SUFFICES ASSUME Init
               PROVE  IInv
    OBVIOUS
  <2>1. WellFormed(cloud)
    BY CloudsAssumption DEF Init
  <2>2. IsSeq(<<>>) /\ Len(<<>>) = 0
    BY NoneOrOne DEF AllKnown
  <2>3. phase # "collecting" /\ pending = <<>> /\ model.refs = {}
    BY DEF Init
  <2>4. RefsKnown
    BY <2>3 DEF RefsKnown
  <2>5. \A i \in 1..0 : MapKnown(pending[i])
    OBVIOUS
  <2> QED
    BY <2>1, <2>2, <2>3, <2>4, <2>5 DEF IInv
<1>2. IInv /\ [Next]_vars => IInv'
  <2> SUFFICES ASSUME IInv, [Next]_vars
               PROVE  IInv'
    OBVIOUS
  <2>0. /\ WellFormed(cloud)
        /\ phase = "collecting" => Collecting
        /\ AllKnown(pending)
        /\ RefsKnown
    BY DEF IInv, AllKnown
  <2> DEFINE Kept == WellFormed(cloud)' /\ AllKnown(pending)' /\ RefsKnown'
  <2>1. CASE Begin
    <3>1. cloud' = cloud /\ pending' = pending /\ model' = model
      BY <2>1 DEF Begin
    <3>2. Kept
      BY <2>0, <3>1 DEF AllKnown, RefsKnown
    <3>3. Collecting'
      BY <2>0, <2>1, BeginKeeps
    <3> QED
      BY <3>2, <3>3 DEF IInv, AllKnown
  <2>2. CASE Answer
    <3>1. cloud' = cloud /\ pending' = pending /\ model' = model
      BY <2>2 DEF Answer
    <3>2. Kept
      BY <2>0, <3>1 DEF AllKnown, RefsKnown
    <3>3. Collecting'
      <4>1. PICK name, arg : name = Head(todo)[1] /\ arg = Head(todo)[2]
        OBVIOUS
      <4>2. PICK answers : answers = Answered(name, arg)
        OBVIOUS
      <4>3. Collecting /\ todo # <<>> /\ during' = during /\ failed' = failed
        BY <2>0, <2>2 DEF Answer
      <4>4. Proceed(name, answers)
        BY <2>2, <4>1, <4>2 DEF Answer
      <4>5. name \in AllCalls /\ DOMAIN results = DOMAIN NoResults
        BY <4>1, <4>3, NamesOfCalls DEF Collecting
      <4>6. Yields(name, arg, answers, failed)
        BY <4>2, <4>5, AnsweredYields
      <4> QED
        BY <3>1, <4>1, <4>3, <4>4, <4>6, CallKeeps
    <3> QED
      BY <3>2, <3>3 DEF IInv, AllKnown
  <2>3. ASSUME phase = "collecting", todo # <<>>, NEW name, NEW arg,
               name = Head(todo)[1], arg = Head(todo)[2], GoOnWithout(name, arg)
        PROVE  IInv'
    <3>1. cloud' = cloud /\ pending' = pending /\ model' = model
      BY <2>3 DEF GoOnWithout
    <3>2. Kept
      BY <2>0, <3>1 DEF AllKnown, RefsKnown
    <3>3. Collecting'
      <4>2. PICK answers : answers = Lost(name, arg)
        OBVIOUS
      <4>3. Collecting
        BY <2>0, <2>3
      <4>4. Proceed(name, answers) /\ during' = during /\ failed' = failed \cup {name}
        BY <2>3, <4>2 DEF GoOnWithout
      <4>5. name \in AllCalls /\ DOMAIN results = DOMAIN NoResults
        BY <2>3, <4>3, NamesOfCalls DEF Collecting
      <4>6. Yields(name, arg, answers, failed \cup {name})
        BY <4>2, <4>5, LostYields
      <4>7. PICK lost : lost = failed \cup {name}
        OBVIOUS
      <4> QED
        BY <2>3, <3>1, <4>3, <4>4, <4>6, <4>7, CallKeeps
    <3> QED
      BY <3>2, <3>3 DEF IInv, AllKnown
  <2>4. CASE Refused \/ Unreachable
    <3>1. CASE GoOnWithout(Head(todo)[1], Head(todo)[2])
      BY <2>3, <2>4, <3>1 DEF Refused, Unreachable
    <3>2. CASE EndCycle
      <4>1. cloud' = cloud /\ pending' = pending /\ model' = model /\ phase' = "idle"
        BY <3>2 DEF EndCycle
      <4>2. Kept
        BY <2>0, <4>1 DEF AllKnown, RefsKnown
      <4> QED
        BY <4>1, <4>2 DEF IInv, AllKnown
    <3> QED
      BY <2>4, <3>1, <3>2 DEF Refused, Unreachable
  <2>5. CASE Process
    <3>1. /\ cloud' = cloud /\ pending' = pending /\ phase' # "collecting"
          /\ model' = model \/ model' = ApplyAll(process(results))
      BY <2>5 DEF Process, EndCycle
    <3>2. RefsKnown'
      <4>1. CASE model' = model
        BY <2>0, <4>1 DEF RefsKnown
      <4>2. CASE model' = ApplyAll(process(results))
        <5>1. Len(process(results)) = 21
          BY ProcessMaps
        <5>2. ASSUME NEW y \in ApplyAll(process(results)).refs, y[1][1] \in Kinds \ {"agent"}
              PROVE  Pair(y) \in KeptByModeler \/ y[2] \in Fixed(y[1][1])
          <6>1. CASE y \in model.refs
            BY <2>0, <5>2, <6>1 DEF RefsKnown
          <6>2. CASE \E i \in 1..21 : \E m \in process(results)[i] :
                        y \in NewRefs(m, Present(process(results), i))
            BY <5>2, <6>2, ModelerMapsKnown, NewRefsKnown
          <6> QED
            BY <5>1, <6>1, <6>2, Applied
        <5> QED
          BY <4>2, <5>2 DEF RefsKnown, Pair
      <4> QED
        BY <3>1, <4>1, <4>2
    <3> QED
      BY <2>0, <3>1, <3>2 DEF IInv, AllKnown
  <2>6. ASSUME NEW e \in Edits, Edit(e)
        PROVE  IInv'
    <3>1. /\ WellFormed(cloud') /\ model' = model /\ phase' = phase
          /\ pending' = pending \o map_event(e.event)
      BY <2>6 DEF Edit
    <3>2. AllKnown(pending)'
      <4>1. PICK maps : maps = map_event(e.event)
        OBVIOUS
      <4>2. AllKnown(maps)
        BY <4>1, EventMapsKnown
      <4>3. AllKnown(pending \o maps)
        BY <2>0, <4>2, BothKnown
      <4> QED
        BY <3>1, <4>1, <4>3 DEF AllKnown
    <3>3. phase' = "collecting" => Collecting'
      BY <2>0, <2>6, <3>1, EditKeeps
    <3>4. RefsKnown'
      BY <2>0, <3>1 DEF RefsKnown
    <3> QED
      BY <3>1, <3>2, <3>3, <3>4 DEF IInv, AllKnown
  <2>7. CASE Deliver
    <3>1. /\ cloud' = cloud /\ phase' = phase /\ during' = during /\ todo' = todo
          /\ results' = results /\ failed' = failed
          /\ pending # <<>> /\ pending' = Tail(pending)
          /\ model' = ApplyMap(Head(pending))
      BY <2>7 DEF Deliver
    <3>2. AllKnown(pending') /\ MapKnown(Head(pending))
      BY <2>0, <3>1, RestKnown
    <3>3. RefsKnown'
      <4>1. PICK m : m = Head(pending)
        OBVIOUS
      <4>2. ASSUME NEW y \in ApplyMap(m).refs
            PROVE  \/ y \in model.refs \/ \E present : y \in NewRefs(m, present)
                   \/ y[1][1] = "hypervisor" /\ y[2] = "instances"
        <5>1. ASSUME NEW refs, NEW z \in set_host_name(m, refs)
              PROVE  z \in refs \/ (z[1][1] = "hypervisor" /\ z[2] = "instances")
          BY DEF set_host_name
        <5> QED
          BY <5>1 DEF ApplyMap, Keep
      <4>3. "instances" \in Fixed("hypervisor")
        BY DEF Fixed
      <4> QED
        BY <2>0, <3>1, <3>2, <4>1, <4>2, <4>3, NewRefsKnown DEF RefsKnown, Pair
    <3>4. Collecting => Collecting'
      BY <3>1, CollectingStays
    <3> QED
      BY <2>0, <3>1, <3>2, <3>3, <3>4 DEF IInv, AllKnown
  <2>8. CASE LoseEvent
    <3>1. /\ cloud' = cloud /\ phase' = phase /\ during' = during /\ todo' = todo
          /\ results' = results /\ failed' = failed
          /\ pending # <<>> /\ pending' = Tail(pending)
          /\ model' = model
      BY <2>8 DEF LoseEvent
    <3>2. AllKnown(pending')
      BY <2>0, <3>1, RestKnown
    <3>3. RefsKnown'
      BY <2>0, <3>1 DEF RefsKnown
    <3>4. Collecting => Collecting'
      BY <3>1, CollectingStays
    <3> QED
      BY <2>0, <3>1, <3>2, <3>3, <3>4 DEF IInv, AllKnown
  <2>9. CASE UNCHANGED vars
    <3>1. /\ cloud' = cloud /\ phase' = phase /\ during' = during /\ todo' = todo
          /\ results' = results /\ failed' = failed
          /\ pending' = pending /\ model' = model
      BY <2>9 DEF vars
    <3>3. RefsKnown'
      BY <2>0, <3>1 DEF RefsKnown
    <3>4. Collecting => Collecting'
      BY <3>1, CollectingStays
    <3> QED
      BY <2>0, <3>1, <3>3, <3>4 DEF IInv, AllKnown
  <2> QED
    BY <2>1, <2>2, <2>3, <2>4, <2>5, <2>6, <2>7, <2>8, <2>9 DEF Next
<1> QED
  BY <1>1, <1>2, PTL DEF Spec

-----------------------------------------------------------------------------
(* What a cycle knows when it has asked everything. *)

Collected ==
    /\ during # {} /\ VisibilityKept
    /\ \A c \in during : WellFormed(c)
    /\ \A list \in DOMAIN PlaceOf : Told(list)
    /\ \A f \in results.flavors : \E c \in during : f \in c.flavors
    /\ "flavors" \notin failed =>
          \E c \in during : {f \in c.flavors : f.public} \subseteq results.flavors
    /\ "private_flavors" \notin failed =>
          \E c \in during : {f \in c.flavors : ~f.public} \subseteq results.flavors
    /\ \A a \in results.agents :
          /\ a.kind = "l3" /\ "agent_l3_routers" \notin failed => ServedWhole(a, "routers", "routers")
          /\ a.kind = "dhcp" /\ "agent_dhcp_networks" \notin failed => ServedWhole(a, "networks", "networks")
    /\ \A t \in results.tenants : "quotas" \in failed \/ t.id \in results.quotas

\* When nothing is left to ask, all lists are told.
LEMMA CollectedAtEnd ==
    ASSUME Collecting, todo = <<>>
    PROVE  Collected
<1>1. PICK n \in 0..21, k \in Nat : Line(todo, n, k) /\ Answers(n, k)
  BY DEF Collecting
<1>2. n = 0 /\ k = 0
  <2>1. Len(todo) = k + n
    BY <1>1 DEF Line
  <2>2. Len(todo) = 0
    OBVIOUS
  <2> QED
    BY <2>1, <2>2
<1>3. Answers(0, 0)
  BY <1>1, <1>2
<1>4. \A list \in DOMAIN PlaceOf : Told(list)
  <2>1. \A list \in DOMAIN PlaceOf : PlaceOf[list] <= 21 - 0
    BY DEF PlaceOf
  <2> QED
    BY <1>3, <2>1 DEF Answers
<1>5. ToldFlavors(0) /\ ToldServed(0) /\ ToldQuotas(0)
  BY <1>3 DEF Answers
<1>6. during # {} /\ VisibilityKept /\ \A c \in during : WellFormed(c)
  BY DEF Collecting
<1>7. \A a \in results.agents :
          /\ a.kind = "l3" /\ "agent_l3_routers" \notin failed => ServedWhole(a, "routers", "routers")
          /\ a.kind = "dhcp" /\ "agent_dhcp_networks" \notin failed => ServedWhole(a, "networks", "networks")
  BY <1>5 DEF ToldServed
<1>8. \A t \in results.tenants : "quotas" \in failed \/ t.id \in results.quotas
  BY <1>5 DEF ToldQuotas
<1>9. /\ \A f \in results.flavors : \E c \in during : f \in c.flavors
      /\ "flavors" \notin failed =>
            \E c \in during : {f \in c.flavors : f.public} \subseteq results.flavors
      /\ "private_flavors" \notin failed =>
            \E c \in during : {f \in c.flavors : ~f.public} \subseteq results.flavors
  BY <1>5 DEF ToldFlavors
<1> QED
  BY <1>4, <1>6, <1>7, <1>8, <1>9 DEF Collected

\* The list of a kind, the call that fills it and the entities in it.
LEMMA ListOfKind ==
    ASSUME NEW kind \in Kinds
    PROVE  /\ kind # "flavor" => ListOf[kind] \in DOMAIN PlaceOf
           /\ ListOf[kind] \in Lists
           /\ kind # "flavor" => ListOf[kind] \in CallsOf(kind)
           /\ \A c : Entities(c, kind) \subseteq c[ListOf[kind]]
           /\ \A c, d : c[ListOf[kind]] \subseteq d[ListOf[kind]] => Entities(c,
                    kind) \subseteq Entities(d, kind)
<1>1. /\ kind # "flavor" => ListOf[kind] \in DOMAIN PlaceOf
      /\ ListOf[kind] \in Lists
  BY DEF Kinds, ListOf, PlaceOf, Lists
<1>2. kind # "flavor" => ListOf[kind] \in CallsOf(kind)
  BY DEF Kinds, ListOf, CallsOf
<1>3. kind \in {"tenant", "quota"} => ListOf[kind] = "tenants"
  BY DEF ListOf
<1>4. /\ \A c : Entities(c, kind) \subseteq c[ListOf[kind]]
      /\ \A c, d : c[ListOf[kind]] \subseteq d[ListOf[kind]] => Entities(c,
               kind) \subseteq Entities(d, kind)
  BY <1>3 DEF Entities
<1> QED
  BY <1>1, <1>2, <1>4

\* An uid is of one entity.
LEMMA KeyedEntities ==
    ASSUME NEW c, WellFormed(c), NEW kind \in Kinds, NEW e \in Entities(c, kind),
           NEW f \in Entities(c, kind), e.id = f.id
    PROVE  e = f
  BY ListOfKind DEF WellFormed

\* The entities that were answered were there together; of flavors, each was
\* there at some time.
LEMMA EntitiesThere ==
    ASSUME Collected, NEW kind \in Kinds
    PROVE  /\ \A e \in Entities(results, kind) : \E c \in during : e \in Entities(c, kind)
           /\ kind # "flavor" => \E c \in during : Entities(results,
                    kind) \subseteq Entities(c, kind)
<1>1. kind # "flavor" => \E c \in during : Entities(results, kind) \subseteq Entities(c, kind)
  BY ListOfKind DEF Collected, Told
<1>2. CASE kind = "flavor"
  <2>1. \A c : Entities(c, kind) = c.flavors
    BY <1>2 DEF Entities, ListOf
  <2> QED
    BY <1>1, <1>2, <2>1 DEF Collected
<1> QED
  BY <1>1, <1>2

\* An entity that was there all the time is the one that was answered.
LEMMA SameEntity ==
    ASSUME Collected, NEW kind \in Kinds \ {"flavor"}, NEW e \in Entities(results, kind)
    PROVE  \E c \in during : /\ e \in Entities(c, kind)
                             /\ \A f \in Entities(c, kind) : f.id = e.id => f = e
<1>1. PICK c \in during : Entities(results, kind) \subseteq Entities(c, kind)
  BY EntitiesThere
<1> QED
  BY <1>1, KeyedEntities DEF Collected

\* An uid that was there all the time is answered, if the calls of its kind are.
LEMMA EntitiesAnswered ==
    ASSUME Collected, NEW kind \in Kinds, CallsOf(kind) \cap failed = {}, NEW u,
           \A c \in during : \E e \in Entities(c, kind) : e.id = u
    PROVE  \E e \in Entities(results, kind) : e.id = u /\ (kind = "quota" => u \in results.quotas)
<1>1. CASE kind # "flavor"
  <2>1. PICK c \in during : c[ListOf[kind]] \subseteq results[ListOf[kind]]
    BY <1>1, ListOfKind DEF Collected, Told
  <2>2. PICK e \in Entities(c, kind) : e.id = u
    OBVIOUS
  <2>3. e \in Entities(results, kind)
    BY <2>1, ListOfKind
  <2>4. CASE kind = "quota"
    <3>1. e \in results.tenants /\ "quotas" \notin failed
      BY <2>3, <2>4 DEF Entities, CallsOf
    <3> QED
      BY <2>2, <2>3, <3>1 DEF Collected
  <2> QED
    BY <2>2, <2>3, <2>4
<1>2. CASE kind = "flavor"
  <2>1. /\ \A c : Entities(c, kind) = c.flavors
        /\ "flavors" \notin failed /\ "private_flavors" \notin failed
    BY <1>2 DEF Entities, ListOf, CallsOf
  <2>2. PICK c \in during : {f \in c.flavors : f.public} \subseteq results.flavors
    BY <2>1 DEF Collected
  <2>3. PICK d \in during : {f \in d.flavors : ~f.public} \subseteq results.flavors
    BY <2>1 DEF Collected
  <2>4. PICK f \in c.flavors : f.id = u
    BY <2>1
  <2>5. PICK g \in d.flavors : g.id = u
    BY <2>1
  <2>6. f.public = g.public
    <3>1. VisibilityKept
      BY DEF Collected
    <3>2. \A b \in during : \E h \in b.flavors : h.id = f.id
      BY <2>1, <2>4
    <3> QED
      BY <2>4, <2>5, <3>1, <3>2 DEF VisibilityKept
  <2>7. f \in results.flavors \/ g \in results.flavors
    BY <2>2, <2>3, <2>6
  <2> QED
    BY <1>2, <2>1, <2>4, <2>5, <2>7
<1> QED
  BY <1>1, <1>2

-----------------------------------------------------------------------------
(* Every entity that was answered has its map. *)

\* The id of a map.
LEMMA IdOfMap == \A id, set : ObjectMap(id, set).id = id
  BY DEF ObjectMap

\* An entity that was answered has a map with its id.
LEMMA IdsMapped ==
    ASSUME NEW res, NEW kind \in Kinds \ {"tenant"}, NEW e \in Entities(res, kind),
           kind = "quota" => e.id \in res.quotas
    PROVE  \E m \in process(res)[StageOf[kind]] : m.id = <<kind, e.id>>
<1>1. CASE kind = "quota"
  <2> DEFINE S(t) == [tenant |-> {<<"tenant", t>>}]
  <2>1. process(res)[StageOf[kind]] = map_quotas(res)
    BY <1>1, ProcessMaps DEF StageOf
  <2>2. map_quotas(res) = {ObjectMap(<<"quota", t>>,
              S(t)) : t \in res.quotas \cap process_quota_tenants(res)}
    BY DEF map_quotas
  <2>3. e.id \in res.quotas \cap process_quota_tenants(res)
    BY <1>1 DEF Entities, ListOf, process_quota_tenants
  <2> HIDE DEF S
  <2>4. ObjectMap(<<"quota", e.id>>, S(e.id)) \in map_quotas(res)
    BY <2>2, <2>3
  <2> QED
    BY <1>1, <2>1, <2>4, IdOfMap
<1>2. CASE kind = "flavor"
  <2> DEFINE S(f) == NoRefs
  <2>1. process(res)[StageOf[kind]] = map_flavors(res)
    BY <1>2, ProcessMaps DEF StageOf
  <2>2. map_flavors(res) = {ObjectMap(<<"flavor", f.id>>, S(f)) : f \in res.flavors}
    BY DEF map_flavors
  <2>3. e \in res.flavors
    BY <1>2 DEF Entities, ListOf
  <2> HIDE DEF S
  <2>4. ObjectMap(<<"flavor", e.id>>, S(e)) \in map_flavors(res)
    BY <2>2, <2>3
  <2> QED
    BY <1>2, <2>1, <2>4, IdOfMap
<1>3. CASE kind = "image"
  <2> DEFINE S(i) == NoRefs
  <2>1. process(res)[StageOf[kind]] = map_images(res)
    BY <1>3, ProcessMaps DEF StageOf
  <2>2. map_images(res) = {ObjectMap(<<"image", i.id>>, S(i)) : i \in res.images}
    BY DEF map_images
  <2>3. e \in res.images
    BY <1>3 DEF Entities, ListOf
  <2> HIDE DEF S
  <2>4. ObjectMap(<<"image", e.id>>, S(e)) \in map_images(res)
    BY <2>2, <2>3
  <2> QED
    BY <1>3, <2>1, <2>4, IdOfMap
<1>4. CASE kind = "volType"
  <2> DEFINE S(v) == NoRefs
  <2>1. process(res)[StageOf[kind]] = map_voltypes(res)
    BY <1>4, ProcessMaps DEF StageOf
  <2>2. map_voltypes(res) = {ObjectMap(<<"volType", v.id>>, S(v)) : v \in res.volumetypes}
    BY DEF map_voltypes
  <2>3. e \in res.volumetypes
    BY <1>4 DEF Entities, ListOf
  <2> HIDE DEF S
  <2>4. ObjectMap(<<"volType", e.id>>, S(e)) \in map_voltypes(res)
    BY <2>2, <2>3
  <2> QED
    BY <1>4, <2>1, <2>4, IdOfMap
<1>5. CASE kind = "server"
  <2> DEFINE S(s) == [flavor |-> {<<"flavor", s.flavor>>}, tenant |-> {<<"tenant", s.tenant>>},
                     powerState |-> {<<"power", s.power>>}]
                     ++ Given("image", Ids("image", s.image))
  <2>1. process(res)[StageOf[kind]] = map_servers(res)
    BY <1>5, ProcessMaps DEF StageOf
  <2>2. map_servers(res) = {ObjectMap(<<"server", s.id>>, S(s)) : s \in res.servers}
    BY DEF map_servers
  <2>3. e \in res.servers
    BY <1>5 DEF Entities, ListOf
  <2> HIDE DEF S
  <2>4. ObjectMap(<<"server", e.id>>, S(e)) \in map_servers(res)
    BY <2>2, <2>3
  <2> QED
    BY <1>5, <2>1, <2>4, IdOfMap
<1>6. CASE kind = "hypervisor"
  <2> DEFINE S(h) == [instances |-> Ids("server", h.servers)]
                     ++ Given("hostByName", IF h.vmware THEN {} ELSE {<<"host", HostId[h.host]>>})
  <2>1. process(res)[StageOf[kind]] = map_hypervisors(res)
    BY <1>6, ProcessMaps DEF StageOf
  <2>2. map_hypervisors(res) = {ObjectMap(<<"hypervisor", h.id>>, S(h)) : h \in res.hypervisors}
    BY DEF map_hypervisors
  <2>3. e \in res.hypervisors
    BY <1>6 DEF Entities, ListOf
  <2> HIDE DEF S
  <2>4. ObjectMap(<<"hypervisor", e.id>>, S(e)) \in map_hypervisors(res)
    BY <2>2, <2>3
  <2> QED
    BY <1>6, <2>1, <2>4, IdOfMap
<1>7. CASE kind = "network"
  <2> DEFINE S(n) == [tenant |-> {<<"tenant", n.tenant>>}]
  <2>1. process(res)[StageOf[kind]] = map_networks(res)
    BY <1>7, ProcessMaps DEF StageOf
  <2>2. map_networks(res) = {ObjectMap(<<"network", n.id>>, S(n)) : n \in res.networks}
    BY DEF map_networks
  <2>3. e \in res.networks
    BY <1>7 DEF Entities, ListOf
  <2> HIDE DEF S
  <2>4. ObjectMap(<<"network", e.id>>, S(e)) \in map_networks(res)
    BY <2>2, <2>3
  <2> QED
    BY <1>7, <2>1, <2>4, IdOfMap
<1>8. CASE kind = "subnet"
  <2> DEFINE S(s) == [network |-> {<<"network", s.network>>}, tenant |-> {<<"tenant", s.tenant>>}]
  <2>1. process(res)[StageOf[kind]] = map_subnets(res)
    BY <1>8, ProcessMaps DEF StageOf
  <2>2. map_subnets(res) = {ObjectMap(<<"subnet", s.id>>, S(s)) : s \in res.subnets}
    BY DEF map_subnets
  <2>3. e \in res.subnets
    BY <1>8 DEF Entities, ListOf
  <2> HIDE DEF S
  <2>4. ObjectMap(<<"subnet", e.id>>, S(e)) \in map_subnets(res)
    BY <2>2, <2>3
  <2> QED
    BY <1>8, <2>1, <2>4, IdOfMap
<1>9. CASE kind = "port"
  <2> DEFINE S(p) == Given("subnets", Ids("subnet", p.subnets))
                     ++ Given("tenant", Ids("tenant", p.tenant))
                     ++ Given("instance", get_port_instance(p))
                     ++ Given("network", {<<"network", p.network>>})
                     ++ Given("router", IF p.owner = "router_interface"
                     THEN Ids("router", p.device) ELSE {})
  <2>1. process(res)[StageOf[kind]] = map_ports(res)
    BY <1>9, ProcessMaps DEF StageOf
  <2>2. map_ports(res) = {ObjectMap(<<"port", p.id>>, S(p)) : p \in res.ports}
    BY DEF map_ports
  <2>3. e \in res.ports
    BY <1>9 DEF Entities, ListOf
  <2> HIDE DEF S
  <2>4. ObjectMap(<<"port", e.id>>, S(e)) \in map_ports(res)
    BY <2>2, <2>3
  <2> QED
    BY <1>9, <2>1, <2>4, IdOfMap
<1>10. CASE kind = "router"
  <2> DEFINE S(r) == [tenant |-> {<<"tenant", r.tenant>>}]
                     ++ Given("network", Ids("network", r.gateway))
                     ++ Given("subnets", Ids("subnet", process_device_subnet_list(res, r.id)
                     \cup r.gatewaySubnets))
  <2>1. process(res)[StageOf[kind]] = map_routers(res)
    BY <1>10, ProcessMaps DEF StageOf
  <2>2. map_routers(res) = {ObjectMap(<<"router", r.id>>, S(r)) : r \in res.routers}
    BY DEF map_routers
  <2>3. e \in res.routers
    BY <1>10 DEF Entities, ListOf
  <2> HIDE DEF S
  <2>4. ObjectMap(<<"router", e.id>>, S(e)) \in map_routers(res)
    BY <2>2, <2>3
  <2> QED
    BY <1>10, <2>1, <2>4, IdOfMap
<1>11. CASE kind = "agent"
  <2> DEFINE Served(a, what) == UNION {s[what] : s \in {x \in res.served : x.agent = a.id}}
  <2> DEFINE S(a) == [routers |-> Ids("router", Served(a, "routers")),
                     networks |-> Ids("network", Served(a, "networks")),
                     subnets |-> Ids("subnet", Served(a, "subnets")),
                     hostedOn |-> {<<"host", HostId[a.host]>>},
                     orgComponent |-> IF a.zone # {} THEN Ids("zone", a.zone)
                     ELSE {getHostOrgComponent(HostId[a.host], res)}]
  <2>1. process(res)[StageOf[kind]] = map_agents(res)
    BY <1>11, ProcessMaps DEF StageOf
  <2>2. map_agents(res) = {ObjectMap(<<"agent", a.id>>, S(a)) : a \in res.agents}
    BY DEF map_agents
  <2>3. e \in res.agents
    BY <1>11 DEF Entities, ListOf
  <2> HIDE DEF S
  <2>4. ObjectMap(<<"agent", e.id>>, S(e)) \in map_agents(res)
    BY <2>2, <2>3
  <2> QED
    BY <1>11, <2>1, <2>4, IdOfMap
<1>12. CASE kind = "floatingip"
  <2> DEFINE S(f) == [network |-> {<<"network", f.network>>}, tenant |-> {<<"tenant", f.tenant>>}]
                     ++ Given("router", Ids("router", f.router))
                     ++ Given("port", Ids("port", f.port))
  <2>1. process(res)[StageOf[kind]] = map_floatingips(res)
    BY <1>12, ProcessMaps DEF StageOf
  <2>2. map_floatingips(res) = {ObjectMap(<<"floatingip", f.id>>, S(f)) : f \in res.floatingips}
    BY DEF map_floatingips
  <2>3. e \in res.floatingips
    BY <1>12 DEF Entities, ListOf
  <2> HIDE DEF S
  <2>4. ObjectMap(<<"floatingip", e.id>>, S(e)) \in map_floatingips(res)
    BY <2>2, <2>3
  <2> QED
    BY <1>12, <2>1, <2>4, IdOfMap
<1>13. CASE kind = "volume"
  <2> DEFINE TypesNamed(names) == {t \in res.volumetypes : t.name \in names}
             First(types) == IF types = {} THEN {} ELSE {(CHOOSE t \in types : TRUE).id}
  <2> DEFINE S(v) == Given("instance", Ids("server", v.instance))
                     ++ Given("tenant", Ids("tenant", v.tenant))
                     ++ Given("volType", Ids("volType", First(TypesNamed(v.type))))
  <2>1. process(res)[StageOf[kind]] = map_volumes(res)
    BY <1>13, ProcessMaps DEF StageOf
  <2>2. map_volumes(res) = {ObjectMap(<<"volume", v.id>>, S(v)) : v \in res.volumes}
    BY DEF map_volumes
  <2>3. e \in res.volumes
    BY <1>13 DEF Entities, ListOf
  <2> HIDE DEF S
  <2>4. ObjectMap(<<"volume", e.id>>, S(e)) \in map_volumes(res)
    BY <2>2, <2>3
  <2> QED
    BY <1>13, <2>1, <2>4, IdOfMap
<1>14. CASE kind = "snapshot"
  <2> DEFINE S(s) == Given("volume", Ids("volume", s.volume))
                     ++ Given("tenant", Ids("tenant", s.tenant))
  <2>1. process(res)[StageOf[kind]] = map_volumesnapshots(res)
    BY <1>14, ProcessMaps DEF StageOf
  <2>2. map_volumesnapshots(res) = {ObjectMap(<<"snapshot", s.id>>, S(s)) : s \in res.volsnapshots}
    BY DEF map_volumesnapshots
  <2>3. e \in res.volsnapshots
    BY <1>14 DEF Entities, ListOf
  <2> HIDE DEF S
  <2>4. ObjectMap(<<"snapshot", e.id>>, S(e)) \in map_volumesnapshots(res)
    BY <2>2, <2>3
  <2> QED
    BY <1>14, <2>1, <2>4, IdOfMap
<1> QED
  BY <1>1, <1>2, <1>3, <1>4, <1>5, <1>6, <1>7, <1>8, <1>9, <1>10, <1>11, <1>12, <1>13,
        <1>14 DEF Kinds, ListOf

\* The map with the id of an entity says what the entity bears.
LEMMA MapSays ==
    ASSUME Collected, NEW kind \in Kinds \ {"tenant", "agent"},
           NEW m \in process(results)[StageOf[kind]], NEW e \in Entities(results, kind),
           m.id = <<kind, e.id>>
    PROVE  Sets(m.set) = Bears(kind, e) \cup Extra(results, kind, e)
<1>1. PICK x \in Entities(results, kind) :
              /\ m.id = <<kind, x.id>>
              /\ Sets(m.set) = Bears(kind, x) \cup Extra(results, kind, x)
  BY MapsOfKinds
<1>2. x.id = e.id
  BY <1>1
<1>3. CASE kind = "flavor"
  <2>1. \A y : Bears("flavor", y) = {} /\ Extra(results, "flavor", y) = {}
    BY DEF Bears, Extra
  <2> QED
    BY <1>1, <1>3, <2>1
<1>4. CASE kind # "flavor"
  <2>1. PICK c \in during : Entities(results, kind) \subseteq Entities(c, kind)
    BY <1>4, EntitiesThere
  <2>2. x = e
    BY <1>2, <2>1, KeyedEntities DEF Collected
  <2> QED
    BY <1>1, <2>2
<1> QED
  BY <1>3, <1>4

\* The references of a cloud's entities, one by one.
LEMMA OwnIs ==
    ASSUME NEW c, NEW y
    PROVE  y \in Own(c) <=> \E kind \in Kinds : \E e \in Entities(c,
          kind) : \E p \in Bears(kind, e) :
                                y = <<<<kind, e.id>>, p[1], p[2]>>
  BY DEF Own, Carried

\* The components of a cloud's entities, one by one.
LEMMA ListedIs ==
    ASSUME NEW c, NEW y
    PROVE  y \in Listed(c) <=> \E kind \in Kinds : \E e \in Entities(c, kind) : y = <<kind, e.id>>
  BY DEF Listed

\* What a cycle comes to, and its components by their kind.
LEMMA ReportedIs ==
    ASSUME NEW res, NEW x
    PROVE  x \in ApplyAll(process(res)).components
              <=> \E i \in 1..21 : \E m \in process(res)[i] : x = m.id
<1>1. Len(process(res)) = 21
  BY ProcessMaps
<1>2. ApplyAll(process(res)).components = NamedBy(process(res), 21)
  BY <1>1, Applied
<1> QED
  BY <1>2 DEF NamedBy

\* A component of a kind is reported by the maps of its kind.
LEMMA ReportedOfKind ==
    ASSUME NEW res, NEW kind \in Kinds, NEW x \in ApplyAll(process(res)).components, x[1] = kind
    PROVE  \E m \in process(res)[StageOf[kind]] : x = m.id
<1>1. PICK i \in 1..21 : \E m \in process(res)[i] : x = m.id
  BY ReportedIs
<1>2. kind = KindAt[i]
  BY <1>1, KindsInOrder
<1>3. i = StageOf[kind]
  BY <1>2 DEF KindAt, StageOf, Kinds, ListOf
<1> QED
  BY <1>1, <1>3

\* The place of each kind in process()'s order.
LEMMA StagesAre == \A kind \in Kinds : StageOf[kind] \in 1..21 /\ KindAt[StageOf[kind]] = kind
  BY DEF StageOf, KindAt, Kinds, ListOf

\* A tenant that the map of another component names is reported.
LEMMA TenantReported ==
    ASSUME NEW res, NEW i \in 2..21, NEW m \in process(res)[i], NEW t, <<"tenant",
          t>> \in Sets(m.set)
    PROVE  \E n \in process(res)[1] : n.id = t
<1>1. "tenant" \in DOMAIN m.set /\ t \in m.set["tenant"]
  BY TenantSetter
<1> QED
  BY <1>1, TenantMaps

-----------------------------------------------------------------------------
(* The components a cycle reports. *)

Reported == ApplyAll(process(results))

\* Listed all the time: in each of the clouds there were.
LEMMA AlwaysListedIs ==
    ASSUME Collected, NEW y
    PROVE  y \in AlwaysListed <=> \A c \in during : y \in Listed(c)
<1>1. during # {}
  BY DEF Collected
<1> QED
  BY <1>1 DEF AlwaysListed, Throughout

\* Carried all the time: in each of the clouds there were.
LEMMA AlwaysOwnIs ==
    ASSUME Collected, NEW y
    PROVE  y \in AlwaysOwn <=> \A c \in during : y \in Own(c)
<1>1. during # {}
  BY DEF Collected
<1> QED
  BY <1>1 DEF AlwaysOwn, Throughout

\* What an entity bears are pairs.
LEMMA BearsPairs ==
    ASSUME NEW kind, NEW x, NEW p \in Bears(kind, x)
    PROVE  p = <<p[1], p[2]>>
<1>1. \A relation, target, uids : \A q \in Refs(relation, target, uids) : q = <<q[1], q[2]>>
  BY DEF Refs
<1> QED
  BY <1>1 DEF Bears

\* A reference that was there all the time is of one kind and one uid.
LEMMA OwnThroughout ==
    ASSUME Collected, NEW y \in AlwaysOwn
    PROVE  \E kind \in Kinds : \E u :
              /\ y = <<<<kind, u>>, y[2], y[3]>>
              /\ \A c \in during : \E e \in Entities(c, kind) :
                    e.id = u /\ <<y[2], y[3]>> \in Bears(kind, e)
<1>1. ASSUME NEW c \in during
      PROVE  \E kind \in Kinds : \E e \in Entities(c, kind) :
                /\ y = <<<<kind, e.id>>, y[2], y[3]>>
                /\ <<y[2], y[3]>> \in Bears(kind, e)
  <2>1. y \in Own(c)
    BY AlwaysOwnIs
  <2>2. PICK kind \in Kinds : \E e \in Entities(c, kind) :
            \E p \in Bears(kind, e) : y = <<<<kind, e.id>>, p[1], p[2]>>
    BY <2>1, OwnIs
  <2>0. PICK e \in Entities(c, kind) :
            \E p \in Bears(kind, e) : y = <<<<kind, e.id>>, p[1], p[2]>>
    BY <2>2
  <2>3. PICK p \in Bears(kind, e) : y = <<<<kind, e.id>>, p[1], p[2]>>
    BY <2>0
  <2>4. y[2] = p[1] /\ y[3] = p[2] /\ p = <<p[1], p[2]>>
    BY <2>3, BearsPairs
  <2> QED
    BY <2>3, <2>4
<1>2. PICK c \in during : TRUE
  BY DEF Collected
<1>0. PICK kind \in Kinds : \E e \in Entities(c, kind) : y = <<<<kind, e.id>>, y[2], y[3]>>
  BY <1>1
<1>3. PICK e \in Entities(c, kind) : y = <<<<kind, e.id>>, y[2], y[3]>>
  BY <1>0
<1>4. \A d \in during : \E f \in Entities(d, kind) : f.id = e.id /\ <<y[2],
            y[3]>> \in Bears(kind, f)
  BY <1>1, <1>3
<1> QED
  BY <1>3, <1>4

\* An entity that was answered is reported.
LEMMA EntityReported ==
    ASSUME NEW res, NEW kind \in Kinds, NEW e \in Entities(res, kind),
           kind = "quota" => e.id \in res.quotas
    PROVE  <<kind, e.id>> \in ApplyAll(process(res)).components
<1>1. \E m \in process(res)[StageOf[kind]] : m.id = <<kind, e.id>>
  <2>1. CASE kind = "tenant"
    BY <2>1, TenantMaps DEF StageOf
  <2>2. CASE kind # "tenant"
    BY <2>2, IdsMapped
  <2> QED
    BY <2>1, <2>2
<1> QED
  BY <1>1, StagesAre, ReportedIs

\* What was listed all the time is reported.
LEMMA ListedReported ==
    ASSUME Collected, NEW x \in AlwaysListed, x[1] \in KindsAnswered
    PROVE  x \in Reported.components
<1>1. \A c \in during : \E kind \in Kinds : \E e \in Entities(c, kind) : x = <<kind, e.id>>
  BY AlwaysListedIs, ListedIs
<1>2. PICK c \in during : TRUE
  BY DEF Collected
<1>0. PICK kind \in Kinds : \E e \in Entities(c, kind) : x = <<kind, e.id>>
  BY <1>1
<1>3. PICK e \in Entities(c, kind) : x = <<kind, e.id>>
  BY <1>0
<1>4. \A d \in during : \E f \in Entities(d, kind) : f.id = e.id
  BY <1>1, <1>3
<1>5. CallsOf(kind) \cap failed = {}
  BY <1>3 DEF KindsAnswered
<1>6. PICK f \in Entities(results, kind) : f.id = e.id /\ (kind
            = "quota" => e.id \in results.quotas)
  BY <1>4, <1>5, EntitiesAnswered
<1> QED
  BY <1>3, <1>6, EntityReported DEF Reported

\* What refers to a tenant, and the call that lists it.
LEMMA BearersOfTenants ==
    ASSUME NEW kind \in Kinds, NEW e, NEW t, <<"tenant", t>> \in Bears(kind, e)
    PROVE  /\ kind \notin {"tenant", "agent", "flavor"}
           /\ ListOf[kind] \in CallsOf("tenant")
           /\ StageOf[kind] \in 2..21
           /\ kind = "quota" => t = <<"tenant", e.id>>
<1>1. \A relation \in {"routers", "networks"} : \A target, uids :
          <<"tenant", t>> \notin Refs(relation, target, uids)
  BY DEF Refs
<1>2. kind \in {"server", "network", "quota", "subnet", "port", "router", "floatingip",
            "volume", "snapshot"}
  <2>1. kind \in {"tenant", "flavor", "image", "volType"} => Bears(kind, e) = {}
    BY DEF Bears
  <2>2. kind # "agent"
    <3>1. PICK A, B : Bears("agent", e) = Refs("routers", "router", A) \cup Refs("networks",
                "network", B)
      BY DEF Bears
    <3> QED
      BY <1>1, <3>1
  <2>3. kind # "hypervisor"
    BY DEF Bears, Refs
  <2> QED
    BY <2>1, <2>2, <2>3 DEF Kinds, ListOf
<1>3. ListOf[kind] \in CallsOf("tenant")
  BY <1>2 DEF ListOf, CallsOf
<1>4. StageOf[kind] \in 2..21
  BY <1>2 DEF StageOf
<1>5. kind = "quota" => t = <<"tenant", e.id>>
  BY DEF Bears, Refs
<1> QED
  BY <1>2, <1>3, <1>4, <1>5

\* A tenant that one and the same entity referred to all the time is reported.
LEMMA NamedReported ==
    ASSUME Collected, NEW x \in Named(AlwaysOwn), x[1] \in KindsAnswered
    PROVE  x \in Reported.components
<1>1. PICK y \in AlwaysOwn : y[2] = "tenant" /\ x = y[3]
  BY DEF Named
<1>0. PICK kind \in Kinds : \E u :
          /\ y = <<<<kind, u>>, y[2], y[3]>>
          /\ \A c \in during : \E e \in Entities(c, kind) :
                e.id = u /\ <<y[2], y[3]>> \in Bears(kind, e)
  BY OwnThroughout
<1>2. PICK u :
          /\ y = <<<<kind, u>>, y[2], y[3]>>
          /\ \A c \in during : \E e \in Entities(c, kind) :
                e.id = u /\ <<y[2], y[3]>> \in Bears(kind, e)
  BY <1>0
<1>3. \A c \in during : \E e \in Entities(c, kind) : e.id = u /\ <<"tenant", x>> \in Bears(kind, e)
  BY <1>1, <1>2
<1>4. PICK e0 : <<"tenant", x>> \in Bears(kind, e0)
  <2>1. during # {}
    BY DEF Collected
  <2> QED
    BY <1>3, <2>1
<1>5. /\ kind \notin {"tenant", "agent", "flavor"}
      /\ ListOf[kind] \in CallsOf("tenant")
      /\ StageOf[kind] \in 2..21
  BY <1>4, BearersOfTenants
<1>6. CallsOf("tenant") \cap failed = {}
  <2>1. PICK v : x = <<"tenant", v>>
    BY <1>4, BearsTenants
  <2> QED
    BY <2>1 DEF KindsAnswered
<1>7. PICK c \in during : c[ListOf[kind]] \subseteq results[ListOf[kind]]
  <2>1. ListOf[kind] \in DOMAIN PlaceOf
    BY <1>5, ListOfKind
  <2>2. ListOf[kind] \notin failed
    BY <1>5, <1>6
  <2> QED
    BY <2>1, <2>2 DEF Collected, Told
<1>8. PICK e \in Entities(c, kind) : e.id = u /\ <<"tenant", x>> \in Bears(kind, e)
  BY <1>3
<1>9. e \in Entities(results, kind)
  BY <1>7, ListOfKind
<1>10. CASE kind = "quota"
  <2>1. x = <<"tenant", e.id>>
    BY <1>8, <1>10, BearersOfTenants
  <2>2. e \in Entities(results, "tenant") /\ "tenant" \in Kinds
    BY <1>9, <1>10 DEF Entities, Kinds, ListOf
  <2> QED
    BY <2>1, <2>2, EntityReported DEF Reported
<1>11. CASE kind # "quota"
  <2>1. PICK m \in process(results)[StageOf[kind]] : m.id = <<kind, e.id>>
    BY <1>5, <1>9, <1>11, IdsMapped
  <2>2. Sets(m.set) = Bears(kind, e) \cup Extra(results, kind, e)
    BY <1>5, <1>9, <2>1, MapSays
  <2>3. <<"tenant", x>> \in Sets(m.set)
    BY <1>8, <2>2
  <2>4. PICK n \in process(results)[1] : n.id = x
    BY <1>5, <2>3, TenantReported
  <2> QED
    BY <2>4, ReportedIs DEF Reported
<1> QED
  BY <1>10, <1>11

\* What is reported was there at some time: it was listed, or an entity that
\* was answered referred to it.
LEMMA ComponentsThere ==
    ASSUME Collected, NEW x \in Reported.components, x[1] \in Kinds
    PROVE  \E c \in during : x \in Components(c)
<1> DEFINE kind == x[1]
<1>1. PICK m \in process(results)[StageOf[kind]] : x = m.id
  BY ReportedOfKind DEF Reported
<1>2. ASSUME NEW k \in Kinds, NEW e \in Entities(results, k), x = <<k, e.id>>
      PROVE  \E c \in during : x \in Components(c)
  <2>1. PICK c \in during : e \in Entities(c, k)
    BY EntitiesThere
  <2>2. x \in Listed(c)
    BY <1>2, <2>1, ListedIs
  <2> QED
    BY <2>2 DEF Components
<1>3. CASE kind = "tenant"
  <2>1. m \in process(results)[1]
    BY <1>1, <1>3 DEF StageOf
  <2>2. CASE \E e \in Entities(results, "tenant") : m.id = <<"tenant", e.id>>
    BY <1>1, <1>2, <1>3, <2>2
  <2>3. CASE \E i \in 2..21 : \E n \in process(results)[i] :
                "tenant" \in DOMAIN n.set /\ m.id \in n.set["tenant"]
    <3>0. PICK k \in Kinds : \E e \in Entities(results, k) : <<"tenant", m.id>> \in Bears(k, e)
      BY <2>3, TenantsNamed
    <3>1. PICK e \in Entities(results, k) : <<"tenant", m.id>> \in Bears(k, e)
      BY <3>0
    <3>2. PICK c \in during : e \in Entities(c, k)
      BY EntitiesThere
    <3>3. <<<<k, e.id>>, "tenant", x>> \in Own(c)
      BY <1>1, <3>1, <3>2, OwnIs
    <3>4. x \in Named(Own(c))
      BY <3>3 DEF Named
    <3> QED
      BY <3>4 DEF Components
  <2> QED
    BY <2>1, <2>2, <2>3, TenantMaps
<1>4. CASE kind = "agent"
  <2>1. m \in map_agents(results)
    BY <1>1, <1>4, ProcessMaps DEF StageOf
  <2>2. PICK e \in results.agents : m.id = <<"agent", e.id>>
    BY <2>1, AgentSets
  <2>3. e \in Entities(results, "agent") /\ "agent" \in Kinds
    BY DEF Entities, Kinds, ListOf
  <2> QED
    BY <1>1, <1>2, <2>2, <2>3
<1>5. CASE kind \notin {"tenant", "agent"}
  <2>1. PICK e \in Entities(results, kind) : m.id = <<kind, e.id>>
    BY <1>1, <1>5, MapsOfKinds
  <2> QED
    BY <1>1, <1>2, <2>1
<1> QED
  BY <1>3, <1>4, <1>5

\* A cycle ends with the maps of all it was answered applied.
LEMMA CycleEnds ==
    ASSUME IInv, [Next]_vars, phase = "collecting", phase' = "modeled"
    PROVE  Collected /\ model' = Reported /\ during' = during /\ failed' = failed
<1>1. Process
  <2>1. ~Begin /\ ~Answer /\ ~Refused /\ ~Unreachable
    BY DEF Begin, Answer, Refused, Unreachable, GoOnWithout, EndCycle
  <2>2. ~(\E e \in Edits : Edit(e)) /\ ~Deliver /\ ~LoseEvent
    BY DEF Edit, Deliver, LoseEvent
  <2>3. vars' # vars
    BY DEF vars
  <2> QED
    BY <2>1, <2>2, <2>3 DEF Next
<1>2. todo = <<>> /\ during' = during /\ failed' = failed /\ model' = Reported
  BY <1>1 DEF Process, EndCycle, Reported
<1>3. Collected
  BY <1>2, CollectedAtEnd DEF IInv
<1> QED
  BY <1>2, <1>3

\* A cycle reports the components that were there all the time, of the kinds
\* whose calls were answered, and none that was never there.
THEOREM ComponentsReportedHolds == Spec => ComponentsReported
<1> DEFINE P == /\ {x \in AlwaysComponents : x[1] \in KindsAnswered} \subseteq model'.components
                /\ OfKinds(model', KindsAnswered) \subseteq UNION {Components(c) : c \in during}
<1>1. IInv /\ [Next]_vars => Cycle(P)
  <2> SUFFICES ASSUME IInv, [Next]_vars, phase = "collecting", phase' = "modeled"
               PROVE  P
    BY DEF Cycle
  <2>1. Collected /\ model' = Reported
    BY CycleEnds
  <2>2. ASSUME NEW x \in AlwaysComponents, x[1] \in KindsAnswered
        PROVE  x \in model'.components
    BY <2>1, <2>2, ListedReported, NamedReported DEF AlwaysComponents
  <2>3. ASSUME NEW x \in OfKinds(model', KindsAnswered)
        PROVE  x \in UNION {Components(c) : c \in during}
    <3>1. x \in Reported.components /\ x[1] \in Kinds
      BY <2>1 DEF OfKinds, KindsAnswered
    <3> QED
      BY <2>1, <3>1, ComponentsThere
  <2> QED
    BY <2>2, <2>3
<1>2. IInv /\ [Next]_vars => [Cycle(P)]_vars
  BY <1>1
<1> QED
  BY <1>2, IInvHolds, PTL DEF Spec, ComponentsReported

-----------------------------------------------------------------------------
(* The references a cycle reports. *)

\* What the components of a kind refer to.
TargetsOf == [
    tenant |-> {},
    quota |-> {"tenant"},
    flavor |-> {},
    image |-> {},
    volType |-> {},
    server |-> {"flavor", "tenant", "image", "power"},
    hypervisor |-> {"server", "host"},
    network |-> {"tenant"},
    subnet |-> {"network", "tenant"},
    port |-> {"subnet", "tenant", "server", "network", "router"},
    router |-> {"tenant", "network", "subnet"},
    agent |-> {"router", "network"},
    floatingip |-> {"network", "tenant", "router", "port"},
    volume |-> {"server", "tenant", "volType"},
    snapshot |-> {"volume", "tenant"}]

\* The kinds a kind refers to come before it in process()'s order.
LEMMA TargetsBefore ==
    ASSUME NEW kind \in Kinds, NEW i \in 1..21, KindAt[i] \in TargetsOf[kind]
    PROVE  i <= StageOf[kind]
<1>1. CASE kind = "tenant"
  BY <1>1 DEF KindAt, TargetsOf, StageOf
<1>2. CASE kind = "quota"
  BY <1>2 DEF KindAt, TargetsOf, StageOf
<1>3. CASE kind = "flavor"
  BY <1>3 DEF KindAt, TargetsOf, StageOf
<1>4. CASE kind = "image"
  BY <1>4 DEF KindAt, TargetsOf, StageOf
<1>5. CASE kind = "volType"
  BY <1>5 DEF KindAt, TargetsOf, StageOf
<1>6. CASE kind = "server"
  BY <1>6 DEF KindAt, TargetsOf, StageOf
<1>7. CASE kind = "hypervisor"
  BY <1>7 DEF KindAt, TargetsOf, StageOf
<1>8. CASE kind = "network"
  BY <1>8 DEF KindAt, TargetsOf, StageOf
<1>9. CASE kind = "subnet"
  BY <1>9 DEF KindAt, TargetsOf, StageOf
<1>10. CASE kind = "port"
  BY <1>10 DEF KindAt, TargetsOf, StageOf
<1>11. CASE kind = "router"
  BY <1>11 DEF KindAt, TargetsOf, StageOf
<1>12. CASE kind = "agent"
  BY <1>12 DEF KindAt, TargetsOf, StageOf
<1>13. CASE kind = "floatingip"
  BY <1>13 DEF KindAt, TargetsOf, StageOf
<1>14. CASE kind = "volume"
  BY <1>14 DEF KindAt, TargetsOf, StageOf
<1>15. CASE kind = "snapshot"
  BY <1>15 DEF KindAt, TargetsOf, StageOf
<1> QED
  BY <1>1, <1>2, <1>3, <1>4, <1>5, <1>6, <1>7, <1>8, <1>9, <1>10, <1>11, <1>12, <1>13, <1>14,
        <1>15 DEF Kinds, ListOf

\* References of one kind of target.
LEMMA RefsTargets ==
    ASSUME NEW relation, NEW target, NEW uids, NEW p \in Refs(relation, target, uids)
    PROVE  p[2][1] = target
  BY DEF Refs

\* An entity refers to components of these kinds only.
LEMMA BearsTargets ==
    ASSUME NEW kind \in Kinds, NEW e, NEW p \in Bears(kind, e)
    PROVE  p[2][1] \in TargetsOf[kind]
<1>1. CASE kind = "tenant"
  BY <1>1 DEF Bears
<1>2. CASE kind = "quota"
  BY <1>2, RefsTargets DEF Bears, TargetsOf
<1>3. CASE kind = "flavor"
  BY <1>3 DEF Bears
<1>4. CASE kind = "image"
  BY <1>4 DEF Bears
<1>5. CASE kind = "volType"
  BY <1>5 DEF Bears
<1>6. CASE kind = "server"
  BY <1>6, RefsTargets DEF Bears, TargetsOf
<1>7. CASE kind = "hypervisor"
  BY <1>7, RefsTargets DEF Bears, TargetsOf
<1>8. CASE kind = "network"
  BY <1>8, RefsTargets DEF Bears, TargetsOf
<1>9. CASE kind = "subnet"
  BY <1>9, RefsTargets DEF Bears, TargetsOf
<1>10. CASE kind = "port"
  BY <1>10, RefsTargets DEF Bears, TargetsOf
<1>11. CASE kind = "router"
  BY <1>11, RefsTargets DEF Bears, TargetsOf
<1>12. CASE kind = "agent"
  BY <1>12, RefsTargets DEF Bears, TargetsOf
<1>13. CASE kind = "floatingip"
  BY <1>13, RefsTargets DEF Bears, TargetsOf
<1>14. CASE kind = "volume"
  BY <1>14, RefsTargets DEF Bears, TargetsOf
<1>15. CASE kind = "snapshot"
  BY <1>15, RefsTargets DEF Bears, TargetsOf
<1> QED
  BY <1>1, <1>2, <1>3, <1>4, <1>5, <1>6, <1>7, <1>8, <1>9, <1>10, <1>11, <1>12, <1>13, <1>14,
        <1>15 DEF Kinds, ListOf

\* What is referred to has been reported before.
LEMMA PresentTarget ==
    ASSUME NEW res, NEW kind \in Kinds, NEW t \in ApplyAll(process(res)).components,
           t[1] \in TargetsOf[kind]
    PROVE  t \in Present(process(res), StageOf[kind])
<1>1. PICK i \in 1..21 : \E m \in process(res)[i] : t = m.id
  BY ReportedIs
<1>2. KindAt[i] \in TargetsOf[kind]
  BY <1>1, KindsInOrder
<1>3. i <= StageOf[kind]
  BY <1>2, TargetsBefore
<1>4. i \in 1..StageOf[kind]
  BY <1>3, StagesAre
<1> QED
  BY <1>1, <1>4 DEF Present, NamedBy

\* What a map says of a component that exists by then is reported.
LEMMA RefReported ==
    ASSUME NEW res, NEW kind \in Kinds, NEW m \in process(res)[StageOf[kind]],
           NEW r, NEW t, <<r, t>> \in Sets(m.set),
           \/ r \in Attributes
           \/ t \in ApplyAll(process(res)).components /\ t \in Present(process(res), StageOf[kind])
    PROVE  <<m.id, r, t>> \in ApplyAll(process(res)).refs
<1> DEFINE i == StageOf[kind]
           y == <<m.id, r, t>>
<1>1. i \in 1..21 /\ Len(process(res)) = 21
  BY StagesAre, ProcessMaps
<1>2. ApplyAll(process(res)).components = NamedBy(process(res), 21)
  BY <1>1, Applied
<1>3. y \in NewRefs(m, Present(process(res), i))
  <2>1. y = <<m.id, <<r, t>>[1], <<r, t>>[2]>>
    OBVIOUS
  <2> QED
    BY <2>1, NewRefsAre
<1>4. y[1] \in NamedBy(process(res), 21)
  BY <1>1 DEF NamedBy
<1>5. y[2] \in Attributes \/ y[3] \in NamedBy(process(res), 21)
  BY <1>2
<1> HIDE DEF y
<1>6. y \in ApplyAll(process(res)).refs
  BY <1>1, <1>3, <1>4, <1>5, Applied
<1> QED
  BY <1>6 DEF y

\* The references of the model after a cycle that were there before it.
LEMMA ReferencesKept ==
    ASSUME IInv, NEW x \in model.refs, x \in Reported.refs, x[1][1] \in Kinds \ {"agent"},
           \A i \in 1..21 : \A m \in process(results)[i] :
               <<x[1], x[2]>> \notin Overwritten(m, Present(process(results), i))
    PROVE  Pair(x) \in KeptByModeler
<1> DEFINE kind == x[1][1]
<1>1. SUFFICES ASSUME x[2] \in Fixed(kind)
               PROVE  FALSE
  BY DEF IInv, RefsKnown
<1>2. x[1] \in Reported.components
  BY DEF Reported, ApplyAll, Keep
<1>3. PICK m \in process(results)[StageOf[kind]] : x[1] = m.id
  BY <1>2, ReportedOfKind DEF Reported
<1>4. kind # "tenant"
  BY <1>1 DEF Fixed
<1>5. x[2] \in DOMAIN m.set
  BY <1>1, <1>3, <1>4, MapsOfKinds
<1>6. x[2] \in {"server", "flavor", "tenant", "powerState", "instances", "network"}
  BY <1>1 DEF Fixed
<1>7. x[2] \notin DOMAIN ByName /\ RelationOf(x[2]) = x[2]
  BY <1>6 DEF RelationOf, ByName
<1>8. <<m.id, x[2]>> \in Overwritten(m, Present(process(results), StageOf[kind]))
  BY <1>5, <1>7 DEF Overwritten, Setters
<1> QED
  BY <1>3, <1>8, StagesAre

\* A router has the subnets of a port on it.
LEMMA ThroughPortsIs ==
    ASSUME NEW R, NEW P, NEW r \in R, NEW p \in P, r.id \in p.device, NEW s \in p.subnets
    PROVE  <<<<"router", r.id>>, "subnets", <<"subnet", s>>>> \in ThroughPorts(R, P)
<1>1. PICK q : q = <<r, p>>
  OBVIOUS
<1>2. q \in {z \in R \X P : z[1].id \in z[2].device} /\ q[1] = r /\ q[2] = p
  BY <1>1
<1> QED
  BY <1>2 DEF ThroughPorts

\* A volume has the type that bears the name it gives.
LEMMA ThroughTypesIs ==
    ASSUME NEW V, NEW T, NEW v \in V, NEW t \in T, t.name \in v.type
    PROVE  <<<<"volume", v.id>>, "volType", <<"volType", t.id>>>> \in ThroughTypes(V, T)
<1>1. PICK q : q = <<v, t>>
  OBVIOUS
<1>2. q \in {z \in V \X T : z[2].name \in z[1].type} /\ q[1] = v /\ q[2] = t
  BY <1>1
<1> QED
  BY <1>2 DEF ThroughTypes

\* The two entities of a reference may have been there at two times.
LEMMA SometimeIs ==
    ASSUME NEW c \in during, NEW d \in during,
           NEW x \in ThroughPorts(c.routers, d.ports) \cup ThroughTypes(c.volumes, d.volumetypes)
    PROVE  x \in SometimeRefs
<1>1. PICK q : q = <<c, d>>
  OBVIOUS
<1>2. q \in during \X during /\ q[1] = c /\ q[2] = d
  BY <1>1
<1>3. x \in ThroughPorts(q[1].routers, q[2].ports) \cup ThroughTypes(q[1].volumes, q[2].volumetypes)
  BY <1>2
<1>4. x \in UNION {ThroughPorts(p[1].routers, p[2].ports)
                  \cup ThroughTypes(p[1].volumes, p[2].volumetypes) : p \in during \X during}
  BY <1>2, <1>3
<1> QED
  BY <1>4 DEF SometimeRefs

\* A reference that the cycle made was there at some time.
LEMMA ReferencesMade ==
    ASSUME Collected, NEW i \in 1..21, NEW m \in process(results)[i], NEW x,
           x \in NewRefs(m, Present(process(results), i)), x[1][1] \in Kinds \ {"agent"}
    PROVE  x \in SometimeRefs
<1> DEFINE kind == x[1][1]
<1>1. PICK p \in Sets(m.set) : x = <<m.id, p[1], p[2]>>
  BY NewRefsAre
<1>2. i = StageOf[kind] /\ kind \in Kinds \ {"agent"}
  <2>1. kind = KindAt[i]
    BY <1>1, KindsInOrder
  <2> QED
    BY <2>1 DEF KindAt, StageOf, Kinds, ListOf
<1>3. kind # "tenant"
  <2>1. ASSUME kind = "tenant"
        PROVE  FALSE
    <3>1. m \in process(results)[1]
      BY <1>2, <2>1 DEF StageOf
    <3> QED
      BY <3>1, TenantMaps
  <2> QED
    BY <2>1
<1> HIDE DEF kind
<1>4. PICK e \in Entities(results, kind) :
          m.id = <<kind, e.id>> /\ Sets(m.set) = Bears(kind, e) \cup Extra(results, kind, e)
  BY <1>2, <1>3, MapsOfKinds
<1>5. x = <<<<kind, e.id>>, p[1], p[2]>>
  BY <1>1, <1>4
<1>6. PICK c \in during : e \in Entities(c, kind)
  BY <1>2, EntitiesThere
<1>7. CASE p \in Bears(kind, e)
  <2>1. x \in Own(c)
    BY <1>2, <1>5, <1>6, <1>7, OwnIs
  <2> QED
    BY <2>1 DEF SometimeRefs
<1>8. CASE p \in Extra(results, kind, e) /\ kind = "router"
  <2>1. e \in c.routers
    BY <1>6, <1>8 DEF Entities, ListOf
  <2>2. PICK u \in process_device_subnet_list(results, e.id) : p = <<"subnets", <<"subnet", u>>>>
    BY <1>8 DEF Extra, Refs
  <2>3. PICK q \in results.ports : e.id \in q.device /\ u \in q.subnets
    BY <2>2 DEF process_device_subnet_list
  <2>4. PICK d \in during : q \in d.ports
    <3>1. "port" \in Kinds /\ \A b : Entities(b, "port") = b.ports
      BY DEF Kinds, ListOf, Entities
    <3> QED
      BY <2>3, <3>1, EntitiesThere
  <2>5. x = <<<<"router", e.id>>, "subnets", <<"subnet", u>>>>
    BY <1>5, <1>8, <2>2
  <2>6. x \in ThroughPorts(c.routers, d.ports)
    BY <2>1, <2>3, <2>4, <2>5, ThroughPortsIs
  <2> QED
    BY <1>6, <2>4, <2>6, SometimeIs
<1>9. CASE p \in Extra(results, kind, e) /\ kind = "volume"
  <2>1. e \in c.volumes
    BY <1>6, <1>9 DEF Entities, ListOf
  <2>2. PICK u \in TypeFound(results, e) : p = <<"volType", <<"volType", u>>>>
    BY <1>9 DEF Extra, Refs
  <2>3. PICK t \in results.volumetypes : t.name \in e.type /\ u = t.id
    BY <2>2 DEF TypeFound
  <2>4. PICK d \in during : t \in d.volumetypes
    <3>1. "volType" \in Kinds /\ \A b : Entities(b, "volType") = b.volumetypes
      BY DEF Kinds, ListOf, Entities
    <3> QED
      BY <2>3, <3>1, EntitiesThere
  <2>5. x = <<<<"volume", e.id>>, "volType", <<"volType", t.id>>>>
    BY <1>5, <1>9, <2>2, <2>3
  <2>6. x \in ThroughTypes(c.volumes, d.volumetypes)
    BY <2>1, <2>3, <2>4, <2>5, ThroughTypesIs
  <2> QED
    BY <1>6, <2>4, <2>6, SometimeIs
<1>10. CASE p \in Extra(results, kind, e) /\ kind \notin {"router", "volume"}
  BY <1>10 DEF Extra
<1> QED
  BY <1>1, <1>4, <1>7, <1>8, <1>9, <1>10

\* A reference after a cycle was there at some time, or is an old one of a
\* relation the modeler only sets when there is something to set.
LEMMA ReferencesThere ==
    ASSUME IInv, Collected, NEW x \in Reported.refs, x[1][1] \in Kinds \ {"agent"}
    PROVE  x \in SometimeRefs \/ (x \in model.refs /\ Pair(x) \in KeptByModeler)
<1>1. Len(process(results)) = 21
  BY ProcessMaps
<1>2. CASE /\ x \in model.refs
           /\ \A i \in 1..21 : \A m \in process(results)[i] :
                  <<x[1], x[2]>> \notin Overwritten(m, Present(process(results), i))
  BY <1>2, ReferencesKept
<1>3. CASE \E i \in 1..21 : \E m \in process(results)[i] :
                x \in NewRefs(m, Present(process(results), i))
  BY <1>3, ReferencesMade
<1> QED
  BY <1>1, <1>2, <1>3, Applied DEF Reported

\* A reference an entity made all the time is what its map says.
LEMMA OwnReported ==
    ASSUME Collected, NEW x \in AlwaysOwn, x[1] \in Reported.components, x[1][1] # "agent",
           x[3] \in Reported.components \/ x[2] \in {"tenant", "powerState"}
    PROVE  x \in Reported.refs
<1>0. PICK kind \in Kinds : \E u :
          /\ x = <<<<kind, u>>, x[2], x[3]>>
          /\ \A c \in during : \E e \in Entities(c, kind) :
                e.id = u /\ <<x[2], x[3]>> \in Bears(kind, e)
  BY OwnThroughout
<1>1. PICK u :
          /\ x = <<<<kind, u>>, x[2], x[3]>>
          /\ \A c \in during : \E e \in Entities(c, kind) :
                e.id = u /\ <<x[2], x[3]>> \in Bears(kind, e)
  BY <1>0
<1>2. x[1] = <<kind, u>> /\ kind # "agent"
  BY <1>1
<1>3. PICK e0 : <<x[2], x[3]>> \in Bears(kind, e0)
  BY <1>1 DEF Collected
<1>4. kind \notin {"tenant", "flavor"}
  BY <1>3 DEF Bears
<1>5. PICK m \in process(results)[StageOf[kind]] : m.id = <<kind, u>>
  BY <1>2, ReportedOfKind DEF Reported
<1>6. PICK e \in Entities(results, kind) :
          m.id = <<kind, e.id>> /\ Sets(m.set) = Bears(kind, e) \cup Extra(results, kind, e)
  BY <1>2, <1>4, <1>5, MapsOfKinds
<1>7. PICK c \in during : \A f \in Entities(c, kind) : f.id = e.id => f = e
  BY <1>4, SameEntity
<1>8. <<x[2], x[3]>> \in Bears(kind, e)
  BY <1>1, <1>5, <1>6, <1>7
<1>9. <<x[2], x[3]>> \in Sets(m.set)
  BY <1>6, <1>8
<1>10. x[2] \in Attributes \/ x[3] \in Reported.components
  <2>1. CASE x[2] = "tenant"
    <3>1. <<"tenant", x[3]>> \in Bears(kind, e) /\ <<"tenant", x[3]>> \in Sets(m.set)
      BY <1>8, <1>9, <2>1
    <3>2. StageOf[kind] \in 2..21
      BY <3>1, BearersOfTenants
    <3>3. \E n \in process(results)[1] : n.id = x[3]
      BY <3>1, <3>2, TenantReported
    <3> QED
      BY <3>3, ReportedIs DEF Reported
  <2>2. CASE x[2] = "powerState"
    BY <2>2 DEF Attributes
  <2> QED
    BY <2>1, <2>2
<1>11. x[3] \in Reported.components => x[3] \in Present(process(results), StageOf[kind])
  <2>1. x[3][1] \in TargetsOf[kind]
    BY <1>8, BearsTargets
  <2> QED
    BY <2>1, PresentTarget DEF Reported
<1>12. <<m.id, x[2], x[3]>> \in Reported.refs
  BY <1>9, <1>10, <1>11, RefReported DEF Reported
<1> QED
  BY <1>1, <1>5, <1>12

\* What an agent served all the time was listed by the agent's own call.
LEMMA AgentReported ==
    ASSUME Collected, NEW x \in AlwaysOwn, x[1] \in Reported.components, x[1][1] = "agent",
           x[3] \in Reported.components \/ x[2] \in {"tenant", "powerState"},
           ServedThroughout(x)
    PROVE  x \in Reported.refs
<1>0. PICK kind \in Kinds : \E u :
          /\ x = <<<<kind, u>>, x[2], x[3]>>
          /\ \A c \in during : \E e \in Entities(c, kind) :
                e.id = u /\ <<x[2], x[3]>> \in Bears(kind, e)
  BY OwnThroughout
<1>1. PICK u :
          /\ x = <<<<kind, u>>, x[2], x[3]>>
          /\ \A c \in during : \E e \in Entities(c, kind) :
                e.id = u /\ <<x[2], x[3]>> \in Bears(kind, e)
  BY <1>0
<1>2. x[1] = <<kind, u>> /\ kind = "agent"
  BY <1>1
<1>3. PICK m \in process(results)[StageOf[kind]] : m.id = <<"agent", u>>
  BY <1>2, ReportedOfKind DEF Reported
<1>4. m \in map_agents(results)
  BY <1>2, <1>3, ProcessMaps DEF StageOf
<1>5. PICK a \in results.agents :
          /\ m.id = <<"agent", a.id>>
          /\ \A s \in {y \in results.served : y.agent = a.id} :
                Refs("routers", "router", s.routers) \cup Refs("networks", "network", s.networks)
                    \subseteq Sets(m.set)
  BY <1>4, AgentSets
<1>6. a \in Entities(results, kind)
  BY <1>2 DEF Entities, ListOf
<1>7. PICK c \in during : \A f \in Entities(c, kind) : f.id = a.id => f = a
  BY <1>2, <1>6, SameEntity
<1>8. <<x[2], x[3]>> \in Bears("agent", a)
  BY <1>1, <1>2, <1>3, <1>5, <1>7
<1>9. \/ /\ x[2] = "routers" /\ a.kind = "l3"
         /\ \E w \in a.serves : x[3] = <<"router", w>>
      \/ /\ x[2] = "networks" /\ a.kind = "dhcp"
         /\ \E w \in a.serves : x[3] = <<"network", w>>
  BY <1>8 DEF Bears, Refs
<1>10. ASSUME NEW k \in {"router", "network"}, NEW w, x[3] = <<k, w>>, NEW d \in during
       PROVE  \E y \in d[ListOf[k]] : y.id = w
  <2>1. x[3] \in Listed(d)
    BY AlwaysListedIs DEF ServedThroughout
  <2>2. \E l \in Kinds : \E e \in Entities(d, l) : x[3] = <<l, e.id>>
    BY <2>1, ListedIs
  <2>3. \E e \in Entities(d, k) : e.id = w
    BY <1>10, <2>2
  <2> QED
    BY <2>3, ListOfKind DEF Kinds, ListOf
<1>11. <<x[2], x[3]>> \in Sets(m.set)
  <2>1. ASSUME NEW w \in a.serves, x[2] = "routers", a.kind = "l3", x[3] = <<"router", w>>
        PROVE  <<x[2], x[3]>> \in Sets(m.set)
    <3>1. ServedWhole(a, "routers", "routers")
      BY <2>1 DEF Collected, ServedThroughout
    <3>2. PICK s \in results.served, d \in during :
              /\ s.agent = a.id
              /\ {z.id : z \in {y \in d["routers"] : y.id \in a.serves}} \subseteq s["routers"]
      BY <3>1 DEF ServedWhole
    <3>3. PICK y \in d["routers"] : y.id = w
      BY <1>10, <2>1 DEF ListOf
    <3>4. w \in s.routers
      BY <3>2, <3>3
    <3> QED
      BY <1>5, <2>1, <3>2, <3>4 DEF Refs
  <2>2. ASSUME NEW w \in a.serves, x[2] = "networks", a.kind = "dhcp", x[3] = <<"network", w>>
        PROVE  <<x[2], x[3]>> \in Sets(m.set)
    <3>1. ServedWhole(a, "networks", "networks")
      BY <2>2 DEF Collected, ServedThroughout
    <3>2. PICK s \in results.served, d \in during :
              /\ s.agent = a.id
              /\ {z.id : z \in {y \in d["networks"] : y.id \in a.serves}} \subseteq s["networks"]
      BY <3>1 DEF ServedWhole
    <3>3. PICK y \in d["networks"] : y.id = w
      BY <1>10, <2>2 DEF ListOf
    <3>4. w \in s.networks
      BY <3>2, <3>3
    <3> QED
      BY <1>5, <2>2, <3>2, <3>4 DEF Refs
  <2> QED
    BY <1>9, <2>1, <2>2
<1>12. x[3] \in Reported.components
  BY <1>9
<1>13. x[3] \in Present(process(results), StageOf[kind])
  <2>1. x[3][1] \in TargetsOf[kind]
    BY <1>2, <1>8, BearsTargets
  <2> QED
    BY <1>12, <2>1, PresentTarget DEF Reported
<1>14. <<m.id, x[2], x[3]>> \in Reported.refs
  BY <1>11, <1>12, <1>13, RefReported DEF Reported
<1> QED
  BY <1>1, <1>2, <1>3, <1>14

\* The entity a component that is reported was made from.
LEMMA MadeFrom ==
    ASSUME NEW res, NEW kind \in Kinds \ {"tenant", "agent"}, NEW u,
           <<kind, u>> \in ApplyAll(process(res)).components
    PROVE  \E m \in process(res)[StageOf[kind]] : \E e \in Entities(res, kind) :
              /\ m.id = <<kind, u>> /\ e.id = u
              /\ Sets(m.set) = Bears(kind, e) \cup Extra(res, kind, e)
<1>1. PICK m \in process(res)[StageOf[kind]] : m.id = <<kind, u>>
  BY ReportedOfKind
<1> QED
  BY <1>1, MapsOfKinds

\* A router has the subnets of the ports that were on it all the time.
LEMMA PortsReported ==
    ASSUME Collected, "ports" \notin failed, NEW x, \A c \in during : x \in PortsOf(c),
           x[1] \in Reported.components, x[3] \in Reported.components \/ x[2] \in {"tenant",
                 "powerState"}
    PROVE  x \in Reported.refs
<1>1. PICK c \in during : c.ports \subseteq results.ports
  BY DEF Collected, Told, PlaceOf
<1>2. PICK q \in {p \in c.routers \X c.ports : p[1].id \in p[2].device} :
          x \in {<<<<"router", q[1].id>>, "subnets", <<"subnet", s>>>> : s \in q[2].subnets}
  BY DEF PortsOf, ThroughPorts
<1>3. PICK r, p : r = q[1] /\ p = q[2]
  OBVIOUS
<1>4. PICK s \in p.subnets : x = <<<<"router", r.id>>, "subnets", <<"subnet", s>>>>
  BY <1>2, <1>3
<1>5. p \in results.ports /\ r.id \in p.device
  BY <1>1, <1>2, <1>3
<1>6. s \in process_device_subnet_list(results, r.id)
  BY <1>4, <1>5 DEF process_device_subnet_list
<1>7. "router" \in Kinds
  BY DEF Kinds, ListOf
<1>12. PICK u : u = r.id
  OBVIOUS
<1>0. "router" \in Kinds \ {"tenant", "agent"} /\ <<"router",
            u>> \in ApplyAll(process(results)).components
  BY <1>4, <1>7, <1>12 DEF Reported
<1>13. \A k \in Kinds \ {"tenant", "agent"} : \A v : <<k,
             v>> \in ApplyAll(process(results)).components =>
          \E m \in process(results)[StageOf[k]] : \E e \in Entities(results, k) :
              /\ m.id = <<k, v>> /\ e.id = v
              /\ Sets(m.set) = Bears(k, e) \cup Extra(results, k, e)
  BY MadeFrom
<1>14. \E m \in process(results)[StageOf["router"]] : \E e \in Entities(results, "router") :
          /\ m.id = <<"router", u>> /\ e.id = u
          /\ Sets(m.set) = Bears("router", e) \cup Extra(results, "router", e)
  BY ONLY <1>0, <1>13
<1>8. PICK m \in process(results)[StageOf["router"]] : \E e \in Entities(results, "router") :
          /\ m.id = <<"router", u>> /\ e.id = u
          /\ Sets(m.set) = Bears("router", e) \cup Extra(results, "router", e)
  BY <1>14
<1>9. <<"subnets", <<"subnet", s>>>> \in Sets(m.set)
  <2>1. \A e : Extra(results, "router", e) = Refs("subnets", "subnet",
              process_device_subnet_list(results, e.id))
    BY DEF Extra
  <2>2. <<"subnets", <<"subnet", s>>>> \in Refs("subnets", "subnet",
              process_device_subnet_list(results, r.id))
    BY <1>6 DEF Refs
  <2> QED
    BY <1>8, <1>12, <2>1, <2>2
<1>10. <<"subnet", s>> \in Reported.components
  BY <1>4
<1>11. <<"subnet", s>> \in Present(process(results), StageOf["router"])
  <2>1. <<"subnet", s>>[1] \in TargetsOf["router"]
    BY DEF TargetsOf
  <2> QED
    BY <1>7, <1>10, <2>1, PresentTarget DEF Reported
<1> QED
  BY <1>4, <1>7, <1>8, <1>9, <1>10, <1>11, <1>12, RefReported DEF Reported

\* A volume has the type that bore the name it gave all the time.
LEMMA TypesReported ==
    ASSUME Collected, NEW x, NEW name, \A c \in during : x \in TypesOf(c, name),
           x[1] \in Reported.components, x[3] \in Reported.components \/ x[2] \in {"tenant",
                 "powerState"}
    PROVE  x \in Reported.refs
<1>1. ASSUME NEW c \in during
      PROVE  \E v \in c.volumes, t \in c.volumetypes :
                /\ name \in v.type /\ t.name = name
                /\ x = <<<<"volume", v.id>>, "volType", <<"volType", t.id>>>>
  BY DEF TypesOf, ThroughTypes
<1>2. PICK u, w : x = <<<<"volume", u>>, "volType", <<"volType", w>>>>
  BY <1>1 DEF Collected
<1>3. ASSUME NEW c \in during
      PROVE  /\ \E v \in c.volumes : v.id = u /\ name \in v.type
             /\ \E t \in c.volumetypes : t.id = w /\ t.name = name
  BY <1>1, <1>2
<1>4. /\ {"volume", "volType"} \subseteq Kinds
      /\ \A b : Entities(b, "volume") = b.volumes /\ Entities(b, "volType") = b.volumetypes
  BY DEF Kinds, ListOf, Entities
<1>5. <<"volume", u>> \in Reported.components /\ <<"volType", w>> \in Reported.components
  BY <1>2
<1>0. "volume" \in Kinds \ {"tenant", "agent"} /\ <<"volume",
            u>> \in ApplyAll(process(results)).components
  BY <1>4, <1>5 DEF Reported
<1>6. PICK m \in process(results)[StageOf["volume"]] : \E e \in Entities(results, "volume") :
          /\ m.id = <<"volume", u>> /\ e.id = u
          /\ Sets(m.set) = Bears("volume", e) \cup Extra(results, "volume", e)
  BY <1>0, MadeFrom
<1>7. PICK e \in results.volumes :
          /\ e.id = u
          /\ Sets(m.set) = Bears("volume", e) \cup Extra(results, "volume", e)
  BY <1>4, <1>6
<1>8. PICK t \in results.volumetypes : t.id = w
  BY <1>4, <1>5, MadeFrom DEF Reported
<1>9. e.type = {name}
  <2>1. PICK c \in during : e \in c.volumes /\ \A f \in c.volumes : f.id = e.id => f = e
    BY <1>4, SameEntity
  <2>2. name \in e.type
    BY <1>3, <1>7, <2>1
  <2>3. WellFormed(c)
    BY DEF Collected
  <2>4. \A a, b \in e.type : a = b
    BY <2>1, <2>3 DEF WellFormed
  <2> QED
    BY <2>2, <2>4
<1>10. t.name = name
  <2>1. PICK c \in during : \A f \in c.volumetypes : f.id = t.id => f = t
    BY <1>4, SameEntity
  <2> QED
    BY <1>3, <1>8, <2>1
<1>11. \A s \in results.volumetypes : s.name = name => s = t
  <2>1. PICK c \in during : results.volumetypes \subseteq c.volumetypes
    BY <1>4, EntitiesThere
  <2>2. WellFormed(c)
    BY DEF Collected
  <2> QED
    BY <1>10, <2>1, <2>2 DEF WellFormed
<1>12. TypeFound(results, e) = {w}
  <2>1. {s \in results.volumetypes : s.name \in e.type} = {t}
    BY <1>9, <1>10, <1>11
  <2> QED
    BY <1>8, <2>1 DEF TypeFound
<1>13. <<"volType", <<"volType", w>>>> \in Sets(m.set)
  <2>1. Extra(results, "volume", e) = Refs("volType", "volType", {w})
    BY <1>12 DEF Extra
  <2> QED
    BY <1>7, <2>1 DEF Refs
<1>14. <<"volType", w>> \in Present(process(results), StageOf["volume"])
  <2>1. <<"volType", w>>[1] \in TargetsOf["volume"]
    BY DEF TargetsOf
  <2> QED
    BY <1>4, <1>5, <2>1, PresentTarget DEF Reported
<1> QED
  BY <1>2, <1>4, <1>5, <1>6, <1>13, <1>14, RefReported DEF Reported

\* A cycle reports the references that were there all the time between the
\* components it reports, and invents none.
THEOREM ReferencesReportedHolds == Spec => ReferencesReported
<1> DEFINE P ==
        /\ {x \in AlwaysOwn \cup AlwaysThrough :
              /\ x[1] \in model'.components
              /\ x[3] \in model'.components \/ x[2] \in {"tenant", "powerState"}
              /\ ServedThroughout(x)}
           \subseteq model'.refs
        /\ Tracked(model'.refs) \subseteq
              SometimeRefs \cup {x \in model.refs : Pair(x) \in KeptByModeler}
<1>1. IInv /\ [Next]_vars => Cycle(P)
  <2> SUFFICES ASSUME IInv, [Next]_vars, phase = "collecting", phase' = "modeled"
               PROVE  P
    BY DEF Cycle
  <2>1. Collected /\ model' = Reported
    BY CycleEnds
  <2>2. ASSUME NEW x \in AlwaysOwn \cup AlwaysThrough, x[1] \in Reported.components,
               x[3] \in Reported.components \/ x[2] \in {"tenant", "powerState"},
               ServedThroughout(x)
        PROVE  x \in Reported.refs
    <3>0. during # {}
      BY <2>1 DEF Collected
    <3>1. CASE x \in AlwaysOwn /\ x[1][1] # "agent"
      BY <2>1, <2>2, <3>1, OwnReported
    <3>2. CASE x \in AlwaysOwn /\ x[1][1] = "agent"
      BY <2>1, <2>2, <3>2, AgentReported
    <3>3. CASE x \in AlwaysThrough
      <4>1. CASE "ports" \notin failed /\ x \in Throughout({PortsOf(c) : c \in during})
        <5>1. \A c \in during : x \in PortsOf(c)
          BY <4>1 DEF Throughout
        <5> QED
          BY <2>1, <2>2, <4>1, <5>1, PortsReported
      <4>2. CASE \E name : x \in Throughout({TypesOf(c, name) : c \in during})
        <5>1. PICK name : \A c \in during : x \in TypesOf(c, name)
          BY <4>2 DEF Throughout
        <5> QED
          BY <2>1, <2>2, <5>1, TypesReported
      <4> QED
        BY <3>3, <4>1, <4>2 DEF AlwaysThrough
    <3> QED
      BY <2>2, <3>1, <3>2, <3>3
  <2>3. ASSUME NEW x \in Tracked(Reported.refs)
        PROVE  x \in SometimeRefs \cup {y \in model.refs : Pair(y) \in KeptByModeler}
    <3>1. x \in Reported.refs /\ x[1][1] \in Kinds \ {"agent"}
      BY DEF Tracked
    <3> QED
      BY <2>1, <3>1, ReferencesThere
  <2> QED
    BY <2>1, <2>2, <2>3
<1>2. IInv /\ [Next]_vars => [Cycle(P)]_vars
  BY <1>1
<1> QED
  BY <1>2, IInvHolds, PTL DEF Spec, ReferencesReported
=============================================================================
