----------------------------- MODULE Inventory -----------------------------
(***************************************************************************)
(* How the model of a cloud is kept: the modeler asks one API call after   *)
(* the other while the cloud goes on changing, maps what was answered and  *)
(* has it applied; between two cycles the notifications of the cloud's     *)
(* changes are mapped and applied one by one.                              *)
(*                                                                         *)
(* The cloud, the delivery of events and ApplyDataMap are external: they   *)
(* are modelled as the code relies on them.  The merging of events in the  *)
(* queue is ObjectMapQueue's subject, the race of old answers with newer   *)
(* events CloudModelSync's.                                                *)
(***************************************************************************)
EXTENDS EventMaps, Integers

CONSTANTS
    Clouds,       \* the clouds a behaviour may start with
    Edits,        \* the changes of the cloud: [list, out, in, event]
    OwnTenant,    \* the project of the account: the single-tenant calls list only its own
    NovaUrl,      \* host of nova's URL, a set with at most one host reference
    CinderUrl,    \* host of cinder's URL, likewise
    MaxEdits,     \* bound on the changes of the cloud
    MaxFailures   \* bound on lost calls, ended cycles and lost events

ASSUME BoundsAssumption == MaxEdits \in Nat /\ MaxFailures \in Nat

\* The lists that change in the cloud and those the calls fill.
Lists == {"tenants", "flavors", "images", "hypervisors", "servers", "services", "agents",
          "networks", "subnets", "routers", "ports", "floatingips", "volumes", "volumetypes",
          "volsnapshots", "cinder_services", "volume_pools"}

\* What OpenStack sees to: lists are finite, uids unique in a list and names
\* of volume types too; a volume has at most one type.
WellFormed(c) ==
    /\ DOMAIN c = Lists
    /\ \A list \in Lists : IsFiniteSet(c[list]) /\ \A x, y \in c[list] : x.id = y.id => x = y
    /\ \A s, t \in c.volumetypes : s.name = t.name => s = t
    /\ \A v \in c.volumes : \A m, n \in v.type : m = n

\* Nova has no call that changes whether a flavor is public.
ASSUME CloudsAssumption ==
    /\ \A c \in Clouds : WellFormed(c)
    /\ \A e \in Edits : /\ e.list \in Lists
                        /\ e.list = "flavors" => \A f \in e.out, g \in e.in : f.id = g.id => f.public = g.public

VARIABLES
    cloud,     \* list -> set of records
    phase,     \* "idle", "collecting" or "modeled" (what the last cycle came to)
    todo,      \* the API calls collect() has still to make: <<name, argument>>
    results,   \* what they answered so far
    failed,    \* calls of the cycle whose answer was lost (history)
    during,    \* the clouds there were since the cycle began (history)
    model,     \* [components |-> ids, refs |-> <<component, relation, component>>]
    pending,   \* maps of events that have not been applied
    synced,    \* "yes" while nothing was lost since a quiet cycle (history)
    edits, failures

vars == <<cloud, phase, todo, results, failed, during, model, pending, synced, edits, failures>>

-----------------------------------------------------------------------------
(* collect() *)

Call(name) == <<name, name>>
Calls(names) == [i \in 1..Len(names) |-> Call(names[i])]

\* The calls of every cycle, in their order.
Plan == Calls(<<"nova_url", "tenants", "flavors", "private_flavors", "images",
    "hypervisors", "hypervisors_detailed", "servers", "services", "agents", "networks",
    "subnets", "routers", "ports", "floatingips", "cinder_url", "volumes", "volumetypes",
    "volsnapshots", "cinder_services", "volume_pools">>)

NoResults == [tenants |-> {}, flavors |-> {}, images |-> {}, hypervisors |-> {},
    hypervisor_details_lost |-> {}, servers |-> {}, services |-> {}, agents |-> {},
    served |-> {}, networks |-> {}, subnets |-> {}, routers |-> {}, ports |-> {},
    floatingips |-> {}, volumes |-> {}, volumetypes |-> {}, volsnapshots |-> {},
    cinder_services |-> {}, volume_pools |-> {}, quotas |-> {}, nova_url |-> {},
    cinder_url |-> {}]

\* What the routers or networks of an agent are at the time of its own call.
ServedBy(a) ==
    LET routers  == {r \in cloud.routers : r.id \in a.serves}
        networks == {n \in cloud.networks : n.id \in a.serves}
    IN  IF a.kind = "l3"
        THEN [agent |-> a.id, routers |-> {r.id : r \in routers},
              networks |-> UNION {r.gateway : r \in routers},
              subnets |-> UNION {r.gatewaySubnets : r \in routers}]
        ELSE [agent |-> a.id, routers |-> {}, networks |-> {n.id : n \in networks},
              subnets |-> {s.id : s \in {x \in cloud.subnets :
                                            x.network \in {n.id : n \in networks}}}]

\* The results with the answer of a call, or with what api_call() returns
\* when the answer is lost: an empty list.
Answered(name, arg) ==
    CASE name = "flavors"           -> [results EXCEPT !.flavors = {f \in cloud.flavors : f.public}]
      [] name = "private_flavors"   -> [results EXCEPT !.flavors = @ \cup {f \in cloud.flavors : ~f.public}]
      [] name = "nova_url"          -> [results EXCEPT !.nova_url = NovaUrl]
      [] name = "cinder_url"        -> [results EXCEPT !.cinder_url = CinderUrl]
      [] name = "servers_single"    -> [results EXCEPT !.servers = {s \in cloud.servers : s.tenant = OwnTenant}]
      [] name = "volumes_single"    -> [results EXCEPT !.volumes = {v \in cloud.volumes : OwnTenant \in v.tenant}]
      [] name = "volsnapshots_single" ->
            [results EXCEPT !.volsnapshots = {s \in cloud.volsnapshots : OwnTenant \in s.tenant}]
      [] name \in {"agent_l3_routers", "agent_dhcp_networks"} ->
            [results EXCEPT !.served = @ \cup {ServedBy(arg)}]
      [] name = "quotas"            -> [results EXCEPT !.quotas = @ \cup {arg.id}]
      [] name \in {"hypervisors_detailed", "hypervisor_detail_id"} -> results
      [] OTHER                      -> [results EXCEPT ![name] = cloud[name]]

Lost(name, arg) ==
    IF name = "hypervisor_detail_id"
    THEN [results EXCEPT !.hypervisor_details_lost = @ \cup {arg.id}] ELSE results

\* The calls that the answers so far add: one per hypervisor once their list
\* was detailed, one per L3 and per DHCP agent, one per tenant at the end,
\* and the single-tenant call when the list of all tenants is empty.
Further(name, answers) ==
    LET Each(call, set) == [i \in 1..Cardinality(set) |-> <<call, SetToSeq(set)[i]>>]
        Agents(kind) == {a \in answers.agents : a.kind = kind}
    IN  CASE name = "hypervisors_detailed" -> Each("hypervisor_detail_id", answers.hypervisors)
          [] name = "agents" -> Each("agent_l3_routers", Agents("l3"))
                                \o Each("agent_dhcp_networks", Agents("dhcp"))
          [] name = "servers" /\ answers.servers = {} -> Calls(<<"servers_single">>)
          [] name = "volumes" /\ answers.volumes = {} -> Calls(<<"volumes_single">>)
          [] name = "volsnapshots" /\ answers.volsnapshots = {} -> Calls(<<"volsnapshots_single">>)
          [] name = "volume_pools" -> Each("quotas", answers.tenants)
          [] OTHER -> <<>>

Proceed(name, answers) ==
    /\ results' = answers
    /\ todo' = Further(name, answers) \o Tail(todo)

Begin ==
    /\ phase # "collecting"
    /\ phase' = "collecting"
    /\ todo' = Plan
    /\ results' = NoResults
    /\ failed' = {}
    /\ during' = {cloud}
    /\ UNCHANGED <<cloud, model, pending, synced, edits, failures>>

Answer ==
    /\ phase = "collecting" /\ todo # <<>>
    /\ LET name == Head(todo)[1] IN Proceed(name, Answered(name, Head(todo)[2]))
    /\ UNCHANGED <<cloud, phase, failed, during, model, pending, synced, edits, failures>>

\* Nothing of the cycle is applied.
EndCycle ==
    /\ phase' = "idle"
    /\ todo' = <<>>
    /\ results' = NoResults
    /\ failed' = {}
    /\ during' = {}
    /\ UNCHANGED <<cloud, model, pending, synced, edits>>

\* The cycle goes on without what the call would have answered.
GoOnWithout(name, arg) ==
    /\ Proceed(name, Lost(name, arg))
    /\ failed' = failed \cup {name}
    /\ UNCHANGED <<cloud, phase, during, model, pending, synced, edits>>

\* The calls whose exceptions collect() catches: the agent keeps serving
\* nothing.  Their answer is used as a dictionary outside of the try.
AgentCalls == {"agent_l3_routers", "agent_dhcp_networks"}

\* The call is forbidden, unknown to the API, or failed in a way api_call()
\* takes for an empty answer: a list, which ends collect() where it looks up
\* what the agent serves.
Refused ==
    /\ phase = "collecting" /\ todo # <<>> /\ failures < MaxFailures
    /\ failures' = failures + 1
    /\ LET name == Head(todo)[1] IN
       IF name \in AgentCalls THEN EndCycle ELSE GoOnWithout(name, Head(todo)[2])

\* A timeout, a refused connection or an error of the server: api_call() raises.
Unreachable ==
    /\ phase = "collecting" /\ todo # <<>> /\ failures < MaxFailures
    /\ failures' = failures + 1
    /\ LET name == Head(todo)[1] IN
       IF name \in AgentCalls THEN GoOnWithout(name, Head(todo)[2]) ELSE EndCycle

-----------------------------------------------------------------------------
(* ApplyDataMap: a reference to a component the model lacks is not set. *)

Attributes == {"powerState"}
ByName == [hostByName |-> "host", flavor_name |-> "flavor", image_name |-> "image"]
RelationOf(setter) == IF setter \in DOMAIN ByName THEN ByName[setter] ELSE setter

\* What a map sets, while the components "present" exist: a name that is not
\* found leaves the relation alone.
Found(map, setter, present) ==
    IF setter \in Attributes THEN map.set[setter] ELSE map.set[setter] \cap present
Setters(map, present) ==
    {s \in DOMAIN map.set : s \in DOMAIN ByName => Found(map, s, present) # {}}
NewRefs(map, present) ==
    UNION {{<<map.id, RelationOf(s), t>> : t \in Found(map, s, present)} : s \in Setters(map, present)}
Overwritten(map, present) == {<<map.id, RelationOf(s)>> : s \in Setters(map, present)}

Keep(components, refs) ==
    [components |-> components,
     refs |-> {x \in refs : x[1] \in components /\ (x[2] \in Attributes \/ x[3] \in components)}]

\* The maps are applied in their order, each to a component that exists from
\* then on; at last what no map names goes.
ApplyAll(maps) ==
    LET named(n)   == {m.id : m \in UNION {maps[i] : i \in 1..n}}
        present(n) == model.components \cup named(n)
        All(Op(_, _)) == UNION {UNION {Op(m, present(n)) : m \in maps[n]} : n \in 1..Len(maps)}
        gone       == All(Overwritten)
    IN  Keep(named(Len(maps)),
             {x \in model.refs : <<x[1], x[2]>> \notin gone} \cup All(NewRefs))

Quiet == failed = {} /\ Cardinality(during) = 1

Process ==
    /\ phase = "collecting" /\ todo = <<>>   \* Asked
    /\ \/ /\ process_raises(results)
          /\ EndCycle
       \/ /\ ~process_raises(results)
          /\ phase' = "modeled"
          /\ \E maps \in {process(results)} : model' = ApplyAll(maps)
          /\ synced' = CASE Cardinality(during) > 1 -> "no"
                         [] Quiet /\ synced # "no"  -> "yes"
                         [] OTHER -> IF synced = "no" THEN "no" ELSE "not yet"
          /\ results' = NoResults
          /\ UNCHANGED <<cloud, todo, failed, during, pending, edits>>
    /\ UNCHANGED failures

-----------------------------------------------------------------------------
(* The cloud changes, and its notifications arrive or are lost. *)

Edit(e) ==
    /\ edits < MaxEdits
    /\ e.out \subseteq cloud[e.list] /\ e.in \cap cloud[e.list] = {}
    /\ edits' = edits + 1
    /\ cloud' = [cloud EXCEPT ![e.list] = (@ \ e.out) \cup e.in]
    /\ WellFormed(cloud')
    /\ during' = IF phase = "collecting" THEN during \cup {cloud'} ELSE during
    /\ pending' = pending \o map_event(e.event)
    /\ UNCHANGED <<phase, todo, results, failed, model, synced, failures>>

\* set_host_name: the hypervisor of that host has the instance from now on;
\* without such a hypervisor nothing changes.
set_host_name(map, refs) ==
    LET on == {x[1] : x \in {y \in refs : y[1][1] = "hypervisor" /\ y[2] = "host" /\ y[3] \in map.host}}
    IN  IF on = {} THEN refs
        ELSE {x \in refs : <<x[2], x[3]>> # <<"instances", map.id>>}
             \cup {<<CHOOSE h \in on : TRUE, "instances", map.id>>}

ApplyMap(map) ==
    LET present == IF map.do = "add" THEN model.components \cup {map.id} ELSE model.components
        others  == {x \in model.refs : <<x[1], x[2]>> \notin Overwritten(map, present)}
    IN  CASE map.do = "remove"    -> Keep(model.components \ {map.id}, model.refs)
          [] map.do # "remove" /\ map.id \in present ->
                Keep(present, set_host_name(map, others \cup NewRefs(map, present)))
          [] OTHER                -> model

Deliver ==
    /\ pending # <<>>
    /\ model' = ApplyMap(Head(pending))
    /\ pending' = Tail(pending)
    /\ UNCHANGED <<cloud, phase, todo, results, failed, during, synced, edits, failures>>

LoseEvent ==
    /\ pending # <<>> /\ failures < MaxFailures
    /\ failures' = failures + 1
    /\ pending' = Tail(pending)
    /\ synced' = "no"
    /\ UNCHANGED <<cloud, phase, todo, results, failed, during, model, edits>>

Init ==
    /\ cloud \in Clouds
    /\ phase = "idle" /\ todo = <<>> /\ results = NoResults /\ failed = {} /\ during = {}
    /\ model = [components |-> {}, refs |-> {}]
    /\ pending = <<>> /\ synced = "not yet"
    /\ edits = 0 /\ failures = 0

Next ==
    \/ Begin \/ Answer \/ Refused \/ Unreachable \/ Process
    \/ \E e \in Edits : Edit(e)
    \/ Deliver \/ LoseEvent

\* The modeler is scheduled again and again, a call is answered or fails by
\* its timeout, and the daemon applies what it holds.  The weak fairness of
\* Process is stated by what it comes to: the step is possible whenever a
\* cycle has asked everything, nothing else ends that, and it does.
Asked == phase = "collecting" /\ todo = <<>>
Fairness == WF_vars(Begin) /\ WF_vars(Answer) /\ WF_vars(Deliver) /\ []<>~Asked

Spec == Init /\ [][Next]_vars /\ Fairness

-----------------------------------------------------------------------------
(* What the model of a cloud should be, whichever way it is kept. *)

\* The kinds of components the cloud has, and the list of each.
ListOf == [tenant |-> "tenants", quota |-> "tenants", flavor |-> "flavors", image |-> "images",
    server |-> "servers", hypervisor |-> "hypervisors", agent |-> "agents",
    network |-> "networks", subnet |-> "subnets", port |-> "ports", router |-> "routers",
    floatingip |-> "floatingips", volType |-> "volumetypes", volume |-> "volumes",
    snapshot |-> "volsnapshots"]
Kinds == DOMAIN ListOf
OfKinds(m, kinds) == {c \in m.components : c[1] \in kinds}

\* The entities that make the components of a kind, in a cloud or in results.
Entities(c, kind) ==
    IF kind \in {"tenant", "quota"} THEN {t \in c.tenants : t.enabled} ELSE c[ListOf[kind]]

\* The references an entity carries itself: <<relation, component>>.
Refs(relation, target, uids) == {<<relation, <<target, u>>>> : u \in uids}
Bears(kind, x) ==
    CASE kind = "server" ->
            Refs("flavor", "flavor", {x.flavor}) \cup Refs("tenant", "tenant", {x.tenant})
            \cup Refs("image", "image", x.image) \cup Refs("powerState", "power", {x.power})
      [] kind = "hypervisor" ->
            Refs("instances", "server", x.servers)
            \cup Refs("host", "host", IF x.vmware THEN {} ELSE {HostId[x.host]})
      [] kind = "network" -> Refs("tenant", "tenant", {x.tenant})
      [] kind = "quota"   -> Refs("tenant", "tenant", {x.id})
      [] kind = "subnet" ->
            Refs("network", "network", {x.network}) \cup Refs("tenant", "tenant", {x.tenant})
      [] kind = "port" ->
            Refs("subnets", "subnet", x.subnets) \cup Refs("tenant", "tenant", x.tenant)
            \cup Refs("instance", "server", IF x.owner = "compute" THEN x.device ELSE {})
            \cup Refs("network", "network", {x.network})
            \cup Refs("router", "router", IF x.owner = "router_interface" THEN x.device ELSE {})
      [] kind = "router" ->
            Refs("tenant", "tenant", {x.tenant}) \cup Refs("network", "network", x.gateway)
            \cup Refs("subnets", "subnet", x.gatewaySubnets)
      [] kind = "agent" ->
            Refs("routers", "router", IF x.kind = "l3" THEN x.serves ELSE {})
            \cup Refs("networks", "network", IF x.kind = "dhcp" THEN x.serves ELSE {})
      [] kind = "floatingip" ->
            Refs("network", "network", {x.network}) \cup Refs("tenant", "tenant", {x.tenant})
            \cup Refs("router", "router", x.router) \cup Refs("port", "port", x.port)
      [] kind = "volume" ->
            Refs("instance", "server", x.instance) \cup Refs("tenant", "tenant", x.tenant)
      [] kind = "snapshot" ->
            Refs("volume", "volume", x.volume) \cup Refs("tenant", "tenant", x.tenant)
      [] OTHER -> {}

\* <<component, relation, component>>
Carried(kind, x) == {<<<<kind, x.id>>, p[1], p[2]>> : p \in Bears(kind, x)}
Own(c) == UNION {UNION {Carried(kind, x) : x \in Entities(c, kind)} : kind \in Kinds}

\* Two references need two entities: a router has the subnets of the ports
\* on it, a volume the type that bears the name it gives.
ThroughPorts(routers, ports) ==
    UNION {{<<<<"router", q[1].id>>, "subnets", <<"subnet", s>>>> : s \in q[2].subnets} :
        q \in {p \in routers \X ports : p[1].id \in p[2].device}}
ThroughTypes(volumes, volumetypes) ==
    {<<<<"volume", q[1].id>>, "volType", <<"volType", q[2].id>>>> :
        q \in {p \in volumes \X volumetypes : p[2].name \in p[1].type}}

References(c) ==
    Own(c) \cup ThroughPorts(c.routers, c.ports) \cup ThroughTypes(c.volumes, c.volumetypes)

\* The components of each kind there should be: those that are listed, and
\* the tenants that something refers to.
Listed(c) == UNION {{<<kind, x.id>> : x \in Entities(c, kind)} : kind \in Kinds}
Named(refs) == {x[3] : x \in {y \in refs : y[2] = "tenant"}}
Components(c) == Listed(c) \cup Named(Own(c))

\* The calls that a kind of component is made from.
CallsOf(kind) ==
    CASE kind = "tenant"     -> {"tenants", "servers", "networks", "subnets", "ports", "routers",
                                 "floatingips", "volumes", "volsnapshots"}
      [] kind = "quota"      -> {"tenants", "quotas"}
      [] kind = "flavor"     -> {"flavors", "private_flavors"}
      [] OTHER               -> {ListOf[kind]}

KindsAnswered == {kind \in Kinds : CallsOf(kind) \cap failed = {}}

\* What was there all the time the calls of the cycle took: a tenant that is
\* not listed through one and the same reference, a reference through one
\* and the same way, a type under one name.
Throughout(sets) == {x \in UNION sets : \A set \in sets : x \in set}
AlwaysListed == Throughout({Listed(c) : c \in during})
AlwaysOwn == Throughout({Own(c) : c \in during})
AlwaysComponents == AlwaysListed \cup Named(AlwaysOwn)

PortsOf(c) == ThroughPorts(c.routers, c.ports)
TypesOf(c, name) ==
    ThroughTypes({v \in c.volumes : name \in v.type}, {t \in c.volumetypes : t.name = name})
AlwaysThrough ==
    (IF "ports" \in failed THEN {} ELSE Throughout({PortsOf(c) : c \in during}))
    \cup UNION {Throughout({TypesOf(c, name) : c \in during}) :
                    name \in {t.name : t \in UNION {c.volumetypes : c \in during}}}

\* What was there at some time; the two entities of a reference need not
\* have been there together, as they are asked for by two calls.
SometimeRefs ==
    (UNION {Own(c) : c \in during})
    \cup UNION {ThroughPorts(p[1].routers, p[2].ports)
                \cup ThroughTypes(p[1].volumes, p[2].volumetypes) : p \in during \X during}

Cycle(P) == phase = "collecting" /\ phase' = "modeled" => P

\* A cycle reports, of every kind whose own calls were answered, each
\* component the cloud had all the time the calls took, and none it never
\* had: what was lost of one kind costs no other kind, and a tenant that
\* keystone does not list is there because something refers to it.
ComponentsReported ==
    [][Cycle(/\ {x \in AlwaysComponents : x[1] \in KindsAnswered} \subseteq model'.components
             /\ OfKinds(model', KindsAnswered) \subseteq UNION {Components(c) : c \in during})]_vars

\* The relations a modeler's map only names when there is something to set:
\* what they were before stays.
KeptByModeler == {<<"server", "image">>, <<"hypervisor", "host">>, <<"port", "tenant">>,
    <<"port", "subnets">>, <<"port", "instance">>, <<"port", "router">>,
    <<"router", "network">>, <<"router", "subnets">>, <<"floatingip", "router">>,
    <<"floatingip", "port">>, <<"volume", "instance">>, <<"volume", "tenant">>,
    <<"volume", "volType">>, <<"snapshot", "volume">>, <<"snapshot", "tenant">>}

Pair(x) == <<x[1][1], x[2]>>
Tracked(refs) == {x \in refs : x[1][1] \in Kinds \ {"agent"}}

\* What an agent serves is asked of the agent, before or after it is listed:
\* when that call is lost the agent serves nothing until the next cycle.
ServedThroughout(x) ==
    x[1][1] = "agent" =>
        /\ x[3] \in AlwaysListed
        /\ (IF x[2] = "routers" THEN "agent_l3_routers" ELSE "agent_dhcp_networks") \notin failed

\* A cycle reports each reference between components it reports, whatever
\* other call was lost, although some of them are new and exist only once it is
\* applied; a reference to a tenant even when keystone was lost.  It
\* invents none.
ReferencesReported ==
    [][Cycle(
        /\ {x \in AlwaysOwn \cup AlwaysThrough :
              /\ x[1] \in model'.components
              /\ x[3] \in model'.components \/ x[2] \in {"tenant", "powerState"}
              /\ ServedThroughout(x)}
           \subseteq model'.refs
        /\ Tracked(model'.refs) \subseteq
              SometimeRefs \cup {x \in model.refs : Pair(x) \in KeptByModeler})]_vars

-----------------------------------------------------------------------------
\* The kinds and relations the events keep, and those they only ever set.
EventKinds == {"server", "network", "subnet", "port", "router", "floatingip", "volume"}
EventPairs == {<<"server", "flavor">>, <<"server", "tenant">>, <<"server", "image">>,
    <<"server", "powerState">>, <<"network", "tenant">>, <<"subnet", "network">>,
    <<"subnet", "tenant">>, <<"port", "network">>, <<"port", "tenant">>,
    <<"port", "instance">>, <<"port", "subnets">>, <<"router", "tenant">>,
    <<"floatingip", "network">>, <<"floatingip", "tenant">>, <<"floatingip", "router">>,
    <<"floatingip", "port">>, <<"volume", "instance">>, <<"volume", "tenant">>,
    <<"volume", "volType">>, <<"hypervisor", "instances">>}
KeptByEvents == {<<"server", "image">>, <<"floatingip", "router">>, <<"floatingip", "port">>}

KeptUp(m, c) ==
    /\ OfKinds(m, EventKinds) = {x \in Components(c) : x[1] \in EventKinds}
    /\ {x \in References(c) :
          /\ Pair(x) \in EventPairs
          /\ x[2] \in Attributes \/ x[3] \in m.components} \subseteq m.refs
    /\ {x \in m.refs : Pair(x) \in EventPairs \ KeptByEvents} \subseteq References(c)

\* Between two cycles the events alone keep the model up to date: when the
\* last of them is applied, it has just the components of their kinds, with
\* the references their traits carry, that the next cycle would report.
EventsKeepUp ==
    [][pending # <<>> /\ pending' = <<>> /\ synced' = "yes" => KeptUp(model', cloud)]_vars

\* The model is what the cloud is, but for relations the modeler keeps.
TrueOf(m, c) ==
    /\ OfKinds(m, Kinds) = Components(c)
    /\ References(c) \subseteq m.refs
    /\ {x \in Tracked(m.refs) : Pair(x) \notin KeptByModeler} \subseteq References(c)

\* However events and answers were lost or overtook each other, once the
\* cloud comes to rest the modeler makes the model true of it, and from then
\* on it is true whenever no cycle is under way.
FinallyTrue == <>[](phase # "collecting" => TrueOf(model, cloud))

=============================================================================
