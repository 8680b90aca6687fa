---------------------------- MODULE ZenOpenStack ----------------------------
(***************************************************************************)
(* The collector daemon (zenopenstack.py).  Its web handlers, the calls of *)
(* zenhub and its four periodic tasks share the registry and the queues on *)
(* one Twisted reactor: a handler runs to its end, a task to its next      *)
(* yield, and anything may happen between.                                 *)
(*                                                                         *)
(* A map queue is abstracted to the maps it holds, and a drain to the free *)
(* choice of the components it releases: ObjectMapQueue has the rest.      *)
(* What is posted is numbered, so that the order can be talked about.      *)
(***************************************************************************)
EXTENDS Registry, Sequences, FiniteSets

CONSTANTS
    Components,        \* ids of the components events are about
    Parent,            \* vNIC -> the instance its resource id names
    Mapped,            \* event types that have a mapping function
    Configs,           \* configurations zenhub may push
    DefaultSettings,   \* of a queue that is not configured
    EventPayloads,     \* bodies of a POST of events: sequences of events
    SamplePayloads,    \* bodies of a POST of samples: sequences of resources
    Malformed,         \* an entry that makes the handler raise
    None,              \* no device, no component
    Lifetime,          \* how long a vNIC is looked for (20 minutes)
    Stride,            \* 500: at its multiples the vNIC task does not yield
    MaxTime,           \* bound on the clock
    MaxPosts,          \* bound on what is posted
    MaxConfigs,        \* bound on configurations pushed and devices deleted
    MaxFailures        \* bound on failed calls

OpenStackEvent == [type : EventTypes, component : Components]

ASSUME PushedAssumption ==
    Configs \subseteq Config /\ None \notin Devices \cup Components \cup Resources

\* Events are about servers, networks, ports, volumes, ...: only the vNIC task
\* makes maps of vNICs.
ASSUME PayloadAssumption ==
    /\ EventPayloads \subseteq Seq(OpenStackEvent \cup {Malformed})
    /\ SamplePayloads \subseteq Seq(Resources \cup {Malformed})
    /\ Components \cap Vnics = {}

VARIABLES
    now,             \* time.time()
    QUEUE,           \* EVENT_QUEUE and METRIC_QUEUE: numbers of what was posted
    sending,         \* the item each of their tasks waits for, as a sequence
    MAP_QUEUE,       \* device -> [settings, held |-> numbers of the maps held]
    maps,            \* what the map task has drained and not sent: device -> numbers
    calling,         \* the device whose applyDataMaps the map task waits for
    VNICS,           \* device -> [potential |-> resource -> first seen, modeled]
    scan,            \* the state of the vNIC task
    posted,          \* number -> [device, component, parent, to |-> the queues it went to]
    delivered,       \* what zenhub and the data service got, in order
    applied,         \* the maps zenhub applied: device -> numbers
    lost,            \* numbers of what failed calls and deleted queues lost
    pushes,          \* calls of zenhub so far
    failures         \* failed calls so far

queueVars == <<QUEUE, sending, delivered>>
mapVars == <<MAP_QUEUE, maps, calling, applied>>
vnicVars == <<VNICS, scan>>
boundVars == <<now, pushes>>
vars == <<registryVars, queueVars, mapVars, vnicVars, boundVars, posted, lost, failures>>

Kinds == {"event", "metric"}

Member(s) == {s[i] : i \in DOMAIN s}

\* The positions in a set, in their order, and the members of s that are in T,
\* in the order of s: what a loop over s with a condition keeps.
Nth(at, k) == CHOOSE i \in at : Cardinality({j \in at : j <= i}) = k

Select(s, T) ==
    LET at == {i \in DOMAIN s : s[i] \in T}
    IN  [k \in 1..Cardinality(at) |-> s[Nth(at, k)]]

Item(d, c, p, to) == [device |-> d, component |-> c, parent |-> p, to |-> to]

\* The reactor runs something else only while the vNIC task is not computing.
Idle == scan.pc \in {"idle", "yielded"}

-----------------------------------------------------------------------------
(* MAP_QUEUE is a defaultdict: naming a device makes a queue for it, with  *)
(* the default settings.                                                   *)

MapQueue(settings, held) == [settings |-> settings, held |-> held]

Queue(d) == IF d \in DOMAIN MAP_QUEUE THEN MAP_QUEUE[d] ELSE MapQueue(DefaultSettings, <<>>)

WithQueue(d, q) ==
    [x \in DOMAIN MAP_QUEUE \cup {d} |-> IF x = d THEN q ELSE MAP_QUEUE[x]]

\* append() of the maps numbered in ns to the queue of d; no map, no queue.
AppendMaps(d, ns) ==
    MAP_QUEUE' = IF ns = <<>> THEN MAP_QUEUE
                 ELSE WithQueue(d, MapQueue(Queue(d).settings, Queue(d).held \o ns))

-----------------------------------------------------------------------------
(***************************************************************************)
(* zenhub: a configuration is pushed, a device is deleted.                 *)
(***************************************************************************)
_updateConfig(d, cfg) ==
    /\ pushes < MaxConfigs
    /\ set_config(d, cfg)
    /\ MAP_QUEUE' = WithQueue(d, MapQueue(cfg.settings, Queue(d).held))
    /\ pushes' = pushes + 1
    /\ UNCHANGED <<queueVars, maps, calling, applied, vnicVars, now, posted, lost, failures>>

_deleteDevice(d) ==
    /\ pushes < MaxConfigs
    /\ has_device(d)
    /\ remove_device(d)
    /\ pushes' = pushes + 1
    /\ UNCHANGED <<queueVars, mapVars, vnicVars, now, posted, lost, failures>>

-----------------------------------------------------------------------------
(***************************************************************************)
(* CeilometerV1Samples: one malformed sample and nothing of the request is *)
(* kept.  Every sample of a monitored resource is queued, and a resource   *)
(* nobody knows that has a network meter may be a new vNIC.                *)
(***************************************************************************)
Unknown(d, samples) == {r \in Member(samples) \cap Vnics : ~has_resource(d, r)}

VnicsOf(d) == IF d \in DOMAIN VNICS THEN VNICS[d]
              ELSE [potential |-> [r \in {} |-> 0], modeled |-> {}]

AddPotential(d, new) ==
    VNICS' = IF new = {} THEN VNICS
             ELSE LET v == VnicsOf(d) IN
                  [x \in DOMAIN VNICS \cup {d} |->
                      IF x # d THEN VNICS[x]
                      ELSE [v EXCEPT !.potential =
                               [r \in DOMAIN v.potential \cup new |->
                                   IF r \in DOMAIN v.potential THEN v.potential[r] ELSE now]]]

PostSamples(d, samples) ==
    LET stored == Select(samples, {r \in Resources : get_datapoints(d, r) # {}})
        numbers == [i \in DOMAIN stored |-> Len(posted) + i]
    IN  /\ Len(posted) + Len(samples) <= MaxPosts
        /\ has_device(d)
        /\ Malformed \notin Member(samples)
        /\ posted' = posted \o [i \in DOMAIN stored |-> Item(d, stored[i], None, {"metric"})]
        /\ QUEUE' = [QUEUE EXCEPT !["metric"] = @ \o numbers]
        /\ AddPotential(d, Unknown(d, samples))
        /\ UNCHANGED <<registryVars, sending, delivered, mapVars, scan, boundVars, lost, failures>>

(***************************************************************************)
(* CeilometerV1Events: events are handled one by one, and what precedes a  *)
(* malformed one stays queued though the request fails.                    *)
(***************************************************************************)
Accepted(events) ==
    LET good == {i \in 0..Len(events) : \A j \in 1..i : events[j] # Malformed}
    IN  SubSeq(events, 1, CHOOSE i \in good : \A j \in good : j <= i)

\* An event is passed on if the configuration lists its type, and becomes a
\* map if its type has a mapping function.
Destinations(d, e) ==
    {k \in {"event", "map"} :
        IF k = "event" THEN e.type \in device_event_types(d) ELSE e.type \in Mapped}

\* The numbers of those items that go to k.
Numbers(items, k) ==
    Select([i \in DOMAIN items |-> Len(posted) + i],
           {Len(posted) + i : i \in {x \in DOMAIN items : k \in items[x].to}})

PostEvents(d, events) ==
    LET handled == Accepted(events)
        items == [i \in DOMAIN handled |->
                     Item(d, handled[i].component, None, Destinations(d, handled[i]))]
    IN  /\ Len(posted) + Len(items) <= MaxPosts
        /\ has_device(d)
        /\ posted' = posted \o items
        /\ QUEUE' = [QUEUE EXCEPT !["event"] = @ \o Numbers(items, "event")]
        /\ AppendMaps(d, Numbers(items, "map"))
        /\ UNCHANGED <<registryVars, sending, delivered, maps, calling, applied,
                       vnicVars, boundVars, lost, failures>>

-----------------------------------------------------------------------------
(***************************************************************************)
(* OpenStackEventTask and OpenStackPerfTask: while the queue is not empty, *)
(* take the first item and wait until it is sent.  A call that fails ends  *)
(* the task; the item is gone, the queue waits for the next run.           *)
(***************************************************************************)
\* Mutant: the newest item is taken first.
PopLeft_Newest(k) ==
    /\ QUEUE[k] # <<>>
    /\ sending' = [sending EXCEPT ![k] = <<QUEUE[k][Len(QUEUE[k])]>>]
    /\ QUEUE' = [QUEUE EXCEPT ![k] = SubSeq(@, 1, Len(@) - 1)]

\* Mutant: the loop condition takes an item too.
PopLeft_Two(k) ==
    /\ QUEUE[k] # <<>>
    /\ sending' = [sending EXCEPT ![k] = <<Head(QUEUE[k])>>]
    /\ QUEUE' = [QUEUE EXCEPT ![k] = SubSeq(@, 3, Len(@))]

PopLeft(k) ==
    /\ QUEUE[k] # <<>>
    /\ sending' = [sending EXCEPT ![k] = <<Head(QUEUE[k])>>]
    /\ QUEUE' = [QUEUE EXCEPT ![k] = Tail(@)]

QueueTaskUntouched == UNCHANGED <<registryVars, mapVars, vnicVars, boundVars, posted>>

StartQueueTask(k) ==
    /\ sending[k] = <<>>
    /\ PopLeft(k)
    /\ QueueTaskUntouched
    /\ UNCHANGED <<delivered, lost, failures>>

ItemSent(k) ==
    /\ sending[k] # <<>>
    /\ delivered' = [delivered EXCEPT ![k] = @ \o sending[k]]
    /\ \/ PopLeft(k)
       \/ /\ QUEUE[k] = <<>>
          /\ sending' = [sending EXCEPT ![k] = <<>>]
          /\ UNCHANGED QUEUE
    /\ QueueTaskUntouched
    /\ UNCHANGED <<lost, failures>>

SendFails(k) ==
    /\ failures < MaxFailures
    /\ sending[k] # <<>>
    /\ failures' = failures + 1
    /\ lost' = lost \cup {<<k, n>> : n \in Member(sending[k])}
    /\ sending' = [sending EXCEPT ![k] = <<>>]
    /\ QueueTaskUntouched
    /\ UNCHANGED <<QUEUE, delivered>>

-----------------------------------------------------------------------------
(***************************************************************************)
(* OpenStackMapTask: drain every queue and delete the queues of devices    *)
(* that are gone, without a yield; then send the maps, device by device.   *)
(***************************************************************************)
Pick(ns, C) == Select(ns, {n \in DOMAIN posted : posted[n].component \in C})

MapTaskUntouched == UNCHANGED <<registryVars, queueVars, vnicVars, boundVars, posted>>

\* The components whose maps the queues hold; some of them are due.
HeldComponents ==
    UNION {{<<d, posted[n].component>> : n \in Member(MAP_QUEUE[d].held)} :
              d \in DOMAIN MAP_QUEUE}

Due(d, ready) == Pick(MAP_QUEUE[d].held, {c \in Components \cup Resources : <<d, c>> \in ready})
Held(d, ready) == Pick(MAP_QUEUE[d].held, {c \in Components \cup Resources : <<d, c>> \notin ready})

Drained(ready) ==
    [d \in {x \in DOMAIN MAP_QUEUE : Due(x, ready) # <<>>} |-> Due(d, ready)]

\* Mutant: every queue that has been drained is deleted.
KeptQueues_None(ready) == {d \in DOMAIN MAP_QUEUE : Held(d, ready) # <<>>}

\* Mutant: no queue is deleted.
KeptQueues_All(ready) == DOMAIN MAP_QUEUE

\* Only the queues of devices that are still there stay.
KeptQueues(ready) == {d \in DOMAIN MAP_QUEUE : has_device(d)}

StartMapTask(ready) ==
    /\ maps = [d \in {} |-> <<>>]
    /\ MAP_QUEUE' = [d \in KeptQueues(ready) |-> MapQueue(MAP_QUEUE[d].settings, Held(d, ready))]
    /\ maps' = Drained(ready)
    /\ lost' = lost \cup {<<"map", n>> :
                  n \in UNION {Member(Held(d, ready)) : d \in DOMAIN MAP_QUEUE \ KeptQueues(ready)}}
    /\ calling' \in IF DOMAIN maps' = {} THEN {None} ELSE DOMAIN maps'
    /\ MapTaskUntouched
    /\ UNCHANGED <<applied, failures>>

Remaining == [d \in DOMAIN maps \ {calling} |-> maps[d]]

\* Mutant: what was sent is sent again.
MapsApplied_Twice ==
    /\ calling # None
    /\ applied' = [applied EXCEPT ![calling] = @ \o maps[calling]]
    /\ maps' = maps
    /\ calling' \in DOMAIN maps
    /\ MapTaskUntouched
    /\ UNCHANGED <<MAP_QUEUE, lost, failures>>

MapsApplied ==
    /\ calling # None
    /\ applied' = [applied EXCEPT ![calling] = @ \o maps[calling]]
    /\ maps' = Remaining
    /\ calling' \in IF DOMAIN maps' = {} THEN {None} ELSE DOMAIN maps'
    /\ MapTaskUntouched
    /\ UNCHANGED <<MAP_QUEUE, lost, failures>>

\* The call fails, or there is no ModelerService to call: all that was
\* drained and not sent, for this device and the others, is gone.
MapCallFails ==
    /\ failures < MaxFailures
    /\ calling # None
    /\ failures' = failures + 1
    /\ lost' = lost \cup {<<"map", n>> : n \in UNION {Member(maps[d]) : d \in DOMAIN maps}}
    /\ maps' = [d \in {} |-> <<>>]
    /\ calling' = None
    /\ MapTaskUntouched
    /\ UNCHANGED <<MAP_QUEUE, applied>>

-----------------------------------------------------------------------------
(***************************************************************************)
(* OpenStackVnicTask.  It walks the dictionaries VNICS and potential, which*)
(* raises when they have grown since the walk began, and for each vNIC the *)
(* instances known when it came to it.  It yields before nearly each one.  *)
(***************************************************************************)
Asleep == [pc |-> "idle"]

VnicTaskUntouched ==
    UNCHANGED <<registryVars, queueVars, maps, calling, applied, boundVars, lost, failures>>

WalkOn(s) == scan' = s /\ UNCHANGED <<VNICS, MAP_QUEUE, posted>> /\ VnicTaskUntouched

StartVnicTask ==
    /\ scan.pc = "idle"
    /\ DOMAIN VNICS # {}
    /\ scan' = [pc |-> "device", now |-> now, i |-> 0,
                devices |-> DOMAIN VNICS, size |-> Cardinality(DOMAIN VNICS)]
    /\ UNCHANGED <<VNICS, MAP_QUEUE, posted>>
    /\ VnicTaskUntouched

NextDevice ==
    /\ scan.pc = "device"
    /\ \/ /\ \/ Cardinality(DOMAIN VNICS) # scan.size
             \/ scan.devices = {}
          /\ WalkOn(Asleep)
       \/ /\ Cardinality(DOMAIN VNICS) = scan.size
          /\ \E d \in scan.devices :
                LET potential == DOMAIN VNICS[d].potential IN
                WalkOn([pc |-> "vnic", now |-> scan.now, i |-> scan.i,
                        devices |-> scan.devices \ {d}, size |-> scan.size,
                        device |-> d, vnics |-> potential, count |-> Cardinality(potential)])

Walked == VNICS[scan.device]

\* Too old, or modeled already.
Skipped(r) ==
    \/ scan.now - Walked.potential[r] > Lifetime
    \/ r \in Walked.modeled

\* Mutant: a task that has raised once is not run again.
NextVnic_Dies ==
    /\ scan.pc = "vnic"
    /\ \/ /\ Cardinality(DOMAIN Walked.potential) # scan.count
          /\ WalkOn([pc |-> "yielded", instances |-> {}])
       \/ /\ Cardinality(DOMAIN Walked.potential) = scan.count
          /\ scan.vnics = {}
          /\ WalkOn([pc |-> "device", now |-> scan.now, i |-> scan.i,
                     devices |-> scan.devices, size |-> scan.size])
       \/ /\ Cardinality(DOMAIN Walked.potential) = scan.count
          /\ \E r \in scan.vnics :
                WalkOn(IF Skipped(r) THEN [scan EXCEPT !.vnics = @ \ {r}]
                       ELSE [pc |-> "instance", now |-> scan.now, i |-> scan.i,
                             devices |-> scan.devices, size |-> scan.size,
                             device |-> scan.device, vnics |-> scan.vnics \ {r},
                             count |-> scan.count,
                             vnic |-> r, instances |-> device_instances(scan.device)])

NextVnic ==
    /\ scan.pc = "vnic"
    /\ \/ /\ Cardinality(DOMAIN Walked.potential) # scan.count
          /\ WalkOn(Asleep)
       \/ /\ Cardinality(DOMAIN Walked.potential) = scan.count
          /\ scan.vnics = {}
          /\ WalkOn([pc |-> "device", now |-> scan.now, i |-> scan.i,
                     devices |-> scan.devices, size |-> scan.size])
       \/ /\ Cardinality(DOMAIN Walked.potential) = scan.count
          /\ \E r \in scan.vnics :
                WalkOn(IF Skipped(r) THEN [scan EXCEPT !.vnics = @ \ {r}]
                       ELSE [pc |-> "instance", now |-> scan.now, i |-> scan.i,
                             devices |-> scan.devices, size |-> scan.size,
                             device |-> scan.device, vnics |-> scan.vnics \ {r},
                             count |-> scan.count,
                             vnic |-> r, instances |-> device_instances(scan.device)])

BackToVnics ==
    [pc |-> "vnic", now |-> scan.now, i |-> scan.i,
     devices |-> scan.devices, size |-> scan.size,
     device |-> scan.device, vnics |-> scan.vnics, count |-> scan.count]

\* i % 500 is true but for the multiples of 500.
NextInstance ==
    /\ scan.pc = "instance"
    /\ WalkOn(IF scan.instances = {} THEN BackToVnics
              ELSE [scan EXCEPT !.i = (@ + 1) % Stride,
                                !.pc = IF (scan.i + 1) % Stride # 0 THEN "yielded" ELSE "probe"])

\* Mutant: the vNIC is not marked.
VnicFound_Unmarked(u) == UNCHANGED VNICS

\* The vNIC is marked before its map is appended, and never looked for again.
VnicFound(u) ==
    VNICS' = [VNICS EXCEPT ![scan.device].modeled = @ \cup {scan.vnic}]

Probe ==
    /\ scan.pc \in {"yielded", "probe"}
    /\ VnicTaskUntouched
    /\ \E u \in scan.instances :
          IF Parent[scan.vnic] = u
          THEN /\ VnicFound(u)
               /\ posted' = Append(posted, Item(scan.device, scan.vnic,
                                IF has_resource(scan.device, u) THEN u ELSE None, {"map"}))
               /\ AppendMaps(scan.device, <<Len(posted) + 1>>)
               /\ scan' = BackToVnics
          ELSE /\ scan' = [scan EXCEPT !.pc = "instance", !.instances = @ \ {u}]
               /\ UNCHANGED <<VNICS, MAP_QUEUE, posted>>

-----------------------------------------------------------------------------
\* Time passes.
Tick ==
    /\ now < MaxTime
    /\ now' = now + 1
    /\ UNCHANGED <<registryVars, queueVars, mapVars, VNICS, scan, posted, lost, failures, pushes>>

Init ==
    /\ RegistryInit
    /\ now = 0
    /\ QUEUE = [k \in Kinds |-> <<>>]
    /\ sending = [k \in Kinds |-> <<>>]
    /\ MAP_QUEUE = [d \in {} |-> {}]
    /\ maps = [d \in {} |-> <<>>]
    /\ calling = None
    /\ VNICS = [d \in {} |-> {}]
    /\ scan = Asleep
    /\ posted = <<>>
    /\ delivered = [k \in Kinds |-> <<>>]
    /\ applied = [d \in Devices |-> <<>>]
    /\ lost = {}
    /\ pushes = 0
    /\ failures = 0

Handler ==
    \/ \E d \in Devices, cfg \in Configs : _updateConfig(d, cfg)
    \/ \E d \in Devices : _deleteDevice(d)
    \/ \E d \in Devices, samples \in SamplePayloads : PostSamples(d, samples)
    \/ \E d \in Devices, events \in EventPayloads : PostEvents(d, events)
    \/ Tick

QueueTask(k) == StartQueueTask(k) \/ ItemSent(k) \/ SendFails(k)

MapTask ==
    \/ \E ready \in SUBSET HeldComponents : StartMapTask(ready)
    \/ MapsApplied
    \/ MapCallFails

VnicWalk == NextDevice \/ NextVnic \/ NextInstance \/ Probe

VnicTask == StartVnicTask \/ VnicWalk

Next ==
    \/ Idle /\ Handler
    \/ Idle /\ (\E k \in Kinds : QueueTask(k))
    \/ Idle /\ MapTask
    \/ VnicTask

Spec == Init /\ [][Next]_vars
-----------------------------------------------------------------------------
\* The queue of every device that is registered exists and has the settings
\* of the device's last configuration, though the map task deletes queues and
\* the vNIC task makes new ones, with other settings, for deleted devices.
QueuesConfigured ==
    \A d \in DOMAIN configs :
        d \in DOMAIN MAP_QUEUE /\ MAP_QUEUE[d].settings = configs[d].settings

Increasing(s) == \A i, j \in DOMAIN s : i < j => s[i] < s[j]

\* The numbers in s of what was posted in p, those of one component in order.
OrderedByComponent(s, p) ==
    \A i, j \in DOMAIN s : i < j /\ p[s[i]].component = p[s[j]].component => s[i] < s[j]

LostFrom(k) == {n \in 1..Len(posted) : <<k, n>> \in lost}

SentTo(k) == {n \in 1..Len(posted) : k \in posted[n].to}

Line(k) == delivered[k] \o (sending[k] \o QUEUE[k])

\* The maps zenhub got for d, those the map task has, those its queue holds.
Calling(d) == IF d \in DOMAIN maps THEN maps[d] ELSE <<>>

Got(d) == applied[d] \o (Calling(d) \o Queue(d).held)

\* Events and metrics reach zenhub in the order they were accepted in, each
\* once, whatever is posted while they are sent; what is neither sent nor
\* queued was lost in a call that failed.
SentInOrder ==
    \A k \in Kinds :
        /\ Increasing(Line(k))
        /\ Member(Line(k)) \cap LostFrom(k) = {}
        /\ Member(Line(k)) \cup LostFrom(k) = SentTo(k)

\* The same for object maps: each reaches the device it was posted for, at
\* most once, and the maps of one component in their order; queues deleted with
\* their devices and failed calls account for the rest.
MapsInOrder ==
    /\ \A d \in Devices :
          /\ \A n \in Member(Got(d)) : posted[n].device = d
          /\ OrderedByComponent(Got(d), posted)
          /\ Member(Got(d)) \cap LostFrom("map") = {}
    /\ SentTo("map") = LostFrom("map") \cup UNION {Member(Got(d)) : d \in Devices}

VnicMaps == {n \in SentTo("map") : posted[n].component \in Vnics}

\* "We only ever model each vnic once" (OpenStackVnicTask.doTask).
OncePerVnic ==
    \A m, n \in VnicMaps :
        posted[m].device = posted[n].device /\ posted[m].component = posted[n].component
            => m = n

\* "Loop over every known instance to see if it is the parent of this
\* potential vnic" (OpenStackVnicTask.doTask): the parent a vNIC is given is
\* an instance that is known.
ParentIsKnown == \A n \in VnicMaps : posted[n].parent # None

(***************************************************************************)
(* Fairness: the reactor resumes what waits, the scheduler runs each task  *)
(* every minute, and a call ends, well or badly.  The vNIC task keeps the  *)
(* reactor between its yields but cannot shut the others out for good, so  *)
(* these are strongly fair.  The handlers are free.                        *)
(***************************************************************************)
Fairness ==
    /\ \A k \in Kinds : SF_vars(Idle /\ QueueTask(k))
    /\ SF_vars(Idle /\ MapTask)
    /\ WF_vars(VnicTask)

FairSpec == Spec /\ Fairness

\* What was accepted is sent, or lost in a call that failed.
AllSent ==
    \A k \in Kinds, n \in 1..MaxPosts :
        (n \in Member(QUEUE[k] \o sending[k]))
            ~> (n \in Member(delivered[k]) \/ <<k, n>> \in lost)

\* A device that stays deleted ends up with no map queue, though maps may
\* still be appended for it.
QueuesRetired ==
    \A d \in Devices :
        <>[](~has_device(d)) => <>[](d \notin DOMAIN MAP_QUEUE /\ d \notin DOMAIN maps)

GivenUp(d, r) ==
    r \in DOMAIN VnicsOf(d).potential /\ now - VnicsOf(d).potential[r] > Lifetime

\* A vNIC whose instance stays known is modeled in the end or its 20 minutes
\* are over, though posts of other vNICs break off the walk (OpenStackVnicTask.doTask).
FoundIfKnown ==
    \A d \in Devices, r \in Vnics :
        (r \in DOMAIN VnicsOf(d).potential)
            ~> \/ r \in VnicsOf(d).modeled
               \/ Parent[r] \notin device_instances(d)
               \/ GivenUp(d, r)

=============================================================================
