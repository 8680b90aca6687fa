# Verification of ZenPacks.zenoss.OpenStackInfrastructure

TLA+ modules, TLC configurations and TLAPS proofs about the core logic of the
Zenoss ZenPack for OpenStack.  Paths are relative to
`src/ZenPacks/zenoss/OpenStackInfrastructure/` unless they start with `src/`.

## The system

The ZenPack keeps a Zenoss model of an OpenStack installation up to date.  It
has four kinds of running code, all of it Python 2:

* **zenopenstack** (`zenopenstack.py`), a collector daemon on one Twisted
  reactor.  A web server takes samples and events that ceilometer posts; events
  become object maps (`events.py`) in a per-device queue (`datamaps.py`); four
  periodic tasks send on metrics, events and object maps and look for new
  vNICs.  Work is interleaved at every `yield` of a task.
* **modelling** (`modeler/plugins/...`, `hostmap.py`, `apiclients/`), which asks the
  OpenStack APIs for everything and makes the whole model from the answers.
* **monitoring** (`datasources/`), which polls API status and quotas.
* **the object model in zenhub/Zope** (`DeviceProxyComponent.py`, `Host.py`,
  `Endpoint.py`, ...), where components are linked with the Linux devices that
  monitor them.

Besides these there is `txsshclient` (`src/src/txsshclient-1.0.0`), the vendored
SSH client library of the same authors.

### Inventory

| component | state it keeps | operations | interacts with | hard because |
|---|---|---|---|---|
| object map queue (`datamaps.py`) | held maps with the time of the first update, blacklist | append, drain, reset, settings | web handlers and vNIC task append, map task drains | merging, time boundaries, order of releases |
| event mapping (`events.py`) | none | one mapper per event type | web handler | missing traits, partial updates, relations of what does not exist yet |
| daemon (`zenopenstack.py`) | REGISTRY, METRIC/EVENT/MAP_QUEUE, VNICS | POST handlers, config push and delete, 4 tasks | zenhub, ceilometer | interleaving at yields, failed calls, deleted devices |
| vNIC discovery (`zenopenstack.py`) | VNICS potential and modeled | doTask, POST samples | registry, map queue | iterates shared dicts across yields |
| host mapping (`hostmap.py`) | references, assertions, frozen mapping | add, assert, perform, freeze, thaw | modeler, status datasources | transitive sameness, ids stable over cycles |
| API sessions (`apiclients/`) | token, service catalog, API version, semaphore per auth_url | detect version, authenticate, GET with retry, paging, admin interface tried first | Keystone and services | expired tokens, time limits, the place in the semaphore |
| device proxies (`DeviceProxyComponent.py`, `Host.py`) | GUID links on both sides | claim, create, release, maintain, deletion hooks | device manager | two-sided links, stale links |
| status datasources (`datasources/`) | host mappings of their configuration | collect, map hosts, send maps and events | sessions, `hostmap.py`, events | a configuration older than the model, two ids of one host |
| modeler (`modeler/plugins/zenoss/OpenStackInfrastructure.py`) | none between cycles | collect, process | sessions, host mapping | one of many calls fails or answers later than the others |
| SSH client (`txsshclient`) | connections, channels, deferreds, timers | run, get, put, reset | sshd | disconnects, timeouts, callbacks |
| everything else | see `PROJECT.json` | | | configuration, UI, pure I/O |

## The modules

| module | of | extends or instantiates |
|---|---|---|
| `ObjectMaps`, `ObjectMapQueue` | `datamaps.py` | |
| `MapPromise` | what the queue releases, by the rules of `drain()`, without its dictionaries | |
| `MapHistory` | the queue with the history that maps it to `MapPromise` | `ObjectMapQueue`, `MapPromise` |
| `CloudModelSync` | cloud, ceilometer, queue, map task and modeler | `ObjectMapQueue` |
| `Registry`, `ZenOpenStack` | `zenopenstack.py` | |
| `ModelerMaps` | `process()` of the modeler and its mapping functions | |
| `EventMaps` | `events.py` | `ModelerMaps` |
| `Inventory` | `collect()` of the modeler against a changing cloud and its events | `EventMaps` |
| `HostMap` | `hostmap.py` and the Endpoint's stored mappings | |
| `ServiceStatus` | the services of the model and their status | `HostMap` |
| `ApiSession` | `apiclients/` | |
| `SSHClient` | `txsshclient` | |
| `DeviceProxy` | `DeviceProxyComponent.py`, `Host.py`, `Endpoint.py` | |

`MC...` modules and `.cfg` files give the instances that TLC checks, `..._proofs`
modules the theorems.  The modules came in this order, the most important
behaviour first: the queue and the path of an event through it, the daemon, host
mapping, SSH, device links; then what fills the model (the modeler's calls, the
mapping of answers and of events), the sessions those calls go through, and the
status that is collected beside it.

What a next step would take: a relation between a change of the cloud and its
notification that is not a list of eleven, under which `EventsKeepUp` could be proved;
`Inventory` on top of `ApiSession`, so that a lost answer is the end of a call there.

### The runs

| run | module, cfg | asks | distinct states |
|---|---|---|---|
| promise | `MCMapHistory`, `Promise.cfg` | does what is released follow from what arrived and when; can it be applied in order | 314 000 |
| sync | `MCCloudModelSync`, `Sync.cfg` | do late and repeated events leave the right components | 302 000 |
| sync_live | `MCCloudModelSync`, `SyncLive.cfg` | does the model agree with the cloud in the end | 32 000 |
| daemon | `MCZenOpenStack`, `Daemon.cfg` | is all sent once, in order, to its device | 377 000 |
| daemon_live | `MCZenOpenStack`, `DaemonLive.cfg` | is all sent, are queues retired, vNICs found | 157 000 |
| vnic_parent | `MCZenOpenStack`, `VnicParent.cfg` | (violated) has a vNIC a parent | |
| inventory | `MCInventory`, `Inventory.cfg` | what does a cycle report, what do events keep up | 146 000 |
| api | `MCApiSession`, `Api.cfg` | does every call end, and its place come back | 477 000 |
| status | `MCServiceStatus`, `Status.cfg` | does a status reach its service, under stable ids | 221 000 |
| host_assertion | `MCServiceStatus`, `HostAssertion.cfg` | (violated) does an assertion override a frozen mapping | |
| ssh | `MCSSHClient`, `SSH.cfg` | is every request answered | 73 000 |
| proxy | `MCDeviceProxy`, `Proxy.cfg` | are links mutual, and hosts served | 102 000 |

Deadlock is checked where the system goes on by itself (promise, status);
the other runs end when their bounded inputs are used up.

## The object map queue

`ObjectMaps` has the maps themselves: a record with the component id, the
directives and the attributes, and the three groups a drain returns them in.
`ObjectMapQueue` is the class.  `now` is the clock, `settings` the three durations
(zenhub pushes new ones with `Configure`), `held_objmaps` and
`blacklisted_components` the dictionaries, and `out` the groups the last step
returned, empty unless that step was `Drain`.  One action per method: `AppendMap`,
`Drain`, `Reset`, plus `Configure` and `Tick`.

`MapPromise` is the queue without its dictionaries: it keeps a log of arrivals
and the time of the last deletion, merges nothing and forgets nothing, and decides
from these alone what is released.  `MapHistory` adds that log to the queue as
history variables; `ImplementsPromise` says the queue implements `MapPromise` under
the identity on the history, which is to say that merging on arrival, the time of
the first map, and a blacklist cleaned only when it is looked at lose nothing that
the decision needs.

The rules of `MapPromise` are those that `drain()` applies.  They are **not** those of
the class's docstring in two points, marked (1) and (2) in the module, so that
`ImplementsPromise` does not say that the docstring holds:

1. "If any objmap comes in for a blacklisted component, drop it"
   (`datamaps.py:36`).  `append()` takes the map; it is judged by the blacklist as it is at
   the next drain, and released if the entry has run out by then.
2. "If a component is created by a map (_add=True), hold all updates to this
   component for a period of time" (`datamaps.py:26`); `drain()` counts that period
   from the first map held for the component, whatever that was.

The first matters only when maps come faster than the drains: `SameComponents` of
`CloudModelSync` says under which delays it does no harm, and `NoResurrection` is about
what is released.

* Run **promise**: two components whose maps refer to each other, every sequence
  of arrivals, drains, ticks and resets with up to two pending maps for each and a
  clock of five ticks, which is more than the sum of the durations, so that a
  blacklist begins and ends.  `drain()` splits what it releases into groups A, B and C
  such that no creation of group A refers to a component created in the same group
  (`CreationsAreIndependent`), a component is in a group once, and no directive or
  attribute is lost in the split (`SplitIsLossless`).  A held map is the overlay of
  what arrived (`HeldIsAggregate`), a component deleted recently stays silent
  (`NoResurrection`), nothing is dropped without a reason (`NothingLost`), and what is
  released follows from the log (`ImplementsPromise`).  The settings are fixed, as
  `MapPromise` needs; the theorems about the other properties allow any settings
  and any change of them.

Not stated as properties, because the consequence is benign: the creation and
deletion of a short-lived component are both discarded, though the modeler may
have put it in the model meanwhile (`datamaps.py:123`; the next modeling removes
it, see `FinallyInSync`); a reference to a component whose creation is still held may be released
first; a deletion merged into a held update keeps the `_update` directive.

## From the cloud to the model

`CloudModelSync` instantiates `ObjectMapQueue` and puts around it what makes the
queue necessary: a cloud whose components are created, change and are deleted
(`Create`, `Change`, `Delete`); events that are posted late, out of order, again
or never (`Post`, `PostAgain`, `Lose`), each through the mapper into `append`; the
map task, which drains and then waits for `applyDataMaps` (`DrainQueue`, `Apply`,
`ApplyFails`); and the modeler, which takes a snapshot and applies it later
(`Collect`, `ApplyModel`).  The cloud, ceilometer and zenhub are external.

* Run **sync**: no modeler, events delayed by up to one tick, three of them
  overtaken and two posted again.  When all has gone through, the model has
  exactly the components that exist (`SameComponents`), with their last version
  unless events were overtaken (`SameVersions`), and no late event brings a
  deleted one back (`DeletedStaysDeleted`).

What the settings must leave room for is the hypothesis `Timely` of the theorems: an
event takes less than the short-lived duration to arrive, and delay and the time
between two drains together no more than the blacklist.  The bound is exact: TLC
finds `SameComponents` violated when either is one less than that.  With the code's
defaults (40 s, 600 s, a drain each 60 s: `datamaps.py:43`, `zenopenstack.py:1084`) an
event may be up to 40 s late.  A creation posted again later than that is held when
its component is in the model already, and a deletion that meets it in the queue is
discarded with it as short-lived.

* Run **sync_live**: with lost events, failed calls and an old snapshot applied
  over newer events, the model agrees with the cloud in the end (`FinallyInSync`).
  `Fairness` is weak for each actor: ceilometer posts, the task is scheduled each
  minute, a call ends, the modeler runs on its schedule and time passes.

One component is enough since the queue treats each by itself (`promise` checks
where they meet); two versions tell a stale value from a new one; the clock of
nine ticks is the last change at four plus the longest hold, delay and blacklist.
The applied model is abstracted to whether a component is there and at which version.

## The daemon

`Registry` has the registry as variables and one operator per method.
`ZenOpenStack` is the rest of `zenopenstack.py` on one reactor: a web handler or a
call of zenhub is one action, a task one action per stretch between two yields.

| code | model |
|---|---|
| `_updateConfig`, `_deleteDevice` | actions of the same names |
| `CeilometerV1Samples`, `CeilometerV1Events` | one action per request; a malformed entry makes them stop where the code stops |
| `OpenStackPerfTask`, `OpenStackEventTask` | `QueueTask(k)`: take an item, send it, it arrives or is lost |
| `OpenStackMapTask` | drain all devices, then one call per device; a failed call ends the run |
| `OpenStackVnicTask` | `scan`, a walk over shared dictionaries with a yield at most instances, which a post breaks off |
| `METRIC_QUEUE`, `EVENT_QUEUE`, `MAP_QUEUE`, `VNICS` | `QUEUE`, `MAP_QUEUE`, `VNICS` |

A map queue is abstracted here to the numbers of the maps it holds and a drain to
the free choice of what it releases, which `ObjectMapQueue` makes precise.  What is
posted is numbered in its order (`posted`); `Line` is what was sent, is being sent and
waits of one kind, and `Select` takes the maps of a component out of such a line by
the positions where they are.  `PayloadAssumption` says that requests are lists of
entries, one of which may be malformed, and that events are not about vNICs, for
which only the vNIC task makes maps.

* Run **daemon**: two devices, requests that fail in the middle, devices deleted
  and added again, one failed call.  `SentInOrder`, `MapsInOrder`: nothing is sent
  twice, out of order or to another device, and what is missing was lost with a
  failed call or a deleted queue.
* Run **daemon_live**: a configuration with two instances pushed, replaced and
  deleted while two vNICs are posted and looked for and time passes; a post of the
  second breaks off the walk that looks for the first.  `QueuesConfigured`: the
  queue of a registered device has its settings though other handlers make queues
  with default ones.  `OncePerVnic`, and, under fairness, `AllSent`,
  `QueuesRetired` and `FoundIfKnown`: a vNIC is modeled, its instance becomes
  unknown or its 20 minutes end.  The queue and map tasks are strongly fair: the
  scheduler starts them each minute, and the vNIC task, which holds the reactor
  between its yields, cannot shut them out for good.  The vNIC task itself is
  weakly fair.  Handlers, pushes and the clock are not fair.
* Run **vnic_parent** (violated): the task reads the known instances, yields, and
  looks up a component that a configuration push has removed: the vNIC becomes
  part of `components/None`.

Bounds: three posts or three pushes suffice for a device to be deleted, added and
used again.  In daemon_live two metrics, two vNICs in posts of their own, two pushes
and a vNIC that is too old after the only tick suffice for each to meet the other;
one failure suffices as the tasks keep nothing of an earlier one.  With its one
device the walk breaks where `potential` has grown; that `VNICS` itself grows, with
the first vNIC of another device, is in the model (`NextDevice`) but in no run.

Why `FoundIfKnown` has to allow the end of the 20 minutes: each new vNIC posted
while the task is at a yield breaks off its walk, for the dictionary it iterates
has grown (`zenopenstack.py:995` inside the loop of `:975`).  In a busy cloud this
may happen to every walk, and after 20 minutes a vNIC whose instance was known all
the time is passed over for good (`zenopenstack.py:981`).

## The modeler and the events

`modeler` stands for `modeler/plugins/zenoss/OpenStackInfrastructure.py`.

`ModelerMaps` has one operator per mapping function of the modeler.  A map is the
component it is about and, for each setter it calls, the components it refers
to; a setter that is only called when there is something to set is missing
otherwise (`Given`), which leaves the relation as it was.  `EventMaps` does the
same for the event mappers: a trait that is missing, empty or given means no
setter, one that clears, or one that sets.  Where two traits have one setter
(`flavor_name` and `instance_type`, `host_name` and `host`) the order of a dictionary
decides which is set last, so either may be (`OneOf`).  `set_host_name` changes no relation of
the instance's own: it moves the instance to the hypervisor of that host
(`Instance.py:39`), so it is kept apart in a map (`OnHost`) and applied to the
hypervisor's instances (`set_host_name`).

`Inventory` puts them around a cloud.  `collect()` is a list of calls (`Plan`) that
grows with the answers (`Further`: a call per hypervisor, agent and tenant, and the
single-tenant call when the list of all tenants is empty); the cloud may change
between any two of them (`Edit`).  A call is answered, refused in a way that
`api_call()` takes for an empty list (`Refused`), or fails so that `api_call()` raises,
which ends the cycle (`Unreachable`).  For an agent's own call it is the other way
round: `collect()` catches what it raises and goes on, and the agent is mapped with
no routers, networks and subnets (`modeler:1476`, `:1504`); the empty list ends the cycle, for it
is looked up by name outside of the `try` (`AgentCalls`).  Then `process()` maps the results and the maps are applied in
their order (`ApplyAll`).  The changes' notifications are mapped and applied one by
one (`Deliver`) or lost (`LoseEvent`).  Applying is external, and modelled as the
code relies on it: a reference to a component that does not exist is not set, and
a component that a cycle does not name goes.  A cloud is `WellFormed` at all times:
its lists are finite, an uid is of one entity, a name of one volume type, and a volume has
at most one type; `CloudsAssumption` says this of the clouds a behaviour may start with,
`Edit` allows no change that breaks it.

Run **inventory**, over a cloud with one entity or two of each of 17 kinds:

* `ComponentsReported`: a cycle reports, of each kind whose own calls were answered,
  every component that existed throughout and none that never did; a tenant that
  keystone does not list is there if one and the same reference named it throughout.
* `ReferencesReported`: likewise for references, although they name components that
  other calls discover and that the maps create in some order; a volume's type
  counts as there throughout if it bore one name all the time, and what an agent
  serves if it was listed all the time and the agent's own call was answered.  A reference of two entities (a router's
  subnets by its ports, a volume's type by its name) may join one of one moment with one
  of another.
* `EventsKeepUp`: after a quiet cycle the events alone keep the model, in the kinds
  and relations they carry, the same as a cycle would make it.
* `FinallyTrue`: however answers and events were lost, once the cloud rests the
  model becomes true of it and stays so.

One edit and one failure are enough for the liveness and for `EventsKeepUp`: a cycle
keeps nothing of an earlier one but the model.  For the two promises of a cycle they
are not: with two edits in one cycle, a tenant named now by one component and now by
another is never missing and may yet be answered by no call, and a router and a port
that never were together are joined.  The statements say so, and are
proved for any number of edits and losses (`Inventory_proofs`).  The eleven edits of
`MCEdits` create, change, move and delete what events tell, or are silent.  `Fairness` is that
the modeler is scheduled again and again, calls end (they have time limits) and the
daemon applies what it holds.  `[]<>~Asked` is the weak fairness of `Process` by what
it comes to, as the step is possible whenever `Asked` holds and nothing else ends
that; written so, TLC need not evaluate the whole of `process()` at each state to
see whether it is enabled.

Seen while modelling:

* Relations that a map only sets when there is something to set stay stale: a
  volume that was detached while no event arrived keeps its instance after every
  modeling (`modeler:1156`).  `KeptByModeler` names these relations.
* A refused call "will proceed regardless" with a partial model
  (`modeler:1376`), but the answers of two kinds of calls for one agent are then
  indexed by name (`modeler:1482`), and an unanswered hypervisor detail is read by
  `map_hypervisors`: each ends the cycle (`AgentCalls`, `HypervisorsUnreadable`).
* `map_nova_services` binds `hostmap` in the loop over nova's services (`modeler:702`) and
  uses it for the nova-api hosts after it (`modeler:754`): when nova lists no services, or
  its call was refused, and there is a nova-api host, the cycle ends in an unbound
  local (`HostMapUnbound`).  The run has such a host.
* One failed call for an agent clears what the agent serves until the next
  modeling; no event repairs it.
* `hashlib.new()` without an algorithm raises, so no device with
  `zOpenStackExtraApiEndpoints` is modeled (`modeler:1297`); a set is appended to, so
  no cloud with a cinder-api service on an unlisted host is (`modeler:645`).  Both
  are in `process_raises`; the run has neither, as its model would stay empty.
* The id of a volume snapshot is `snapshot-...` in the modeler and `volsnapshot-...`
  in `events.py`, so events of snapshots do not reach the modeler's components;
  `EventKinds` leaves snapshots out.
* `_apply_router_gateway_info` gives `make_id` its arguments in another order
  (`events.py:183`), and every update of a router that carries its gateway clears the
  gateway's network until the next modeling; `EventPairs` leaves that relation out.
* In `map_servers` a server without a flavor or tenant gets those of the server
  before it in the loop (`modeler:518-545`).

Plain attributes, titles, numbers and quotas' values are left out; the power
state of instances stands for the attributes both sides report.

## API sessions

`ApiSession` has the calls of several clients, each with a session of its own, and
the semaphore that the sessions of one `auth_url` share.  A call goes through
version detection, authentication, the URL of its service, its pages, and one
second try of each page after a 401 (`stage` and `purpose` say which request is under
way and what it is for).  A request is sent at once, for it is an argument of
`semaphore.run` (`session.py:247`): the semaphore delays only its time limit.  So a
request may have come to something before its place does (`Settle`, `Release`), and
the place must come back whether the request is answered, times out or breaks, in
any order.  The server, the network and tokens' expiry are external: the server
may answer with anything (`Served`, `Denied`), or stay silent.

Run **api**: two clients, one place, answers of two pages, one failure, two
expired tokens.  `NoPlaceLost`: a place is held by an open request only, and none is
free while someone waits.  `ExpiryIsInvisible`: a call fails as unauthorized only if
the token of its first try and one issued after that have both expired.
`AllAnswered`: every call ends.  One place makes waiting the normal case, and
`NoPlaceLost` is proved for any number; two expiries are what it takes to defeat the
one retry.  The timer, callbacks and the rest of an answer are fair, not the
server.  The last is an assumption: a body is read outside the time limit
(`session.py:261`), and a server that stops in the middle of one stops the modeling.

Seen while modelling: the constant of 250 parallel requests does not limit the
requests; pages are followed without a bound.

## Host mapping

`HostMap` follows one `HostMap` object (`run`) per modeling or collection of
status from its references to its final ids, and `host_mappings` of the Endpoint
between them.  A reference is a model value; `Clean` is the reference without its
suffix, and the resolver's answers are a constant set of functions, one of which
is chosen in each cycle.  The mapping loop takes references in any order, as the
dictionary does.  The status collector works with the configuration it was last
pushed, which may be old.

`ServiceStatus` extends it with what host ids are for.  The modeler names a nova or
cinder service after the id of its host (`ModelServices`, `ModelApplied`); the status
collector, with a HostMap from a configuration that may be older than the model,
has to name it the same way (`CollectServices`, `OnSuccess`).  A collector's maps
update components only (`_add=False`), and its events open or clear an alarm for
each id it was answered; a collection that fails opens one of its own (`OnError`,
`CollectFails`).  Cycles follow one another per device, modelings may fail or be
lost, and settings change between any two steps.

Run **status**: one host with four references, two of them with a service each,
and another host; answers that name different references of it; two settings of
forced and same hosts, two answers of the resolver (addresses, loopback for all).
No two hosts share an id (`NoConflation`); references that are new in a cycle and
asserted to be the same share one (`NewTogether`); ids once stored never change
unless the user maps them or asserts their reference to be one with another id
(`IdsAreStable`, which leaves such references out: `Contradicted`); ids that a collector
makes up for hosts it is the first to see name no service of the model
(`ServicesAreModeled`); and a collected state reaches the service the model has, its
alarm open just if it is down, however old the collector's configuration
(`StatusReachesService`).

Run **host_assertion** (violated): "frozen mappings may be overridden by new
information, most particularly, by "same_host" assertions" (`hostmap.py:102`; likewise
`:46`).  `AssertionsOverride` says that two references which the user asserts to be of
one host have one id when a modeling is done, whatever was stored, unless the user
gives one of them an id.  The code takes the frozen id
of a reference first (`hostmap.py:325`), so an assertion loses to stored ids: a host
modeled under its short name keeps that id when `zOpenStackHostMapSame` later says it
is the host with the full name, which keeps or gets another.
Normalization of references, titles and addresses are left out.

Seen while modelling: two backends of cinder on one host (`host@lvm`, `host@ceph`)
come to one host id, hence one service, whose status is that of either, which is
why `StatusReachesService` speaks of a service that is alone with its id; the alarm
of an id that a collector made up stays open when the modeler gives the host
another (`NovaServiceStatusDataSource.py:186`), and so does that of a service that
the API no longer lists; an account that may not list services (403) counts as a
successful collection.  The neutron collector, which maps no hosts, does not say
`_add=False`, so it would create an agent that the modeler has not seen.

## SSH client

`SSHClient` is the vendored library with the plugins as its users.  Twisted runs
the callbacks of a deferred at once, so `resetConnection`'s loop over
`runningDeferreds` is modelled step by step (`loop`), with users who ask or
disconnect inside it.  The list is a sequence, as skipping an element while the
list changes is what can go wrong.  `stage` of a request says what its channel
waits for, `answer` what its deferred got; "stuck" is a request none of whose
channel's callbacks leads to the deferred.

* Run **ssh**: users who wait for each answer, as the plugins do
  (`OneAtATime`), two commands and two file operations, three connection attempts.
  The list has each unanswered request once (`TypeOK`), none is forgotten
  (`NoneForgotten`), no command is run after its user was told it failed
  (`NotRunOnceAnswered`), `disconnect()` is final
  (`StaysDisconnected`), a timeout always answers (`TimedAreAnswered`), and all
  are answered if the server goes on (`AllAreAnswered`).  The reactor and timers
  are fair, and a closing connection ends; the server only where the property
  assumes it.

With two requests at once, which no plugin makes, the loop of `resetConnection` skips
every second deferred, since firing one takes it out of the list it walks
(`sshclient/__init__.py:109` and `:63`); `OneAtATime` is the plugins' use.

Seen while modelling and not stated: a file operation that timed out while its
channel was opening may still run on the server when the channel comes, for
`SFTPChannel` keeps the handle that `FTPConnection.close()` lets go, and its answer
then fires a deferred that was fired (`AlreadyCalledError`); one that timed out before
the connection was up opens a channel that leads nowhere; nobody closes either.
Whether Twisted makes good the close it was asked for before the channel was open is
external, so the model allows both (`_cbSFTP`).  The timer of a command
stops at the end of its output, so a server that never closes the channel leaves
it unanswered; `disconnect()` during a retry leaves waiting requests unanswered.

## Device proxies

`DeviceProxy` has the GUIDs of all objects, both sides of each link, which devices
are in the proxy device class, and `todo`, the hosts that the transaction of an
endpoint has still to maintain.  Actions are database transactions (ZODB makes
them serializable where two claim one device: both write it).  Reads are among
them: a graph or a report that asks for `proxy_device()` may claim one.  Users
add, delete and move devices, give a device a new GUID (as the test of
`proxy_device` does), delete hosts and move endpoints.  `Rank` abstracts ids, names
and addresses to the pass of `find_claimable_device` in which a device matches.

`onDeviceDeleted` is subscribed to `IObjectWillBeMovedEvent` and returns on every
event that provides that interface, so it never clears a link; `DeleteDevice`
leaves the host's side dangling, which `FinallyServed` shows to be repaired.

Run **proxy**: two hosts of one OpenStack and one of another compete for two
devices, one of which cannot be created.  A host's device leads back to it
(`LinksAreMutual`), is never given to another (`NotStolen`), links are dissolved on
both sides (`DissolvedOnBothSides`), maintenance leaves no host without a device
it could have (`MaintainedAreServed`), and if users let things be, links settle
(`FinallyServed`; modeling of each endpoint comes again and again, which is strong
fairness since the transactions of others interrupt it).  Eight GUIDs let users
take up to five steps that need one, and any number of others; users stop when
creations could run out, the only reason why the system stops.

## What is proved

For every value of the constants, under the named assumptions only:

| module | theorems | assumptions |
|---|---|---|
| `MapHistory_proofs` | `TypeCorrect`, `CreationsIndependent`, `SplitIsLosslessHolds`, `HistoryInvariant`, `LastValueWins`, `NoResurrectionHolds`, `NothingLostHolds`, `PromiseKept` | those of `ObjectMaps` and `ObjectMapQueue`; fixed settings for `PromiseKept` |
| `CloudModelSync_proofs` | `SameComponentsHolds`, `SameVersionsHolds`, `DeletedStaysDeletedHolds` | `BoundsAssumption`; `Timely` for the first two, `~Modeling` for the third |
| `ZenOpenStack_proofs` | `QueuesConfiguredHolds`, `SentInOrderHolds`, `MapsInOrderHolds`, `OncePerVnicHolds` | `PushedAssumption`, `PayloadAssumption` |
| `ServiceStatus_proofs`, about `HostMap` | `TypeOKHolds`, `NoConflationHolds`, `NewTogetherHolds`, `StatusFindsModeledHolds`, `IdsAreStableHolds` | `HostMapAssumption`, `TruthAssumption` |
| `ServiceStatus_proofs`, about `ServiceStatus` | `IdsAgree`, `IdsStable`, `NewOnesAgree`, `ServicesAreModeledHolds`, `StatusReachesServiceHolds` | those of `HostMap`, `ServiceAssumption` |
| `Inventory_proofs` | `ComponentsReportedHolds`, `ReferencesReportedHolds` | `CloudsAssumption` |
| `ApiSession_proofs` | `TypeCorrect`, `PlacesKept`, `ExpiryHidden` | `ConstantsAssumption` |
| `SSHClient_proofs` | `TypeOKHolds`, `StaysDisconnectedHolds`, `NoneForgottenHolds`, `NotRunOnceAnsweredHolds` | `SSHAssumption`; `OneAtATime` for the last two |
| `DeviceProxy_proofs` | `TypeOKHolds`, `LinksAreMutualHolds`, `NotStolenHolds`, `DissolvedOnBothSidesHolds`, `MaintainedAreServedHolds` | `DeviceProxyAssumption` |

* **Queue.**  `GroupAIsIndependent` and `SplitLosesNothing` are about any set of maps
  filed under their ids: the two parts of a map that is split are what refers to a
  creation and the rest, so together they are the map.
* **History of the queue.**  `HistoryInv` joins the types of queue and log, that a
  held map is the aggregate of the log (`HeldIsAggregate`), and that a deletion
  that left the queue is in the blacklist while it counts
  (`DeletionsAreRemembered`).  The last is what lets a lazily expired blacklist
  implement the exact rule of `MapPromise`; `PromiseKept` maps `drain` to `Release`
  group by group.
* **From the cloud to the model.**  `SyncInv` follows each component along its way
  (`InvAt`): one that exists is created by an event on the wire, a held map or a
  released one, or is in the model (`LiveAt`); one that is gone has its deletion in one
  of these places or in the blacklist, or else nothing about it is left anywhere
  (`DeadAt`); and what removes it says the truth (`GoneAt`).  This is inductive
  only with three facts about time: an event that creates is no younger than what is
  held of its component (`FirstInv`), so none is left when the creation is released
  (`OnceAt`: the first part of `Timely`); and no event of a barred component is younger
  than its entry, nor was anything held for it before the last drain but in time
  (`BarInv`), so a drain that lets the entry expire finds nothing to drop by it (the second
  part).  For versions (`VersionAt`) the last event on the wire has the cloud's, or the
  held map has, or the released one, or the model.  `DeletedStaysDeleted` needs no time:
  blacklist and released maps change in one step (`RemovalsOnly`).  The modeler is left
  out by hypothesis, because a snapshot from before a deletion brings a component
  back until the next one: that is what `FinallyInSync` is about.
* **Daemon.**  `QueuesConfigured` is inductive by itself; the proof goes through
  every action that makes or deletes a queue.  `DaemonInv` has the rest.  `LinesInv`: what
  was sent, is being sent and is queued of one kind is one increasing `Line` of the
  numbers of what was posted, and what is missing in it was lost with a failed call.
  Every step posts at the end of the lines (`Posts`), moves the place between
  sent and queued along, or drops what it counts as lost, so each action is sorted into
  one of these and the order follows once for all.  Maps have a line per device, and
  `Select` keeps the order of a component's maps since it keeps positions (`NthFacts`).
  `VnicInv`: the vNIC that the task looks for is not marked as modeled, whatever posts
  came while it had yielded, and every one a map was posted for is.
* **Hosts.**  The invariant says that stored, pushed and working mappings and all
  assertions are true of `HostOf`, the host that a reference really stands for, and
  that what a configuration holds is stored still (`Kept`).  `AllAssertedSame` is
  defined as the least closed set, so that its truth follows without induction.
  `TruthAssumption` says that neither the user nor the resolver lies.  For
  `NewTogether` the loop of `perform_mapping` needs `TogetherInv`: two references
  asserted to be the same both ways have one id already, or the loop has still to
  visit one of them and will give both an id; a turn that gives an id to
  one of them gives it to the other, since assertions lead from either to the same
  set (`LeadsOn`, `LeadsBack`).  A set with two ids has two members to choose from
  (`TwoIds`), for which references are finitely many.
* **Services.**  Every step of `ServiceStatus` is, for the host map, one that `HostMap`
  allows with some set of references (`MappingStep`), so its invariant carries over.
  `SInv` adds that a cycle's HostMap knows the hosts of its answer and that the
  model's services have stored ids; a reference that a collector's configuration
  has keeps its id through the loop, and that is the stored one.
* **Sessions.**  `SemInv` adds to `NoPlaceLost` that at most `MAX_PARALLEL` clients
  have places, that they are not waiting, and that nobody waits twice.  The proof sorts the
  steps by what they do to a request: begin one, settle one, end a call, none of
  these (`StepCases`).  `RetryInv` is about one client: an unauthorized answer and the
  refused token it leaves are about a token that is invalid, and the token of a
  second try was issued later; clients that take no step are undisturbed.
* **SSH.**  `ClientInv`: the deferreds in the list are those of the requests that were
  asked and not answered, each once, whatever the users do.  That no request is
  forgotten holds only for users who wait for each answer (`OneAtATime`): then the list has one
  member at most, and the loop of `resetConnection` finds it with its channel cut and
  ends on what the callback asks anew (`OneInv`).  For other users it is false, as the
  loop skips what moves up in the list; the hypothesis is the plugins' use of the library.
* **Devices.**  `IInv` adds to `LinksAreMutual` that the hosts under maintenance
  are of one endpoint (`TodoTogether`) and that those already maintained are
  served or blocked (`MaintainedSoFar`): a later claim takes only devices nobody
  has, and a created device is linked at once (`ClaimServes`).  A link that a
  step dissolves while both objects keep their GUIDs was released by it, and a release
  leaves nothing that leads back to the host (`Dissolved`).

* **Modeler.**  `Sets` is all that a map says; one lemma per kind of component shows that its
  map says what the entity bears and, for routers and volumes, what another entity
  adds (`MapsOfKinds`), and `Applied` what becomes of a list of maps.  `IInv` is about the
  cycle under way: `Line` has the calls still to be made, the last `n` of the plan and
  before them those that the last answer added; `Answers` says of each list before
  that place that it is at most what one of the clouds of the cycle had and, unless its
  call was lost, at least what one had (`Told`), of each list after it that it is empty, and
  of each agent and tenant that its own call was answered or is still to be made.
  Flavors come in two calls, so they need that none turns from public to private
  (`CloudsAssumption`; Nova has no such call).  The lists after the place must be empty
  because the single-tenant call overwrites its list, and is only made when that is empty.
  For old references `RefsKnown` follows every map of an event to the relations it
  may set (`EventMapsKnown`).  A reference is then found by going from an entity that
  was there all the time to its list, its map, and a place of the order at
  which its target exists already (`TargetsBefore`): this is where the order of
  `process()` matters.

Only model-checked: all liveness, and that a step is possible, which are out of the
prover's reach; and `EventsKeepUp` of `Inventory`, since only the instance says which
notification tells of which change.  `ParentIsKnown` is violated, as said above.

## What is not modelled

`PROJECT.json` lists every part with its reason.  In short: what plugins parse; the
UI, reports, migrations and installation, which keep no state of their own or run
once; the catalogs by which other ZenPacks find components, whose state is in the
platform; agent pools and TLS of the sessions; the platform itself (Zenoss,
Twisted, ZODB, RabbitMQ, OpenStack), which is modelled only as the code relies on
it.  `time.time()` is taken to be monotonic.

Read and not modelled, as they have no state between steps:

* `ApiEndpointStatusDataSource.py:64`: after a 401 a method that does not exist is
  called (`login()`), and the old headers would be used again.
* `patches/platform.py:53`: a serial number identifies an instance only if two
  components have it; a unique match is passed over for the MAC addresses.
* Cinder's integration: the search over its core components asks for
  `Snapshot.Snapshot` (`CinderIntegrationComponent.py:33`), while the class is
  `VolSnapshot`, and the catalog of its implementation components is filled by calling
  `reindex_implementation_components` (`catalogs.py:123`), which the base class names
  `reindex_cinder_implementation_components` (`cinder_integration.py:95`).
