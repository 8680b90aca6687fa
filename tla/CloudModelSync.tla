--------------------------- MODULE CloudModelSync ---------------------------
(***************************************************************************)
(* The path of an event from OpenStack to the Zenoss model: the cloud      *)
(* changes, ceilometer posts events, the web handler maps them into the    *)
(* queue of the device (ObjectMapQueue), the map task drains the queue and *)
(* sends what it got to zenhub, which applies it.  Beside it, the modeler  *)
(* takes a snapshot of the cloud through the APIs and applies it whole.    *)
(*                                                                         *)
(* The cloud, ceilometer, zenhub and the modeler's target are external:    *)
(* they are modelled as the code relies on them.  A component is created   *)
(* once, changes, and is deleted for good: its id is a UUID.               *)
(***************************************************************************)
EXTENDS Integers, Sequences, FiniteSets

CONSTANTS
    Components,    \* ids of cloud resources
    Versions,      \* how often a resource may change (bound)
    Durations,     \* the queue settings
    MaxTime,       \* bound on the clock
    LastChange,    \* bound on the time of changes in the cloud
    MaxDelay,      \* longest time an event takes to be posted
    DrainEvery,    \* longest time between two drains
    MaxRepeats,    \* bound on events posted again
    MaxLost,       \* bound on lost events and failed calls
    MaxReorders,   \* bound on events posted before older ones
    Modeling,      \* whether the modeler runs
    Absent         \* not in the model

ASSUME BoundsAssumption ==
    /\ Versions \in Nat /\ MaxTime \in Nat /\ LastChange \in Nat
    /\ Durations \in [shortlived : Nat, blacklist : Nat, consolidate : Nat]
    /\ MaxDelay \in Nat /\ DrainEvery \in Nat
    /\ MaxRepeats \in Nat /\ MaxReorders \in Nat /\ MaxLost \in Nat
    /\ Modeling \in BOOLEAN
    /\ Absent \notin Nat

VARIABLES
    now, settings, held_objmaps, blacklisted_components, out,  \* ObjectMapQueue
    cloud,      \* component -> [state |-> "new" | "live" | "gone", version |-> n]
    wire,       \* events ceilometer has not posted yet
    maps,       \* what the map task has drained and not yet sent: groups A, B, C
    lastDrain,  \* when the map task last drained the queue
    sending,    \* whether the map task waits for applyDataMaps
    model,      \* component -> version in the Zenoss model, or Absent
    snapshot,   \* what the modeler collected and has not applied: <<>> or <<model>>
    repeats,    \* events posted again so far
    reorders,   \* events posted before older ones so far
    lost        \* events and calls lost so far

vars == <<now, settings, held_objmaps, blacklisted_components, out,
          cloud, wire, maps, lastDrain, sending, model, snapshot, repeats, reorders, lost>>

\* The one attribute of these maps is the version they report.
Report(n) == [k \in {"version"} |-> n]

Queue == INSTANCE ObjectMapQueue WITH
             Props <- {"version"}, Rels <- {}, Values <- 0..Versions,
             Payloads <- {Report(n) : n \in 0..Versions}, Settings <- {Durations}

QueueUntouched ==
    /\ out' = Queue!NoMaps
    /\ UNCHANGED <<now, settings, held_objmaps, blacklisted_components>>

-----------------------------------------------------------------------------
(* The cloud and its notifications. *)

Event(c, kind, n) == [id |-> c, kind |-> kind, version |-> n, sent |-> now]

Notify(e) == wire' = Append(wire, e)

Create(c) ==
    /\ now <= LastChange
    /\ cloud[c].state = "new"
    /\ cloud' = [cloud EXCEPT ![c].state = "live"]
    /\ Notify(Event(c, "create", cloud[c].version))
    /\ QueueUntouched
    /\ UNCHANGED <<lastDrain, maps, sending, model, snapshot, repeats, reorders, lost>>

Change(c) ==
    /\ now <= LastChange
    /\ cloud[c].state = "live"
    /\ cloud[c].version < Versions
    /\ cloud' = [cloud EXCEPT ![c].version = @ + 1]
    /\ Notify(Event(c, "update", cloud[c].version + 1))
    /\ QueueUntouched
    /\ UNCHANGED <<lastDrain, maps, sending, model, snapshot, repeats, reorders, lost>>

Delete(c) ==
    /\ now <= LastChange
    /\ cloud[c].state = "live"
    /\ cloud' = [cloud EXCEPT ![c].state = "gone"]
    /\ Notify(Event(c, "delete", cloud[c].version))
    /\ QueueUntouched
    /\ UNCHANGED <<lastDrain, maps, sending, model, snapshot, repeats, reorders, lost>>

-----------------------------------------------------------------------------
(* The web handler: an event becomes an object map in the queue. *)

MapEvent(e) ==
    CASE e.kind = "create" -> Queue!CreateMap(e.id, Report(e.version))
      [] e.kind = "update" -> Queue!UpdateMap(e.id, Report(e.version))
      [] e.kind = "delete" -> Queue!RemoveMap(e.id)

Dropped(s, i) == SubSeq(s, 1, i - 1) \o SubSeq(s, i + 1, Len(s))

Overtakes(i) ==
    /\ i = 1 \/ reorders < MaxReorders
    /\ reorders' = IF i = 1 THEN reorders ELSE reorders + 1

Post(i) ==
    /\ Overtakes(i)
    /\ Queue!AppendMap(MapEvent(wire[i]))
    /\ wire' = Dropped(wire, i)
    /\ UNCHANGED <<lastDrain, cloud, maps, sending, model, snapshot, repeats, lost>>

\* ceilometer posts again what it has posted, having seen no answer.
PostAgain(i) ==
    /\ repeats < MaxRepeats
    /\ Overtakes(i)
    /\ Queue!AppendMap(MapEvent(wire[i]))
    /\ repeats' = repeats + 1
    /\ UNCHANGED <<lastDrain, wire, cloud, maps, sending, model, snapshot, lost>>

Lose(i) ==
    /\ lost < MaxLost
    /\ wire' = Dropped(wire, i)
    /\ lost' = lost + 1
    /\ QueueUntouched
    /\ UNCHANGED <<lastDrain, cloud, maps, sending, model, snapshot, repeats, reorders>>

-----------------------------------------------------------------------------
(* The map task: it drains the queue at one instant, then waits for zenhub. *)

DrainQueue ==
    /\ ~sending
    /\ Queue!Drain
    /\ maps' = out'
    /\ sending' = (out' # Queue!NoMaps)
    /\ lastDrain' = now
    /\ UNCHANGED <<cloud, wire, model, snapshot, repeats, reorders, lost>>

\* applyDataMaps: _remove takes the component out, _add puts it in, _update
\* alone does nothing to a component that is not there.
Applied(c) ==
    LET mine == {m \in maps.A \cup maps.C : m.id = c}
    IN  IF mine = {} THEN model[c]
        ELSE LET m == CHOOSE x \in mine : TRUE
             IN  CASE m.remove -> Absent
                   [] ~m.remove /\ m.update /\ ~m.add /\ model[c] = Absent -> Absent
                   [] OTHER -> m.attrs["version"]

Apply ==
    /\ sending
    /\ model' = [c \in Components |-> Applied(c)]
    /\ sending' = FALSE
    /\ maps' = Queue!NoMaps
    /\ QueueUntouched
    /\ UNCHANGED <<lastDrain, cloud, wire, snapshot, repeats, reorders, lost>>

\* callRemote fails: what was drained is gone.
ApplyFails ==
    /\ sending
    /\ lost < MaxLost
    /\ lost' = lost + 1
    /\ sending' = FALSE
    /\ maps' = Queue!NoMaps
    /\ QueueUntouched
    /\ UNCHANGED <<lastDrain, cloud, wire, model, snapshot, repeats, reorders>>

-----------------------------------------------------------------------------
(* The modeler: API answers first, the whole model later. *)

Collect ==
    /\ Modeling
    /\ snapshot = <<>>
    /\ snapshot' = <<[c \in Components |->
                         IF cloud[c].state = "live" THEN cloud[c].version ELSE Absent]>>
    /\ QueueUntouched
    /\ UNCHANGED <<lastDrain, cloud, wire, maps, sending, model, repeats, reorders, lost>>

ApplyModel ==
    /\ snapshot # <<>>
    /\ model' = snapshot[1]
    /\ snapshot' = <<>>
    /\ QueueUntouched
    /\ UNCHANGED <<lastDrain, cloud, wire, maps, sending, repeats, reorders, lost>>

\* Time passes; no event waits longer than MaxDelay to be posted, and the map
\* task is back within DrainEvery.
Tick ==
    /\ now - lastDrain < DrainEvery
    /\ \A i \in DOMAIN wire : now - wire[i].sent < MaxDelay
    /\ Queue!Tick
    /\ UNCHANGED <<lastDrain, cloud, wire, maps, sending, model, snapshot, repeats, reorders, lost>>

-----------------------------------------------------------------------------
Init ==
    /\ Queue!Init
    /\ cloud = [c \in Components |-> [state |-> "new", version |-> 0]]
    /\ wire = <<>>
    /\ maps = Queue!NoMaps
    /\ lastDrain = 0
    /\ sending = FALSE
    /\ model = [c \in Components |-> Absent]
    /\ snapshot = <<>>
    /\ repeats = 0
    /\ reorders = 0
    /\ lost = 0

Next ==
    \/ \E c \in Components : Create(c) \/ Change(c) \/ Delete(c)
    \/ \E i \in DOMAIN wire : Post(i) \/ PostAgain(i) \/ Lose(i)
    \/ DrainQueue
    \/ Apply
    \/ ApplyFails
    \/ Collect
    \/ ApplyModel
    \/ Tick

Spec == Init /\ [][Next]_vars

-----------------------------------------------------------------------------
\* Nothing is on its way to the model, and nothing was lost on the way.
Quiescent ==
    /\ wire = <<>>
    /\ DOMAIN held_objmaps = {}
    /\ ~sending
    /\ snapshot = <<>>
    /\ lost = 0

Live(c) == cloud[c].state = "live"

\* Whatever the order and however often events are posted, once they have all
\* gone through, exactly the components that exist are in the model: holding,
\* merging and blacklisting lose no creation and undo no deletion.
SameComponents ==
    Quiescent => \A c \in Components : Live(c) <=> model[c] # Absent

\* With events posted in order the model has the last version of each too.
SameVersions ==
    Quiescent /\ reorders = 0 => \A c \in Components : Live(c) => model[c] = cloud[c].version

\* Once the queue has seen the deletion of a component, no event about it that
\* is still under way puts the component back.
DeletedStaysDeleted ==
    [][\A c \in DOMAIN blacklisted_components :
          model[c] = Absent => model'[c] = Absent]_vars

(***************************************************************************)
(* Fairness: ceilometer posts what it has, the scheduler starts the map    *)
(* task every minute and zenhub answers or fails, the modeler runs on its  *)
(* own schedule, and time passes.                                          *)
(***************************************************************************)
Fairness ==
    /\ WF_vars(\E i \in DOMAIN wire : Post(i))
    /\ WF_vars(DrainQueue)
    /\ WF_vars(Apply \/ ApplyFails)
    /\ WF_vars(Collect)
    /\ WF_vars(ApplyModel)
    /\ WF_vars(Tick)

FairSpec == Spec /\ Fairness

\* Whatever events or calls were lost, and whatever the events and the modeler
\* overwrote of each other, the model finally agrees with the cloud: what the
\* queue still releases does not undo what the modeler found.
FinallyInSync ==
    <>[](\A c \in Components :
            IF Live(c) THEN model[c] = cloud[c].version ELSE model[c] = Absent)

=============================================================================
