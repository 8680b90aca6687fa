----------------------- MODULE CloudModelSync_proofs -----------------------
(***************************************************************************)
(* Proofs about the path of an event to the model: whatever number of      *)
(* components and events there are, and whatever the settings of the queue *)
(* are as long as they leave the events the time they take, what reaches   *)
(* the model is what exists in the cloud.                                  *)
(***************************************************************************)
EXTENDS CloudModelSync, TLAPS

\* The condition of the theorems.  Without the modeler, which takes the model
\* back to what it saw: an event is posted before the queue releases the
\* creation of its component, and a drain that finds it under way still finds
\* the blacklist entry of its component.
Timely ==
    /\ ~Modeling
    /\ MaxDelay < Durations.shortlived
    /\ MaxDelay + DrainEvery <= Durations.blacklist

-----------------------------------------------------------------------------
(* What is under way, component by component. *)

Kinds == {"create", "update", "delete"}

Events == [id : Components, kind : Kinds, version : 0..Versions, sent : Nat]

Sent == {wire[i] : i \in DOMAIN wire}

About(c) == \E e \in Sent : e.id = c

On(c, kind) == \E e \in Sent : e.id = c /\ e.kind = kind

Holding(c) == c \in DOMAIN held_objmaps

Adding(c) == Holding(c) /\ held_objmaps[c].objmap.add

Removing(c) == Holding(c) /\ held_objmaps[c].objmap.remove

Barred(c) == c \in DOMAIN blacklisted_components

Released == maps.A \cup maps.C

Underway(c) == \E m \in Released : m.id = c

Bringing(c) == \E m \in Released : m.id = c /\ m.add

Taking(c) == \E m \in Released : m.id = c /\ m.remove

Present(c) == model[c] # Absent

\* The i-th event of the wire is the last one about its component.
IsLast(i) == \A j \in DOMAIN wire : j > i => wire[j].id # wire[i].id

-----------------------------------------------------------------------------
(* The inductive invariant. *)

Attributes == {Queue!NoAttrs} \cup {Report(n) : n \in 0..Versions}

\* A map about a component reports its version, unless it removes it.
ObjMaps ==
    {m \in [id : Components, add : BOOLEAN, remove : BOOLEAN, update : BOOLEAN,
            attrs : Attributes] :
        m.remove \/ (m.update /\ \E n \in 0..Versions : m.attrs = Report(n))}

TypeInv ==
    /\ now \in Nat /\ lastDrain \in Nat /\ lost \in Nat /\ reorders \in Nat
    /\ settings = Durations
    /\ snapshot = <<>>
    /\ sending \in BOOLEAN
    /\ ~sending => maps = Queue!NoMaps
    /\ wire \in Seq(Events)
    /\ cloud \in [Components -> [state : {"new", "live", "gone"}, version : 0..Versions]]
    /\ model \in [Components -> 0..Versions \cup {Absent}]
    /\ DOMAIN held_objmaps \subseteq Components
    /\ \A c \in DOMAIN held_objmaps :
           /\ held_objmaps[c].first \in Nat
           /\ held_objmaps[c].objmap \in ObjMaps
           /\ held_objmaps[c].objmap.id = c
    /\ DOMAIN blacklisted_components \subseteq Components
    /\ \A c \in DOMAIN blacklisted_components : blacklisted_components[c] \in Nat
    /\ \A m \in Released : m \in ObjMaps
    /\ \A m, n \in Released : m.id = n.id => m = n

\* The clock does not run away from the events and the map task.
TimeInv ==
    /\ \A e \in Sent : e.sent <= now /\ now <= e.sent + MaxDelay
    /\ lastDrain <= now /\ now <= lastDrain + DrainEvery

\* An event that creates a component is no younger than what is held for it.
FirstInv ==
    \A e \in Sent :
        e.kind = "create" /\ Holding(e.id) => e.sent <= held_objmaps[e.id].first

\* The blacklist outlives every event about its components.
BarInv ==
    \A c \in DOMAIN blacklisted_components :
        /\ \A e \in Sent : e.id = c => e.sent <= blacklisted_components[c]
        /\ Holding(c) => lastDrain <= blacklisted_components[c] + MaxDelay
        /\ \A m \in Released : m.id = c => m.remove

\* Nothing is known of a component before it exists.
NewAt(c) ==
    cloud[c].state = "new" =>
        ~About(c) /\ ~Holding(c) /\ ~Barred(c) /\ ~Underway(c) /\ ~Present(c)

\* Whatever removes a component says the truth.
GoneAt(c) ==
    (On(c, "delete") \/ Removing(c) \/ Barred(c) \/ Taking(c)) => cloud[c].state = "gone"

\* Once the creation of a component has left the queue, no other one comes.
OnceAt(c) == Present(c) \/ Bringing(c) => ~On(c, "create") /\ ~Adding(c)

\* A component that exists is in the model or on its way there.
LiveAt(c) ==
    cloud[c].state = "live" => On(c, "create") \/ Adding(c) \/ Bringing(c) \/ Present(c)

\* A component that does not exist any more is not in the model, or its removal
\* is on its way there; after that nothing brings it back.
DeadAt(c) ==
    /\ Barred(c) => ~Present(c) \/ Underway(c)
    /\ cloud[c].state = "gone" =>
           \/ On(c, "delete") \/ Removing(c) \/ Barred(c)
           \/ /\ ~About(c) /\ ~Holding(c)
              /\ ~Present(c) \/ Underway(c)
              /\ \A m \in Released : m.id = c => m.remove

\* With every event in its place, the last one to arrive has the last word: an
\* update never overtakes the creation, and the version goes from the wire to
\* the queue, from there to the map task and on to the model.
VersionAt(c) ==
    cloud[c].state = "live" =>
        /\ \A i \in DOMAIN wire :
               wire[i].id = c /\ IsLast(i) => wire[i].version = cloud[c].version
        /\ \A i, j \in DOMAIN wire :
               j < i /\ wire[i].id = c /\ wire[i].kind = "create" => wire[j].id # c
        /\ Holding(c) /\ ~Adding(c) => Bringing(c) \/ Present(c)
        /\ \A m \in Released : m.id = c /\ ~m.add => Present(c)
        /\ ~About(c) =>
               /\ Holding(c) => held_objmaps[c].objmap.attrs["version"] = cloud[c].version
               /\ ~Holding(c) =>
                      /\ \A m \in Released : m.id = c => m.attrs["version"] = cloud[c].version
                      /\ ~Underway(c) => model[c] = cloud[c].version

InvAt(c) ==
    /\ NewAt(c) /\ GoneAt(c) /\ OnceAt(c)
    /\ lost = 0 => LiveAt(c) /\ DeadAt(c)
    /\ lost = 0 /\ reorders = 0 => VersionAt(c)

SyncInv ==
    /\ TypeInv /\ TimeInv /\ FirstInv /\ BarInv
    /\ \A c \in Components : InvAt(c)

-----------------------------------------------------------------------------
(* Lemmas about the wire. *)

\* What is left of the wire when an event is taken out.
LEMMA DroppedEvents ==
    ASSUME wire \in Seq(Events), NEW i \in DOMAIN wire, wire' = Dropped(wire, i)
    PROVE  /\ wire' \in Seq(Events)
           /\ Sent' \subseteq Sent
           /\ Sent \subseteq Sent' \cup {wire[i]}
<1> DEFINE N == Len(wire)
<1>1. N \in Nat /\ i \in 1..N /\ DOMAIN wire = 1..N
  OBVIOUS
<1>2. /\ wire' \in Seq(Events)
      /\ Len(wire') = N - 1
      /\ \A k \in 1..(N - 1) : wire'[k] = IF k < i THEN wire[k] ELSE wire[k + 1]
  <2> DEFINE before == SubSeq(wire, 1, i - 1)   after == SubSeq(wire, i + 1, N)
  <2>1. /\ before \in Seq(Events) /\ Len(before) = i - 1
        /\ \A k \in 1..(i - 1) : before[k] = wire[k]
    BY <1>1
  <2>2. /\ after \in Seq(Events) /\ Len(after) = N - i
        /\ \A k \in 1..(N - i) : after[k] = wire[k + i]
    BY <1>1
  <2>3. wire' = before \o after
    BY DEF Dropped
  <2> HIDE DEF before, after, N
  <2>4. wire' \in Seq(Events) /\ Len(wire') = N - 1
    <3>1. wire' \in Seq(Events)
      BY <2>1, <2>2, <2>3
    <3>2. Len(wire') = Len(before) + Len(after)
      BY <2>1, <2>2, <2>3
    <3> QED
      BY <1>1, <2>1, <2>2, <3>1, <3>2
  <2>5. ASSUME NEW k \in 1..(N - 1)
        PROVE  wire'[k] = IF k < i THEN wire[k] ELSE wire[k + 1]
    <3>1. CASE k < i
      <4>1. k \in 1..(i - 1) /\ k \in 1..Len(before)
        BY <1>1, <2>1, <3>1
      <4>2. wire'[k] = before[k]
        BY <2>1, <2>2, <2>3, <4>1
      <4> QED
        BY <2>1, <3>1, <4>1, <4>2
    <3>2. CASE ~(k < i)
      <4>1. k - (i - 1) \in 1..(N - i) /\ (k - (i - 1)) + i = k + 1
        BY <1>1, <3>2
      <4>2. wire'[k] = after[k - (i - 1)]
        BY <1>1, <2>1, <2>2, <2>3, <3>2
      <4> QED
        BY <2>2, <3>2, <4>1, <4>2
    <3> QED
      BY <3>1, <3>2
  <2> QED
    BY <2>4, <2>5
<1>3. DOMAIN wire' = 1..(N - 1)
  BY <1>1, <1>2
<1>4. ASSUME NEW e \in Sent' PROVE e \in Sent
  <2>1. PICK k \in 1..(N - 1) : e = wire'[k]
    BY <1>3 DEF Sent
  <2>2. k \in 1..N /\ k + 1 \in 1..N
    BY <1>1
  <2> QED
    BY <1>1, <1>2, <2>1, <2>2 DEF Sent
<1>5. ASSUME NEW e \in Sent PROVE e \in Sent' \/ e = wire[i]
  <2>1. PICK k \in 1..N : e = wire[k]
    BY <1>1 DEF Sent
  <2>2. CASE k = i
    BY <2>1, <2>2
  <2>3. CASE k < i
    <3>1. k \in 1..(N - 1)
      BY <1>1, <2>3
    <3> QED
      BY <1>2, <1>3, <2>1, <2>3, <3>1 DEF Sent
  <2>4. CASE k > i
    <3>1. k - 1 \in 1..(N - 1) /\ ~(k - 1 < i) /\ (k - 1) + 1 = k
      BY <1>1, <2>4
    <3>2. wire'[k - 1] = e
      BY <1>2, <2>1, <3>1
    <3> QED
      BY <1>3, <3>1, <3>2 DEF Sent
  <2> QED
    BY <1>1, <2>2, <2>3, <2>4
<1> QED
  BY <1>2, <1>4, <1>5

\* Taking the first event leaves the others in their order.
LEMMA DroppedFirst ==
    ASSUME wire \in Seq(Events), 1 \in DOMAIN wire, wire' = Dropped(wire, 1)
    PROVE  /\ \A k \in DOMAIN wire' : k + 1 \in DOMAIN wire /\ wire'[k] = wire[k + 1]
           /\ \A j \in DOMAIN wire : j > 1 => j - 1 \in DOMAIN wire'
<1> DEFINE N == Len(wire)
<1>1. N \in Nat /\ DOMAIN wire = 1..N /\ N >= 1
  OBVIOUS
<1>2. /\ Len(wire') = N - 1
      /\ wire' \in Seq(Events)
      /\ \A k \in 1..(N - 1) : wire'[k] = wire[k + 1]
  BY <1>1 DEF Dropped
<1>3. DOMAIN wire' = 1..(N - 1)
  BY <1>1, <1>2
<1> QED
  BY <1>1, <1>2, <1>3

\* A notification is the last event of the wire.
LEMMA NotifiedEvents ==
    ASSUME wire \in Seq(Events), NEW e \in Events, Notify(e)
    PROVE  /\ wire' \in Seq(Events)
           /\ Sent' = Sent \cup {e}
           /\ Len(wire) \in Nat /\ DOMAIN wire = 1..Len(wire)
           /\ DOMAIN wire' = 1..(Len(wire) + 1)
           /\ \A k \in 1..Len(wire) : wire'[k] = wire[k]
           /\ wire'[Len(wire) + 1] = e
<1>1. /\ wire' \in Seq(Events)
      /\ Len(wire) \in Nat /\ DOMAIN wire = 1..Len(wire)
      /\ DOMAIN wire' = 1..(Len(wire) + 1)
      /\ \A k \in 1..Len(wire) : wire'[k] = wire[k]
      /\ wire'[Len(wire) + 1] = e
  BY DEF Notify
<1>2. Sent' = Sent \cup {e}
  BY <1>1 DEF Sent
<1> QED
  BY <1>1, <1>2

-----------------------------------------------------------------------------
(* What the actions on the queue and on the model do. *)

\* The map of an event is about the event's component.
LEMMA EventMap ==
    ASSUME NEW e \in Events
    PROVE  /\ MapEvent(e) \in ObjMaps
           /\ MapEvent(e).id = e.id
           /\ MapEvent(e).add <=> e.kind = "create"
           /\ MapEvent(e).remove <=> e.kind = "delete"
           /\ e.kind # "delete" => MapEvent(e).attrs = Report(e.version)
<1>1. e.kind \in Kinds /\ e.id \in Components /\ e.version \in 0..Versions
  BY DEF Events
<1>2. CASE e.kind = "create"
  BY <1>1, <1>2 DEF MapEvent, Queue!CreateMap, ObjMaps, Attributes
<1>3. CASE e.kind = "update"
  BY <1>1, <1>3 DEF MapEvent, Queue!UpdateMap, ObjMaps, Attributes
<1>4. CASE e.kind = "delete"
  BY <1>1, <1>4 DEF MapEvent, Queue!RemoveMap, ObjMaps, Attributes
<1> QED
  BY <1>1, <1>2, <1>3, <1>4 DEF Kinds

\* Merging two maps of a component.
LEMMA OverlaidMap ==
    ASSUME NEW old \in ObjMaps, NEW new \in ObjMaps
    PROVE  /\ Queue!Overlay(old, new) \in ObjMaps
           /\ Queue!Overlay(old, new).id = old.id
           /\ Queue!Overlay(old, new).add <=> old.add \/ new.add
           /\ Queue!Overlay(old, new).remove <=> old.remove \/ new.remove
           /\ \A n \in 0..Versions :
                  new.attrs = Report(n) => Queue!Overlay(old, new).attrs = Report(n)
<1> DEFINE merged == Queue!Overlay(old, new)
<1>1. /\ merged.id = old.id
      /\ merged.add = (old.add \/ new.add)
      /\ merged.remove = (old.remove \/ new.remove)
      /\ merged.update = (old.update \/ new.update)
      /\ merged = [id |-> merged.id, add |-> merged.add, remove |-> merged.remove,
                   update |-> merged.update, attrs |-> merged.attrs]
      /\ merged.attrs = [k \in DOMAIN new.attrs \cup DOMAIN old.attrs |->
                            IF k \in DOMAIN new.attrs THEN new.attrs[k] ELSE old.attrs[k]]
  BY DEF Queue!Overlay
<1>2. old.attrs \in Attributes /\ new.attrs \in Attributes
  BY DEF ObjMaps
<1>3. ASSUME NEW n \in 0..Versions, new.attrs = Report(n)
      PROVE  merged.attrs = Report(n)
  <2>1. DOMAIN old.attrs \subseteq {"version"}
    BY <1>2 DEF Attributes, Report, Queue!NoAttrs
  <2>2. DOMAIN new.attrs = {"version"} /\ new.attrs["version"] = n
    BY <1>3 DEF Report
  <2> HIDE DEF merged
  <2> QED
    BY <1>1, <2>1, <2>2 DEF Report
<1>4. ASSUME new.attrs = Queue!NoAttrs
      PROVE  merged.attrs = old.attrs
  <2>1. DOMAIN new.attrs = {}
    BY <1>4 DEF Queue!NoAttrs
  <2>2. old.attrs = [k \in DOMAIN old.attrs |-> old.attrs[k]]
    BY <1>2 DEF Attributes, Report, Queue!NoAttrs
  <2> HIDE DEF merged
  <2> QED
    BY <1>1, <2>1, <2>2
<1>5. merged.attrs \in Attributes
  BY <1>2, <1>3, <1>4 DEF Attributes
<1> HIDE DEF merged
<1>6. old.add \in BOOLEAN /\ old.remove \in BOOLEAN /\ old.update \in BOOLEAN /\ old.id \in Components
      /\ new.add \in BOOLEAN /\ new.remove \in BOOLEAN /\ new.update \in BOOLEAN
  BY DEF ObjMaps
<1>7. merged \in [id : Components, add : BOOLEAN, remove : BOOLEAN, update : BOOLEAN,
                  attrs : Attributes]
  BY <1>1, <1>5, <1>6
<1>8. ~merged.remove => merged.update /\ \E n \in 0..Versions : merged.attrs = Report(n)
  BY <1>1, <1>3, <1>6 DEF ObjMaps
<1> QED
  BY <1>1, <1>3, <1>6, <1>7, <1>8 DEF ObjMaps, merged

\* An event that is posted is merged into what the queue holds for its component.
LEMMA Appended ==
    ASSUME TypeInv, NEW e \in Sent, Queue!AppendMap(MapEvent(e))
    PROVE  /\ e \in Events
           /\ DOMAIN held_objmaps' = DOMAIN held_objmaps \cup {e.id}
           /\ \A c \in DOMAIN held_objmaps \ {e.id} : held_objmaps'[c] = held_objmaps[c]
           /\ held_objmaps'[e.id].objmap \in ObjMaps
           /\ held_objmaps'[e.id].objmap.id = e.id
           /\ held_objmaps'[e.id].objmap.add <=> Adding(e.id) \/ e.kind = "create"
           /\ held_objmaps'[e.id].objmap.remove <=> Removing(e.id) \/ e.kind = "delete"
           /\ e.kind # "delete" => held_objmaps'[e.id].objmap.attrs["version"] = e.version
           /\ held_objmaps'[e.id].first =
                  IF Holding(e.id) THEN held_objmaps[e.id].first ELSE now
           /\ now' = now /\ settings' = settings
           /\ blacklisted_components' = blacklisted_components
<1> DEFINE new == MapEvent(e)
           old == held_objmaps[e.id].objmap
<1>1. e \in Events
  BY DEF TypeInv, Sent
<1>2. /\ new \in ObjMaps /\ new.id = e.id
      /\ new.add <=> e.kind = "create"
      /\ new.remove <=> e.kind = "delete"
      /\ e.kind # "delete" => new.attrs = Report(e.version)
  BY <1>1, EventMap
<1>3. e.version \in 0..Versions
  BY <1>1 DEF Events
<1>4. Report(e.version)["version"] = e.version
  BY DEF Report
<1> HIDE DEF new
<1>5. /\ DOMAIN held_objmaps' = DOMAIN held_objmaps \cup {e.id}
      /\ \A c \in DOMAIN held_objmaps \ {e.id} : held_objmaps'[c] = held_objmaps[c]
      /\ held_objmaps'[e.id] = Queue!Stored(new)
      /\ now' = now /\ settings' = settings
      /\ blacklisted_components' = blacklisted_components
  BY <1>2 DEF Queue!AppendMap, new
<1>6. CASE Holding(e.id)
  <2>1. old \in ObjMaps /\ old.id = e.id
    BY <1>6 DEF TypeInv, Holding
  <2>2. Queue!Stored(new) = [first |-> held_objmaps[e.id].first, objmap |-> Queue!Overlay(old, new)]
    BY <1>2, <1>6 DEF Queue!Stored, Holding
  <2>3. /\ held_objmaps'[e.id].first = held_objmaps[e.id].first
        /\ held_objmaps'[e.id].objmap = Queue!Overlay(old, new)
    BY <1>5, <2>2
  <2>4. /\ Queue!Overlay(old, new) \in ObjMaps
        /\ Queue!Overlay(old, new).id = old.id
        /\ Queue!Overlay(old, new).add <=> old.add \/ new.add
        /\ Queue!Overlay(old, new).remove <=> old.remove \/ new.remove
        /\ \A n \in 0..Versions :
               new.attrs = Report(n) => Queue!Overlay(old, new).attrs = Report(n)
    BY <1>2, <2>1, OverlaidMap
  <2>5. (old.add <=> Adding(e.id)) /\ (old.remove <=> Removing(e.id))
    BY <1>6 DEF Adding, Removing
  <2> HIDE DEF old
  <2> QED
    BY <1>1, <1>2, <1>3, <1>4, <1>5, <1>6, <2>1, <2>3, <2>4, <2>5
<1>7. CASE ~Holding(e.id)
  <2>1. Queue!Stored(new) = [first |-> now, objmap |-> new]
    BY <1>2, <1>7 DEF Queue!Stored, Holding
  <2>2. held_objmaps'[e.id].first = now /\ held_objmaps'[e.id].objmap = new
    BY <1>5, <2>1
  <2> QED
    BY <1>1, <1>2, <1>4, <1>5, <1>7, <2>2 DEF Adding, Removing
<1> QED
  BY <1>6, <1>7

\* The maps of a released set of maps: none refers to another component, so
\* none is split.
LEMMA WholeMaps ==
    ASSUME NEW M, \A c \in DOMAIN M : M[c] \in ObjMaps
    PROVE  Queue!Groups(M).A \cup Queue!Groups(M).C = {M[c] : c \in DOMAIN M}
<1>1. ASSUME NEW c \in DOMAIN M PROVE Queue!Stripped(M, c) = M[c]
  <2>1. Queue!MovedRefs(M, c) = {}
    BY DEF Queue!MovedRefs
  <2>2. M[c].attrs \in Attributes
    BY DEF ObjMaps
  <2>3. M[c].attrs = [k \in DOMAIN M[c].attrs |-> M[c].attrs[k]]
    BY <2>2 DEF Attributes, Report, Queue!NoAttrs
  <2>4. Queue!Restriction(M[c].attrs, DOMAIN M[c].attrs \ Queue!MovedRefs(M, c)) = M[c].attrs
    BY <2>1, <2>3 DEF Queue!Restriction
  <2>5. Queue!Stripped(M, c) = [M[c] EXCEPT !.attrs = M[c].attrs]
    BY <2>4 DEF Queue!Stripped
  <2>6. M[c] \in [id : Components, add : BOOLEAN, remove : BOOLEAN, update : BOOLEAN,
                  attrs : Attributes]
    BY DEF ObjMaps
  <2> QED
    BY <2>5, <2>6
<1>2. Queue!Groups(M).A = {Queue!Stripped(M, c) : c \in Queue!Creating(M)}
  BY DEF Queue!Groups
<1>3. Queue!Groups(M).C = {M[c] : c \in DOMAIN M \ Queue!Creating(M)}
  BY DEF Queue!Groups
<1>4. Queue!Creating(M) \subseteq DOMAIN M
  BY DEF Queue!Creating
<1> QED
  BY <1>1, <1>2, <1>3, <1>4

\* What a drain releases, keeps and bars.
LEMMA Drained ==
    ASSUME TypeInv, DrainQueue
    PROVE  /\ Released = {}
           /\ Released' = {held_objmaps[c].objmap : c \in Queue!Ready}
           /\ Queue!Ready \subseteq DOMAIN held_objmaps \ DOMAIN held_objmaps'
           /\ \A c \in Queue!Ready :
                  /\ ~(Adding(c) /\ Removing(c))
                  /\ Adding(c) => held_objmaps[c].first + Durations.shortlived <= now
                  /\ Barred(c)' => ~Adding(c) /\ Removing(c)
           /\ DOMAIN held_objmaps' \subseteq DOMAIN held_objmaps
           /\ \A c \in DOMAIN held_objmaps' :
                  held_objmaps'[c] = held_objmaps[c] /\ ~Barred(c)'
           /\ \A c \in DOMAIN held_objmaps : Holding(c)' \/ c \in Queue!Ready \/ Barred(c)'
           /\ \A c \in DOMAIN blacklisted_components' :
                  \/ /\ Barred(c) /\ blacklisted_components'[c] = blacklisted_components[c]
                     /\ c \notin Queue!Ready
                  \/ /\ Removing(c) /\ blacklisted_components'[c] = now
                     /\ (Adding(c) /\ c \notin Queue!Ready) \/ (~Adding(c) /\ c \in Queue!Ready)
           /\ \A c \in DOMAIN blacklisted_components :
                  Barred(c)' \/ blacklisted_components[c] + Durations.blacklist < now
           /\ \A c \in DOMAIN held_objmaps : Removing(c) => Barred(c)'
           /\ now' = now /\ lastDrain' = now /\ settings' = settings
<1>1. Released = {}
  BY DEF DrainQueue, TypeInv, Released, Queue!NoMaps
<1>2. Released' = {held_objmaps[c].objmap : c \in Queue!Ready}
  <2> DEFINE M == [c \in Queue!Ready |-> held_objmaps[c].objmap]
  <2>1. \A c \in DOMAIN M : M[c] \in ObjMaps
    BY DEF TypeInv, Queue!Ready, Queue!Kept
  <2>2. maps' = Queue!Groups(M)
    BY DEF DrainQueue, Queue!Drain
  <2>3. DOMAIN M = Queue!Ready /\ \A c \in Queue!Ready : M[c] = held_objmaps[c].objmap
    OBVIOUS
  <2> HIDE DEF M
  <2>4. Released' = {M[c] : c \in DOMAIN M}
    BY <2>1, <2>2, WholeMaps DEF Released
  <2> QED
    BY <2>3, <2>4
<1>3. /\ DOMAIN held_objmaps' = Queue!Kept \ Queue!Ready
      /\ \A c \in Queue!Kept \ Queue!Ready : held_objmaps'[c] = held_objmaps[c]
      /\ DOMAIN blacklisted_components' = Queue!Blacklist \cup Queue!Shortlived \cup Queue!Deleted
      /\ \A c \in DOMAIN blacklisted_components' :
             blacklisted_components'[c] = IF c \in Queue!Shortlived \cup Queue!Deleted THEN now
                                          ELSE blacklisted_components[c]
      /\ now' = now /\ lastDrain' = now /\ settings' = settings
  BY DEF DrainQueue, Queue!Drain, Queue!Restriction
<1>4. /\ Queue!Kept = DOMAIN held_objmaps \ (Queue!Blacklist \cup Queue!Shortlived)
      /\ Queue!Ready \subseteq Queue!Kept
      /\ \A c \in DOMAIN held_objmaps : c \in Queue!Shortlived <=> Adding(c) /\ Removing(c)
      /\ Queue!Shortlived \subseteq DOMAIN held_objmaps
      /\ \A c \in Queue!Kept : c \in Queue!Deleted <=> Removing(c) /\ ~Adding(c)
      /\ Queue!Deleted \subseteq Queue!Kept
      /\ Queue!Blacklist \subseteq DOMAIN blacklisted_components
  BY DEF Queue!Kept, Queue!Ready, Queue!Shortlived, Queue!Deleted, Queue!Blacklist,
         Adding, Removing, Holding
<1>5. Queue!Deleted \subseteq Queue!Ready
  <2>1. ASSUME NEW c \in Queue!Deleted PROVE Queue!ReleaseTime(c) = now
    BY DEF Queue!ReleaseTime, Queue!Deleted
  <2> QED
    BY <1>4, <2>1 DEF Queue!Ready, TypeInv
<1>6. ASSUME NEW c \in Queue!Ready, Adding(c)
      PROVE  held_objmaps[c].first + Durations.shortlived <= now
  <2>1. held_objmaps[c].objmap.add
    BY <1>6 DEF Adding
  <2>2. Queue!ReleaseTime(c) = held_objmaps[c].first + settings.shortlived
    BY <2>1 DEF Queue!ReleaseTime, Queue!Deleted
  <2> QED
    BY <2>2 DEF Queue!Ready, TypeInv
<1>7. ASSUME NEW c \in DOMAIN blacklisted_components, c \notin Queue!Blacklist
      PROVE  blacklisted_components[c] + Durations.blacklist < now
  <2>1. /\ blacklisted_components[c] \in Nat /\ now \in Nat /\ Durations.blacklist \in Nat
        /\ ~(now - blacklisted_components[c] <= Durations.blacklist)
    BY <1>7, BoundsAssumption DEF TypeInv, Queue!Blacklist
  <2> QED
    BY ONLY <2>1
<1>8. \A c \in DOMAIN held_objmaps : Holding(c)' \/ c \in Queue!Ready \/ Barred(c)'
  BY <1>3, <1>4 DEF Holding, Barred
<1>9. \A c \in DOMAIN held_objmaps : Removing(c) => Barred(c)'
  BY <1>3, <1>4 DEF Barred
<1>10. \A c \in DOMAIN held_objmaps' : ~Barred(c)'
  BY <1>3, <1>4, <1>5 DEF Barred
<1>11. ASSUME NEW c \in Queue!Ready
       PROVE  ~(Adding(c) /\ Removing(c)) /\ (Barred(c)' => ~Adding(c) /\ Removing(c))
  BY <1>3, <1>4 DEF Barred
<1>12. ASSUME NEW c \in DOMAIN blacklisted_components'
       PROVE  \/ /\ Barred(c) /\ blacklisted_components'[c] = blacklisted_components[c]
                 /\ c \notin Queue!Ready
              \/ /\ Removing(c) /\ blacklisted_components'[c] = now
                 /\ (Adding(c) /\ c \notin Queue!Ready) \/ (~Adding(c) /\ c \in Queue!Ready)
  <2>1. CASE c \in Queue!Shortlived
    <3>1. c \notin Queue!Ready /\ Adding(c) /\ Removing(c)
      BY <1>4, <2>1
    <3>2. blacklisted_components'[c] = now
      BY <1>3, <2>1
    <3> QED
      BY <3>1, <3>2
  <2>2. CASE c \in Queue!Deleted
    BY <1>3, <1>4, <1>5, <2>2
  <2>3. CASE c \notin Queue!Shortlived \cup Queue!Deleted
    BY <1>3, <1>4, <2>3 DEF Barred
  <2> QED
    BY <2>1, <2>2, <2>3
<1>13. \A c \in DOMAIN blacklisted_components :
           Barred(c)' \/ blacklisted_components[c] + Durations.blacklist < now
  BY <1>3, <1>7 DEF Barred
<1> QED
  BY <1>1, <1>2, <1>3, <1>4, <1>6, <1>8, <1>9, <1>10, <1>11, <1>12, <1>13

\* What applyDataMaps makes of a component.
LEMMA AppliedMaps ==
    ASSUME TypeInv, NEW c \in Components
    PROVE  /\ ~Underway(c) => Applied(c) = model[c]
           /\ \A m \in Released : m.id = c =>
                  /\ m.remove => Applied(c) = Absent
                  /\ ~m.remove => /\ m.attrs["version"] \in 0..Versions
                                  /\ Applied(c) = IF m.add \/ Present(c)
                                                  THEN m.attrs["version"] ELSE Absent
<1> DEFINE mine == {m \in maps.A \cup maps.C : m.id = c}
<1>1. CASE mine = {}
  BY <1>1 DEF Applied, Underway, Released
<1>2. ASSUME NEW m \in Released, m.id = c
      PROVE  /\ Underway(c)
             /\ m.remove => Applied(c) = Absent
             /\ ~m.remove => /\ m.attrs["version"] \in 0..Versions
                             /\ Applied(c) = IF m.add \/ Present(c)
                                             THEN m.attrs["version"] ELSE Absent
  <2>1. mine = {m}
    BY <1>2 DEF TypeInv, Released
  <2>2. (CHOOSE x \in mine : TRUE) = m
    BY <2>1
  <2>3. m \in ObjMaps
    BY DEF TypeInv
  <2>4. ~m.remove => m.update /\ m.attrs["version"] \in 0..Versions
    BY <2>3 DEF ObjMaps, Report
  <2>5. Applied(c) = CASE m.remove -> Absent
                       [] ~m.remove /\ m.update /\ ~m.add /\ model[c] = Absent -> Absent
                       [] OTHER -> m.attrs["version"]
    BY <2>1, <2>2 DEF Applied
  <2> HIDE DEF mine
  <2>6. m.remove \in BOOLEAN /\ m.add \in BOOLEAN /\ m.update \in BOOLEAN
    BY <2>3 DEF ObjMaps
  <2> QED
    BY <1>2, <2>4, <2>5, <2>6 DEF Underway, Present
<1> QED
  BY <1>1, <1>2 DEF Underway, Released

-----------------------------------------------------------------------------
(* Types, which do not depend on how long anything takes. *)

LEMMA InitType == Init => TypeInv
<1> SUFFICES ASSUME Init PROVE TypeInv
  OBVIOUS
<1>1. /\ now = 0 /\ settings = Durations /\ DOMAIN held_objmaps = {}
      /\ DOMAIN blacklisted_components = {}
  BY DEF Init, Queue!Init, Queue!NoAttrs
<1>2. wire = <<>> /\ Released = {} /\ maps = Queue!NoMaps
  BY DEF Init, Released, Queue!NoMaps
<1>3. /\ cloud = [c \in Components |-> [state |-> "new", version |-> 0]]
      /\ model = [c \in Components |-> Absent]
      /\ lastDrain = 0 /\ sending = FALSE /\ snapshot = <<>> /\ reorders = 0 /\ lost = 0
  BY DEF Init
<1>4. wire \in Seq(Events)
  BY <1>2
<1>5. cloud \in [Components -> [state : {"new", "live", "gone"}, version : 0..Versions]]
  BY <1>3, BoundsAssumption
<1>6. model \in [Components -> 0..Versions \cup {Absent}]
  BY <1>3
<1> QED
  BY <1>1, <1>2, <1>3, <1>4, <1>5, <1>6 DEF TypeInv

LEMMA NotifiedType ==
    ASSUME TypeInv, NEW e \in Events, Notify(e), QueueUntouched,
           UNCHANGED <<lastDrain, maps, sending, model, snapshot, reorders, lost>>,
           cloud' \in [Components -> [state : {"new", "live", "gone"}, version : 0..Versions]]
    PROVE  TypeInv'
<1>1. wire' \in Seq(Events)
  BY NotifiedEvents DEF TypeInv
<1>2. /\ now' = now /\ held_objmaps' = held_objmaps /\ settings' = settings
      /\ blacklisted_components' = blacklisted_components
      /\ Released' = Released
  BY DEF QueueUntouched, Released
<1> QED
  BY <1>1, <1>2 DEF TypeInv

LEMMA CloudType ==
    ASSUME TypeInv, NEW c \in Components, Create(c) \/ Change(c) \/ Delete(c)
    PROVE  TypeInv'
<1>1. /\ cloud[c] \in [state : {"new", "live", "gone"}, version : 0..Versions]
      /\ now \in Nat
  BY DEF TypeInv
<1>2. CASE Create(c)
  <2>1. Event(c, "create", cloud[c].version) \in Events
    BY <1>1 DEF Event, Events, Kinds
  <2>2. cloud' \in [Components -> [state : {"new", "live", "gone"}, version : 0..Versions]]
    BY <1>1, <1>2 DEF Create, TypeInv
  <2> QED
    BY <1>2, <2>1, <2>2, NotifiedType DEF Create
<1>3. CASE Change(c)
  <2>1. cloud[c].version + 1 \in 0..Versions
    BY <1>1, <1>3, BoundsAssumption DEF Change
  <2>2. Event(c, "update", cloud[c].version + 1) \in Events
    BY <1>1, <2>1 DEF Event, Events, Kinds
  <2>3. cloud' \in [Components -> [state : {"new", "live", "gone"}, version : 0..Versions]]
    BY <1>1, <1>3, <2>1 DEF Change, TypeInv
  <2> QED
    BY <1>3, <2>2, <2>3, NotifiedType DEF Change
<1>4. CASE Delete(c)
  <2>1. Event(c, "delete", cloud[c].version) \in Events
    BY <1>1 DEF Event, Events, Kinds
  <2>2. cloud' \in [Components -> [state : {"new", "live", "gone"}, version : 0..Versions]]
    BY <1>1, <1>4 DEF Delete, TypeInv
  <2> QED
    BY <1>4, <2>1, <2>2, NotifiedType DEF Delete
<1> QED
  BY <1>2, <1>3, <1>4

LEMMA PostedType ==
    ASSUME TypeInv, NEW e \in Sent, Queue!AppendMap(MapEvent(e)),
           wire' \in Seq(Events), reorders' \in Nat,
           UNCHANGED <<lastDrain, cloud, maps, sending, model, snapshot, lost>>
    PROVE  TypeInv'
<1> DEFINE c == e.id
<1>1. /\ e \in Events
      /\ DOMAIN held_objmaps' = DOMAIN held_objmaps \cup {c}
      /\ \A d \in DOMAIN held_objmaps \ {c} : held_objmaps'[d] = held_objmaps[d]
      /\ held_objmaps'[c].objmap \in ObjMaps
      /\ held_objmaps'[c].objmap.id = c
      /\ held_objmaps'[c].first = IF Holding(c) THEN held_objmaps[c].first ELSE now
      /\ now' = now /\ settings' = settings
      /\ blacklisted_components' = blacklisted_components
  BY Appended
<1>2. c \in Components /\ Released' = Released
  BY <1>1 DEF Events, Released
<1> HIDE DEF c
<1>3. held_objmaps'[c].first \in Nat
  BY <1>1 DEF TypeInv, Holding
<1>4. ASSUME NEW d \in DOMAIN held_objmaps', d # c
      PROVE  d \in DOMAIN held_objmaps /\ held_objmaps'[d] = held_objmaps[d]
  BY <1>1, <1>4
<1>5. \A d \in DOMAIN held_objmaps' :
          /\ held_objmaps'[d].first \in Nat
          /\ held_objmaps'[d].objmap \in ObjMaps
          /\ held_objmaps'[d].objmap.id = d
  BY <1>1, <1>3, <1>4 DEF TypeInv
<1>6. DOMAIN held_objmaps' \subseteq Components
  BY <1>1, <1>2 DEF TypeInv
<1> QED
  BY <1>1, <1>2, <1>5, <1>6 DEF TypeInv

LEMMA WireType ==
    ASSUME TypeInv, NEW i \in DOMAIN wire, Post(i) \/ PostAgain(i) \/ Lose(i)
    PROVE  TypeInv'
<1>1. wire \in Seq(Events) /\ reorders \in Nat /\ lost \in Nat /\ wire[i] \in Sent
  BY DEF TypeInv, Sent
<1>2. CASE Post(i)
  <2>1. reorders' \in Nat /\ wire' \in Seq(Events)
    BY <1>1, <1>2, DroppedEvents DEF Post, Overtakes
  <2> QED
    BY <1>1, <1>2, <2>1, PostedType DEF Post
<1>3. CASE PostAgain(i)
  <2>1. reorders' \in Nat /\ wire' \in Seq(Events)
    BY <1>1, <1>3 DEF PostAgain, Overtakes
  <2> QED
    BY <1>1, <1>3, <2>1, PostedType DEF PostAgain
<1>4. CASE Lose(i)
  <2>1. wire' \in Seq(Events) /\ lost' \in Nat
    BY <1>1, <1>4, DroppedEvents DEF Lose
  <2>2. /\ now' = now /\ held_objmaps' = held_objmaps /\ settings' = settings
        /\ blacklisted_components' = blacklisted_components
        /\ UNCHANGED <<lastDrain, cloud, maps, sending, model, snapshot, reorders>>
        /\ Released' = Released
    BY <1>4 DEF Lose, QueueUntouched, Released
  <2> QED
    BY <2>1, <2>2 DEF TypeInv
<1> QED
  BY <1>2, <1>3, <1>4

LEMMA DrainType ==
    ASSUME TypeInv, DrainQueue
    PROVE  TypeInv'
<1>1. /\ Released' = {held_objmaps[c].objmap : c \in Queue!Ready}
      /\ Queue!Ready \subseteq DOMAIN held_objmaps
      /\ DOMAIN held_objmaps' \subseteq DOMAIN held_objmaps
      /\ \A c \in DOMAIN held_objmaps' : held_objmaps'[c] = held_objmaps[c]
      /\ \A c \in DOMAIN blacklisted_components' :
             \/ Barred(c) /\ blacklisted_components'[c] = blacklisted_components[c]
             \/ Removing(c) /\ blacklisted_components'[c] = now
      /\ now' = now /\ lastDrain' = now /\ settings' = settings
  BY Drained
<1>2. UNCHANGED <<cloud, wire, model, snapshot, reorders, lost>>
  BY DEF DrainQueue
<1>3. \A c \in DOMAIN held_objmaps :
          /\ held_objmaps[c].first \in Nat
          /\ held_objmaps[c].objmap \in ObjMaps
          /\ held_objmaps[c].objmap.id = c
          /\ c \in Components
  BY DEF TypeInv
<1>4. DOMAIN blacklisted_components' \subseteq Components
  BY <1>1 DEF TypeInv, Barred, Removing, Holding
<1>5. \A c \in DOMAIN blacklisted_components' : blacklisted_components'[c] \in Nat
  BY <1>1 DEF TypeInv, Barred
<1>6. sending' \in BOOLEAN /\ (~sending' => maps' = Queue!NoMaps)
  BY DEF DrainQueue
<1>7. /\ \A m \in Released' : m \in ObjMaps
      /\ \A m, n \in Released' : m.id = n.id => m = n
  BY <1>1, <1>3
<1>8. /\ DOMAIN held_objmaps' \subseteq Components
      /\ \A c \in DOMAIN held_objmaps' :
             /\ held_objmaps'[c].first \in Nat
             /\ held_objmaps'[c].objmap \in ObjMaps
             /\ held_objmaps'[c].objmap.id = c
  BY <1>1, <1>3
<1> QED
  BY <1>1, <1>2, <1>4, <1>5, <1>6, <1>7, <1>8 DEF TypeInv

LEMMA ApplyType ==
    ASSUME TypeInv, Apply \/ ApplyFails
    PROVE  TypeInv'
<1>1. /\ Released' = {} /\ sending' = FALSE /\ maps' = Queue!NoMaps
      /\ UNCHANGED <<now, settings, held_objmaps, blacklisted_components, lastDrain, cloud,
                     wire, snapshot, reorders>>
      /\ lost' \in Nat
  BY DEF Apply, ApplyFails, QueueUntouched, Released, Queue!NoMaps, TypeInv
<1>2. model' \in [Components -> 0..Versions \cup {Absent}]
  <2>1. CASE Apply
    <3>1. ASSUME NEW c \in Components PROVE Applied(c) \in 0..Versions \cup {Absent}
      <4>1. model[c] \in 0..Versions \cup {Absent}
        BY DEF TypeInv
      <4>2. CASE ~Underway(c)
        BY <4>1, <4>2, AppliedMaps
      <4>3. CASE Underway(c)
        <5>1. PICK m \in Released : m.id = c
          BY <4>3 DEF Underway
        <5> QED
          BY <5>1, AppliedMaps
      <4> QED
        BY <4>2, <4>3
    <3> QED
      BY <2>1, <3>1 DEF Apply
  <2>2. CASE ApplyFails
    BY <2>2 DEF ApplyFails, TypeInv
  <2> QED
    BY <2>1, <2>2
<1> QED
  BY <1>1, <1>2 DEF TypeInv

LEMMA StepType == ~Modeling /\ TypeInv /\ [Next]_vars => TypeInv'
<1> SUFFICES ASSUME ~Modeling, TypeInv, [Next]_vars PROVE TypeInv'
  OBVIOUS
<1>1. CASE \E c \in Components : Create(c) \/ Change(c) \/ Delete(c)
  BY <1>1, CloudType
<1>2. CASE \E i \in DOMAIN wire : Post(i) \/ PostAgain(i) \/ Lose(i)
  BY <1>2, WireType
<1>3. CASE DrainQueue
  BY <1>3, DrainType
<1>4. CASE Apply \/ ApplyFails
  BY <1>4, ApplyType
<1>5. CASE Collect \/ ApplyModel
  BY <1>5 DEF Collect, ApplyModel, TypeInv
<1>6. CASE Tick
  <2>1. /\ now' = now + 1
        /\ UNCHANGED <<settings, held_objmaps, blacklisted_components, lastDrain, cloud, wire,
                       maps, sending, model, snapshot, reorders, lost>>
        /\ Released' = Released
    BY <1>6 DEF Tick, Queue!Tick, Released
  <2> QED
    BY <2>1 DEF TypeInv
<1>7. CASE UNCHANGED vars
  <2>1. Released' = Released
    BY <1>7 DEF vars, Released
  <2> QED
    BY <1>7, <2>1 DEF vars, TypeInv
<1> QED
  BY <1>1, <1>2, <1>3, <1>4, <1>5, <1>6, <1>7 DEF Next

-----------------------------------------------------------------------------
(* The invariant holds initially, and the cloud preserves it. *)

LEMMA InitSync == Init => SyncInv
<1> SUFFICES ASSUME Init PROVE SyncInv
  OBVIOUS
<1>1. /\ now = 0 /\ lastDrain = 0 /\ Sent = {} /\ Released = {} /\ DOMAIN wire = {}
      /\ DOMAIN held_objmaps = {} /\ DOMAIN blacklisted_components = {}
  BY DEF Init, Queue!Init, Queue!NoAttrs, Sent, Released, Queue!NoMaps
<1>2. /\ cloud = [c \in Components |-> [state |-> "new", version |-> 0]]
      /\ model = [c \in Components |-> Absent]
  BY DEF Init
<1>3. TimeInv
  BY <1>1, BoundsAssumption DEF TimeInv
<1>4. FirstInv /\ BarInv
  BY <1>1 DEF FirstInv, BarInv
<1>5. ASSUME NEW c \in Components PROVE InvAt(c)
  BY <1>1, <1>2 DEF InvAt, NewAt, GoneAt, OnceAt, LiveAt, DeadAt, VersionAt, About, On,
     Holding, Adding, Removing, Barred, Underway, Bringing, Taking, Present
<1> QED
  BY <1>3, <1>4, <1>5, InitType DEF SyncInv

\* The order of the wire after a notification: the new event is the last one
\* about its component, and nothing changes for the others.
LEMMA NotifiedOrder ==
    ASSUME wire \in Seq(Events), NEW e \in Events, Notify(e)
    PROVE  /\ \A i \in DOMAIN wire' : IsLast(i)' /\ wire'[i].id = e.id => wire'[i] = e
           /\ \A i \in DOMAIN wire' : IsLast(i)' /\ wire'[i].id # e.id =>
                  i \in DOMAIN wire /\ wire[i] = wire'[i] /\ IsLast(i)
           /\ \A i, j \in DOMAIN wire' : j < i =>
                  /\ j \in DOMAIN wire /\ wire'[j] = wire[j]
                  /\ \/ i \in DOMAIN wire /\ wire'[i] = wire[i]
                     \/ wire'[i] = e
<1> DEFINE N == Len(wire)
<1>1. /\ N \in Nat /\ DOMAIN wire = 1..N /\ DOMAIN wire' = 1..(N + 1)
      /\ \A k \in 1..N : wire'[k] = wire[k]
      /\ wire'[N + 1] = e
  BY NotifiedEvents
<1> HIDE DEF N
<1>2. \A i \in 1..(N + 1) : i \in 1..N \/ i = N + 1
  BY <1>1
<1>3. ASSUME NEW i \in DOMAIN wire', IsLast(i)', wire'[i].id = e.id PROVE wire'[i] = e
  <2>1. CASE i \in 1..N
    <3>1. N + 1 \in DOMAIN wire' /\ N + 1 > i
      BY <1>1, <2>1
    <3> QED
      BY <1>1, <1>3, <3>1 DEF IsLast
  <2> QED
    BY <1>1, <1>2, <2>1
<1>4. ASSUME NEW i \in DOMAIN wire', IsLast(i)', wire'[i].id # e.id
      PROVE  i \in DOMAIN wire /\ wire[i] = wire'[i] /\ IsLast(i)
  <2>1. i \in 1..N
    BY <1>1, <1>2, <1>4
  <2>2. 1..N \subseteq DOMAIN wire'
    BY <1>1
  <2> QED
    BY <1>1, <1>4, <2>1, <2>2 DEF IsLast
<1>5. ASSUME NEW i \in DOMAIN wire', NEW j \in DOMAIN wire', j < i
      PROVE  /\ j \in DOMAIN wire /\ wire'[j] = wire[j]
             /\ \/ i \in DOMAIN wire /\ wire'[i] = wire[i]
                \/ wire'[i] = e
  <2>1. j \in 1..N
    BY <1>1, <1>5
  <2> QED
    BY <1>1, <1>2, <2>1
<1> QED
  BY <1>3, <1>4, <1>5

\* A notification about a component that is not gone.
LEMMA Notified ==
    ASSUME SyncInv, TypeInv', NEW c \in Components, NEW kind \in Kinds, NEW n \in 0..Versions,
           cloud[c].state \in {"new", "live"},
           kind = "create" => cloud[c].state = "new",
           Notify(Event(c, kind, n)), QueueUntouched,
           UNCHANGED <<lastDrain, maps, sending, model, snapshot, reorders, lost>>,
           cloud' \in [Components -> [state : {"new", "live", "gone"}, version : 0..Versions]],
           \A d \in Components \ {c} : cloud'[d] = cloud[d]
    PROVE  /\ TimeInv' /\ FirstInv' /\ BarInv'
           /\ \A d : About(d)' <=> About(d) \/ d = c
           /\ \A d, k : On(d, k)' <=> On(d, k) \/ (d = c /\ k = kind)
           /\ \A d : /\ Holding(d)' <=> Holding(d)
                     /\ Adding(d)' <=> Adding(d)
                     /\ Removing(d)' <=> Removing(d)
                     /\ Barred(d)' <=> Barred(d)
                     /\ Underway(d)' <=> Underway(d)
                     /\ Bringing(d)' <=> Bringing(d)
                     /\ Taking(d)' <=> Taking(d)
                     /\ Present(d)' <=> Present(d)
           /\ \A d \in Components \ {c} : InvAt(d)'
           /\ Released' = Released /\ held_objmaps' = held_objmaps
<1> DEFINE e == Event(c, kind, n)
<1>1. now \in Nat /\ wire \in Seq(Events)
  BY DEF SyncInv, TypeInv
<1>2. e \in Events /\ e.id = c /\ e.kind = kind /\ e.sent = now
  BY <1>1 DEF Events, Event
<1>3. Notify(e)
  OBVIOUS
<1> HIDE DEF e
<1>4. wire' \in Seq(Events) /\ Sent' = Sent \cup {e}
  BY <1>1, <1>2, <1>3, NotifiedEvents
<1>5. /\ now' = now /\ held_objmaps' = held_objmaps /\ settings' = settings
      /\ blacklisted_components' = blacklisted_components
      /\ Released' = Released
  BY DEF QueueUntouched, Released
<1>6. TimeInv'
  <2>1. now <= now /\ now <= now + MaxDelay
    BY <1>1, BoundsAssumption
  <2> QED
    BY <1>2, <1>4, <1>5, <2>1 DEF SyncInv, TimeInv
<1>7. FirstInv'
  <2>1. kind = "create" => ~Holding(c)
    BY DEF SyncInv, InvAt, NewAt
  <2> QED
    BY <1>2, <1>4, <1>5, <2>1 DEF SyncInv, FirstInv, Holding
<1>8. BarInv'
  <2>1. c \notin DOMAIN blacklisted_components
    BY DEF SyncInv, InvAt, GoneAt, Barred
  <2> QED
    BY <1>2, <1>4, <1>5, <2>1 DEF SyncInv, BarInv, Holding
<1>9. ASSUME NEW d
       PROVE  (About(d)' <=> About(d) \/ d = c)
  BY <1>2, <1>4 DEF About
<1>10. ASSUME NEW d, NEW k
       PROVE  (On(d, k)' <=> On(d, k) \/ (d = c /\ k = kind))
  BY <1>2, <1>4 DEF On
<1>11. ASSUME NEW d
       PROVE  /\ Holding(d)' <=> Holding(d)
              /\ Adding(d)' <=> Adding(d)
              /\ Removing(d)' <=> Removing(d)
              /\ Barred(d)' <=> Barred(d)
              /\ Underway(d)' <=> Underway(d)
              /\ Bringing(d)' <=> Bringing(d)
              /\ Taking(d)' <=> Taking(d)
              /\ Present(d)' <=> Present(d)
  BY <1>5 DEF Holding, Adding, Removing, Barred, Underway, Bringing, Taking, Present
<1>12. ASSUME NEW d \in Components \ {c}
       PROVE  InvAt(d)'
  <2>1. cloud'[d] = cloud[d] /\ InvAt(d)
    BY DEF SyncInv
  <2>2. NewAt(d)' /\ GoneAt(d)' /\ OnceAt(d)'
    BY <1>9, <1>10, <1>11, <2>1 DEF InvAt, NewAt, GoneAt, OnceAt
  <2>3. lost = 0 => LiveAt(d)' /\ DeadAt(d)'
    BY <1>5, <1>9, <1>10, <1>11, <2>1 DEF InvAt, LiveAt, DeadAt
  <2>4. lost = 0 /\ reorders = 0 => VersionAt(d)'
    <3>1. /\ \A i \in DOMAIN wire' : IsLast(i)' /\ wire'[i].id # c =>
                 i \in DOMAIN wire /\ wire[i] = wire'[i] /\ IsLast(i)
          /\ \A i, j \in DOMAIN wire' : j < i =>
                 /\ j \in DOMAIN wire /\ wire'[j] = wire[j]
                 /\ \/ i \in DOMAIN wire /\ wire'[i] = wire[i]
                    \/ wire'[i] = e
      BY <1>1, <1>2, <1>3, NotifiedOrder
    <3> QED
      BY <1>2, <1>5, <1>9, <1>10, <1>11, <2>1, <3>1 DEF InvAt, VersionAt
  <2> QED
    BY <2>2, <2>3, <2>4 DEF InvAt
<1> QED
  BY <1>12, <1>5, <1>6, <1>7, <1>8, <1>9, <1>10, <1>11

LEMMA CreateSync ==
    ASSUME SyncInv, TypeInv', NEW c \in Components, Create(c)
    PROVE  SyncInv'
<1> DEFINE n == cloud[c].version
           e == Event(c, "create", n)
<1>1. /\ cloud[c] \in [state : {"new", "live", "gone"}, version : 0..Versions]
      /\ cloud[c].state = "new" /\ n \in 0..Versions
      /\ cloud' = [cloud EXCEPT ![c].state = "live"]
      /\ now \in Nat /\ wire \in Seq(Events)
  BY DEF Create, SyncInv, TypeInv
<1>2. /\ cloud' \in [Components -> [state : {"new", "live", "gone"}, version : 0..Versions]]
      /\ cloud'[c].state = "live" /\ cloud'[c].version = n
      /\ \A d \in Components \ {c} : cloud'[d] = cloud[d]
  BY <1>1 DEF SyncInv, TypeInv
<1>3. Notify(e) /\ QueueUntouched
      /\ UNCHANGED <<lastDrain, maps, sending, model, snapshot, reorders, lost>>
  BY DEF Create
<1>4. "create" \in Kinds
  BY DEF Kinds
<1>5. /\ TimeInv' /\ FirstInv' /\ BarInv'
      /\ \A d : About(d)' <=> About(d) \/ d = c
      /\ \A d, k : On(d, k)' <=> On(d, k) \/ (d = c /\ k = "create")
      /\ \A d : /\ Holding(d)' <=> Holding(d)
                /\ Adding(d)' <=> Adding(d)
                /\ Removing(d)' <=> Removing(d)
                /\ Barred(d)' <=> Barred(d)
                /\ Underway(d)' <=> Underway(d)
                /\ Bringing(d)' <=> Bringing(d)
                /\ Taking(d)' <=> Taking(d)
                /\ Present(d)' <=> Present(d)
      /\ \A d \in Components \ {c} : InvAt(d)'
      /\ Released' = Released /\ held_objmaps' = held_objmaps
  BY <1>1, <1>2, <1>3, <1>4, Notified
<1>6. ~About(c) /\ ~Holding(c) /\ ~Barred(c) /\ ~Underway(c) /\ ~Present(c)
  BY <1>1 DEF SyncInv, InvAt, NewAt
<1>7. /\ ~Adding(c) /\ ~Removing(c) /\ ~Bringing(c) /\ ~Taking(c)
      /\ \A k : ~On(c, k)
      /\ \A m \in Released : m.id # c
      /\ \A j \in DOMAIN wire : wire[j].id # c
  BY <1>6 DEF Adding, Removing, Bringing, Taking, Underway, On, About, Sent
<1>8. e \in Events /\ e.id = c /\ e.version = n
  BY <1>1, <1>4 DEF Event, Events
<1> HIDE DEF n, e
<1>9. NewAt(c)' /\ GoneAt(c)' /\ OnceAt(c)' /\ LiveAt(c)' /\ DeadAt(c)'
  BY <1>2, <1>5, <1>6, <1>7 DEF NewAt, GoneAt, OnceAt, LiveAt, DeadAt
<1>10. VersionAt(c)'
  <2>1. /\ \A i \in DOMAIN wire' : IsLast(i)' /\ wire'[i].id = c => wire'[i] = e
        /\ \A i, j \in DOMAIN wire' : j < i => j \in DOMAIN wire /\ wire'[j] = wire[j]
    BY <1>1, <1>3, <1>8, NotifiedOrder
  <2> QED
    BY <1>2, <1>5, <1>6, <1>7, <1>8, <2>1 DEF VersionAt
<1> QED
  BY <1>5, <1>9, <1>10 DEF SyncInv, InvAt

LEMMA ChangeSync ==
    ASSUME SyncInv, TypeInv', NEW c \in Components, Change(c)
    PROVE  SyncInv'
<1> DEFINE n == cloud[c].version + 1
           e == Event(c, "update", n)
<1>1. /\ cloud[c] \in [state : {"new", "live", "gone"}, version : 0..Versions]
      /\ cloud[c].state = "live" /\ n \in 0..Versions
      /\ cloud' = [cloud EXCEPT ![c].version = n]
      /\ now \in Nat /\ wire \in Seq(Events)
  BY BoundsAssumption DEF Change, SyncInv, TypeInv
<1>2. /\ cloud' \in [Components -> [state : {"new", "live", "gone"}, version : 0..Versions]]
      /\ cloud'[c].state = "live" /\ cloud'[c].version = n
      /\ \A d \in Components \ {c} : cloud'[d] = cloud[d]
  BY <1>1 DEF SyncInv, TypeInv
<1>3. Notify(e) /\ QueueUntouched
      /\ UNCHANGED <<lastDrain, maps, sending, model, snapshot, reorders, lost>>
  BY DEF Change
<1>4. "update" \in Kinds
  BY DEF Kinds
<1>5. /\ TimeInv' /\ FirstInv' /\ BarInv'
      /\ \A d : About(d)' <=> About(d) \/ d = c
      /\ \A d, k : On(d, k)' <=> On(d, k) \/ (d = c /\ k = "update")
      /\ \A d : /\ Holding(d)' <=> Holding(d)
                /\ Adding(d)' <=> Adding(d)
                /\ Removing(d)' <=> Removing(d)
                /\ Barred(d)' <=> Barred(d)
                /\ Underway(d)' <=> Underway(d)
                /\ Bringing(d)' <=> Bringing(d)
                /\ Taking(d)' <=> Taking(d)
                /\ Present(d)' <=> Present(d)
      /\ \A d \in Components \ {c} : InvAt(d)'
      /\ Released' = Released /\ held_objmaps' = held_objmaps
  BY <1>1, <1>2, <1>3, <1>4, Notified
<1>6. InvAt(c)
  BY DEF SyncInv
<1>7. e \in Events /\ e.id = c /\ e.version = n /\ e.kind = "update"
  BY <1>1, <1>4 DEF Event, Events
<1> HIDE DEF n, e
<1>8. NewAt(c)' /\ GoneAt(c)' /\ OnceAt(c)'
  BY <1>1, <1>2, <1>5, <1>6 DEF InvAt, NewAt, GoneAt, OnceAt
<1>9. lost = 0 => LiveAt(c)' /\ DeadAt(c)'
  BY <1>1, <1>2, <1>5, <1>6 DEF InvAt, LiveAt, DeadAt
<1>10. lost = 0 /\ reorders = 0 => VersionAt(c)'
  <2>1. /\ \A i \in DOMAIN wire' : IsLast(i)' /\ wire'[i].id = c => wire'[i] = e
        /\ \A i, j \in DOMAIN wire' : j < i =>
               /\ j \in DOMAIN wire /\ wire'[j] = wire[j]
               /\ \/ i \in DOMAIN wire /\ wire'[i] = wire[i]
                  \/ wire'[i] = e
    BY <1>1, <1>3, <1>7, NotifiedOrder
  <2> QED
    BY <1>1, <1>2, <1>5, <1>6, <1>7, <2>1 DEF InvAt, VersionAt
<1> QED
  BY <1>3, <1>5, <1>8, <1>9, <1>10 DEF SyncInv, InvAt

LEMMA DeleteSync ==
    ASSUME SyncInv, TypeInv', NEW c \in Components, Delete(c)
    PROVE  SyncInv'
<1> DEFINE n == cloud[c].version
<1>1. /\ cloud[c] \in [state : {"new", "live", "gone"}, version : 0..Versions]
      /\ cloud[c].state = "live" /\ n \in 0..Versions
      /\ cloud' = [cloud EXCEPT ![c].state = "gone"]
  BY DEF Delete, SyncInv, TypeInv
<1>2. /\ cloud' \in [Components -> [state : {"new", "live", "gone"}, version : 0..Versions]]
      /\ cloud'[c].state = "gone"
      /\ \A d \in Components \ {c} : cloud'[d] = cloud[d]
  BY <1>1 DEF SyncInv, TypeInv
<1>3. Notify(Event(c, "delete", n)) /\ QueueUntouched
      /\ UNCHANGED <<lastDrain, maps, sending, model, snapshot, reorders, lost>>
  BY DEF Delete
<1>4. "delete" \in Kinds
  BY DEF Kinds
<1>5. /\ TimeInv' /\ FirstInv' /\ BarInv'
      /\ \A d : About(d)' <=> About(d) \/ d = c
      /\ \A d, k : On(d, k)' <=> On(d, k) \/ (d = c /\ k = "delete")
      /\ \A d : /\ Holding(d)' <=> Holding(d)
                /\ Adding(d)' <=> Adding(d)
                /\ Removing(d)' <=> Removing(d)
                /\ Barred(d)' <=> Barred(d)
                /\ Underway(d)' <=> Underway(d)
                /\ Bringing(d)' <=> Bringing(d)
                /\ Taking(d)' <=> Taking(d)
                /\ Present(d)' <=> Present(d)
      /\ \A d \in Components \ {c} : InvAt(d)'
      /\ Released' = Released /\ held_objmaps' = held_objmaps
  BY <1>1, <1>2, <1>3, <1>4, Notified
<1>6. InvAt(c)
  BY DEF SyncInv
<1> HIDE DEF n
<1>7. NewAt(c)' /\ GoneAt(c)' /\ OnceAt(c)' /\ VersionAt(c)'
  BY <1>1, <1>2, <1>5, <1>6 DEF InvAt, NewAt, GoneAt, OnceAt, VersionAt
<1>8. lost = 0 => LiveAt(c)' /\ DeadAt(c)'
  BY <1>1, <1>2, <1>5, <1>6 DEF InvAt, GoneAt, LiveAt, DeadAt
<1> QED
  BY <1>3, <1>5, <1>7, <1>8 DEF SyncInv, InvAt

-----------------------------------------------------------------------------
(* The web handler and the loss of an event. *)

\* The event that is merged into the queue stays on the wire (shift is 0) or
\* leaves it; in order, it is the first one.
LEMMA PostedSync ==
    ASSUME SyncInv, TypeInv', NEW i \in DOMAIN wire, Queue!AppendMap(MapEvent(wire[i])),
           wire' \in Seq(Events), Sent' \subseteq Sent, Sent \subseteq Sent' \cup {wire[i]},
           UNCHANGED <<lastDrain, cloud, maps, sending, model, snapshot, lost>>,
           reorders' \in Nat,
           NEW shift \in {0, 1},
           reorders' = 0 =>
               /\ reorders = 0 /\ i = 1
               /\ \A k \in DOMAIN wire' :
                      k + shift \in DOMAIN wire /\ wire'[k] = wire[k + shift]
               /\ \A j \in DOMAIN wire : j > shift => j - shift \in DOMAIN wire'
    PROVE  SyncInv'
<1> DEFINE e == wire[i]
           c == e.id
<1>1. e \in Sent /\ TypeInv
  BY DEF Sent, SyncInv
<1>2. /\ e \in Events
      /\ DOMAIN held_objmaps' = DOMAIN held_objmaps \cup {c}
      /\ \A d \in DOMAIN held_objmaps \ {c} : held_objmaps'[d] = held_objmaps[d]
      /\ held_objmaps'[c].objmap \in ObjMaps
      /\ held_objmaps'[c].objmap.id = c
      /\ held_objmaps'[c].objmap.add <=> Adding(c) \/ e.kind = "create"
      /\ held_objmaps'[c].objmap.remove <=> Removing(c) \/ e.kind = "delete"
      /\ e.kind # "delete" => held_objmaps'[c].objmap.attrs["version"] = e.version
      /\ held_objmaps'[c].first = IF Holding(c) THEN held_objmaps[c].first ELSE now
      /\ now' = now /\ settings' = settings
      /\ blacklisted_components' = blacklisted_components
  BY <1>1, Appended
<1>3. c \in Components /\ e.kind \in Kinds
  BY <1>2 DEF Events
<1>4. Released' = Released
  BY DEF Released
<1>5. /\ now \in Nat /\ lastDrain \in Nat /\ MaxDelay \in Nat
      /\ \A f \in Sent : f \in Events /\ f.sent \in Nat
  <2>1. now \in Nat /\ lastDrain \in Nat /\ wire \in Seq(Events)
    BY <1>1 DEF TypeInv
  <2>2. \A f \in Sent : f \in Events
    BY <2>1 DEF Sent
  <2> QED
    BY <2>1, <2>2, BoundsAssumption DEF Events
<1> HIDE DEF e
<1>6. TimeInv'
  BY <1>2 DEF SyncInv, TimeInv
<1>7. FirstInv'
  <2> SUFFICES ASSUME NEW f \in Sent, f.kind = "create", f.id \in DOMAIN held_objmaps'
               PROVE  f.sent <= held_objmaps'[f.id].first
    BY DEF FirstInv, Holding
  <2>1. CASE f.id \in DOMAIN held_objmaps
    <3>1. f.sent <= held_objmaps[f.id].first
      BY <2>1 DEF SyncInv, FirstInv, Holding
    <3>2. held_objmaps'[f.id].first = held_objmaps[f.id].first
      BY <1>2, <2>1 DEF Holding
    <3> QED
      BY <3>1, <3>2
  <2>2. CASE f.id \notin DOMAIN held_objmaps
    <3>1. f.id = c /\ ~Holding(c)
      BY <1>2, <2>2 DEF Holding
    <3>2. f.sent <= now
      BY DEF SyncInv, TimeInv
    <3> QED
      BY <1>2, <3>1, <3>2
  <2> QED
    BY <2>1, <2>2
<1>8. BarInv'
  <2> SUFFICES ASSUME NEW d \in DOMAIN blacklisted_components, d \in DOMAIN held_objmaps'
               PROVE  lastDrain <= blacklisted_components[d] + MaxDelay
    BY <1>2, <1>4 DEF SyncInv, BarInv, Holding
  <2>1. CASE d \in DOMAIN held_objmaps
    BY <2>1 DEF SyncInv, BarInv, Holding
  <2>2. CASE d \notin DOMAIN held_objmaps
    <3>1. d = c
      BY <1>2, <2>2
    <3>2. e.sent <= blacklisted_components[d] /\ now <= e.sent + MaxDelay /\ lastDrain <= now
      BY <1>1, <3>1 DEF SyncInv, BarInv, TimeInv
    <3>3. blacklisted_components[d] \in Nat /\ e.sent \in Nat
      BY <1>1, <1>5 DEF TypeInv
    <3> QED
      BY ONLY <1>5, <3>2, <3>3
  <2> QED
    BY <2>1, <2>2
<1>9. ASSUME NEW d
       PROVE  /\ Holding(d)' <=> Holding(d) \/ d = c
              /\ Adding(d)' <=> Adding(d) \/ (d = c /\ e.kind = "create")
              /\ Removing(d)' <=> Removing(d) \/ (d = c /\ e.kind = "delete")
              /\ Barred(d)' <=> Barred(d)
              /\ Underway(d)' <=> Underway(d)
              /\ Bringing(d)' <=> Bringing(d)
              /\ Taking(d)' <=> Taking(d)
              /\ Present(d)' <=> Present(d)
              /\ About(d)' => About(d)
              /\ About(d) => About(d)' \/ d = c
              /\ \A k : On(d, k)' => On(d, k)
              /\ \A k : On(d, k) => On(d, k)' \/ (d = c /\ k = e.kind)
  <2>1. /\ Holding(d)' <=> Holding(d) \/ d = c
        /\ Adding(d)' <=> Adding(d) \/ (d = c /\ e.kind = "create")
        /\ Removing(d)' <=> Removing(d) \/ (d = c /\ e.kind = "delete")
    <3>1. CASE d = c
      BY <1>2, <3>1 DEF Holding, Adding, Removing
    <3>2. CASE d # c
      BY <1>2, <3>2 DEF Holding, Adding, Removing
    <3> QED
      BY <3>1, <3>2
  <2>2. /\ Barred(d)' <=> Barred(d)
        /\ Underway(d)' <=> Underway(d)
        /\ Bringing(d)' <=> Bringing(d)
        /\ Taking(d)' <=> Taking(d)
        /\ Present(d)' <=> Present(d)
    BY <1>2, <1>4 DEF Barred, Underway, Bringing, Taking, Present
  <2>3. /\ About(d)' => About(d)
        /\ About(d) => About(d)' \/ d = c
    BY DEF About, e
  <2>4. /\ \A k : On(d, k)' => On(d, k)
        /\ \A k : On(d, k) => On(d, k)' \/ (d = c /\ k = e.kind)
    BY DEF On, e
  <2> QED
    BY <2>1, <2>2, <2>3, <2>4
<1>10. About(c) /\ On(c, e.kind)
  BY <1>1 DEF About, On
<1>11. ASSUME NEW d \in Components PROVE InvAt(d)'
  <2>1. InvAt(d) /\ cloud'[d] = cloud[d]
    BY DEF SyncInv
  <2> HIDE DEF c
  <2>2. NewAt(d)' /\ GoneAt(d)' /\ OnceAt(d)'
    BY <1>9, <1>10, <2>1 DEF InvAt, NewAt, GoneAt, OnceAt
  <2>3. lost = 0 => LiveAt(d)' /\ DeadAt(d)'
    BY <1>4, <1>9, <1>10, <2>1 DEF InvAt, LiveAt, DeadAt
  <2>4. ASSUME lost = 0, reorders' = 0, cloud[d].state = "live" PROVE VersionAt(d)'
    <3>1. /\ reorders = 0 /\ i = 1
          /\ \A k \in DOMAIN wire' : k + shift \in DOMAIN wire /\ wire'[k] = wire[k + shift]
          /\ \A j \in DOMAIN wire : j > shift => j - shift \in DOMAIN wire'
          /\ DOMAIN wire \subseteq Nat /\ DOMAIN wire' \subseteq Nat
      BY <1>1, <2>4 DEF TypeInv
    <3>2. LiveAt(d) /\ VersionAt(d)
      BY <2>1, <2>4, <3>1 DEF InvAt
    <3>3. ASSUME NEW k \in DOMAIN wire', IsLast(k)'
          PROVE  IsLast(k + shift)
      <4> SUFFICES ASSUME NEW j \in DOMAIN wire, j > k + shift
                   PROVE  wire[j].id # wire[k + shift].id
        BY DEF IsLast
      <4>1. j - shift \in DOMAIN wire' /\ j - shift > k /\ (j - shift) + shift = j
        BY <3>1
      <4> QED
        BY <3>1, <3>3, <4>1 DEF IsLast
    <3>4. \A k \in DOMAIN wire' :
              wire'[k].id = d /\ IsLast(k)' => wire'[k].version = cloud[d].version
      BY <2>4, <3>1, <3>2, <3>3 DEF VersionAt
    <3>5. \A k, j \in DOMAIN wire' :
              j < k /\ wire'[k].id = d /\ wire'[k].kind = "create" => wire'[j].id # d
      <4> SUFFICES ASSUME NEW k \in DOMAIN wire', NEW j \in DOMAIN wire',
                          j < k, wire'[k].id = d, wire'[k].kind = "create"
                   PROVE  wire'[j].id # d
        OBVIOUS
      <4>1. j + shift < k + shift
        BY <3>1
      <4> QED
        BY <2>4, <3>1, <3>2, <4>1 DEF VersionAt
    <3>6. Holding(d)' /\ ~Adding(d)' => Bringing(d) \/ Present(d)
      <4>1. CASE Holding(d)
        BY <1>9, <2>4, <3>2, <4>1 DEF VersionAt
      <4>2. ASSUME d = c, ~Adding(d)', ~Adding(d), ~Bringing(d), ~Present(d) PROVE FALSE
        <5>1. On(d, "create") /\ e.kind # "create"
          BY <1>9, <2>4, <3>2, <4>2 DEF LiveAt
        <5>2. PICK j \in DOMAIN wire : wire[j].id = d /\ wire[j].kind = "create"
          BY <5>1 DEF On, Sent
        <5>3. wire[1].id = d /\ wire[1].kind # "create" /\ 1 \in DOMAIN wire
          BY <3>1, <4>2, <5>1 DEF e, c
        <5>4. 1 < j
          BY <1>1, <5>2, <5>3 DEF TypeInv
        <5> QED
          BY <2>4, <3>2, <5>2, <5>3, <5>4 DEF VersionAt
      <4> QED
        BY <1>9, <4>1, <4>2
    <3>7. ASSUME ~About(d)', d = c
          PROVE  held_objmaps'[d].objmap.attrs["version"] = cloud[d].version
      <4>1. IsLast(1) /\ wire[1].id = d /\ wire[1] = e /\ 1 \in DOMAIN wire
        <5>1. wire[1].id = d /\ wire[1] = e /\ 1 \in DOMAIN wire
          BY <3>1, <3>7 DEF e, c
        <5>2. ASSUME NEW j \in DOMAIN wire, j > 1 PROVE wire[j].id # d
          <6>1. j > shift /\ (j - shift) + shift = j
            BY <3>1, <5>2
          <6>2. j - shift \in DOMAIN wire' /\ wire'[j - shift] = wire[j]
            BY <3>1, <6>1
          <6> QED
            BY <3>7, <6>2 DEF About, Sent
        <5> QED
          BY <5>1, <5>2 DEF IsLast
      <4>2. e.version = cloud[d].version
        BY <2>4, <3>2, <4>1 DEF VersionAt
      <4>3. e.kind # "delete"
        BY <1>10, <2>1, <2>4, <3>7 DEF InvAt, GoneAt
      <4> QED
        BY <1>2, <3>7, <4>2, <4>3 DEF c
    <3>8. ASSUME ~About(d)', d # c
          PROVE  /\ ~About(d) /\ (Holding(d)' <=> Holding(d))
                 /\ Holding(d) => held_objmaps'[d] = held_objmaps[d]
      BY <1>2, <1>9, <3>8 DEF c, Holding
    <3> QED
      BY <1>4, <1>9, <2>1, <2>4, <3>2, <3>4, <3>5, <3>6, <3>7, <3>8 DEF VersionAt
  <2>5. cloud[d].state # "live" => VersionAt(d)'
    BY <2>1 DEF VersionAt
  <2> QED
    BY <2>2, <2>3, <2>4, <2>5 DEF InvAt
<1> QED
  BY <1>6, <1>7, <1>8, <1>11 DEF SyncInv

LEMMA PostSync ==
    ASSUME SyncInv, TypeInv', NEW i \in DOMAIN wire, Post(i)
    PROVE  SyncInv'
<1>1. /\ wire' = Dropped(wire, i) /\ Overtakes(i) /\ Queue!AppendMap(MapEvent(wire[i]))
      /\ UNCHANGED <<lastDrain, cloud, maps, sending, model, snapshot, lost>>
  BY DEF Post
<1>2. wire \in Seq(Events) /\ reorders \in Nat
  BY DEF SyncInv, TypeInv
<1>3. reorders' \in Nat /\ (reorders' = 0 => reorders = 0 /\ i = 1)
  BY <1>1, <1>2 DEF Overtakes
<1>4. /\ wire' \in Seq(Events) /\ Sent' \subseteq Sent
      /\ Sent \subseteq Sent' \cup {wire[i]}
  BY <1>1, <1>2, DroppedEvents
<1>5. i = 1 => /\ \A k \in DOMAIN wire' : k + 1 \in DOMAIN wire /\ wire'[k] = wire[k + 1]
               /\ \A j \in DOMAIN wire : j > 1 => j - 1 \in DOMAIN wire'
  BY <1>1, <1>2, DroppedFirst
<1>6. 1 \in {0, 1}
  OBVIOUS
<1> QED
  BY <1>1, <1>3, <1>4, <1>5, <1>6, PostedSync

LEMMA PostAgainSync ==
    ASSUME SyncInv, TypeInv', NEW i \in DOMAIN wire, PostAgain(i)
    PROVE  SyncInv'
<1>1. /\ wire' = wire /\ Overtakes(i) /\ Queue!AppendMap(MapEvent(wire[i]))
      /\ UNCHANGED <<lastDrain, cloud, maps, sending, model, snapshot, lost>>
  BY DEF PostAgain
<1>2. wire \in Seq(Events) /\ reorders \in Nat
  BY DEF SyncInv, TypeInv
<1>3. reorders' \in Nat /\ (reorders' = 0 => reorders = 0 /\ i = 1)
  BY <1>1, <1>2 DEF Overtakes
<1>4. wire' \in Seq(Events) /\ Sent' \subseteq Sent /\ Sent \subseteq Sent' \cup {wire[i]}
  BY <1>1, <1>2 DEF Sent
<1>5. /\ \A k \in DOMAIN wire' : k + 0 \in DOMAIN wire /\ wire'[k] = wire[k + 0]
      /\ \A j \in DOMAIN wire : j > 0 => j - 0 \in DOMAIN wire'
  BY <1>1, <1>2
<1>6. 0 \in {0, 1}
  OBVIOUS
<1> QED
  BY <1>1, <1>3, <1>4, <1>5, <1>6, PostedSync

\* A lost event leaves what depends on it to the modeler.
LEMMA LoseSync ==
    ASSUME SyncInv, TypeInv', NEW i \in DOMAIN wire, Lose(i)
    PROVE  SyncInv'
<1>1. wire' \in Seq(Events) /\ Sent' \subseteq Sent
  BY DroppedEvents DEF Lose, SyncInv, TypeInv
<1>2. /\ now' = now /\ held_objmaps' = held_objmaps /\ settings' = settings
      /\ blacklisted_components' = blacklisted_components
      /\ UNCHANGED <<lastDrain, cloud, maps, sending, model, snapshot, reorders>>
      /\ Released' = Released
  BY DEF Lose, QueueUntouched, Released
<1>3. lost' \in Nat /\ lost' # 0
  BY DEF Lose, SyncInv, TypeInv
<1>4. TimeInv' /\ FirstInv' /\ BarInv'
  BY <1>1, <1>2 DEF SyncInv, TimeInv, FirstInv, BarInv, Holding
<1>5. ASSUME NEW d \in Components PROVE InvAt(d)'
  <2>1. InvAt(d)
    BY DEF SyncInv
  <2> QED
    BY <1>1, <1>2, <1>3, <2>1 DEF InvAt, NewAt, GoneAt, OnceAt, About, On, Holding, Adding,
       Removing, Barred, Underway, Bringing, Taking, Present
<1> QED
  BY <1>4, <1>5 DEF SyncInv

-----------------------------------------------------------------------------
(* The map task and the clock. *)

\* A drain in time: what is released to be created, nothing on the wire creates
\* again; what is released or kept is not barred, unless it is a removal.
LEMMA DrainSync ==
    ASSUME Timely, SyncInv, TypeInv', DrainQueue
    PROVE  SyncInv'
<1>1. TypeInv
  BY DEF SyncInv
<1>2. /\ Released = {}
      /\ Released' = {held_objmaps[c].objmap : c \in Queue!Ready}
      /\ Queue!Ready \subseteq DOMAIN held_objmaps \ DOMAIN held_objmaps'
      /\ \A c \in Queue!Ready :
             /\ ~(Adding(c) /\ Removing(c))
             /\ Adding(c) => held_objmaps[c].first + Durations.shortlived <= now
             /\ Barred(c)' => ~Adding(c) /\ Removing(c)
      /\ DOMAIN held_objmaps' \subseteq DOMAIN held_objmaps
      /\ \A c \in DOMAIN held_objmaps' :
             held_objmaps'[c] = held_objmaps[c] /\ ~Barred(c)'
      /\ \A c \in DOMAIN held_objmaps : Holding(c)' \/ c \in Queue!Ready \/ Barred(c)'
      /\ \A c \in DOMAIN blacklisted_components' :
             \/ /\ Barred(c) /\ blacklisted_components'[c] = blacklisted_components[c]
                /\ c \notin Queue!Ready
             \/ /\ Removing(c) /\ blacklisted_components'[c] = now
                /\ (Adding(c) /\ c \notin Queue!Ready) \/ (~Adding(c) /\ c \in Queue!Ready)
      /\ \A c \in DOMAIN blacklisted_components :
             Barred(c)' \/ blacklisted_components[c] + Durations.blacklist < now
      /\ \A c \in DOMAIN held_objmaps : Removing(c) => Barred(c)'
      /\ now' = now /\ lastDrain' = now /\ settings' = settings
  BY <1>1, Drained
<1>3. /\ UNCHANGED <<cloud, wire, model, snapshot, reorders, lost>>
      /\ Sent' = Sent
      /\ ~sending
  BY DEF DrainQueue, Sent
<1>4. /\ now \in Nat /\ lastDrain \in Nat /\ MaxDelay \in Nat /\ DrainEvery \in Nat
      /\ Durations.blacklist \in Nat /\ Durations.shortlived \in Nat
  BY <1>1, BoundsAssumption DEF TypeInv
<1>5. \A c \in DOMAIN held_objmaps :
          /\ held_objmaps[c].first \in Nat
          /\ held_objmaps[c].objmap \in ObjMaps
          /\ held_objmaps[c].objmap.id = c
          /\ c \in Components
  BY <1>1 DEF TypeInv
<1>6. \A f \in Sent : f.sent \in Nat
  <2>1. \A f \in Sent : f \in Events
    BY <1>1 DEF TypeInv, Sent
  <2> QED
    BY <2>1 DEF Events
<1>7. \A m \in Released' : /\ m.id \in Queue!Ready /\ m = held_objmaps[m.id].objmap
                           /\ m \in ObjMaps
  BY <1>2, <1>5
<1>8. ASSUME NEW c \in Queue!Ready
      PROVE  held_objmaps[c].objmap \in Released' /\ held_objmaps[c].objmap.id = c /\ Holding(c)
  BY <1>2, <1>5 DEF Holding
<1>9. TimeInv'
  BY <1>2, <1>3, <1>4 DEF SyncInv, TimeInv
<1>10. FirstInv'
  BY <1>2, <1>3 DEF SyncInv, FirstInv, Holding
<1>11. BarInv'
  <2> SUFFICES ASSUME NEW c \in DOMAIN blacklisted_components'
               PROVE  /\ \A f \in Sent : f.id = c => f.sent <= blacklisted_components'[c]
                      /\ c \notin DOMAIN held_objmaps'
                      /\ \A m \in Released' : m.id = c => m.remove
    BY <1>3 DEF BarInv, Holding
  <2>1. \A f \in Sent : f.id = c => f.sent <= blacklisted_components'[c]
    BY <1>2 DEF SyncInv, BarInv, TimeInv, Barred
  <2>2. c \notin DOMAIN held_objmaps'
    BY <1>2 DEF Barred
  <2>3. ASSUME NEW m \in Released', m.id = c PROVE m.remove
    BY <1>2, <1>7, <2>3 DEF Barred, Removing
  <2> QED
    BY <2>1, <2>2, <2>3
<1>12. ASSUME NEW c \in DOMAIN blacklisted_components, ~Barred(c)'
       PROVE  ~About(c) /\ ~Holding(c)
  <2>1. blacklisted_components[c] + Durations.blacklist < now /\ blacklisted_components[c] \in Nat
    BY <1>1, <1>2, <1>12 DEF TypeInv
  <2>2. MaxDelay + DrainEvery <= Durations.blacklist
    BY DEF Timely
  <2>3. ~About(c)
    <3> SUFFICES ASSUME NEW f \in Sent, f.id = c PROVE FALSE
      BY DEF About
    <3>1. f.sent <= blacklisted_components[c] /\ now <= f.sent + MaxDelay /\ f.sent \in Nat
      BY <1>6 DEF SyncInv, BarInv, TimeInv
    <3> QED
      BY ONLY <1>4, <2>1, <2>2, <3>1
  <2>4. ~Holding(c)
    <3> SUFFICES ASSUME Holding(c) PROVE FALSE
      OBVIOUS
    <3>1. lastDrain <= blacklisted_components[c] + MaxDelay /\ now <= lastDrain + DrainEvery
      BY DEF SyncInv, BarInv, TimeInv
    <3> QED
      BY ONLY <1>4, <2>1, <2>2, <3>1
  <2> QED
    BY <2>3, <2>4
<1>13. ASSUME NEW c \in Queue!Ready, Adding(c)
       PROVE  ~On(c, "create")
  <2> SUFFICES ASSUME NEW f \in Sent, f.id = c, f.kind = "create" PROVE FALSE
    BY DEF On
  <2>1. f.sent <= held_objmaps[c].first
    BY <1>8 DEF SyncInv, FirstInv
  <2>2. now <= f.sent + MaxDelay /\ f.sent \in Nat /\ held_objmaps[c].first \in Nat
    BY <1>2, <1>5, <1>6 DEF SyncInv, TimeInv
  <2>3. held_objmaps[c].first + Durations.shortlived <= now
    BY <1>2, <1>13
  <2>4. MaxDelay < Durations.shortlived
    BY DEF Timely
  <2> QED
    BY ONLY <1>4, <2>1, <2>2, <2>3, <2>4
<1>14. ASSUME NEW c
       PROVE  /\ About(c)' <=> About(c)
              /\ \A k : On(c, k)' <=> On(c, k)
              /\ Present(c)' <=> Present(c)
              /\ ~Underway(c) /\ ~Bringing(c) /\ ~Taking(c)
              /\ Holding(c)' => Holding(c) /\ c \notin Queue!Ready /\ ~Barred(c)'
                                /\ held_objmaps'[c] = held_objmaps[c]
              /\ Holding(c) => Holding(c)' \/ c \in Queue!Ready \/ Barred(c)'
              /\ Adding(c)' => Adding(c)
              /\ Removing(c)' => Removing(c)
              /\ Removing(c) => Barred(c)'
              /\ Holding(c)' /\ Adding(c) => Adding(c)'
              /\ Underway(c)' <=> c \in Queue!Ready
              /\ Bringing(c)' <=> c \in Queue!Ready /\ Adding(c)
              /\ Taking(c)' <=> c \in Queue!Ready /\ Removing(c)
              /\ Barred(c)' => Barred(c) \/ Removing(c)
              /\ Barred(c) /\ ~Barred(c)' => ~About(c) /\ ~Holding(c)
              /\ c \in Queue!Ready => Holding(c)
              /\ \A m \in Released' : m.id = c => c \in Queue!Ready /\ m = held_objmaps[c].objmap
  <2>1. /\ About(c)' <=> About(c)
        /\ \A k : On(c, k)' <=> On(c, k)
        /\ Present(c)' <=> Present(c)
        /\ ~Underway(c) /\ ~Bringing(c) /\ ~Taking(c)
    BY <1>2, <1>3 DEF About, On, Present, Underway, Bringing, Taking
  <2>2. /\ Holding(c)' => Holding(c) /\ c \notin Queue!Ready /\ ~Barred(c)'
                          /\ held_objmaps'[c] = held_objmaps[c]
        /\ Holding(c) => Holding(c)' \/ c \in Queue!Ready \/ Barred(c)'
        /\ Removing(c) => Barred(c)'
    BY <1>2 DEF Holding, Removing
  <2>3. /\ Adding(c)' => Adding(c)
        /\ Removing(c)' => Removing(c)
        /\ Holding(c)' /\ Adding(c) => Adding(c)'
    BY <2>2 DEF Adding, Removing
  <2>4. /\ Underway(c)' <=> c \in Queue!Ready
        /\ Bringing(c)' <=> c \in Queue!Ready /\ Adding(c)
        /\ Taking(c)' <=> c \in Queue!Ready /\ Removing(c)
        /\ c \in Queue!Ready => Holding(c)
    BY <1>7, <1>8 DEF Underway, Bringing, Taking, Adding, Removing
  <2>5. Barred(c)' => Barred(c) \/ Removing(c)
    BY <1>2 DEF Barred
  <2>6. Barred(c) /\ ~Barred(c)' => ~About(c) /\ ~Holding(c)
    BY <1>12 DEF Barred
  <2>7. \A m \in Released' : m.id = c => c \in Queue!Ready /\ m = held_objmaps[c].objmap
    BY <1>7
  <2> QED
    BY <2>1, <2>2, <2>3, <2>4, <2>5, <2>6, <2>7
<1>15. ASSUME NEW c, Barred(c)'
       PROVE  (Barred(c) /\ c \notin Queue!Ready) \/ Adding(c) \/ c \in Queue!Ready
  BY <1>2, <1>15 DEF Barred
<1>16. ASSUME NEW c \in Components PROVE InvAt(c)'
  <2>1. InvAt(c) /\ cloud'[c] = cloud[c] /\ (c \in Queue!Ready => ~(Adding(c) /\ Removing(c)))
    BY <1>2, <1>3 DEF SyncInv
  <2>2. NewAt(c)' /\ GoneAt(c)'
    BY <1>14, <2>1 DEF InvAt, NewAt, GoneAt
  <2>3. OnceAt(c)'
    <3>1. c \in Queue!Ready => ~Adding(c)'
      BY <1>14 DEF Adding
    <3> QED
      BY <1>13, <1>14, <2>1, <3>1 DEF InvAt, OnceAt
  <2>4. ASSUME lost = 0 PROVE LiveAt(c)'
    <3>1. ASSUME cloud[c].state = "live", Adding(c)
          PROVE  Adding(c)' \/ Bringing(c)'
      <4>1. Holding(c) /\ ~Barred(c) /\ ~Removing(c)
        BY <2>1, <3>1 DEF InvAt, GoneAt, Adding
      <4> QED
        BY <1>14, <3>1, <4>1
    <3> QED
      BY <1>14, <2>1, <2>4, <3>1 DEF InvAt, LiveAt
  <2>5. ASSUME lost = 0 PROVE DeadAt(c)'
    <3>1. Barred(c)' => ~Present(c)' \/ Underway(c)'
      BY <1>14, <1>15, <2>1, <2>5 DEF InvAt, DeadAt, OnceAt
    <3>2. ASSUME cloud[c].state = "gone", ~On(c, "delete"), ~Barred(c)'
          PROVE  /\ ~About(c) /\ ~Holding(c)' /\ ~Present(c) /\ c \notin Queue!Ready
      <4>1. ~Removing(c)
        BY <1>14, <3>2
      <4>2. CASE Barred(c)
        BY <1>14, <2>1, <2>5, <3>2, <4>2 DEF InvAt, DeadAt
      <4>3. CASE ~Barred(c)
        BY <1>14, <2>1, <2>5, <3>2, <4>1, <4>3 DEF InvAt, DeadAt
      <4> QED
        BY <4>2, <4>3
    <3> QED
      BY <1>14, <2>1, <3>1, <3>2 DEF DeadAt
  <2>6. ASSUME lost = 0, reorders = 0, cloud[c].state = "live" PROVE VersionAt(c)'
    <3>1. VersionAt(c) /\ ~Removing(c) /\ ~Barred(c)
      BY <2>1, <2>6 DEF InvAt, GoneAt
    <3>2. wire' = wire /\ \A k \in DOMAIN wire : IsLast(k)' <=> IsLast(k)
      BY <1>3 DEF IsLast
    <3>3. Holding(c)' /\ ~Adding(c)' => Present(c)
      BY <1>14, <2>6, <3>1 DEF VersionAt
    <3>4. \A m \in Released' : m.id = c /\ ~m.add => Present(c)
      BY <1>14, <2>6, <3>1 DEF VersionAt, Adding
    <3>5. ASSUME ~About(c)
          PROVE  /\ Holding(c)' => held_objmaps'[c].objmap.attrs["version"] = cloud[c].version
                 /\ ~Holding(c)' =>
                      /\ \A m \in Released' : m.id = c => m.attrs["version"] = cloud[c].version
                      /\ ~Underway(c)' => model[c] = cloud[c].version
      <4>1. /\ Holding(c) => held_objmaps[c].objmap.attrs["version"] = cloud[c].version
            /\ ~Holding(c) => model[c] = cloud[c].version
        BY <1>14, <2>6, <3>1, <3>5 DEF VersionAt
      <4>2. Barred(c)' => FALSE
        BY <1>14, <3>1
      <4> QED
        BY <1>14, <4>1, <4>2
    <3> QED
      BY <1>3, <1>14, <2>1, <2>6, <3>1, <3>2, <3>3, <3>4, <3>5 DEF VersionAt
  <2>7. cloud[c].state # "live" => VersionAt(c)'
    BY <2>1 DEF VersionAt
  <2> QED
    BY <1>3, <2>2, <2>3, <2>4, <2>5, <2>6, <2>7 DEF InvAt
<1> QED
  BY <1>9, <1>10, <1>11, <1>16 DEF SyncInv

LEMMA ApplySync ==
    ASSUME SyncInv, TypeInv', Apply
    PROVE  SyncInv'
<1>1. TypeInv
  BY DEF SyncInv
<1>2. /\ model' = [c \in Components |-> Applied(c)]
      /\ Released' = {} /\ sending' = FALSE /\ maps' = Queue!NoMaps
      /\ UNCHANGED <<now, settings, held_objmaps, blacklisted_components, lastDrain, cloud,
                     wire, snapshot, reorders, lost>>
      /\ Sent' = Sent
  BY DEF Apply, QueueUntouched, Released, Queue!NoMaps, Sent
<1>3. ASSUME NEW c \in Components
      PROVE  /\ ~Underway(c) => model'[c] = model[c]
             /\ \A m \in Released : m.id = c =>
                    /\ m.remove => model'[c] = Absent
                    /\ ~m.remove => /\ m.attrs["version"] \in 0..Versions
                                    /\ model'[c] = IF m.add \/ Present(c)
                                                   THEN m.attrs["version"] ELSE Absent
             /\ model[c] \in 0..Versions \cup {Absent}
             /\ \A n \in 0..Versions : n # Absent
  BY <1>1, <1>2, AppliedMaps, BoundsAssumption DEF TypeInv
<1>4. ASSUME NEW c \in Components PROVE model'[c] \in 0..Versions \cup {Absent}
  BY <1>3 DEF Underway
<1>5. TimeInv' /\ FirstInv' /\ BarInv'
  BY <1>2 DEF SyncInv, TimeInv, FirstInv, BarInv, Holding
<1>6. ASSUME NEW c
      PROVE  /\ About(c)' <=> About(c)
             /\ \A k : On(c, k)' <=> On(c, k)
             /\ Holding(c)' <=> Holding(c)
             /\ Adding(c)' <=> Adding(c)
             /\ Removing(c)' <=> Removing(c)
             /\ Barred(c)' <=> Barred(c)
             /\ ~Underway(c)' /\ ~Bringing(c)' /\ ~Taking(c)'
  BY <1>2 DEF About, On, Holding, Adding, Removing, Barred, Underway, Bringing, Taking
<1>7. ASSUME NEW c \in Components PROVE InvAt(c)'
  <2>1. InvAt(c) /\ cloud'[c] = cloud[c]
    BY <1>2 DEF SyncInv
  <2>2. Present(c)' => Present(c) \/ Bringing(c)
    BY <1>3 DEF Present, Bringing, Underway
  <2>3. ~Taking(c) => (Present(c) \/ Bringing(c) => Present(c)')
    BY <1>3 DEF Present, Bringing, Taking, Underway
  <2>4. ASSUME \A m \in Released : m.id = c => m.remove,
               ~Present(c) \/ Underway(c)
        PROVE  ~Present(c)'
    BY <1>3, <2>4 DEF Present, Underway
  <2>5. NewAt(c)' /\ GoneAt(c)'
    BY <1>6, <2>1, <2>2 DEF InvAt, NewAt, GoneAt, Bringing, Underway
  <2>6. OnceAt(c)'
    BY <1>6, <2>1, <2>2 DEF InvAt, OnceAt
  <2>7. lost = 0 => LiveAt(c)'
    BY <1>6, <2>1, <2>3 DEF InvAt, GoneAt, LiveAt
  <2>8. lost = 0 => DeadAt(c)'
    <3>1. Barred(c) => \A m \in Released : m.id = c => m.remove
      BY DEF SyncInv, BarInv, Barred
    <3> QED
      BY <1>2, <1>6, <2>1, <2>4, <3>1 DEF InvAt, DeadAt
  <2>9. ASSUME lost = 0, reorders = 0, cloud[c].state = "live" PROVE VersionAt(c)'
    <3>1. VersionAt(c) /\ ~Taking(c)
      BY <2>1, <2>9 DEF InvAt, GoneAt
    <3>2. wire' = wire /\ \A k \in DOMAIN wire : IsLast(k)' <=> IsLast(k)
      BY <1>2 DEF IsLast
    <3>3. Holding(c)' /\ ~Adding(c)' => Present(c)'
      BY <1>6, <2>3, <2>9, <3>1 DEF VersionAt
    <3>4. ASSUME ~About(c), ~Holding(c)
          PROVE  model'[c] = cloud[c].version
      <4>1. CASE ~Underway(c)
        BY <1>3, <2>9, <3>1, <3>4, <4>1 DEF VersionAt
      <4>2. CASE Underway(c)
        <5>1. PICK m \in Released : m.id = c
          BY <4>2 DEF Underway
        <5>2. ~m.remove /\ (m.add \/ Present(c)) /\ m.attrs["version"] = cloud[c].version
          BY <2>9, <3>1, <3>4, <5>1 DEF VersionAt, Taking
        <5> QED
          BY <1>3, <5>1, <5>2
      <4> QED
        BY <4>1, <4>2
    <3> QED
      BY <1>2, <1>6, <2>1, <2>9, <3>1, <3>2, <3>3, <3>4 DEF VersionAt
  <2>10. cloud[c].state # "live" => VersionAt(c)'
    BY <2>1 DEF VersionAt
  <2> QED
    BY <1>2, <2>5, <2>6, <2>7, <2>8, <2>9, <2>10 DEF InvAt
<1> QED
  BY <1>5, <1>7 DEF SyncInv

LEMMA ApplyFailsSync ==
    ASSUME SyncInv, TypeInv', ApplyFails
    PROVE  SyncInv'
<1>1. /\ Released' = {} /\ sending' = FALSE /\ maps' = Queue!NoMaps
      /\ UNCHANGED <<now, settings, held_objmaps, blacklisted_components, lastDrain, cloud,
                     wire, model, snapshot, reorders>>
      /\ Sent' = Sent
  BY DEF ApplyFails, QueueUntouched, Released, Queue!NoMaps, Sent
<1>2. lost' \in Nat /\ lost' # 0
  BY DEF ApplyFails, SyncInv, TypeInv
<1>3. TimeInv' /\ FirstInv' /\ BarInv'
  BY <1>1 DEF SyncInv, TimeInv, FirstInv, BarInv, Holding
<1>4. ASSUME NEW c \in Components PROVE InvAt(c)'
  <2>1. InvAt(c)
    BY DEF SyncInv
  <2> QED
    BY <1>1, <1>2, <2>1 DEF InvAt, NewAt, GoneAt, OnceAt, About, On, Holding, Adding,
       Removing, Barred, Underway, Bringing, Taking, Present
<1> QED
  BY <1>3, <1>4 DEF SyncInv

\* Whatever does not change what the invariant is about.
LEMMA TickSync ==
    ASSUME SyncInv, TypeInv', Tick
    PROVE  SyncInv'
<1>1. /\ now' = now + 1
      /\ UNCHANGED <<settings, held_objmaps, blacklisted_components, lastDrain, cloud, wire,
                     maps, sending, model, snapshot, reorders, lost>>
      /\ Released' = Released /\ Sent' = Sent
      /\ now - lastDrain < DrainEvery
      /\ \A f \in Sent : now - f.sent < MaxDelay
  BY DEF Tick, Queue!Tick, Released, Sent
<1>2. /\ now \in Nat /\ lastDrain \in Nat /\ MaxDelay \in Nat /\ DrainEvery \in Nat
      /\ \A f \in Sent : f.sent \in Nat
  <2>1. \A f \in Sent : f \in Events
    BY DEF SyncInv, TypeInv, Sent
  <2> QED
    BY <2>1, BoundsAssumption DEF SyncInv, TypeInv, Events
<1>3. TimeInv'
  BY <1>1, <1>2 DEF SyncInv, TimeInv
<1>4. FirstInv' /\ BarInv'
  BY <1>1 DEF SyncInv, FirstInv, BarInv, Holding
<1>5. ASSUME NEW c \in Components PROVE InvAt(c)'
  <2>1. InvAt(c)
    BY DEF SyncInv
  <2> QED
    BY <1>1, <2>1 DEF InvAt, NewAt, GoneAt, OnceAt, LiveAt, DeadAt, VersionAt, IsLast, About, On,
       Holding, Adding, Removing, Barred, Underway, Bringing, Taking, Present
<1> QED
  BY <1>3, <1>4, <1>5 DEF SyncInv

-----------------------------------------------------------------------------
(* The theorems. *)

LEMMA StepSync == Timely /\ SyncInv /\ [Next]_vars => SyncInv'
<1> SUFFICES ASSUME Timely, SyncInv, [Next]_vars PROVE SyncInv'
  OBVIOUS
<1>1. TypeInv'
  BY StepType DEF Timely, SyncInv
<1>2. ASSUME NEW c \in Components, Create(c) \/ Change(c) \/ Delete(c) PROVE SyncInv'
  BY <1>1, <1>2, CreateSync, ChangeSync, DeleteSync
<1>3. ASSUME NEW i \in DOMAIN wire, Post(i) \/ PostAgain(i) \/ Lose(i) PROVE SyncInv'
  BY <1>1, <1>3, PostSync, PostAgainSync, LoseSync
<1>4. CASE DrainQueue
  BY <1>1, <1>4, DrainSync
<1>5. CASE Apply
  BY <1>1, <1>5, ApplySync
<1>6. CASE ApplyFails
  BY <1>1, <1>6, ApplyFailsSync
<1>7. CASE Collect
  BY <1>7 DEF Collect, Timely
<1>8. CASE ApplyModel
  BY <1>8 DEF ApplyModel, SyncInv, TypeInv
<1>9. CASE Tick
  BY <1>1, <1>9, TickSync
<1>10. CASE UNCHANGED vars
  <2>1. /\ UNCHANGED <<now, settings, held_objmaps, blacklisted_components, lastDrain, cloud,
                       wire, maps, sending, model, snapshot, reorders, lost>>
        /\ Released' = Released /\ Sent' = Sent
    BY <1>10 DEF vars, Released, Sent
  <2>2. TimeInv' /\ FirstInv' /\ BarInv'
    BY <2>1 DEF SyncInv, TimeInv, FirstInv, BarInv, Holding
  <2>3. ASSUME NEW c \in Components PROVE InvAt(c)'
    <3>1. InvAt(c)
      BY DEF SyncInv
    <3> QED
      BY <2>1, <3>1 DEF InvAt, NewAt, GoneAt, OnceAt, LiveAt, DeadAt, VersionAt, IsLast, About, On,
         Holding, Adding, Removing, Barred, Underway, Bringing, Taking, Present
  <2> QED
    BY <1>1, <2>2, <2>3 DEF SyncInv
<1> QED
  BY <1>2, <1>3, <1>4, <1>5, <1>6, <1>7, <1>8, <1>9, <1>10 DEF Next

\* Nothing is on its way: what the invariant says of each component.
LEMMA AtRest ==
    ASSUME SyncInv, Quiescent, NEW c \in Components
    PROVE  /\ ~About(c) /\ ~Holding(c) /\ ~Underway(c) /\ ~Bringing(c)
           /\ \A k : ~On(c, k)
           /\ ~Adding(c) /\ ~Removing(c)
<1>1. Sent = {} /\ Released = {} /\ DOMAIN held_objmaps = {}
  BY DEF Quiescent, SyncInv, TypeInv, Sent, Released, Queue!NoMaps
<1> QED
  BY <1>1 DEF About, Holding, Underway, Bringing, On, Adding, Removing

\* When every event has gone through, in whatever order and however often, just
\* what exists in the cloud is in the model: for any number of components and
\* events, and any settings that leave the events the time they take.
THEOREM SameComponentsHolds == Timely => (Spec => []SameComponents)
<1> SUFFICES ASSUME Timely PROVE Spec => []SameComponents
  OBVIOUS
<1>1. SyncInv => SameComponents
  <2> SUFFICES ASSUME SyncInv, Quiescent, NEW c \in Components
               PROVE  Live(c) <=> model[c] # Absent
    BY DEF SameComponents
  <2>1. lost = 0 /\ InvAt(c)
    BY DEF SyncInv, Quiescent
  <2>2. cloud[c].state \in {"new", "live", "gone"}
    BY DEF SyncInv, TypeInv
  <2> QED
    BY <2>1, <2>2, AtRest DEF InvAt, NewAt, LiveAt, DeadAt, Live, Present
<1>2. Init => SyncInv
  BY InitSync
<1>3. SyncInv /\ [Next]_vars => SyncInv'
  BY StepSync
<1> QED
  BY <1>1, <1>2, <1>3, PTL DEF Spec

\* And if no event overtook another, the model has the last version of each.
THEOREM SameVersionsHolds == Timely => (Spec => []SameVersions)
<1> SUFFICES ASSUME Timely PROVE Spec => []SameVersions
  OBVIOUS
<1>1. SyncInv => SameVersions
  <2> SUFFICES ASSUME SyncInv, Quiescent, reorders = 0, NEW c \in Components, Live(c)
               PROVE  model[c] = cloud[c].version
    BY DEF SameVersions
  <2>1. lost = 0 /\ InvAt(c)
    BY DEF SyncInv, Quiescent
  <2> QED
    BY <2>1, AtRest DEF InvAt, VersionAt, Live
<1>2. Init => SyncInv
  BY InitSync
<1>3. SyncInv /\ [Next]_vars => SyncInv'
  BY StepSync
<1> QED
  BY <1>1, <1>2, <1>3, PTL DEF Spec

-----------------------------------------------------------------------------
(* Deletions, however long anything takes. *)

\* What a drain releases for a component that it bars, or that it finds barred,
\* removes it.
RemovalsOnly == \A m \in Released : Barred(m.id) => m.remove

\* A component whose deletion the queue remembers does not come back, whatever
\* the settings are and however late its events come: the blacklist and what is
\* released change together, at a drain.
THEOREM DeletedStaysDeletedHolds == ~Modeling => (Spec => DeletedStaysDeleted)
<1> SUFFICES ASSUME ~Modeling PROVE Spec => DeletedStaysDeleted
  OBVIOUS
<1>1. Init => TypeInv /\ RemovalsOnly
  BY InitType DEF Init, RemovalsOnly, Released, Queue!NoMaps
<1>2. TypeInv /\ RemovalsOnly /\ [Next]_vars => (TypeInv /\ RemovalsOnly)'
  <2> SUFFICES ASSUME TypeInv, RemovalsOnly, [Next]_vars PROVE (TypeInv /\ RemovalsOnly)'
    OBVIOUS
  <2>1. TypeInv'
    BY StepType
  <2>2. CASE DrainQueue
    <3>1. /\ Released' = {held_objmaps[c].objmap : c \in Queue!Ready}
          /\ Queue!Ready \subseteq DOMAIN held_objmaps
          /\ \A c \in Queue!Ready : Barred(c)' => Removing(c)
      BY <2>2, Drained
    <3>2. \A c \in DOMAIN held_objmaps : held_objmaps[c].objmap.id = c
      BY DEF TypeInv
    <3> QED
      BY <2>1, <3>1, <3>2 DEF RemovalsOnly, Removing
  <2>3. CASE /\ blacklisted_components' = blacklisted_components
             /\ Released' \subseteq Released
    BY <2>1, <2>3 DEF RemovalsOnly, Barred
  <2>4. ~DrainQueue => /\ blacklisted_components' = blacklisted_components
                       /\ Released' \subseteq Released
    <3> SUFFICES ASSUME ~DrainQueue PROVE /\ blacklisted_components' = blacklisted_components
                                          /\ maps' = maps \/ maps' = Queue!NoMaps
      BY DEF Released, Queue!NoMaps
    <3>1. CASE \E c \in Components : Create(c) \/ Change(c) \/ Delete(c)
      BY <3>1 DEF Create, Change, Delete, QueueUntouched
    <3>2. CASE \E i \in DOMAIN wire : Post(i) \/ PostAgain(i) \/ Lose(i)
      BY <3>2 DEF Post, PostAgain, Lose, QueueUntouched, Queue!AppendMap
    <3>3. CASE Apply \/ ApplyFails \/ Collect \/ ApplyModel \/ Tick
      BY <3>3 DEF Apply, ApplyFails, Collect, ApplyModel, Tick, QueueUntouched, Queue!Tick
    <3>4. CASE UNCHANGED vars
      BY <3>4 DEF vars
    <3> QED
      BY <3>1, <3>2, <3>3, <3>4 DEF Next
  <2> QED
    BY <2>2, <2>3, <2>4
<1>3. TypeInv /\ RemovalsOnly /\ [Next]_vars =>
          [\A c \in DOMAIN blacklisted_components : model[c] = Absent => model'[c] = Absent]_vars
  <2> SUFFICES ASSUME TypeInv, RemovalsOnly, Next,
                      NEW c \in DOMAIN blacklisted_components, model[c] = Absent
               PROVE  model'[c] = Absent
    OBVIOUS
  <2>1. c \in Components
    BY DEF TypeInv
  <2>2. CASE Apply
    <3>1. model'[c] = Applied(c)
      BY <2>1, <2>2 DEF Apply
    <3>2. CASE ~Underway(c)
      BY <2>1, <3>1, <3>2, AppliedMaps
    <3>3. CASE Underway(c)
      <4>1. PICK m \in Released : m.id = c
        BY <3>3 DEF Underway
      <4>2. m.remove
        BY <4>1 DEF RemovalsOnly, Barred
      <4> QED
        BY <2>1, <3>1, <4>1, <4>2, AppliedMaps
    <3> QED
      BY <3>2, <3>3
  <2>3. ~Apply => model' = model
    BY DEF Next, Create, Change, Delete, Post, PostAgain, Lose, DrainQueue, ApplyFails, Collect,
       ApplyModel, Tick, TypeInv
  <2> QED
    BY <2>2, <2>3
<1> QED
  BY <1>1, <1>2, <1>3, PTL DEF Spec, DeletedStaysDeleted

=============================================================================
