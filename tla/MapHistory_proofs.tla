-------------------------- MODULE MapHistory_proofs --------------------------
(***************************************************************************)
(* Proofs about ConsolidatingObjectMapQueue: first about the queue by      *)
(* itself, its type correctness, the independence of the creations of one  *)
(* drain, and that splitting a map loses nothing; then about its history:  *)
(* what is held is the aggregate of what arrived, nothing is released for  *)
(* a component deleted recently, nothing is lost without a reason, and,    *)
(* with fixed settings, the queue implements MapPromise.                   *)
(***************************************************************************)
EXTENDS MapHistory, TLAPS

-----------------------------------------------------------------------------
(* Lemmas about the maps. *)

\* Restricting the attributes of a map leaves a payload.
LEMMA RestrictionIsPayload ==
    ASSUME NEW a, IsPayload(a), NEW S, S \subseteq DOMAIN a
    PROVE  IsPayload(Restriction(a, S))
BY DEF IsPayload, Restriction

\* Every map that the event mapping functions create is a map.
LEMMA ArrivalIsMap ==
    ASSUME NEW m \in Arrivals
    PROVE  IsMap(m)
<1>1. IsPayload(NoAttrs)
  BY DEF IsPayload, NoAttrs
<1>2. ASSUME NEW a \in Payloads PROVE IsPayload(a)
  BY PayloadAssumption
<1>3. CASE \E c \in Components : m = RemoveMap(c)
  BY <1>1, <1>3 DEF IsMap, RemoveMap
<1>4. CASE \E c \in Components, a \in Payloads :
               m = CreateMap(c, a) \/ m = UpdateMap(c, a) \/ m = VnicMap(c, a)
  <2>1. PICK c \in Components, a \in Payloads :
                 m = CreateMap(c, a) \/ m = UpdateMap(c, a) \/ m = VnicMap(c, a)
    BY <1>4
  <2>2. IsPayload(a)
    BY <1>2
  <2>3. IsMap(CreateMap(c, a))
    BY <2>2 DEF IsMap, CreateMap
  <2>4. IsMap(UpdateMap(c, a))
    BY <2>2 DEF IsMap, UpdateMap
  <2>5. IsMap(VnicMap(c, a))
    BY <2>2 DEF IsMap, VnicMap
  <2>6. QED
    BY <2>1, <2>3, <2>4, <2>5
<1>5. QED
  BY <1>3, <1>4 DEF Arrivals

\* Overlaying one map on another yields a map of the older one's component.
LEMMA OverlayIsMap ==
    ASSUME NEW old, IsMap(old), NEW new, IsMap(new)
    PROVE  IsMap(Overlay(old, new)) /\ Overlay(old, new).id = old.id
<1> DEFINE attrs == Overlay(old, new).attrs
<1>1. attrs = [k \in DOMAIN new.attrs \cup DOMAIN old.attrs |->
                  IF k \in DOMAIN new.attrs THEN new.attrs[k] ELSE old.attrs[k]]
  BY DEF Overlay
<1>2. IsPayload(attrs)
  BY <1>1 DEF IsMap, IsPayload
<1>3. QED
  BY <1>2 DEF IsMap, Overlay

\* The groups made of maps, each filed under its own id, consist of maps.
LEMMA GroupsAreMaps ==
    ASSUME NEW M, \A c \in DOMAIN M : IsMap(M[c]) /\ M[c].id = c
    PROVE  /\ Groups(M) = [A |-> Groups(M).A, B |-> Groups(M).B, C |-> Groups(M).C]
           /\ \A m \in Groups(M).A \cup Groups(M).B \cup Groups(M).C : IsMap(m)
<1>1. ASSUME NEW c \in Creating(M) PROVE IsMap(Stripped(M, c))
  <2>1. IsMap(M[c])
    BY DEF Creating
  <2>2. IsPayload(Restriction(M[c].attrs, DOMAIN M[c].attrs \ MovedRefs(M, c)))
    BY <2>1, RestrictionIsPayload DEF IsMap
  <2>3. QED
    BY <2>1, <2>2 DEF IsMap, Stripped
<1>2. ASSUME NEW c \in Creating(M) PROVE IsMap(Moved(M, c))
  <2>1. IsMap(M[c]) /\ c \in Components
    BY DEF Creating, IsMap
  <2>2. IsPayload(Restriction(M[c].attrs, MovedRefs(M, c)))
    BY <2>1, RestrictionIsPayload DEF IsMap, MovedRefs
  <2>3. QED
    BY <2>1, <2>2 DEF IsMap, Moved
<1>3. QED
  BY <1>1, <1>2 DEF Groups

-----------------------------------------------------------------------------
(* Type correctness. *)

LEMMA InitType == Init => TypeOK
BY MaxTimeAssumption DEF Init, TypeOK, NoMaps, NoAttrs

LEMMA AppendType ==
    ASSUME TypeOK, NEW m \in Arrivals, AppendMap(m)
    PROVE  TypeOK'
<1>1. IsMap(m) /\ m.id \in Components
  BY ArrivalIsMap DEF IsMap
<1>2. IsMap(Stored(m).objmap) /\ Stored(m).objmap.id = m.id /\ Stored(m).first \in 0..now
      /\ Stored(m) = [first |-> Stored(m).first, objmap |-> Stored(m).objmap]
  <2>1. CASE m.id \in DOMAIN held_objmaps
    BY <1>1, <2>1, OverlayIsMap DEF TypeOK, Stored
  <2>2. CASE m.id \notin DOMAIN held_objmaps
    BY <1>1, <2>2 DEF TypeOK, Stored
  <2>3. QED BY <2>1, <2>2
<1>3. QED
  BY <1>1, <1>2 DEF TypeOK, AppendMap, NoMaps

LEMMA DrainType ==
    ASSUME TypeOK, Drain
    PROVE  TypeOK'
<1> DEFINE M == [c \in Ready |-> held_objmaps[c].objmap]
<1>1. \A c \in DOMAIN M : IsMap(M[c]) /\ M[c].id = c
  BY DEF TypeOK, Ready, Kept
<1>2. /\ out' = [A |-> out'.A, B |-> out'.B, C |-> out'.C]
      /\ \A m \in out'.A \cup out'.B \cup out'.C : IsMap(m)
  BY <1>1, GroupsAreMaps DEF Drain
<1>3. /\ blacklisted_components' \in [DOMAIN blacklisted_components' -> 0..now]
      /\ DOMAIN blacklisted_components' \subseteq Components
  BY DEF TypeOK, Drain, Blacklist, Shortlived, Deleted, Kept
<1>4. QED
  BY <1>2, <1>3 DEF TypeOK, Drain, Restriction, Kept

LEMMA StepType == TypeOK /\ [Next]_vars => TypeOK'
<1> SUFFICES ASSUME TypeOK, [Next]_vars PROVE TypeOK'
  OBVIOUS
<1>1. CASE \E m \in Arrivals : AppendMap(m)
  BY <1>1, AppendType
<1>2. CASE Drain
  BY <1>2, DrainType
<1>3. CASE Reset
  BY <1>3 DEF TypeOK, Reset, NoMaps, NoAttrs
<1>4. CASE Configure
  BY <1>4 DEF TypeOK, Configure, NoMaps
<1>5. CASE Tick
  <2>1. now' \in 0..MaxTime /\ 0..now \subseteq 0..now'
    BY <1>5, MaxTimeAssumption DEF TypeOK, Tick
  <2>2. QED
    BY <1>5, <2>1 DEF TypeOK, Tick, NoMaps
<1>6. CASE UNCHANGED vars
  BY <1>6 DEF TypeOK, vars
<1>7. QED
  BY <1>1, <1>2, <1>3, <1>4, <1>5, <1>6 DEF Next

\* Every held map is well formed, filed under its own id and stamped with a
\* time that has passed; so are the blacklist and what a drain returns.
THEOREM TypeCorrect == Spec => []TypeOK
<1>1. QED
  BY InitType, StepType, PTL DEF Spec

-----------------------------------------------------------------------------
(* The order of the groups is enough. *)

\* For any maps filed under their own ids, no map of group A refers to a
\* component of group A.
LEMMA GroupAIsIndependent ==
    ASSUME NEW M, \A c \in DOMAIN M : IsMap(M[c]) /\ M[c].id = c
    PROVE  \A m \in Groups(M).A : Refs(m) \cap Ids(Groups(M).A) = {}
<1>1. Ids(Groups(M).A) \subseteq Creating(M)
  <2>1. ASSUME NEW c \in Creating(M) PROVE Stripped(M, c).id = c
    BY DEF Creating, Stripped, IsMap
  <2>2. QED
    BY <2>1 DEF Groups, Ids
<1>2. SUFFICES ASSUME NEW c \in Creating(M),
                      NEW k \in DOMAIN Stripped(M, c).attrs \cap Rels
               PROVE  Stripped(M, c).attrs[k] \cap Creating(M) = {}
  BY <1>1 DEF Groups, Refs
<1>3. /\ Stripped(M, c).attrs =
             Restriction(M[c].attrs, DOMAIN M[c].attrs \ MovedRefs(M, c))
  BY DEF Stripped, Creating, IsMap
<1>4. /\ k \in DOMAIN M[c].attrs \ MovedRefs(M, c)
      /\ Stripped(M, c).attrs[k] = M[c].attrs[k]
  BY <1>3 DEF Restriction
<1>5. QED
  BY <1>4 DEF MovedRefs

\* Whatever was queued and whenever the queue is drained, the maps that
\* create components can be applied in any order.
THEOREM CreationsIndependent == Spec => []CreationsAreIndependent
<1>1. Init => CreationsAreIndependent
  BY DEF Init, CreationsAreIndependent, NoMaps
<1>2. TypeOK /\ CreationsAreIndependent /\ [Next]_vars => CreationsAreIndependent'
  <2> SUFFICES ASSUME TypeOK, CreationsAreIndependent, [Next]_vars
               PROVE  CreationsAreIndependent'
    OBVIOUS
  <2>1. CASE Drain
    <3> DEFINE M == [c \in Ready |-> held_objmaps[c].objmap]
    <3>1. \A c \in DOMAIN M : IsMap(M[c]) /\ M[c].id = c
      BY DEF TypeOK, Ready, Kept
    <3>2. QED
      BY <2>1, <3>1, GroupAIsIndependent DEF Drain, CreationsAreIndependent, Refs, Ids
  <2>2. CASE out' = NoMaps
    BY <2>2 DEF CreationsAreIndependent, NoMaps
  <2>3. CASE UNCHANGED vars
    BY <2>3 DEF CreationsAreIndependent, vars, Refs, Ids
  <2>4. QED
    BY <2>1, <2>2, <2>3 DEF Next, AppendMap, Reset, Configure, Tick
<1>3. QED
  BY <1>1, <1>2, TypeCorrect, PTL DEF Spec

-----------------------------------------------------------------------------
(* Splitting loses nothing. *)

\* The released maps of a component: the map itself, or the two parts of one
\* that creates it, the second only if there is something to move.
Parts(M, c) ==
    {m \in Groups(M).A \cup Groups(M).B \cup Groups(M).C : m.id = c}

LEMMA PartsOfComponent ==
    ASSUME NEW M, \A c \in DOMAIN M : IsMap(M[c]) /\ M[c].id = c, NEW c \in DOMAIN M
    PROVE  /\ c \notin Creating(M) => Parts(M, c) = {M[c]}
           /\ c \in Creating(M) /\ MovedRefs(M, c) = {} => Parts(M, c) = {Stripped(M, c)}
           /\ c \in Creating(M) /\ MovedRefs(M, c) # {} =>
                  Parts(M, c) = {Stripped(M, c), Moved(M, c)}
<1> DEFINE moving == {d \in Creating(M) : MovedRefs(M, d) # {}}
<1>1. ASSUME NEW m
      PROVE  m \in Parts(M, c) <=>
                 \/ \E d \in Creating(M) : m = Stripped(M, d) /\ m.id = c
                 \/ \E d \in moving : m = Moved(M, d) /\ m.id = c
                 \/ \E d \in DOMAIN M \ Creating(M) : m = M[d] /\ m.id = c
  BY DEF Parts, Groups
<1>2. /\ \A d \in Creating(M) : Stripped(M, d).id = d
      /\ \A d \in moving : Moved(M, d).id = d
      /\ \A d \in DOMAIN M : M[d].id = d
  BY DEF Creating, Stripped, Moved, IsMap
<1>3. ASSUME NEW m
      PROVE  m \in Parts(M, c) <=>
                 \/ c \in Creating(M) /\ m = Stripped(M, c)
                 \/ c \in moving /\ m = Moved(M, c)
                 \/ c \in DOMAIN M \ Creating(M) /\ m = M[c]
  BY <1>1, <1>2
<1> QED
  BY <1>3

LEMMA SplitLosesNothing ==
    ASSUME NEW M, \A c \in DOMAIN M : IsMap(M[c]) /\ M[c].id = c, NEW c \in DOMAIN M
    PROVE  /\ UNION {DOMAIN m.attrs : m \in Parts(M, c)} = DOMAIN M[c].attrs
           /\ \A m \in Parts(M, c) : \A k \in DOMAIN m.attrs : m.attrs[k] = M[c].attrs[k]
           /\ \E m \in Parts(M, c) : m.add = M[c].add /\ m.remove = M[c].remove
<1> DEFINE whole == M[c]   first == Stripped(M, c)   second == Moved(M, c)
           moved == MovedRefs(M, c)
<1>1. IsMap(whole) /\ moved \subseteq DOMAIN whole.attrs
  BY DEF MovedRefs
<1>2. /\ first.attrs = Restriction(whole.attrs, DOMAIN whole.attrs \ moved)
      /\ first.add = whole.add /\ first.remove = whole.remove
      /\ second.attrs = Restriction(whole.attrs, moved)
  BY <1>1 DEF IsMap, Stripped, Moved
<1>3. /\ DOMAIN first.attrs = DOMAIN whole.attrs \ moved
      /\ \A k \in DOMAIN first.attrs : first.attrs[k] = whole.attrs[k]
      /\ DOMAIN second.attrs = moved
      /\ \A k \in DOMAIN second.attrs : second.attrs[k] = whole.attrs[k]
  BY <1>2 DEF Restriction
<1>4. \/ Parts(M, c) = {whole}
      \/ moved = {} /\ Parts(M, c) = {first}
      \/ Parts(M, c) = {first, second}
  BY PartsOfComponent
<1> HIDE DEF whole, first, second, moved
<1>5. CASE Parts(M, c) = {whole}
  BY <1>5 DEF whole
<1>6. CASE moved = {} /\ Parts(M, c) = {first}
  BY <1>2, <1>3, <1>6 DEF whole
<1>7. CASE Parts(M, c) = {first, second}
  <2>1. UNION {DOMAIN m.attrs : m \in Parts(M, c)} = DOMAIN first.attrs \cup DOMAIN second.attrs
    BY <1>7
  <2>2. DOMAIN first.attrs \cup DOMAIN second.attrs = DOMAIN whole.attrs
    BY <1>1, <1>3
  <2> QED
    BY <1>2, <1>3, <1>7, <2>1, <2>2 DEF whole
<1> QED
  BY <1>4, <1>5, <1>6, <1>7

\* What a drain releases for a component sets just what was held for it, however
\* the components of the drain refer to each other.
THEOREM SplitIsLosslessHolds == Spec => SplitIsLossless
<1>1. ASSUME TypeOK, Drain, NEW c \in Ready
      PROVE  LET parts == {m \in out'.A \cup out'.B \cup out'.C : m.id = c}
                 held == held_objmaps[c].objmap
             IN  /\ UNION {DOMAIN m.attrs : m \in parts} = DOMAIN held.attrs
                 /\ \A m \in parts : \A k \in DOMAIN m.attrs : m.attrs[k] = held.attrs[k]
                 /\ \E m \in parts : m.add = held.add /\ m.remove = held.remove
  <2> DEFINE M == [d \in Ready |-> held_objmaps[d].objmap]
  <2>1. \A d \in DOMAIN M : IsMap(M[d]) /\ M[d].id = d
    BY <1>1 DEF TypeOK, Ready, Kept
  <2>2. out' = Groups(M)
    BY <1>1 DEF Drain
  <2>3. {m \in out'.A \cup out'.B \cup out'.C : m.id = c} = Parts(M, c)
    BY <2>2 DEF Parts
  <2>4. c \in DOMAIN M /\ M[c] = held_objmaps[c].objmap
    OBVIOUS
  <2> HIDE DEF M
  <2> QED
    BY <2>1, <2>3, <2>4, SplitLosesNothing
<1>2. TypeOK => [Drain => \A c \in Ready :
                     LET parts == {m \in out'.A \cup out'.B \cup out'.C : m.id = c}
                         held == held_objmaps[c].objmap
                     IN  /\ UNION {DOMAIN m.attrs : m \in parts} = DOMAIN held.attrs
                         /\ \A m \in parts : \A k \in DOMAIN m.attrs : m.attrs[k] = held.attrs[k]
                         /\ \E m \in parts : m.add = held.add /\ m.remove = held.remove]_vars
  BY <1>1
<1> QED
  BY <1>2, TypeCorrect, PTL DEF SplitIsLossless

-----------------------------------------------------------------------------
(* The history of the queue. *)

Entry == [at : Nat, map : Arrivals]

\* Every attribute that occurs in a log has a last occurrence: the maximum
\* that LastSet chooses exists.
HasLast(l) ==
    \A k \in UNION {DOMAIN l[i].map.attrs : i \in DOMAIN l} :
        \E i \in Promise!Sets(l, k) : \A j \in Promise!Sets(l, k) : j <= i

LogOK ==
    /\ log \in [Components -> Seq(Entry)]
    /\ \A c \in Components :
           /\ \A i \in DOMAIN log[c] : log[c][i].map.id = c
           /\ HasLast(log[c])

\* The blacklist remembers a deletion until one of the settings allows to
\* forget it.
DeletionsAreRemembered ==
    /\ deletedAt \in [Components -> Nat \cup {Never}]
    /\ \A c \in DOMAIN blacklisted_components : deletedAt[c] = blacklisted_components[c]
    /\ \A c \in Components \ DOMAIN blacklisted_components :
           deletedAt[c] # Never => \E s \in Settings : now - deletedAt[c] > s.blacklist

HistoryInv == TypeOK /\ LogOK /\ HeldIsAggregate /\ DeletionsAreRemembered

-----------------------------------------------------------------------------
(* The aggregate of a log, computed one arrival at a time. *)

LEMMA AggregateOfOne ==
    ASSUME NEW c \in Components, NEW t \in Nat, NEW m \in Arrivals, m.id = c
    PROVE  /\ Promise!Aggregate(c, <<[at |-> t, map |-> m]>>) = m
           /\ HasLast(<<[at |-> t, map |-> m]>>)
<1> DEFINE l == <<[at |-> t, map |-> m]>>
<1>1. DOMAIN l = {1} /\ l[1].map = m
  OBVIOUS
<1>2. \A k \in DOMAIN m.attrs : Promise!Sets(l, k) = {1}
  BY <1>1 DEF Promise!Sets
<1>3. \A k \in DOMAIN m.attrs : Promise!LastSet(l, k) = 1
  BY <1>2 DEF Promise!LastSet
<1>4. UNION {DOMAIN l[i].map.attrs : i \in DOMAIN l} = DOMAIN m.attrs
  BY <1>1
<1>5. IsMap(m)
  BY ArrivalIsMap
<1>6. [k \in DOMAIN m.attrs |-> l[Promise!LastSet(l, k)].map.attrs[k]] = m.attrs
  BY <1>1, <1>3, <1>5 DEF IsMap, IsPayload
<1>7. Promise!Aggregate(c, l) = m
  <2>1. /\ (\E i \in DOMAIN l : l[i].map.add) = m.add
        /\ (\E i \in DOMAIN l : l[i].map.remove) = m.remove
        /\ (\E i \in DOMAIN l : l[i].map.update) = m.update
    BY <1>1, <1>5 DEF IsMap
  <2>2. QED
    BY <1>4, <1>5, <1>6, <2>1 DEF Promise!Aggregate, Promise!IsAdd, Promise!IsRemove, IsMap
<1>8. HasLast(l)
  BY <1>2, <1>4 DEF HasLast
<1>9. QED
  BY <1>7, <1>8

LEMMA AggregateOfAppend ==
    ASSUME NEW c \in Components, NEW l \in Seq(Entry), HasLast(l),
           NEW t \in Nat, NEW m \in Arrivals
    PROVE  /\ Promise!Aggregate(c, Append(l, [at |-> t, map |-> m]))
                  = Overlay(Promise!Aggregate(c, l), m)
           /\ HasLast(Append(l, [at |-> t, map |-> m]))
<1> DEFINE n == Len(l) + 1
           e == [at |-> t, map |-> m]
           L == Append(l, e)
           K(s) == UNION {DOMAIN s[i].map.attrs : i \in DOMAIN s}
<1>1. /\ DOMAIN L = 1..n /\ DOMAIN l = 1..(n - 1) /\ n \in Nat
      /\ L[n] = e
      /\ \A i \in DOMAIN l : L[i] = l[i]
  BY DEF Entry
<1>2. ASSUME NEW k \in DOMAIN m.attrs
      PROVE  /\ n \in Promise!Sets(L, k)
             /\ \A j \in Promise!Sets(L, k) : j <= n
             /\ Promise!LastSet(L, k) = n
  BY <1>1 DEF Promise!Sets, Promise!LastSet
<1>3. ASSUME NEW k \in K(l), k \notin DOMAIN m.attrs
      PROVE  /\ Promise!Sets(L, k) = Promise!Sets(l, k)
             /\ Promise!LastSet(L, k) = Promise!LastSet(l, k)
             /\ Promise!LastSet(l, k) \in DOMAIN l
             /\ \E i \in Promise!Sets(L, k) : \A j \in Promise!Sets(L, k) : j <= i
  <2>1. Promise!Sets(L, k) = Promise!Sets(l, k)
    BY <1>1, <1>3 DEF Promise!Sets
  <2>2. \E i \in Promise!Sets(l, k) : \A j \in Promise!Sets(l, k) : j <= i
    BY DEF HasLast
  <2>3. Promise!LastSet(l, k) \in Promise!Sets(l, k)
    BY <2>2 DEF Promise!LastSet
  <2>4. Promise!LastSet(L, k) = Promise!LastSet(l, k)
    BY <2>1 DEF Promise!LastSet
  <2>5. QED
    BY <2>1, <2>2, <2>3, <2>4 DEF Promise!Sets
<1>4. K(L) = DOMAIN m.attrs \cup K(l)
  BY <1>1
<1>5. HasLast(L)
  BY <1>2, <1>3, <1>4 DEF HasLast
<1>6. [k \in K(L) |-> L[Promise!LastSet(L, k)].map.attrs[k]] =
          [k \in DOMAIN m.attrs \cup K(l) |->
              IF k \in DOMAIN m.attrs THEN m.attrs[k]
                                      ELSE l[Promise!LastSet(l, k)].map.attrs[k]]
  BY <1>1, <1>2, <1>3, <1>4
<1>7. /\ (\E i \in DOMAIN L : L[i].map.add) = ((\E i \in DOMAIN l : l[i].map.add) \/ m.add)
      /\ (\E i \in DOMAIN L : L[i].map.remove)
             = ((\E i \in DOMAIN l : l[i].map.remove) \/ m.remove)
      /\ (\E i \in DOMAIN L : L[i].map.update)
             = ((\E i \in DOMAIN l : l[i].map.update) \/ m.update)
  <2>1. IsMap(m)
    BY ArrivalIsMap
  <2>2. DOMAIN L = DOMAIN l \cup {n} /\ L[n].map = m
    BY <1>1
  <2>3. (\E i \in DOMAIN L : L[i].map.add) <=> ((\E i \in DOMAIN l : l[i].map.add) \/ m.add)
    BY <1>1, <2>2, Zenon
  <2>4. (\E i \in DOMAIN L : L[i].map.remove)
            <=> ((\E i \in DOMAIN l : l[i].map.remove) \/ m.remove)
    BY <1>1, <2>2, Zenon
  <2>5. (\E i \in DOMAIN L : L[i].map.update)
            <=> ((\E i \in DOMAIN l : l[i].map.update) \/ m.update)
    BY <1>1, <2>2, Zenon
  <2>6. QED
    BY <2>3, <2>4, <2>5, Zenon
<1>8. Promise!Aggregate(c, L) = Overlay(Promise!Aggregate(c, l), m)
  BY <1>6, <1>7 DEF Promise!Aggregate, Promise!IsAdd, Promise!IsRemove, Overlay
<1>9. QED
  BY <1>5, <1>8

-----------------------------------------------------------------------------
(* The inductive invariant. *)

\* A step with history is a step of the queue.
LEMMA HStepIsStep == [HNext]_hvars => [Next]_vars
BY DEF HNext, Next, hvars, vars, HAppend, HDrain, HReset, HConfigure, HTick

LEMMA HistoryInit == HInit => HistoryInv
<1> SUFFICES ASSUME HInit PROVE HistoryInv
  OBVIOUS
<1>1. TypeOK
  BY InitType DEF HInit
<1>2. LogOK
  BY DEF HInit, LogOK, HasLast
<1>3. HeldIsAggregate
  BY DEF HInit, Init, HeldIsAggregate, NoAttrs
<1>4. DeletionsAreRemembered
  BY DEF HInit, Init, DeletionsAreRemembered, NoAttrs
<1>5. QED
  BY <1>1, <1>2, <1>3, <1>4 DEF HistoryInv

LEMMA HistoryAppend ==
    ASSUME HistoryInv, NEW m \in Arrivals, HAppend(m)
    PROVE  LogOK' /\ HeldIsAggregate' /\ DeletionsAreRemembered'
<1> DEFINE c == m.id
           e == [at |-> now, map |-> m]
<1> USE DEF HistoryInv
<1>1. c \in Components /\ now \in Nat
  BY ArrivalIsMap DEF IsMap, TypeOK
<1>2. /\ log' \in [Components -> Seq(Entry)]
      /\ log'[c] = Append(log[c], e)
      /\ \A d \in Components \ {c} : log'[d] = log[d]
      /\ log[c] \in Seq(Entry) /\ e \in Entry
  <2>1. log' = [log EXCEPT ![c] = Append(log[c], e)] /\ log \in [Components -> Seq(Entry)]
    BY DEF HAppend, LogOK
  <2>2. e \in Entry
    BY <1>1 DEF Entry
  <2>3. log[c] \in Seq(Entry) /\ Append(log[c], e) \in Seq(Entry)
    BY <1>1, <2>1, <2>2
  <2>4. QED
    BY <1>1, <2>1, <2>2, <2>3
<1>3. /\ HasLast(log'[c])
      /\ log[c] # <<>> =>
             Promise!Aggregate(c, log'[c]) = Overlay(Promise!Aggregate(c, log[c]), m)
      /\ log[c] = <<>> => Promise!Aggregate(c, log'[c]) = m
  <2>1. CASE log[c] = <<>>
    <3>1. log'[c] = <<e>>
      BY <1>2, <2>1
    <3>2. QED
      BY <1>1, <2>1, <3>1, AggregateOfOne
  <2>2. CASE log[c] # <<>>
    <3>1. HasLast(log[c])
      BY <1>1 DEF LogOK
    <3>2. QED
      BY <1>1, <1>2, <2>2, <3>1, AggregateOfAppend
  <2>3. QED
    BY <2>1, <2>2
<1>4. LogOK'
  <2>1. \A i \in DOMAIN log'[c] : log'[c][i].map.id = c
    BY <1>1, <1>2 DEF LogOK
  <2>2. QED
    BY <1>2, <1>3, <2>1 DEF LogOK
<1>5. HeldIsAggregate'
  <2>1. /\ log'[c] # <<>>
        /\ log[c] = <<>> => log'[c][1].at = now
        /\ log[c] # <<>> => log'[c][1] = log[c][1]
    BY <1>2
  <2>2. DOMAIN held_objmaps' = {d \in Components : log'[d] # <<>>}
    BY <1>1, <1>2, <2>1 DEF HAppend, AppendMap, HeldIsAggregate
  <2>3. held_objmaps'[c] = [first |-> log'[c][1].at, objmap |-> Promise!Aggregate(c, log'[c])]
    <3>1. held_objmaps'[c] = Stored(m) /\ (c \in DOMAIN held_objmaps <=> log[c] # <<>>)
      BY <1>1 DEF HAppend, AppendMap, HeldIsAggregate
    <3>2. CASE log[c] = <<>>
      BY <1>1, <1>3, <2>1, <3>1, <3>2 DEF Stored
    <3>3. CASE log[c] # <<>>
      <4>1. held_objmaps[c] = [first |-> log[c][1].at, objmap |-> Promise!Aggregate(c, log[c])]
        BY <3>1, <3>3 DEF HeldIsAggregate
      <4>2. QED
        BY <1>3, <2>1, <3>1, <3>3, <4>1 DEF Stored
    <3>4. QED
      BY <3>2, <3>3
  <2>4. ASSUME NEW d \in DOMAIN held_objmaps', d # c
        PROVE  held_objmaps'[d] =
                   [first |-> log'[d][1].at, objmap |-> Promise!Aggregate(d, log'[d])]
    <3>1. d \in DOMAIN held_objmaps /\ held_objmaps'[d] = held_objmaps[d]
      BY <2>4 DEF HAppend, AppendMap
    <3>2. log'[d] = log[d]
      BY <1>2, <2>2, <2>4
    <3>3. held_objmaps[d] = [first |-> log[d][1].at, objmap |-> Promise!Aggregate(d, log[d])]
      BY <3>1 DEF HeldIsAggregate
    <3>4. QED
      BY <3>1, <3>2, <3>3
  <2>5. QED
    BY <2>2, <2>3, <2>4 DEF HeldIsAggregate
<1>6. DeletionsAreRemembered'
  BY DEF HAppend, AppendMap, DeletionsAreRemembered
<1>7. QED
  BY <1>4, <1>5, <1>6

LEMMA HistoryDrain ==
    ASSUME HistoryInv, HDrain
    PROVE  LogOK' /\ HeldIsAggregate' /\ DeletionsAreRemembered'
<1> USE DEF HistoryInv
<1>1. /\ \A c \in Components : log'[c] = IF c \in Kept \ Ready THEN log[c] ELSE <<>>
      /\ log' \in [Components -> Seq(Entry)]
  BY DEF HDrain, LogOK
<1>2. LogOK'
  <2>1. HasLast(<<>>)
    BY DEF HasLast
  <2>2. QED
    BY <1>1, <2>1 DEF LogOK
<1>3. Kept \subseteq DOMAIN held_objmaps /\ DOMAIN held_objmaps \subseteq Components
  BY DEF Kept, TypeOK
<1>4. HeldIsAggregate'
  <2>1. DOMAIN held_objmaps' = Kept \ Ready
    BY DEF HDrain, Drain, Restriction
  <2>2. DOMAIN held_objmaps' = {c \in Components : log'[c] # <<>>}
    BY <1>1, <1>3, <2>1 DEF HeldIsAggregate
  <2>3. ASSUME NEW c \in Kept \ Ready
        PROVE  held_objmaps'[c] =
                   [first |-> log'[c][1].at, objmap |-> Promise!Aggregate(c, log'[c])]
    <3>1. held_objmaps'[c] = held_objmaps[c]
      BY DEF HDrain, Drain, Restriction
    <3>2. log'[c] = log[c]
      BY <1>1, <1>3
    <3>3. held_objmaps[c] = [first |-> log[c][1].at, objmap |-> Promise!Aggregate(c, log[c])]
      BY <1>3 DEF HeldIsAggregate
    <3>4. QED
      BY <3>1, <3>2, <3>3
  <2>4. QED
    BY <2>1, <2>2, <2>3 DEF HeldIsAggregate
<1>5. DeletionsAreRemembered'
  <2>1. /\ Shortlived \cup Deleted \subseteq Components
        /\ now' = now /\ now \in Nat
        /\ DOMAIN blacklisted_components' = Blacklist \cup Shortlived \cup Deleted
        /\ \A c \in Shortlived \cup Deleted : deletedAt'[c] = now
        /\ \A c \in Components \ (Shortlived \cup Deleted) : deletedAt'[c] = deletedAt[c]
    BY <1>3 DEF HDrain, Drain, Shortlived, Deleted, TypeOK
  <2>2. deletedAt' \in [Components -> Nat \cup {Never}]
    BY <2>1 DEF HDrain, DeletionsAreRemembered
  <2>3. \A c \in DOMAIN blacklisted_components' : deletedAt'[c] = blacklisted_components'[c]
    BY <2>1 DEF HDrain, Drain, Blacklist, DeletionsAreRemembered, TypeOK
  <2>4. ASSUME NEW c \in Components, c \notin DOMAIN blacklisted_components',
               deletedAt'[c] # Never
        PROVE  \E s \in Settings : now' - deletedAt'[c] > s.blacklist
    <3>1. deletedAt'[c] = deletedAt[c] /\ c \notin Blacklist
      BY <2>1, <2>4
    <3>2. CASE c \in DOMAIN blacklisted_components
      <4>1. now - blacklisted_components[c] > settings.blacklist
        BY <3>1, <3>2, SettingsAssumption DEF Blacklist, TypeOK
      <4>2. settings \in Settings /\ deletedAt[c] = blacklisted_components[c]
        BY <3>2 DEF TypeOK, DeletionsAreRemembered
      <4>3. QED
        BY <2>1, <3>1, <4>1, <4>2
    <3>3. CASE c \notin DOMAIN blacklisted_components
      BY <2>1, <2>4, <3>1, <3>3 DEF DeletionsAreRemembered
    <3>4. QED
      BY <3>2, <3>3
  <2>5. QED
    BY <2>2, <2>3, <2>4 DEF DeletionsAreRemembered
<1>6. QED
  BY <1>2, <1>4, <1>5

LEMMA HistoryTick ==
    ASSUME HistoryInv, HTick
    PROVE  LogOK' /\ HeldIsAggregate' /\ DeletionsAreRemembered'
<1> USE DEF HistoryInv
<1>1. LogOK' /\ HeldIsAggregate'
  BY DEF HTick, Tick, LogOK, HeldIsAggregate
<1>2. ASSUME NEW c \in Components, deletedAt[c] # Never,
             NEW s \in Settings, now - deletedAt[c] > s.blacklist
      PROVE  now' - deletedAt[c] > s.blacklist
  BY <1>2, SettingsAssumption DEF HTick, Tick, TypeOK, DeletionsAreRemembered
<1>3. DeletionsAreRemembered'
  BY <1>2 DEF HTick, Tick, DeletionsAreRemembered
<1>4. QED
  BY <1>1, <1>3

LEMMA HistoryStep == HistoryInv /\ [HNext]_hvars => HistoryInv'
<1> SUFFICES ASSUME HistoryInv, [HNext]_hvars PROVE HistoryInv'
  OBVIOUS
<1>1. TypeOK'
  BY HStepIsStep, StepType DEF HistoryInv
<1>2. LogOK' /\ HeldIsAggregate' /\ DeletionsAreRemembered'
  <2>1. CASE \E m \in Arrivals : HAppend(m)
    BY <2>1, HistoryAppend
  <2>2. CASE HDrain
    BY <2>2, HistoryDrain
  <2>3. CASE HReset
    BY <2>3 DEF HReset, Reset, LogOK, HasLast, HeldIsAggregate, DeletionsAreRemembered, NoAttrs
  <2>4. CASE HConfigure
    BY <2>4 DEF HConfigure, Configure, HistoryInv, LogOK, HeldIsAggregate, DeletionsAreRemembered
  <2>5. CASE HTick
    BY <2>5, HistoryTick
  <2>6. CASE UNCHANGED hvars
    BY <2>6 DEF hvars, HistoryInv, LogOK, HeldIsAggregate, DeletionsAreRemembered
  <2>7. QED
    BY <2>1, <2>2, <2>3, <2>4, <2>5, <2>6 DEF HNext
<1>3. QED
  BY <1>1, <1>2 DEF HistoryInv

THEOREM HistoryInvariant == HSpec => []HistoryInv
BY HistoryInit, HistoryStep, PTL DEF HSpec

-----------------------------------------------------------------------------
(* What the history shows. *)

\* A held map is the overlay of everything appended for its component since
\* it last left the queue, however many maps that were.
THEOREM LastValueWins == HSpec => []HeldIsAggregate
BY HistoryInvariant, PTL DEF HistoryInv

\* A drain releases maps of the components in Ready only.
LEMMA ReleasedAreReady ==
    ASSUME TypeOK, Drain
    PROVE  Ids(out'.A \cup out'.B \cup out'.C) = Ready
<1> DEFINE M == [c \in Ready |-> held_objmaps[c].objmap]
<1>1. \A c \in Ready : IsMap(M[c]) /\ M[c].id = c
  BY DEF TypeOK, Ready, Kept
<1>2. ASSUME NEW c \in Creating(M) PROVE Stripped(M, c).id = c /\ Moved(M, c).id = c
  <2>1. c \in Ready /\ IsMap(M[c]) /\ M[c].id = c
    BY <1>1 DEF Creating
  <2>2. Stripped(M, c).id = c
    BY <2>1 DEF Stripped, IsMap
  <2>3. Moved(M, c).id = c
    BY DEF Moved
  <2>4. QED
    BY <2>2, <2>3
<1>3. out' = Groups(M)
  BY DEF Drain
<1>4. Creating(M) \subseteq Ready /\ DOMAIN M = Ready
  BY DEF Creating
<1>5. Ids(Groups(M).A) = Creating(M)
  BY <1>2 DEF Groups, Ids
<1>6. Ids(Groups(M).B) \subseteq Creating(M)
  BY <1>2 DEF Groups, Ids
<1>7. Ids(Groups(M).C) = Ready \ Creating(M)
  BY <1>1, <1>4 DEF Groups, Ids
<1>8. Ids(out'.A \cup out'.B \cup out'.C) = Ids(out'.A) \cup Ids(out'.B) \cup Ids(out'.C)
  BY DEF Ids
<1>9. QED
  BY <1>3, <1>4, <1>5, <1>6, <1>7, <1>8

\* Once the deletion of a component has left the queue, nothing is released
\* for it until the blacklist of some setting has run out, whatever arrives.
THEOREM NoResurrectionHolds == HSpec => NoResurrection
<1> DEFINE Quiet == \A c \in Ids(out'.A \cup out'.B \cup out'.C) :
                       \/ deletedAt[c] = Never
                       \/ \E s \in Settings : now - deletedAt[c] > s.blacklist
<1>1. ASSUME HistoryInv, HDrain PROVE Quiet
  <2>1. SUFFICES ASSUME NEW c \in Ready, deletedAt[c] # Never
                 PROVE  \E s \in Settings : now - deletedAt[c] > s.blacklist
    BY <1>1, ReleasedAreReady DEF HistoryInv, HDrain
  <2>2. c \in Components /\ c \notin Blacklist
    BY <1>1 DEF Ready, Kept, HistoryInv, TypeOK
  <2>3. CASE c \in DOMAIN blacklisted_components
    <3>1. now - blacklisted_components[c] > settings.blacklist /\ settings \in Settings
      BY <1>1, <2>2, <2>3, SettingsAssumption DEF Blacklist, HistoryInv, TypeOK
    <3>2. QED
      BY <1>1, <2>3, <3>1 DEF HistoryInv, DeletionsAreRemembered
  <2>4. CASE c \notin DOMAIN blacklisted_components
    BY <1>1, <2>1, <2>2, <2>4 DEF HistoryInv, DeletionsAreRemembered
  <2>5. QED
    BY <2>3, <2>4
<1>2. HistoryInv /\ [HNext]_hvars => [HDrain => Quiet]_hvars
  BY <1>1
<1>3. QED
  BY <1>2, HistoryInvariant, PTL DEF HSpec, NoResurrection

\* No map leaves the queue unreleased unless its component was deleted, or
\* both created and deleted among the pending maps.
THEOREM NothingLostHolds == HSpec => NothingLost
<1> DEFINE Reason ==
       \A c \in Components :
           (log[c] # <<>> /\ log'[c] = <<>> /\ c \notin Ids(out'.A \cup out'.B \cup out'.C)) =>
               \/ deletedAt[c] # Never
               \/ \E i, j \in DOMAIN log[c] : log[c][i].map.add /\ log[c][j].map.remove
<1>1. ASSUME HistoryInv, HDrain PROVE Reason
  <2>1. SUFFICES ASSUME NEW c \in Components, log[c] # <<>>, log'[c] = <<>>, c \notin Ready
                 PROVE  \/ deletedAt[c] # Never
                        \/ \E i, j \in DOMAIN log[c] :
                               log[c][i].map.add /\ log[c][j].map.remove
    BY <1>1, ReleasedAreReady DEF HistoryInv, HDrain
  <2>2. c \in DOMAIN held_objmaps /\ c \notin Kept
    BY <1>1, <2>1 DEF HistoryInv, HeldIsAggregate, HDrain
  <2>3. CASE c \in Blacklist
    BY <1>1, <2>3, NeverAssumption DEF Blacklist, HistoryInv, DeletionsAreRemembered, TypeOK
  <2>4. CASE c \in Shortlived
    <3>1. held_objmaps[c].objmap = Promise!Aggregate(c, log[c])
      <4>1. held_objmaps[c] = [first |-> log[c][1].at, objmap |-> Promise!Aggregate(c, log[c])]
        BY <1>1, <2>2 DEF HistoryInv, HeldIsAggregate
      <4>2. QED
        BY <4>1
    <3>2. QED
      BY <2>4, <3>1
         DEF Shortlived, Promise!Aggregate, Promise!IsAdd, Promise!IsRemove
  <2>5. QED
    BY <2>2, <2>3, <2>4 DEF Kept
<1>2. HistoryInv /\ [HNext]_hvars => [HDrain => Reason]_hvars
  BY <1>1
<1>3. QED
  BY <1>2, HistoryInvariant, PTL DEF HSpec, NothingLost

-----------------------------------------------------------------------------
(* With settings that never change, the queue implements its docstring. *)

\* MapPromise speaks of the same maps as the queue.
LEMMA PromiseNoMaps == Promise!NoMaps = NoMaps
BY DEF Promise!NoMaps, NoMaps

LEMMA PromiseArrivals == Promise!Arrivals = Arrivals
BY DEF Promise!Arrivals, Arrivals, Promise!RemoveMap, Promise!CreateMap, Promise!UpdateMap,
       Promise!VnicMap, Promise!NoAttrs, RemoveMap, CreateMap, UpdateMap, VnicMap, NoAttrs

LEMMA PromiseGroups == ASSUME NEW M PROVE Promise!Groups(M) = Groups(M)
BY DEF Promise!Groups, Groups, Promise!Stripped, Stripped, Promise!Moved, Moved,
       Promise!MovedRefs, MovedRefs, Promise!Creating, Creating,
       Promise!Restriction, Restriction

LEMMA DrainIsRelease ==
    ASSUME HistoryInv, Settings = {Duration}, HDrain
    PROVE  Promise!Release
<1> USE DEF HistoryInv
<1>1. settings = Duration
  BY DEF TypeOK
<1>2. Promise!Pending = DOMAIN held_objmaps
  BY DEF Promise!Pending, HeldIsAggregate
<1>3. ASSUME NEW c \in DOMAIN held_objmaps
      PROVE  /\ held_objmaps[c].objmap = Promise!Aggregate(c, log[c])
             /\ held_objmaps[c].objmap.add = Promise!IsAdd(log[c])
             /\ held_objmaps[c].objmap.remove = Promise!IsRemove(log[c])
             /\ held_objmaps[c].first = log[c][1].at
  <2>1. held_objmaps[c] = [first |-> log[c][1].at, objmap |-> Promise!Aggregate(c, log[c])]
    BY DEF HeldIsAggregate
  <2>2. /\ Promise!Aggregate(c, log[c]).add = Promise!IsAdd(log[c])
        /\ Promise!Aggregate(c, log[c]).remove = Promise!IsRemove(log[c])
    BY DEF Promise!Aggregate
  <2>3. QED
    BY <2>1, <2>2
<1>4. Promise!Shortlived = Shortlived
  BY <1>2, <1>3 DEF Promise!Shortlived, Shortlived
<1>5. ASSUME NEW c \in Components PROVE c \in Blacklist <=> Promise!Quiet(c)
  <2>1. CASE c \in DOMAIN blacklisted_components
    BY <1>1, <2>1, NeverAssumption
       DEF Blacklist, Promise!Quiet, DeletionsAreRemembered, TypeOK
  <2>2. CASE c \notin DOMAIN blacklisted_components
    <3>1. deletedAt[c] # Never => now - deletedAt[c] > Duration.blacklist
      BY <2>2 DEF DeletionsAreRemembered
    <3>2. c \notin Blacklist
      BY <2>2 DEF Blacklist
    <3>3. Duration.blacklist \in Nat
      BY SettingsAssumption
    <3>4. now \in Nat /\ (deletedAt[c] # Never => deletedAt[c] \in Nat)
      BY DEF TypeOK, DeletionsAreRemembered
    <3>5. QED
      BY <3>1, <3>2, <3>3, <3>4 DEF Promise!Quiet
  <2>3. QED
    BY <2>1, <2>2
<1>6. Promise!Kept = Kept
  BY <1>2, <1>4, <1>5 DEF Promise!Kept, Promise!Dropped, Promise!Pending, Kept, TypeOK
<1>7. Promise!Deleted = Deleted
  BY <1>3, <1>6 DEF Promise!Deleted, Deleted, Kept, Shortlived
<1>8. Promise!Ready = Ready
  <2>1. Kept \subseteq DOMAIN held_objmaps /\ Deleted \subseteq Kept
    BY DEF Kept, Deleted
  <2>2. ASSUME NEW c \in Kept PROVE c \in Promise!Ready <=> c \in Ready
    <3>1. /\ now \in Nat /\ held_objmaps[c].first \in Nat
          /\ Duration.shortlived \in Nat /\ Duration.consolidate \in Nat
      BY <2>1, SettingsAssumption DEF TypeOK
    <3>2. CASE held_objmaps[c].objmap.add
      <4>1. c \notin Deleted
        BY <3>2 DEF Deleted
      <4>2. QED
        BY <1>1, <1>3, <1>6, <1>7, <2>1, <3>1, <3>2, <4>1
           DEF Promise!Ready, Promise!Age, Ready, ReleaseTime
    <3>3. CASE c \in Deleted
      BY <1>7, <3>1, <3>3 DEF Promise!Ready, Ready, ReleaseTime, Deleted
    <3>4. CASE ~held_objmaps[c].objmap.add /\ c \notin Deleted
      BY <1>1, <1>3, <1>6, <1>7, <2>1, <3>1, <3>4
         DEF Promise!Ready, Promise!Age, Ready, ReleaseTime
    <3>5. QED
      BY <3>2, <3>3, <3>4
  <2>3. Promise!Ready \subseteq Kept /\ Ready \subseteq Kept
    BY <1>6, <1>7, <2>1 DEF Promise!Ready, Ready
  <2>4. QED
    BY <2>2, <2>3
<1>9. [c \in Ready |-> held_objmaps[c].objmap]
          = [c \in Promise!Ready |-> Promise!Aggregate(c, log[c])]
  BY <1>3, <1>8 DEF Ready, Kept
<1>10. QED
  BY <1>4, <1>6, <1>7, <1>8, <1>9, PromiseGroups DEF HDrain, Drain, Promise!Release

\* The queue does what the docstring of ConsolidatingObjectMapQueue says, read
\* as MapPromise reads it, for every history of arrivals, drains and resets.
THEOREM PromiseKept ==
    ASSUME Settings = {Duration}
    PROVE  HSpec => ImplementsPromise
<1>1. HInit => Promise!Init
  BY PromiseNoMaps DEF HInit, Init, Promise!Init
<1>2. HistoryInv /\ [HNext]_hvars => [Promise!Next]_Promise!vars
  <2> SUFFICES ASSUME HistoryInv, [HNext]_hvars
               PROVE  Promise!Next \/ UNCHANGED Promise!vars
    OBVIOUS
  <2>1. CASE \E m \in Arrivals : HAppend(m)
    BY <2>1, PromiseNoMaps, PromiseArrivals DEF HAppend, AppendMap, Promise!Arrive, Promise!Next
  <2>2. CASE HDrain
    BY <2>2, DrainIsRelease DEF Promise!Next
  <2>3. CASE HReset
    BY <2>3, PromiseNoMaps DEF HReset, Reset, Promise!Forget, Promise!Next
  <2>4. CASE HConfigure
    BY <2>4, PromiseNoMaps DEF HConfigure, Configure, Promise!Taken, Promise!Next
  <2>5. CASE HTick
    BY <2>5, PromiseNoMaps DEF HTick, Tick, Promise!Pass, Promise!Next
  <2>6. CASE UNCHANGED hvars
    BY <2>6 DEF hvars, Promise!vars
  <2>7. QED
    BY <2>1, <2>2, <2>3, <2>4, <2>5, <2>6 DEF HNext
<1>3. QED
  BY <1>1, <1>2, HistoryInvariant, PTL DEF HSpec, ImplementsPromise, Promise!Spec

=============================================================================
