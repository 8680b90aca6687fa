------------------------ MODULE ServiceStatus_proofs ------------------------
(***************************************************************************)
(* Host ids and what they are for.  First what HostMap promises, for any   *)
(* references, settings and answers of the resolver: ids are never shared  *)
(* by two hosts, are stable, and the status collector finds the ones the   *)
(* model has.  Then what the modeler and the status collectors of a device *)
(* do to its services: the mapping keeps its promises although both use    *)
(* it, no service has an id a modeling did not store, and a collected      *)
(* state reaches its service.                                              *)
(***************************************************************************)
EXTENDS ServiceStatus, FiniteSetTheorems, TLAPS

-----------------------------------------------------------------------------
(* HostMap: its own specification. *)

\* The truth about references is kept by all a HostMap works on.
RunTruth(r) ==
    /\ Truthful(r.mapping) /\ Truthful(r.frozen) /\ Truthful(r.asserted_host_id)
    /\ \A p \in r.asserted_same : HostOf[p[1]] = HostOf[p[2]]

\* What was stored when the configuration was pushed or a cycle began is stored still;
\* only one modeler writes.
Kept(m) ==
    \A h \in DOMAIN m : Unforced(h) =>
        h \in DOMAIN host_mappings /\ m[h] = host_mappings[h]

RunKept(r) ==
    /\ Kept(r.frozen)
    /\ r.kind = "model" => r.frozen = host_mappings
    /\ r.stage = "complete" =>
           \A h \in Known(r) \cap DOMAIN r.frozen : Unforced(h) => r.mapping[h] = r.frozen[h]

IInv ==
    /\ TypeOK
    /\ Truthful(host_mappings) /\ Truthful(params.host_mappings)
    /\ run # None => RunTruth(run)
    /\ Kept(params.host_mappings)
    /\ run # None => RunKept(run)

-----------------------------------------------------------------------------
\* A function from references to ids is a mapping.
LEMMA MappingType ==
    ASSUME NEW m, NEW S, S \subseteq Refs, m \in [S -> Ids]
    PROVE  m \in Mappings
BY DEF Mappings

\* A mapping has a set of references for its domain.
LEMMA MappingDomain ==
    ASSUME NEW m \in Mappings
    PROVE  /\ DOMAIN m \subseteq Refs
           /\ m \in [DOMAIN m -> Ids]
           /\ \A h \in DOMAIN m : m[h] \in Ids
<1>1. PICK S \in SUBSET Refs : m \in [S -> Ids]
  BY DEF Mappings
<1> QED
  BY <1>1

\* An update is a mapping and says of each reference what one of the two says.
LEMMA UpdatedMapping ==
    ASSUME NEW old \in Mappings, NEW new \in Mappings
    PROVE  /\ Updated(old, new) \in Mappings
           /\ DOMAIN Updated(old, new) = DOMAIN old \cup DOMAIN new
           /\ \A h \in DOMAIN new : Updated(old, new)[h] = new[h]
           /\ \A h \in DOMAIN old \ DOMAIN new : Updated(old, new)[h] = old[h]
<1>1. /\ DOMAIN old \subseteq Refs /\ DOMAIN new \subseteq Refs
      /\ \A h \in DOMAIN old : old[h] \in Ids
      /\ \A h \in DOMAIN new : new[h] \in Ids
  BY MappingDomain
<1>2. Updated(old, new) \in [DOMAIN old \cup DOMAIN new -> Ids]
  BY <1>1 DEF Updated
<1>3. Updated(old, new) \in Mappings
  BY <1>1, <1>2, MappingType
<1> QED
  BY <1>3 DEF Updated

\* Updating a truthful mapping with another gives one.
LEMMA UpdatedTruth ==
    ASSUME NEW old, NEW new, Truthful(old), Truthful(new)
    PROVE  Truthful(Updated(old, new))
BY DEF Truthful, Updated

\* Assertions the user makes or addresses suggest stay between the references known.
LEMMA AssertType ==
    ASSUME NEW known, NEW pairs
    PROVE  AssertSameHost(pairs, known) \subseteq known \X known
BY DEF AssertSameHost

\* Assertions in both directions are as true as in one.
LEMMA AssertTruth ==
    ASSUME NEW known, NEW pairs, \A p \in pairs : HostOf[p[1]] = HostOf[p[2]]
    PROVE  \A p \in AssertSameHost(pairs, known) : HostOf[p[1]] = HostOf[p[2]]
BY DEF AssertSameHost

\* What the resolver says is true of hosts.
LEMMA ResolvedTruth ==
    ASSUME NEW ip \in Answers, NEW known, known \subseteq Refs
    PROVE  \A p \in ResolvedSame(ip, known) : HostOf[p[1]] = HostOf[p[2]]
<1> DEFINE names == {n \in known \cap Names : ip[n] \notin {Loopback, None}}
           pairs == {<<n, ip[n]>> : n \in names}
                    \cup {p \in names \X names : ip[p[1]] = ip[p[2]]}
<1>1. \A n \in names : ip[n] \in Refs /\ HostOf[ip[n]] = HostOf[n]
  BY HostMapAssumption, TruthAssumption DEF ConstantsAssumption
<1>2. \A p \in pairs : HostOf[p[1]] = HostOf[p[2]]
  <2> TAKE p \in pairs
  <2>1. CASE p \in {<<n, ip[n]>> : n \in names}
    BY <1>1, <2>1
  <2>2. CASE p \in names \X names /\ ip[p[1]] = ip[p[2]]
    BY <1>1, <2>2
  <2> QED
    BY <2>1, <2>2
<1> QED
  BY <1>2, AssertTruth DEF ResolvedSame

\* References that assertions lead to are references known, on the same host:
\* the ones known on that host are closed under the assertions.
LEMMA SameTruth ==
    ASSUME NEW known, known \subseteq Refs, NEW asserted, asserted \subseteq known \X known,
           \A p \in asserted : HostOf[p[1]] = HostOf[p[2]],
           NEW h \in known
    PROVE  \A g \in AllAssertedSame(asserted, h) : g \in known /\ HostOf[g] = HostOf[h]
<1> DEFINE S == {g \in known : HostOf[g] = HostOf[h]}
<1>1. S \in SUBSET Refs
  OBVIOUS
<1>2. \A p \in asserted : p[1] \in S \cup {h} => p[2] \in S
  OBVIOUS
<1> QED
  BY <1>1, <1>2 DEF AllAssertedSame

-----------------------------------------------------------------------------
\* What the invariant says of a run.
RunInv(r) == RunType(r) /\ RunTruth(r) /\ RunKept(r)

\* A new HostMap satisfies the invariant.
LEMMA NewRunInv ==
    ASSUME NEW kind \in {"model", "status"}, NEW frozen \in Mappings,
           NEW known \in SUBSET Refs, NEW s \in Settings,
           Truthful(frozen), Kept(frozen), kind = "model" => frozen = host_mappings
    PROVE  RunInv(NewHostMap(kind, frozen, known, s))
<1> DEFINE r == NewHostMap(kind, frozen, known, s)
<1>1. r.mapping \in [known -> Ids] /\ r.mapping \in Mappings /\ Known(r) = known
  <2>1. r.mapping \in [known -> Ids]
    BY HostMapAssumption DEF NewHostMap, ConstantsAssumption
  <2> QED
    BY <2>1, MappingType DEF Known
<1>2. r.asserted_same \subseteq known \X known
  BY AssertType DEF NewHostMap
<1>3. \A p \in r.asserted_same : HostOf[p[1]] = HostOf[p[2]]
  BY TruthAssumption, AssertTruth DEF NewHostMap
<1>4. Truthful(r.mapping)
  BY TruthAssumption DEF NewHostMap, Truthful
<1>5. Truthful(r.asserted_host_id)
  BY TruthAssumption DEF NewHostMap, Truthful
<1>6. RunType(r)
  <2>1. known \X known \in SUBSET Pairs
    BY DEF Pairs
  <2> QED
    BY <1>1, <1>2, <2>1 DEF RunType, NewHostMap
<1>7. r.frozen = frozen /\ r.stage # "complete" /\ r.kind = kind
  BY DEF NewHostMap
<1> QED
  BY <1>3, <1>4, <1>5, <1>6, <1>7 DEF RunInv, RunTruth, RunKept

\* The resolver adds true assertions.
LEMMA ResolveInv ==
    ASSUME IInv, NEW ip \in Answers, Resolve(ip)
    PROVE  RunInv(run')
<1> DEFINE known == Known(run)
           cleaned == {p \in known \X known : p[1] # p[2] /\ p[2] = Clean[p[1]]}
<1>1. RunInv(run)
  BY DEF Resolve, IInv, TypeOK, RunInv
<1>2. known \subseteq Refs
  BY <1>1, MappingDomain DEF RunInv, RunType, Known
<1>3. run' = [run EXCEPT !.stage = "map", !.todo = known,
                  !.asserted_same = @ \cup ResolvedSame(ip, known) \cup cleaned]
  BY DEF Resolve
<1>4. ResolvedSame(ip, known) \cup cleaned \subseteq known \X known
  BY AssertType DEF ResolvedSame
<1>5. \A p \in ResolvedSame(ip, known) \cup cleaned : HostOf[p[1]] = HostOf[p[2]]
  BY <1>2, ResolvedTruth, TruthAssumption
<1>6. /\ run'.mapping = run.mapping /\ run'.frozen = run.frozen /\ run'.kind = run.kind
      /\ run'.asserted_host_id = run.asserted_host_id /\ run'.stage = "map"
      /\ run'.asserted_same = run.asserted_same \cup ResolvedSame(ip, known) \cup cleaned
  BY <1>1, <1>3 DEF RunInv, RunType
<1>7. RunType(run')
  <2>1. known \X known \subseteq Pairs
    BY <1>2 DEF Pairs
  <2> QED
    BY <1>1, <1>2, <1>3, <1>4, <1>6, <2>1 DEF RunInv, RunType, Known
<1>8. UNCHANGED host_mappings
  BY DEF Resolve
<1> QED
  BY <1>1, <1>5, <1>6, <1>7, <1>8 DEF RunInv, RunTruth, RunKept, Kept

\* The longest of the ids of references on one host is an id of that host.
LEMMA MapHostrefInv ==
    ASSUME IInv, NEW h \in Refs, MapHostref(h)
    PROVE  RunInv(run')
<1> DEFINE known == Known(run)
           others == AllAssertedSame(run.asserted_same, h)
<1>1. RunInv(run)
  BY DEF MapHostref, IInv, TypeOK, RunInv
<1>2. known \subseteq Refs /\ h \in known
  BY <1>1, MappingDomain DEF RunInv, RunType, Known, MapHostref
<1>3. \A g \in others : g \in known /\ HostOf[g] = HostOf[h]
  BY <1>1, <1>2, SameTruth DEF RunInv, RunType, RunTruth
<1>4. UNCHANGED host_mappings
  BY DEF MapHostref
<1>5. CASE run' = [run EXCEPT !.todo = @ \ {h}]
  <2>1. /\ run'.mapping = run.mapping /\ run'.frozen = run.frozen /\ run'.kind = run.kind
        /\ run'.asserted_host_id = run.asserted_host_id /\ run'.stage = run.stage
        /\ run'.asserted_same = run.asserted_same /\ run'.todo = run.todo \ {h}
    BY <1>1, <1>5 DEF RunInv, RunType
  <2> QED
    BY <1>1, <1>4, <1>5, <2>1 DEF RunInv, RunType, RunTruth, RunKept, Kept, Known
<1>6. ASSUME NEW best \in {Clean[g] : g \in others},
             run' = [run EXCEPT !.todo = @ \ {h},
                         !.mapping = Updated(@, [g \in others \cup {h} |-> best])]
      PROVE  RunInv(run')
  <2> DEFINE new == [g \in others \cup {h} |-> best]
  <2>1. HostOf[best] = HostOf[h] /\ best \in Ids
    BY <1>2, <1>3, <1>6, HostMapAssumption, TruthAssumption DEF ConstantsAssumption
  <2>2. new \in Mappings /\ Truthful(new)
    <3>1. new \in [others \cup {h} -> Ids]
      BY <2>1
    <3> QED
      BY <1>2, <1>3, <2>1, <3>1, MappingType DEF Truthful
  <2>3. /\ run'.mapping = Updated(run.mapping, new) /\ run'.frozen = run.frozen
        /\ run'.kind = run.kind
        /\ run'.asserted_host_id = run.asserted_host_id /\ run'.stage = run.stage
        /\ run'.asserted_same = run.asserted_same /\ run'.todo = run.todo \ {h}
    BY <1>1, <1>6 DEF RunInv, RunType
  <2>4. run'.mapping \in Mappings /\ DOMAIN run'.mapping = known
    <3>1. run.mapping \in Mappings
      BY <1>1 DEF RunInv, RunType
    <3>2. /\ Updated(run.mapping, new) \in Mappings
          /\ DOMAIN Updated(run.mapping, new) = DOMAIN run.mapping \cup DOMAIN new
      BY <2>2, <3>1, UpdatedMapping
    <3>3. DOMAIN new \subseteq known
      BY <1>2, <1>3
    <3> QED
      BY <2>3, <3>2, <3>3 DEF Known
  <2>5. Truthful(run'.mapping)
    BY <1>1, <2>2, <2>3, UpdatedTruth DEF RunInv, RunTruth
  <2>6. run.stage = "map"
    BY DEF MapHostref
  <2>7. RunType(run')
    BY <1>1, <1>6, <2>3, <2>4 DEF RunInv, RunType, Known
  <2> QED
    BY <1>1, <1>4, <2>3, <2>5, <2>6, <2>7 DEF RunInv, RunTruth, RunKept, Kept
<1>7. \/ run' = [run EXCEPT !.todo = @ \ {h}]
      \/ \E best \in LongestOf({Clean[g] : g \in others}) :
             run' = [run EXCEPT !.todo = @ \ {h},
                         !.mapping = Updated(@, [g \in others \cup {h} |-> best])]
  BY DEF MapHostref
<1> QED
  BY <1>5, <1>6, <1>7 DEF LongestOf

\* The last loop takes ids of the user, of the frozen mapping, or the new ones.
LEMMA CompleteInv ==
    ASSUME IInv, Complete
    PROVE  RunInv(run')
<1> DEFINE final == FinalMapping(run)
<1>1. RunInv(run)
  BY DEF Complete, IInv, TypeOK, RunInv
<1>2. /\ run' = [run EXCEPT !.stage = "complete", !.mapping = final]
      /\ UNCHANGED host_mappings
  BY DEF Complete
<1>3. /\ run'.mapping = final /\ run'.frozen = run.frozen /\ run'.kind = run.kind
      /\ run'.asserted_host_id = run.asserted_host_id /\ run'.stage = "complete"
      /\ run'.asserted_same = run.asserted_same /\ run'.todo = run.todo
  BY <1>1, <1>2 DEF RunInv, RunType
<1>4. PICK s \in Settings : run.asserted_host_id = s.toId
  BY <1>1 DEF RunInv, RunType
<1>5. final \in Mappings /\ DOMAIN final = Known(run)
  <2>1. /\ DOMAIN run.mapping \subseteq Refs
        /\ \A h \in DOMAIN run.mapping : run.mapping[h] \in Ids
        /\ \A h \in DOMAIN run.frozen : run.frozen[h] \in Ids
    BY <1>1, MappingDomain DEF RunInv, RunType
  <2>2. \A h \in DOMAIN run.asserted_host_id : run.asserted_host_id[h] \in Ids
    BY <1>4, HostMapAssumption DEF ConstantsAssumption
  <2>3. final \in [Known(run) -> Ids]
    BY <2>1, <2>2 DEF FinalMapping, FinalId, Known
  <2> QED
    BY <2>1, <2>3, MappingType DEF Known
<1>6. Truthful(final)
  BY <1>1 DEF RunInv, RunTruth, Truthful, FinalMapping, FinalId, Known
<1>7. \A h \in Known(run) \cap DOMAIN run.frozen : Unforced(h) => final[h] = run.frozen[h]
  BY <1>4 DEF Unforced, FinalMapping, FinalId
<1>8. RunType(run')
  BY <1>1, <1>2, <1>3, <1>5 DEF RunInv, RunType, Known
<1> QED
  BY <1>1, <1>2, <1>3, <1>5, <1>6, <1>7, <1>8 DEF RunInv, RunTruth, RunKept, Kept, Known

-----------------------------------------------------------------------------
\* A step of the run that leaves the rest alone.
LEMMA RunStep ==
    ASSUME IInv, RunInv(run') \/ run' = None, UNCHANGED <<host_mappings, settings, params>>
    PROVE  IInv'
<1>1. run' # None => RunType(run')
  BY DEF RunInv
<1>2. (run # None => RunTruth(run))'
  BY DEF RunInv, RunTruth
<1>3. (run # None => RunKept(run))'
  BY DEF RunInv, RunKept, Kept
<1>4. TypeOK'
  BY <1>1 DEF IInv, TypeOK, RunType
<1>5. Kept(params.host_mappings)'
  BY DEF IInv, Kept
<1> QED
  BY <1>2, <1>3, <1>4, <1>5 DEF IInv, Truthful

\* What the model stores keeps every id of an unforced reference.
LEMMA SetHostMappingsInv ==
    ASSUME IInv, SetHostMappings
    PROVE  /\ IInv'
           /\ \A h \in DOMAIN host_mappings :
                  /\ h \in DOMAIN host_mappings'
                  /\ Unforced(h) => host_mappings'[h] = host_mappings[h]
<1> DEFINE stored == FreezeMappings(run)
<1>1. /\ run # None /\ run.stage = "complete" /\ run.kind = "model" /\ ~HasInvalidId(run)
      /\ host_mappings' = Updated(host_mappings, stored)
      /\ run' = None /\ UNCHANGED <<settings, params>>
  BY DEF SetHostMappings
<1>2. RunInv(run)
  BY <1>1 DEF IInv, TypeOK, RunInv
<1>3. run.frozen = host_mappings
  BY <1>1, <1>2 DEF RunInv, RunKept
<1>4. /\ run.mapping \in Mappings /\ host_mappings \in Mappings
      /\ Range(run.mapping) \subseteq ValidIds /\ Range(host_mappings) \subseteq ValidIds
  BY <1>1, <1>2 DEF RunInv, RunType, IInv, TypeOK, HasInvalidId
<1>5. host_mappings' = Updated(host_mappings, run.mapping)
  BY <1>1, <1>3 DEF FreezeMappings, Updated
<1>6. host_mappings' \in Mappings
  BY <1>4, <1>5, UpdatedMapping
<1>7. Range(host_mappings') \subseteq ValidIds
  BY <1>4, <1>5 DEF Range, Updated
<1>8. Truthful(host_mappings')
  BY <1>2, <1>5, UpdatedTruth DEF IInv, RunInv, RunTruth
<1>9. \A h \in DOMAIN host_mappings :
          /\ h \in DOMAIN host_mappings'
          /\ Unforced(h) => host_mappings'[h] = host_mappings[h]
  BY <1>1, <1>2, <1>3, <1>5 DEF RunInv, RunKept, Known, Updated
<1>10. Kept(params.host_mappings)'
  BY <1>1, <1>9 DEF IInv, Kept
<1> QED
  BY <1>1, <1>6, <1>7, <1>8, <1>9, <1>10 DEF IInv, TypeOK, Truthful

LEMMA InitInv ==
    ASSUME Init
    PROVE  IInv
<1>1. NoMappings \in Mappings /\ Range(NoMappings) = {} /\ Truthful(NoMappings)
  <2>1. NoMappings \in [{} -> Ids]
    BY DEF NoMappings
  <2> QED
    BY <2>1, MappingType DEF NoMappings, Range, Truthful
<1> QED
  BY <1>1 DEF Init, IInv, TypeOK, Kept, NoMappings

\* A cycle may begin with any references.
LEMMA PreprocessInv ==
    ASSUME IInv, NEW seen \in SUBSET Refs, PreprocessHosts(seen) \/ PreprocessStatus(seen)
    PROVE  RunInv(run')
<1>1. CASE PreprocessHosts(seen)
  <2> DEFINE known == seen \cup DOMAIN settings.toId \cup
                      UNION {{p[1], p[2]} : p \in settings.same}
  <2>1. known \in SUBSET Refs
    BY HostMapAssumption DEF ConstantsAssumption, IInv, TypeOK, Pairs
  <2>2. run' = NewHostMap("model", host_mappings, known, settings)
    BY <1>1 DEF PreprocessHosts
  <2>3. Kept(host_mappings)
    BY DEF Kept
  <2> QED
    BY <2>1, <2>2, <2>3, NewRunInv DEF IInv, TypeOK
<1>2. CASE PreprocessStatus(seen)
  <2>1. RunInv(NewHostMap("status", params.host_mappings, seen, params.settings))
    BY NewRunInv DEF IInv, TypeOK
  <2> QED
    BY <1>2, <2>1 DEF PreprocessStatus
<1> QED
  BY <1>1, <1>2

\* Every step keeps the invariant and the ids of unforced references.
LEMMA StepInv ==
    ASSUME IInv, [Next]_vars
    PROVE  /\ IInv'
           /\ \A h \in DOMAIN host_mappings :
                  /\ h \in DOMAIN host_mappings'
                  /\ Unforced(h) => host_mappings'[h] = host_mappings[h]
<1>1. ASSUME RunInv(run') \/ run' = None, UNCHANGED <<host_mappings, settings, params>>
      PROVE  /\ IInv'
             /\ \A h \in DOMAIN host_mappings :
                    /\ h \in DOMAIN host_mappings'
                    /\ Unforced(h) => host_mappings'[h] = host_mappings[h]
  BY <1>1, RunStep
<1>2. CASE \E seen \in Sightings : PreprocessHosts(seen) \/ PreprocessStatus(seen)
  <2>1. \A seen \in Sightings : seen \in SUBSET Refs
    BY HostMapAssumption DEF ConstantsAssumption
  <2> QED
    BY <1>1, <1>2, <2>1, PreprocessInv DEF PreprocessHosts, PreprocessStatus
<1>3. CASE \E ip \in Answers : Resolve(ip)
  BY <1>1, <1>3, ResolveInv DEF Resolve
<1>4. CASE \E h \in Refs : MapHostref(h)
  BY <1>1, <1>4, MapHostrefInv DEF MapHostref
<1>5. CASE Complete
  BY <1>1, <1>5, CompleteInv DEF Complete
<1>6. CASE SetHostMappings
  BY <1>6, SetHostMappingsInv
<1>7. CASE End
  BY <1>1, <1>7 DEF End
<1>8. CASE \E s \in Settings : Configure(s)
  BY <1>8 DEF Configure, IInv, TypeOK, RunType, Kept, Truthful
<1>9. CASE PushConfig
  BY <1>9 DEF PushConfig, IInv, TypeOK, RunType, Kept, Truthful
<1>10. CASE UNCHANGED vars
  <2>1. UNCHANGED <<host_mappings, settings, params>> /\ run' = run
    BY <1>10 DEF vars
  <2>2. run # None => RunInv(run)
    BY DEF IInv, TypeOK, RunInv
  <2> QED
    BY <1>1, <2>1, <2>2
<1> QED
  BY <1>2, <1>3, <1>4, <1>5, <1>6, <1>7, <1>8, <1>9, <1>10 DEF Next

LEMMA Inductive == Spec => []IInv
<1>1. Init => IInv
  BY InitInv
<1>2. IInv /\ [Next]_vars => IInv'
  BY StepInv
<1> QED
  BY <1>1, <1>2, PTL DEF Spec

-----------------------------------------------------------------------------
\* States are well typed, and no id without the prefix is ever stored.
THEOREM TypeOKHolds == Spec => []TypeOK
<1>1. IInv => TypeOK
  BY DEF IInv
<1> QED
  BY <1>1, Inductive, PTL

\* No two hosts ever have one id, whatever the order references are mapped in and
\* the answers of the resolver: ids follow assertions, and those are true.
THEOREM NoConflationHolds == Spec => []NoConflation
<1>1. IInv => NoConflation
  BY DEF IInv, NoConflation, RunTruth
<1> QED
  BY <1>1, Inductive, PTL

\* The status collector reports under the id the model has for a reference, however
\* old its configuration is, unless the user maps the reference.
THEOREM StatusFindsModeledHolds == Spec => []StatusFindsModeled
<1>1. IInv => StatusFindsModeled
  BY DEF IInv, StatusFindsModeled, Done, RunKept, Kept
<1> QED
  BY <1>1, Inductive, PTL

\* An id once stored stays, through every modeling that asserts nothing at odds with
\* it; in this code even through the others, unless the user maps the reference.
THEOREM IdsAreStableHolds == Spec => IdsAreStable
<1>1. IInv /\ [Next]_vars =>
          [\A h \in DOMAIN host_mappings :
              /\ h \in DOMAIN host_mappings'
              /\ Unforced(h) => host_mappings'[h] = host_mappings[h]]_vars
  BY StepInv
<1>2. IInv /\ [Next]_vars =>
          [\A h \in DOMAIN host_mappings :
              /\ h \in DOMAIN host_mappings'
              /\ Unforced(h) /\ ~Contradicted(h) => host_mappings'[h] = host_mappings[h]]_vars
  BY <1>1
<1> QED
  BY <1>2, Inductive, PTL DEF Spec, IdsAreStable

-----------------------------------------------------------------------------
(***************************************************************************)
(* References first seen together.  Two that are asserted the same both    *)
(* ways have the same id, or the loop still has to visit one from which    *)
(* both are given one: whatever turn gives an id to one gives it to both,  *)
(* since assertions lead on from each of them to all that they lead to     *)
(* from the other.                                                         *)
(***************************************************************************)
Peers(r, h) == AllAssertedSame(TwoWay(r.asserted_same), h)

IdsAsserted(r, h) == {Clean[g] : g \in AllAssertedSame(r.asserted_same, h)}

TogetherInv(r) ==
    /\ r.stage = "resolve" => \A h \in Known(r) : r.mapping[h] = Clean[h]
    /\ r.stage = "map" =>
           \A h \in Known(r) : \A g \in Peers(r, h) :
               r.mapping[g] = r.mapping[h] \/ (h \in r.todo /\ Cardinality(IdsAsserted(r, h)) > 1)
    /\ r.stage = "complete" =>
           \A h \in New(r) : \A g \in New(r) \cap Peers(r, h) : r.mapping[g] = r.mapping[h]

\* More assertions lead further.
LEMMA LeadsFurther ==
    ASSUME NEW some, NEW asserted, some \subseteq asserted, NEW h
    PROVE  AllAssertedSame(some, h) \subseteq AllAssertedSame(asserted, h)
BY DEF AllAssertedSame

\* An assertion leads from its first reference to its second.
LEMMA LeadsOnce ==
    ASSUME NEW asserted, NEW p \in asserted, p[2] \in Refs
    PROVE  p[2] \in AllAssertedSame(asserted, p[1])
BY DEF AllAssertedSame

\* Assertions lead on from where they lead.
LEMMA LeadsOn ==
    ASSUME NEW asserted, NEW h, NEW g \in AllAssertedSame(asserted, h)
    PROVE  AllAssertedSame(asserted, g) \subseteq AllAssertedSame(asserted, h)
<1> SUFFICES ASSUME NEW k \in AllAssertedSame(asserted, g), NEW S \in SUBSET Refs,
                    \A p \in asserted : p[1] \in S \cup {h} => p[2] \in S
             PROVE  k \in S
  BY DEF AllAssertedSame
<1>1. g \in S
  BY DEF AllAssertedSame
<1>2. \A p \in asserted : p[1] \in S \cup {g} => p[2] \in S
  BY <1>1
<1> QED
  BY <1>2 DEF AllAssertedSame

\* Assertions in both directions lead back.
LEMMA LeadsBack ==
    ASSUME NEW asserted, asserted \subseteq Pairs, NEW h \in Refs,
           NEW g \in AllAssertedSame(TwoWay(asserted), h)
    PROVE  h \in AllAssertedSame(TwoWay(asserted), g)
<1> DEFINE both == TwoWay(asserted)
           S == {k \in Refs : h \in AllAssertedSame(both, k)}
<1>1. ASSUME NEW p \in both
      PROVE  <<p[2], p[1]>> \in both /\ p[1] \in Refs /\ p[2] \in Refs
  BY DEF TwoWay, Pairs
<1>2. ASSUME NEW p \in both, p[1] \in S \cup {h}
      PROVE  p[2] \in S
  <2>1. p[1] \in AllAssertedSame(both, p[2])
    <3>1. <<p[2], p[1]>> \in both /\ <<p[2], p[1]>>[1] = p[2] /\ <<p[2], p[1]>>[2] = p[1]
      BY <1>1
    <3> HIDE DEF both
    <3> QED
      BY <1>1, <3>1, LeadsOnce
  <2>2. CASE p[1] = h
    BY <1>1, <2>1, <2>2
  <2>3. CASE h \in AllAssertedSame(both, p[1])
    <3>1. h \in AllAssertedSame(both, p[2])
      BY <2>1, <2>3, LeadsOn
    <3> QED
      BY <1>1, <3>1
  <2> QED
    BY <1>2, <2>2, <2>3
<1>3. S \in SUBSET Refs
  OBVIOUS
<1>4. g \in S
  <2> HIDE DEF S, both
  <2> QED
    BY <1>2, <1>3 DEF AllAssertedSame, both
<1> QED
  BY <1>4

\* Two references with different ids make two ids at least.
LEMMA TwoIds ==
    ASSUME NEW ids, ids \subseteq Refs, NEW i \in ids, NEW j \in ids, i # j
    PROVE  Cardinality(ids) > 1
<1>1. IsFiniteSet(ids)
  BY HostMapAssumption, FS_Subset DEF ConstantsAssumption
<1>2. Cardinality({i, j}) = 2 /\ {i, j} \subseteq ids
  <2>1. IsFiniteSet({i}) /\ Cardinality({i}) = 1
    BY FS_Singleton
  <2>2. Cardinality({i} \cup {j}) = Cardinality({i}) + 1
    BY <2>1, FS_AddElement
  <2> QED
    BY <2>1, <2>2
<1>3. Cardinality({i, j}) <= Cardinality(ids) /\ Cardinality(ids) \in Nat
  BY <1>1, <1>2, FS_Subset, FS_CardinalityType
<1> QED
  BY <1>2, <1>3

\* What the two of a pair of peers have to do with another reference.
LEMMA PeersTogether ==
    ASSUME NEW r, RunType(r), NEW h \in Known(r), NEW g \in Peers(r, h)
    PROVE  /\ h \in Known(r) /\ g \in Known(r) /\ h \in Refs /\ g \in Refs
           /\ g \in AllAssertedSame(r.asserted_same, h)
           /\ h \in AllAssertedSame(r.asserted_same, h)
           /\ \A x \in Refs : LET others == AllAssertedSame(r.asserted_same, x)
                              IN  h \in others \cup {x} <=> g \in others \cup {x}
<1> DEFINE asserted == r.asserted_same
           both == TwoWay(asserted)
<1>1. asserted \subseteq Pairs /\ asserted \subseteq Known(r) \X Known(r) /\ Known(r) \subseteq Refs
  BY MappingDomain DEF RunType, Known
<1>2. both \subseteq asserted
  BY DEF TwoWay
<1>3. h \in AllAssertedSame(both, g) /\ h \in Refs
  BY <1>1, LeadsBack DEF Peers
<1>4. g \in AllAssertedSame(asserted, h) /\ h \in AllAssertedSame(asserted, g)
  BY <1>2, <1>3, LeadsFurther DEF Peers
<1>5. h \in AllAssertedSame(asserted, h)
  BY <1>4, LeadsOn
<1>6. g \in Known(r)
  <2>1. \A p \in asserted : p[1] \in Known(r) \cup {h} => p[2] \in Known(r)
    BY <1>1
  <2> QED
    BY <1>1, <1>4, <2>1 DEF AllAssertedSame
<1>7. ASSUME NEW x \in Refs
      PROVE  h \in AllAssertedSame(asserted, x) \cup {x} <=> g \in AllAssertedSame(asserted, x) \cup {x}
  BY <1>4, LeadsOn
<1> QED
  BY <1>1, <1>3, <1>4, <1>5, <1>6, <1>7

\* A HostMap begins with the cleaned references.
LEMMA NewRunTogether ==
    ASSUME NEW seen, PreprocessHosts(seen) \/ PreprocessStatus(seen)
    PROVE  TogetherInv(run')
BY DEF PreprocessHosts, PreprocessStatus, NewHostMap, TogetherInv, Known

\* Peers whose cleaned references differ are all still to be visited.
LEMMA ResolveTogether ==
    ASSUME IInv, TogetherInv(run), NEW ip \in Answers, Resolve(ip)
    PROVE  TogetherInv(run')
<1>1. RunType(run) /\ RunType(run')
  BY ResolveInv DEF Resolve, IInv, TypeOK, RunInv
<1>2. /\ run'.stage = "map" /\ run'.mapping = run.mapping /\ run'.todo = Known(run)
      /\ Known(run') = Known(run) /\ run.stage = "resolve"
  BY <1>1 DEF Resolve, RunType, Known
<1>3. ASSUME NEW h \in Known(run'), NEW g \in Peers(run', h), Clean[g] # Clean[h]
      PROVE  Cardinality(IdsAsserted(run', h)) > 1
  <2>1. /\ g \in AllAssertedSame(run'.asserted_same, h) /\ h \in Refs
        /\ h \in AllAssertedSame(run'.asserted_same, h)
    BY <1>1, PeersTogether
  <2>2. IdsAsserted(run', h) \subseteq Refs
    BY HostMapAssumption DEF IdsAsserted, AllAssertedSame, ConstantsAssumption
  <2>3. Clean[g] \in IdsAsserted(run', h) /\ Clean[h] \in IdsAsserted(run', h)
    BY <2>1 DEF IdsAsserted
  <2> QED
    BY <1>3, <2>2, <2>3, TwoIds
<1>4. ASSUME NEW h \in Known(run'), NEW g \in Peers(run', h)
      PROVE  \/ run'.mapping[g] = run'.mapping[h]
             \/ h \in run'.todo /\ Cardinality(IdsAsserted(run', h)) > 1
  <2>1. g \in Known(run')
    BY <1>1, PeersTogether
  <2>2. run'.mapping[g] = Clean[g] /\ run'.mapping[h] = Clean[h] /\ h \in run'.todo
    BY <1>2, <2>1 DEF TogetherInv
  <2> QED
    BY <1>3, <2>2
<1> QED
  BY <1>2, <1>4 DEF TogetherInv

\* A turn of the loop gives an id to both of two peers or to none.
LEMMA MapHostrefTogether ==
    ASSUME IInv, TogetherInv(run), NEW x \in Refs, MapHostref(x)
    PROVE  TogetherInv(run')
<1> DEFINE others == AllAssertedSame(run.asserted_same, x)
           ids == IdsAsserted(run, x)
<1>1. RunType(run) /\ RunType(run')
  BY MapHostrefInv DEF MapHostref, IInv, TypeOK, RunInv
<1>2. /\ run'.stage = "map" /\ run.stage = "map" /\ run'.todo = run.todo \ {x}
      /\ run'.asserted_same = run.asserted_same
      /\ IF Cardinality(ids) > 1
         THEN \E best : run'.mapping = Updated(run.mapping, [g \in others \cup {x} |-> best])
         ELSE run'.mapping = run.mapping
  <2>1. run # None /\ run.stage = "map"
    BY DEF MapHostref
  <2>2. CASE Cardinality(ids) > 1
    <3>1. PICK best : run' = [run EXCEPT !.todo = @ \ {x},
                                  !.mapping = Updated(@, [g \in others \cup {x} |-> best])]
      BY <2>2 DEF MapHostref, IdsAsserted
    <3> QED
      BY <1>1, <2>1, <2>2, <3>1 DEF RunType
  <2>3. CASE ~ Cardinality(ids) > 1
    <3>1. run' = [run EXCEPT !.todo = @ \ {x}]
      BY <2>3 DEF MapHostref, IdsAsserted
    <3> QED
      BY <1>1, <2>1, <2>3, <3>1 DEF RunType
  <2> QED
    BY <2>2, <2>3
<1>3. Known(run') = Known(run)
  <2>1. x \in Known(run)
    BY <1>1 DEF MapHostref, RunType
  <2>2. others \subseteq Known(run)
    <3>1. \A p \in run.asserted_same : p[1] \in Known(run) \cup {x} => p[2] \in Known(run)
      BY <1>1 DEF RunType
    <3>2. Known(run) \in SUBSET Refs
      BY <1>1, MappingDomain DEF RunType, Known
    <3> QED
      BY <2>1, <3>1, <3>2 DEF AllAssertedSame
  <2> QED
    BY <1>2, <2>1, <2>2 DEF Updated, Known
<1>4. ASSUME NEW h \in Known(run'), NEW g \in Peers(run', h)
      PROVE  \/ run'.mapping[g] = run'.mapping[h]
             \/ h \in run'.todo /\ Cardinality(IdsAsserted(run', h)) > 1
  <2>1. h \in Known(run) /\ g \in Peers(run, h) /\ IdsAsserted(run', h) = IdsAsserted(run, h)
    BY <1>2, <1>3 DEF Peers, IdsAsserted
  <2>2. g \in Known(run) /\ (h \in others \cup {x} <=> g \in others \cup {x})
    BY <1>1, <2>1, PeersTogether
  <2>3. \/ run.mapping[g] = run.mapping[h]
        \/ h \in run.todo /\ Cardinality(IdsAsserted(run, h)) > 1
    BY <1>2, <2>1 DEF TogetherInv
  <2>4. CASE Cardinality(ids) > 1 /\ h \in others \cup {x}
    <3>1. PICK best : run'.mapping = Updated(run.mapping, [k \in others \cup {x} |-> best])
      BY <1>2, <2>4
    <3>2. run'.mapping[h] = best /\ run'.mapping[g] = best
      BY <2>1, <2>2, <2>4, <3>1 DEF Updated, Known
    <3> QED
      BY <3>2
  <2>5. CASE Cardinality(ids) > 1 /\ h \notin others \cup {x}
    <3>1. PICK best : run'.mapping = Updated(run.mapping, [k \in others \cup {x} |-> best])
      BY <1>2, <2>5
    <3>2. run'.mapping[h] = run.mapping[h] /\ run'.mapping[g] = run.mapping[g]
      BY <2>1, <2>2, <2>5, <3>1 DEF Updated, Known
    <3> QED
      BY <1>2, <2>1, <2>3, <2>5, <3>2
  <2>6. CASE ~ Cardinality(ids) > 1
    BY <1>2, <2>1, <2>3, <2>6
  <2> QED
    BY <2>4, <2>5, <2>6
<1> QED
  BY <1>2, <1>4 DEF TogetherInv

\* When none is left to visit, the new ones keep what they have.
LEMMA CompleteTogether ==
    ASSUME IInv, TogetherInv(run), Complete
    PROVE  TogetherInv(run')
<1>1. RunType(run)
  BY DEF Complete, IInv, TypeOK
<1>2. /\ run.stage = "map" /\ run.todo = {} /\ run'.stage = "complete"
      /\ run'.mapping = FinalMapping(run) /\ run'.frozen = run.frozen
      /\ run'.asserted_same = run.asserted_same
      /\ run'.asserted_host_id = run.asserted_host_id
  BY <1>1 DEF Complete, RunType
<1>3. New(run') = New(run)
  BY <1>2 DEF New, Known, FinalMapping
<1>4. \A h \in New(run) : h \in Known(run) /\ run'.mapping[h] = run.mapping[h]
  BY <1>2 DEF New, FinalMapping, FinalId
<1>5. ASSUME NEW h \in New(run), NEW g \in New(run) \cap Peers(run, h)
      PROVE  run.mapping[g] = run.mapping[h]
  BY <1>2, <1>4 DEF TogetherInv
<1> QED
  BY <1>2, <1>3, <1>4, <1>5 DEF TogetherInv, Peers

LEMMA StepTogether ==
    ASSUME IInv, run # None => TogetherInv(run), [Next]_vars
    PROVE  run' # None => TogetherInv(run')
<1>1. CASE \E seen \in Sightings : PreprocessHosts(seen) \/ PreprocessStatus(seen)
  BY <1>1, NewRunTogether
<1>2. CASE \E ip \in Answers : Resolve(ip)
  BY <1>2, ResolveTogether DEF Resolve
<1>3. CASE \E h \in Refs : MapHostref(h)
  BY <1>3, MapHostrefTogether DEF MapHostref
<1>4. CASE Complete
  BY <1>4, CompleteTogether DEF Complete
<1>5. CASE SetHostMappings \/ End
  BY <1>5 DEF SetHostMappings, End
<1>6. CASE (\E s \in Settings : Configure(s)) \/ PushConfig \/ UNCHANGED vars
  BY <1>6 DEF Configure, PushConfig, vars
<1> QED
  BY <1>1, <1>2, <1>3, <1>4, <1>5, <1>6 DEF Next

LEMMA TogetherIsEnough ==
    ASSUME IInv, run # None => TogetherInv(run)
    PROVE  NewTogether
BY DEF NewTogether, Done, TogetherInv, Peers

\* References first seen together and asserted the same, directly or through
\* others, get one id, in whatever order the loop visits them.
THEOREM NewTogetherHolds == Spec => []NewTogether
<1> DEFINE Together == run # None => TogetherInv(run)
<1>1. Init => Together
  BY DEF Init
<1>2. IInv /\ Together /\ [Next]_vars => Together'
  BY StepTogether
<1>3. IInv /\ Together => NewTogether
  BY TogetherIsEnough
<1> HIDE DEF Together
<1> QED
  BY <1>1, <1>2, <1>3, Inductive, PTL DEF Spec

-----------------------------------------------------------------------------
(* ServiceStatus: the modeler and the collectors use the mapping. *)

\* The hosts of the services a cycle was answered are mapped by its HostMap.
AnswerMapped == run # None => DOMAIN answer \subseteq DOMAIN run.mapping

SInv == IInv /\ AnswerMapped /\ ServicesAreModeled

\* Ids of references that the user does not map stay.
IdsStay ==
    \A h \in DOMAIN host_mappings :
        /\ h \in DOMAIN host_mappings'
        /\ Unforced(h) => host_mappings'[h] = host_mappings[h]

-----------------------------------------------------------------------------
LEMMA AnswerRefs ==
    ASSUME NEW a \in ServiceAnswers
    PROVE  DOMAIN a \in SUBSET Refs
BY ServiceAssumption

\* Whatever is asked for, each step is one that the mapping allows.
LEMMA MappingStep ==
    ASSUME IInv, [SNext]_svars
    PROVE  IInv' /\ IdsStay
<1>1. ASSUME NEW seen \in SUBSET Refs, PreprocessHosts(seen) \/ PreprocessStatus(seen)
      PROVE  IInv' /\ IdsStay
  BY <1>1, PreprocessInv, RunStep DEF PreprocessHosts, PreprocessStatus, IdsStay
<1>2. ASSUME [Next]_vars
      PROVE  IInv' /\ IdsStay
  BY <1>2, StepInv DEF IdsStay
<1>3. CASE \E a \in ServiceAnswers, seen \in Sightings : ModelServices(a, seen)
  <2>1. PICK a \in ServiceAnswers, seen \in Sightings : ModelServices(a, seen)
    BY <1>3
  <2>2. seen \cup DOMAIN a \in SUBSET Refs
    BY AnswerRefs, HostMapAssumption DEF ConstantsAssumption
  <2> QED
    BY <2>1, <2>2, <1>1 DEF ModelServices
<1>4. CASE \E a \in ServiceAnswers : CollectServices(a)
  BY <1>1, <1>4, AnswerRefs DEF CollectServices
<1>5. CASE ModelApplied
  BY <1>2, <1>5 DEF ModelApplied, Next
<1>6. CASE ModelLost \/ OnSuccess \/ OnError
  BY <1>2, <1>6 DEF ModelLost, OnSuccess, OnError, Next
<1>7. CASE CollectForbidden \/ CollectFails \/ UNCHANGED svars
  BY <1>2, <1>7 DEF CollectForbidden, CollectFails, svars, vars
<1>8. CASE (Mapping \/ Administration) /\ UNCHANGED <<answer, services, alarms>>
  BY <1>2, <1>8 DEF Mapping, Administration, Next
<1> QED
  BY <1>3, <1>4, <1>5, <1>6, <1>7, <1>8 DEF SNext

\* A HostMap knows the references it was made for until its cycle ends.
LEMMA AnswerStep ==
    ASSUME IInv, AnswerMapped, [SNext]_svars
    PROVE  AnswerMapped'
<1>1. CASE \E a \in ServiceAnswers, seen \in Sightings : ModelServices(a, seen)
  BY <1>1 DEF ModelServices, PreprocessHosts, NewHostMap, AnswerMapped
<1>2. CASE \E a \in ServiceAnswers : CollectServices(a)
  BY <1>2 DEF CollectServices, PreprocessStatus, NewHostMap, AnswerMapped
<1>3. CASE ModelApplied \/ ModelLost \/ OnSuccess \/ OnError
  BY <1>3 DEF ModelApplied, SetHostMappings, ModelLost, OnSuccess, OnError, End, AnswerMapped
<1>4. CASE CollectForbidden \/ CollectFails \/ UNCHANGED svars
  BY <1>4 DEF CollectForbidden, CollectFails, svars, vars, AnswerMapped
<1>5. ASSUME Mapping, UNCHANGED answer
      PROVE  AnswerMapped'
  <2>1. run # None /\ RunType(run)
    BY <1>5 DEF Mapping, Resolve, MapHostref, Complete, IInv, TypeOK
  <2>2. CASE \E ip \in Answers : Resolve(ip)
    BY <1>5, <2>1, <2>2 DEF Resolve, RunType, AnswerMapped
  <2>3. CASE \E h \in Refs : MapHostref(h)
    <3>1. PICK h \in Refs : MapHostref(h)
      BY <2>3
    <3> DEFINE others == AllAssertedSame(run.asserted_same, h)
    <3>2. \/ run' = [run EXCEPT !.todo = @ \ {h}]
          \/ \E best : run' = [run EXCEPT !.todo = @ \ {h},
                                   !.mapping = Updated(@, [g \in others \cup {h} |-> best])]
      BY <3>1 DEF MapHostref
    <3>3. run'.mapping = run.mapping \/ \E new : run'.mapping = Updated(run.mapping, new)
      BY <2>1, <3>2 DEF RunType
    <3>4. \A new : DOMAIN Updated(run.mapping, new) = DOMAIN run.mapping \cup DOMAIN new
      BY DEF Updated
    <3>5. DOMAIN run.mapping \subseteq DOMAIN run'.mapping
      BY <3>3, <3>4
    <3> QED
      BY <1>5, <2>1, <3>5 DEF AnswerMapped
  <2>4. CASE Complete
    BY <1>5, <2>1, <2>4 DEF Complete, FinalMapping, Known, RunType, AnswerMapped
  <2> QED
    BY <1>5, <2>2, <2>3, <2>4 DEF Mapping
<1>6. ASSUME Administration, UNCHANGED answer
      PROVE  AnswerMapped'
  BY <1>6 DEF Administration, Configure, PushConfig, AnswerMapped
<1> QED
  BY <1>1, <1>2, <1>3, <1>4, <1>5, <1>6 DEF SNext

\* A mapping keeps the ids it has when another is stored, and gets those of the other.
LEMMA StoredIds ==
    ASSUME NEW old \in Mappings, NEW frozen \in Mappings, NEW new \in Mappings,
           frozen = old
    PROVE  Range(new) \subseteq Range(Updated(old, Updated(frozen, new)))
BY DEF Range, Updated

\* A modeling stores the ids that its services get; a collection adds no service.
LEMMA ServicesStep ==
    ASSUME SInv, [SNext]_svars
    PROVE  ServicesAreModeled'
<1>1. CASE ModelApplied
  <2>1. /\ run # None /\ run.kind = "model"
        /\ host_mappings' = Updated(host_mappings, Updated(run.frozen, run.mapping))
    BY <1>1 DEF ModelApplied, SetHostMappings, FreezeMappings
  <2>2. /\ run.frozen = host_mappings /\ run.mapping \in Mappings
        /\ host_mappings \in Mappings /\ DOMAIN answer \subseteq DOMAIN run.mapping
    BY <2>1 DEF SInv, IInv, TypeOK, RunType, RunKept, AnswerMapped
  <2>3. DOMAIN services' = Range(Restrict(run.mapping, DOMAIN answer))
    BY <1>1 DEF ModelApplied
  <2>4. DOMAIN services' \subseteq Range(run.mapping)
    BY <2>2, <2>3 DEF Range, Restrict
  <2> QED
    BY <2>1, <2>2, <2>4, StoredIds DEF ServicesAreModeled
<1>2. CASE OnSuccess
  BY <1>2 DEF OnSuccess, End, Updates, SInv, ServicesAreModeled
<1>3. ASSUME UNCHANGED <<host_mappings, services>>
      PROVE  ServicesAreModeled'
  BY <1>3 DEF SInv, ServicesAreModeled
<1>4. CASE \/ \E a \in ServiceAnswers, seen \in Sightings : ModelServices(a, seen)
           \/ \E a \in ServiceAnswers : CollectServices(a)
  BY <1>3, <1>4 DEF ModelServices, PreprocessHosts, CollectServices, PreprocessStatus
<1>5. CASE ModelLost \/ OnError \/ CollectForbidden \/ CollectFails \/ UNCHANGED svars
  BY <1>3, <1>5 DEF ModelLost, OnError, End, CollectForbidden, CollectFails, svars, vars
<1>6. CASE (Mapping \/ Administration) /\ UNCHANGED <<answer, services, alarms>>
  BY <1>3, <1>6 DEF Mapping, Administration, Resolve, MapHostref, Complete, Configure, PushConfig
<1> QED
  BY <1>1, <1>2, <1>4, <1>5, <1>6 DEF SNext

\* The loop of a HostMap is the same whichever of the two runs it.
LEMMA TogetherStep ==
    ASSUME IInv, run # None => TogetherInv(run), [SNext]_svars
    PROVE  run' # None => TogetherInv(run')
<1>1. CASE \/ \E a \in ServiceAnswers, seen \in Sightings : ModelServices(a, seen)
           \/ \E a \in ServiceAnswers : CollectServices(a)
  BY <1>1, NewRunTogether DEF ModelServices, CollectServices
<1>2. CASE ModelApplied \/ ModelLost \/ OnSuccess \/ OnError
  BY <1>2 DEF ModelApplied, SetHostMappings, ModelLost, OnSuccess, OnError, End
<1>3. CASE CollectForbidden \/ CollectFails \/ UNCHANGED svars
  BY <1>3 DEF CollectForbidden, CollectFails, svars, vars
<1>4. CASE (Mapping \/ Administration) /\ UNCHANGED <<answer, services, alarms>>
  BY <1>4, StepTogether DEF Mapping, Administration, Next
<1> QED
  BY <1>1, <1>2, <1>3, <1>4 DEF SNext

LEMMA SInductive == SSpec => []SInv
<1>1. SInit => SInv
  <2> SUFFICES ASSUME SInit
               PROVE  SInv
    OBVIOUS
  <2>1. IInv
    BY InitInv DEF SInit
  <2> QED
    BY <2>1 DEF SInit, Init, SInv, AnswerMapped, ServicesAreModeled, NoServices
<1>2. SInv /\ [SNext]_svars => SInv'
  BY MappingStep, AnswerStep, ServicesStep DEF SInv
<1> QED
  BY <1>1, <1>2, PTL DEF SSpec

-----------------------------------------------------------------------------
\* With the modeler and the collectors at work on one device, no two hosts share an
\* id, and a collection maps hosts to the ids the model has.
THEOREM IdsAgree == SSpec => [](NoConflation /\ StatusFindsModeled)
<1>1. SInv => NoConflation /\ StatusFindsModeled
  BY DEF SInv, IInv, NoConflation, StatusFindsModeled, Done, RunTruth, RunKept, Kept
<1> QED
  BY <1>1, SInductive, PTL

\* References a cycle sees for the first time and that are asserted the same get
\* one id, be it the modeler's cycle or a collector's.
THEOREM NewOnesAgree == SSpec => []NewTogether
<1> DEFINE Together == run # None => TogetherInv(run)
<1>1. SInit => Together
  BY DEF SInit, Init
<1>2. SInv /\ Together /\ [SNext]_svars => Together'
  BY TogetherStep DEF SInv
<1>3. SInv /\ Together => NewTogether
  BY TogetherIsEnough DEF SInv
<1> HIDE DEF Together
<1> QED
  BY <1>1, <1>2, <1>3, SInductive, PTL DEF SSpec

\* Neither changes the id of a reference that was stored, as long as no assertion is
\* at odds with it.
THEOREM IdsStable == SSpec => IdsAreStable
<1>1. SInv /\ [SNext]_svars =>
          [\A h \in DOMAIN host_mappings :
              /\ h \in DOMAIN host_mappings'
              /\ Unforced(h) => host_mappings'[h] = host_mappings[h]]_vars
  BY MappingStep DEF SInv, IdsStay
<1>2. SInv /\ [SNext]_svars =>
          [\A h \in DOMAIN host_mappings :
              /\ h \in DOMAIN host_mappings'
              /\ Unforced(h) /\ ~Contradicted(h) => host_mappings'[h] = host_mappings[h]]_vars
  BY <1>1
<1> QED
  BY <1>2, SInductive, PTL DEF SSpec, IdsAreStable

\* Ids a collector makes up for hosts it is the first to see name no service of the model.
THEOREM ServicesAreModeledHolds == SSpec => []ServicesAreModeled
<1>1. SInv => ServicesAreModeled
  BY DEF SInv
<1> QED
  BY <1>1, SInductive, PTL

\* A collected state and its alarm reach the service the model has for that host,
\* however old the collector's configuration is.
THEOREM StatusReachesServiceHolds == SSpec => StatusReachesService
<1> DEFINE Reached ==
        \A h \in DOMAIN answer \cap DOMAIN run.frozen :
            Unforced(h) /\ Alone(h) =>
                /\ host_mappings[h] \in DOMAIN services => services'[host_mappings[h]] = answer[h]
                /\ host_mappings[h] \in alarms' <=> answer[h] = "down"
<1>1. ASSUME SInv, OnSuccess
      PROVE  Reached
  <2>1. /\ run # None /\ run.stage = "complete"
        /\ DOMAIN answer \subseteq DOMAIN run.mapping
    BY <1>1 DEF OnSuccess, End, SInv, AnswerMapped
  <2>2. PICK last \in [Range(run.mapping) -> DOMAIN answer] :
          /\ \A i \in DOMAIN last : run.mapping[last[i]] = i
          /\ services' = [i \in DOMAIN services \cup Updates(last) |->
                             IF i \in DOMAIN last THEN answer[last[i]] ELSE services[i]]
          /\ alarms' = (alarms \ (DOMAIN last \cup {Collection}))
                       \cup {i \in DOMAIN last : answer[last[i]] = "down"}
    BY <1>1 DEF OnSuccess
  <2>3. SUFFICES ASSUME NEW h \in DOMAIN answer \cap DOMAIN run.frozen, Unforced(h), Alone(h)
                 PROVE  /\ host_mappings[h] \in DOMAIN services =>
                               services'[host_mappings[h]] = answer[h]
                        /\ host_mappings[h] \in alarms' <=> answer[h] = "down"
    OBVIOUS
  <2>4. run.mapping[h] = host_mappings[h]
    BY <1>1, <2>1, <2>3 DEF SInv, IInv, RunKept, Kept, Known
  <2> DEFINE i == run.mapping[h]
  <2>5. i \in DOMAIN last
    BY <2>1, <2>3 DEF Range
  <2>6. last[i] = h
    BY <2>2, <2>3, <2>5 DEF Alone
  <2>7. i \in alarms' <=> answer[h] = "down"
    BY <2>2, <2>5, <2>6
  <2>8. i \in DOMAIN services => services'[i] = answer[h]
    BY <2>2, <2>5, <2>6
  <2> QED
    BY <2>4, <2>7, <2>8
<1>2. SInv /\ [SNext]_svars => [OnSuccess => Reached]_svars
  BY <1>1
<1> QED
  BY <1>2, SInductive, PTL DEF SSpec, StatusReachesService
=============================================================================
