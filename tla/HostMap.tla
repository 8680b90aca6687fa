------------------------------- MODULE HostMap -------------------------------
(***************************************************************************)
(* The mapping of host references to host ids: one HostMap object per       *)
(* modeling of a device or collection of service status, and the mapping    *)
(* the Endpoint keeps between them.                                         *)
(*                                                                         *)
(* A host id is the cleaned reference it was made from (the code puts       *)
(* "host-" before it) or an id of zOpenStackHostMapToId.  References are    *)
(* normalized and have more than one character.                             *)
(***************************************************************************)
EXTENDS Naturals, FiniteSets, Functions

CONSTANTS
    Refs,       \* host references: names, addresses, names with a suffix
    Names,      \* those without ":" and "@", which are resolved
    Ids,        \* host ids, the references among them
    ValidIds,   \* those that begin with "host-"
    Clean,      \* a reference without its suffix
    Length,     \* of an id
    Settings,   \* values of zOpenStackHostMapToId and zOpenStackHostMapSame
    Sightings,  \* sets of references the services and agents may have
    Answers,    \* what the resolver may say of all Names
    Loopback,   \* an address 127.x.x.x
    None,       \* no answer, or no HostMap
    HostOf      \* the host a reference or an id really stands for

Pairs == Refs \X Refs

ConstantsAssumption ==
    /\ IsFiniteSet(Refs)
    /\ Names \subseteq Refs /\ Refs \subseteq ValidIds /\ ValidIds \subseteq Ids
    /\ Clean \in [Refs -> Refs]
    /\ Length \in [Ids -> Nat]
    /\ \A s \in Settings : s.same \subseteq Pairs /\ DOMAIN s.toId \subseteq Refs
    /\ \A s \in Settings : \A h \in DOMAIN s.toId : s.toId[h] \in Ids
    /\ \A seen \in Sightings : seen \subseteq Refs
    /\ \A ip \in Answers : ip \in [Names -> Refs \cup {Loopback, None}]
    /\ Loopback \notin Refs /\ None \notin Refs

ASSUME HostMapAssumption == ConstantsAssumption

\* Nobody lies about hosts: an address has one host, and so has a name
\* without its suffix, and the settings are right.
ASSUME TruthAssumption ==
    /\ \A h \in Refs : HostOf[Clean[h]] = HostOf[h]
    /\ \A s \in Settings : \A p \in s.same : HostOf[p[1]] = HostOf[p[2]]
    /\ \A s \in Settings : \A h \in DOMAIN s.toId : HostOf[s.toId[h]] = HostOf[h]
    /\ \A ip \in Answers : \A n \in Names : ip[n] \in Refs => HostOf[ip[n]] = HostOf[n]

VARIABLES
    host_mappings,  \* of the Endpoint: what the last models froze
    settings,       \* the device's zProperties
    params,         \* both as the status collector was last configured
    run             \* the HostMap at work

vars == <<host_mappings, settings, params, run>>

Mappings == UNION {[S -> Ids] : S \in SUBSET Refs}

Known(r) == DOMAIN r.mapping

\* A dictionary after an update with another.
Updated(old, new) ==
    [h \in DOMAIN old \cup DOMAIN new |-> IF h \in DOMAIN new THEN new[h] ELSE old[h]]

\* Of a set of assertions, those between known and different references, in both
\* directions (assert_same_host).
AssertSameHost(pairs, known) ==
    {p \in known \X known : p[1] # p[2] /\ (p \in pairs \/ <<p[2], p[1]>> \in pairs)}

\* Mutant: The search for the same references never returns to where it began.
AllAssertedSame_NotBack(asserted, h) ==
    {g \in Refs \ {h} : \A S \in SUBSET Refs :
        (\A p \in asserted : p[1] \in S \cup {h} => p[2] \in S) => g \in S}

\* all_asserted_same: what assertions lead to from h, which is h itself
\* too if they lead back.
AllAssertedSame(asserted, h) ==
    {g \in Refs : \A S \in SUBSET Refs :
        (\A p \in asserted : p[1] \in S \cup {h} => p[2] \in S) => g \in S}

NewHostMap(kind, frozen, known, s) ==
    [kind |-> kind, stage |-> "resolve", frozen |-> frozen,
     mapping |-> [h \in known |-> Clean[h]],
     asserted_same |-> AssertSameHost(s.same, known),
     asserted_host_id |-> s.toId, todo |-> {}]

\* The modeler makes a HostMap of all references; it adds those of the
\* settings too.
PreprocessHosts(seen) ==
    /\ run = None
    /\ LET named == UNION {{p[1], p[2]} : p \in settings.same}
           known == seen \cup DOMAIN settings.toId \cup named
       IN  run' = NewHostMap("model", host_mappings, known, settings)
    /\ UNCHANGED <<host_mappings, settings, params>>

\* The status collector knows the references of services only.
PreprocessStatus(seen) ==
    /\ run = None
    /\ run' = NewHostMap("status", params.host_mappings, seen, params.settings)
    /\ UNCHANGED <<host_mappings, settings, params>>

\* Mutant: Loopback addresses count.
ResolvedSame_Loopback(ip, known) ==
    LET names == {n \in known \cap Names : ip[n] # None}
    IN  AssertSameHost({<<n, ip[n]>> : n \in names}
                       \cup {p \in names \X names : ip[p[1]] = ip[p[2]]}, known)

\* Names with an address that is known, or with the same address.
ResolvedSame(ip, known) ==
    LET names == {n \in known \cap Names : ip[n] \notin {Loopback, None}}
    IN  AssertSameHost({<<n, ip[n]>> : n \in names}
                       \cup {p \in names \X names : ip[p[1]] = ip[p[2]]}, known)

\* The resolver answers; a name with a suffix leads to the cleaned name, not back.
Resolve(ip) ==
    /\ run # None /\ run.stage = "resolve"
    /\ LET known == Known(run)
           cleaned == {p \in known \X known : p[1] # p[2] /\ p[2] = Clean[p[1]]}
       IN  run' = [run EXCEPT !.stage = "map", !.todo = known,
                              !.asserted_same = @ \cup ResolvedSame(ip, known) \cup cleaned]
    /\ UNCHANGED <<host_mappings, settings, params>>

LongestOf(ids) == {i \in ids : \A j \in ids : Length[j] <= Length[i]}

\* One turn of the loop over new_mapping; dictionaries have any order.
MapHostref(h) ==
    /\ run # None /\ run.stage = "map" /\ h \in run.todo
    /\ LET others == AllAssertedSame(run.asserted_same, h)
           ids == {Clean[g] : g \in others}
       IN  IF Cardinality(ids) > 1
           THEN \E best \in LongestOf(ids) :
                    run' = [run EXCEPT !.todo = @ \ {h},
                                       !.mapping = Updated(@, [g \in others \cup {h} |-> best])]
           ELSE run' = [run EXCEPT !.todo = @ \ {h}]
    /\ UNCHANGED <<host_mappings, settings, params>>

\* Mutant: Frozen ids are stored but never used.
FinalId_Unfrozen(r, h) ==
    IF h \in DOMAIN r.asserted_host_id THEN r.asserted_host_id[h] ELSE r.mapping[h]

\* An id the user asserts comes first, then a frozen one.
FinalId(r, h) ==
    IF h \in DOMAIN r.asserted_host_id THEN r.asserted_host_id[h]
    ELSE IF h \in DOMAIN r.frozen THEN r.frozen[h]
    ELSE r.mapping[h]

FinalMapping(r) == [h \in Known(r) |-> FinalId(r, h)]

Complete ==
    /\ run # None /\ run.stage = "map" /\ run.todo = {}
    /\ run' = [run EXCEPT !.stage = "complete", !.mapping = FinalMapping(run)]
    /\ UNCHANGED <<host_mappings, settings, params>>

\* get_hostname_for_hostid, called for every id, raises and the cycle fails.
HasInvalidId(r) == Range(r.mapping) \ ValidIds # {}

\* freeze_mappings keeps frozen references that were not seen.
FreezeMappings(r) == Updated(r.frozen, r.mapping)

\* The model is applied to the Endpoint.
SetHostMappings ==
    /\ run # None /\ run.stage = "complete" /\ run.kind = "model"
    /\ ~HasInvalidId(run)
    /\ host_mappings' = Updated(host_mappings, FreezeMappings(run))
    /\ run' = None
    /\ UNCHANGED <<settings, params>>

\* The cycle ends without a model: status was reported, an exception, or the
\* maps were lost on their way.
End ==
    /\ run # None /\ run.stage = "complete"
    /\ run' = None
    /\ UNCHANGED <<host_mappings, settings, params>>

\* The user changes the zProperties.  A HostMap has copied what it needs when it
\* was made, so a change meanwhile is the same as one afterwards.
Configure(s) ==
    /\ run = None /\ s # settings
    /\ settings' = s
    /\ UNCHANGED <<host_mappings, params, run>>

\* zenhub configures the status collector.
PushConfig ==
    /\ run = None
    /\ params' = [host_mappings |-> host_mappings, settings |-> settings]
    /\ UNCHANGED <<host_mappings, settings, run>>

NoMappings == [h \in {} |-> None]

Init ==
    /\ host_mappings = NoMappings
    /\ settings \in Settings
    /\ params = [host_mappings |-> NoMappings, settings |-> settings]
    /\ run = None

Next ==
    \/ \E seen \in Sightings : PreprocessHosts(seen) \/ PreprocessStatus(seen)
    \/ \E ip \in Answers : Resolve(ip)
    \/ \E h \in Refs : MapHostref(h)
    \/ Complete
    \/ SetHostMappings
    \/ End
    \/ \E s \in Settings : Configure(s)
    \/ PushConfig

Spec == Init /\ [][Next]_vars

-----------------------------------------------------------------------------
RunType(r) ==
    /\ r \in [kind : {"model", "status"}, stage : {"resolve", "map", "complete"},
              frozen : Mappings, mapping : Mappings, asserted_same : SUBSET Pairs,
              asserted_host_id : {s.toId : s \in Settings}, todo : SUBSET Refs]
    /\ r.asserted_same \subseteq Known(r) \X Known(r)
    /\ r.todo \subseteq Known(r)

\* Types; no id that lacks the prefix is ever stored.
TypeOK ==
    /\ host_mappings \in Mappings /\ Range(host_mappings) \subseteq ValidIds
    /\ settings \in Settings
    /\ params \in [host_mappings : Mappings, settings : Settings]
    /\ run # None => RunType(run)

Done(kind) == run # None /\ run.stage = "complete" /\ run.kind = kind

\* Every reference has an id of its own host.
Truthful(m) == \A h \in DOMAIN m : HostOf[m[h]] = HostOf[h]

\* Stored mappings and those of a cycle never give two hosts one id, whatever
\* order references are mapped in and whatever loopback addresses names have
\* (perform_mapping).
NoConflation ==
    /\ Truthful(host_mappings)
    /\ run # None => Truthful(run.mapping)

New(r) == Known(r) \ (DOMAIN r.frozen \cup DOMAIN r.asserted_host_id)

TwoWay(asserted) == {p \in asserted : <<p[2], p[1]>> \in asserted}

\* References of one host that are first seen together, and are asserted the same
\* directly or through others, have one id when the mapping is complete (the
\* loop over all_asserted_same in perform_mapping).
NewTogether ==
    \A kind \in {"model", "status"} : Done(kind) =>
        \A h \in New(run) : \A g \in New(run) \cap AllAssertedSame(TwoWay(run.asserted_same), h) :
            run.mapping[g] = run.mapping[h]

\* A reference the user never maps to an id.
Unforced(h) == \A s \in Settings : h \notin DOMAIN s.toId

\* An assertion of the cycle at work is at odds with the stored id.
Contradicted(h) ==
    /\ run # None
    /\ \E g \in DOMAIN host_mappings \cap AllAssertedSame(run.asserted_same, h) :
          host_mappings[g] # host_mappings[h]

\* "For a given reference, the same ID should always be returned, unless new
\* information (such as an assert_same_host directive) makes that impossible": an id
\* once stored outlives every modeling that does not assert its reference to be one
\* with a different id, whatever references the modeling sees and whatever the
\* resolver now says, unless zOpenStackHostMapToId maps it (perform_mapping,
\* freeze_mappings and set_host_mappings).
IdsAreStable ==
    [][\A h \in DOMAIN host_mappings :
          /\ h \in DOMAIN host_mappings'
          /\ Unforced(h) /\ ~Contradicted(h) => host_mappings'[h] = host_mappings[h]]_vars

\* "Frozen mappings may be overridden by new information, most particularly, by
\* same_host assertions", which are "interpreted as authoritative, and unless
\* contradictory, will be considered law": two references the user says are one host
\* have one id when a modeling is done, unless the user gives one of them an id
\* (the docstrings of HostMap and thaw_mappings, of perform_mapping).
AssertionsOverride ==
    Done("model") =>
        \A p \in settings.same :
            {p[1], p[2]} \cap DOMAIN settings.toId = {} => run.mapping[p[1]] = run.mapping[p[2]]

\* Status is reported for the id the model has, however old the collector's
\* configuration is, unless the user maps the reference (preprocess_hosts of
\* the status datasources).
StatusFindsModeled ==
    Done("status") =>
        \A h \in Known(run) \cap DOMAIN run.frozen :
            Unforced(h) => run.mapping[h] = host_mappings[h]
=============================================================================
