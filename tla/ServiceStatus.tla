---------------------------- MODULE ServiceStatus ----------------------------
(***************************************************************************)
(* The status of services between the modeler and the status collectors:   *)
(* both ask the same API for a service's host and state, map the host with *)
(* a HostMap of their own, and name the component after the host's id.     *)
(* The modeler's maps replace the services of the model; a collector's     *)
(* only update the status of those it finds, and its events raise and      *)
(* clear an alarm per service.                                             *)
(*                                                                         *)
(* A service is named by the id of its host: one kind of service in one    *)
(* zone, as there is one collector for each API.  Zenoss' event console    *)
(* is external: a clear event closes what is open for its component.       *)
(***************************************************************************)
EXTENDS HostMap

CONSTANTS
    ServiceAnswers,  \* what the API may say: host reference -> state
    Collection       \* the alarm of a collector that fails

States == {"up", "down", "disabled"}

ASSUME ServiceAssumption ==
    /\ \A a \in ServiceAnswers : DOMAIN a \subseteq Refs /\ Range(a) \subseteq States
    /\ Collection \notin Ids

VARIABLES
    answer,    \* the services in the results of the cycle at work
    services,  \* the model: host id -> state
    alarms     \* ids of services, or Collection, with an open error event

svars == <<host_mappings, settings, params, run, answer, services, alarms>>

NoServices == [h \in {} |-> "up"]

-----------------------------------------------------------------------------
(* The modeler. *)

ModelServices(a, seen) ==
    /\ PreprocessHosts(seen \cup DOMAIN a)
    /\ answer' = a
    /\ UNCHANGED <<services, alarms>>

\* map_nova_services: what was not answered leaves the model; of two records
\* with one id either may be the last.
ModelApplied ==
    /\ SetHostMappings
    /\ \E last \in [Range(Restrict(run.mapping, DOMAIN answer)) -> DOMAIN answer] :
          /\ \A i \in DOMAIN last : run.mapping[last[i]] = i
          /\ services' = [i \in DOMAIN last |-> answer[last[i]]]
    /\ answer' = NoServices
    /\ UNCHANGED alarms

\* A modeling that fails, or whose maps are lost.
ModelLost ==
    /\ run # None /\ run.kind = "model" /\ End
    /\ answer' = NoServices
    /\ UNCHANGED <<services, alarms>>

-----------------------------------------------------------------------------
(* The collector: collect(), onSuccess() and onError(). *)

CollectServices(a) ==
    /\ PreprocessStatus(DOMAIN a)
    /\ answer' = a
    /\ UNCHANGED <<services, alarms>>

\* The account may not list services: nothing is collected, successfully.
CollectForbidden ==
    /\ run = None
    /\ alarms' = alarms \ {Collection}
    /\ UNCHANGED <<vars, answer, services>>

CollectFails ==
    /\ run = None
    /\ alarms' = alarms \cup {Collection}
    /\ UNCHANGED <<vars, answer, services>>

\* Mutant: components that are not in the model are added.
Updates_Added(last) == DOMAIN last

\* _add=False: a map without a component is dropped.
Updates(last) == DOMAIN last \cap DOMAIN services

\* Each service has a map and an event, error if it is enabled and down and
\* clear otherwise; of two with one id the last counts.
OnSuccess ==
    /\ run # None /\ run.kind = "status" /\ ~HasInvalidId(run) /\ End
    /\ \E last \in [Range(run.mapping) -> DOMAIN answer] :
          /\ \A i \in DOMAIN last : run.mapping[last[i]] = i
          /\ services' = [i \in DOMAIN services \cup Updates(last) |->
                             IF i \in DOMAIN last THEN answer[last[i]] ELSE services[i]]
          /\ alarms' = (alarms \ (DOMAIN last \cup {Collection}))
                       \cup {i \in DOMAIN last : answer[last[i]] = "down"}
    /\ answer' = NoServices

\* perform_mapping or get_hostname_for_hostid raised.
OnError ==
    /\ run # None /\ run.kind = "status" /\ HasInvalidId(run) /\ End
    /\ alarms' = alarms \cup {Collection}
    /\ answer' = NoServices
    /\ UNCHANGED services

-----------------------------------------------------------------------------
Mapping ==
    \/ \E ip \in Answers : Resolve(ip)
    \/ \E h \in Refs : MapHostref(h)
    \/ Complete

Administration == (\E s \in Settings : Configure(s)) \/ PushConfig

SInit ==
    /\ Init
    /\ answer = NoServices /\ services = NoServices /\ alarms = {}

SNext ==
    \/ \E a \in ServiceAnswers, seen \in Sightings : ModelServices(a, seen)
    \/ ModelApplied
    \/ ModelLost
    \/ \E a \in ServiceAnswers : CollectServices(a)
    \/ CollectForbidden
    \/ CollectFails
    \/ OnSuccess
    \/ OnError
    \/ (Mapping \/ Administration) /\ UNCHANGED <<answer, services, alarms>>

SSpec == SInit /\ [][SNext]_svars

-----------------------------------------------------------------------------
\* "Any new components found by this task will not be stored, so their ids don't
\* especially matter": a service of the model has the id of a host that a modeling
\* stored, whatever ids the collector makes up for hosts it is the first to see
\* (preprocess_hosts and _add=False of the status datasources).
ServicesAreModeled == DOMAIN services \subseteq Range(host_mappings)

\* The only answered service with its id.
Alone(h) == \A g \in DOMAIN answer : run.mapping[g] = run.mapping[h] => g = h

\* A collected state reaches the service the model has for that host, and its alarm
\* is open after the collection just if it is down, even if the collector was
\* configured before later modelings and the settings have changed since
\* (params, preprocess_hosts and onSuccess of the status datasources).
StatusReachesService ==
    [][OnSuccess =>
          \A h \in DOMAIN answer \cap DOMAIN run.frozen :
              Unforced(h) /\ Alone(h) =>
                  /\ host_mappings[h] \in DOMAIN services => services'[host_mappings[h]] = answer[h]
                  /\ host_mappings[h] \in alarms' <=> answer[h] = "down"]_svars

=============================================================================
