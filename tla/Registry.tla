------------------------------ MODULE Registry ------------------------------
(***************************************************************************)
(* Registry (zenopenstack.py): the configurations zenhub has pushed to the *)
(* collector, one per monitored OpenStack environment (a device), and the  *)
(* resources whose component they name.                                    *)
(***************************************************************************)
EXTENDS Integers

CONSTANTS
    Devices,      \* device ids
    Instances,    \* resource ids of instances
    Vnics,        \* resource ids of virtual network cards
    EventTypes,   \* types of OpenStack events
    Settings      \* durations of the map queues

Resources == Instances \cup Vnics

\* A configuration: the event types to pass on, the monitored resources, the
\* settings of the device's map queue.
Config == [types : SUBSET EventTypes, resources : SUBSET Resources, settings : Settings]

VARIABLES
    configs,        \* registered device -> its configuration
    component_id    \* device -> resources of its last configuration

registryVars == <<configs, component_id>>

has_device(d) == d \in DOMAIN configs

\* What is not forgotten when the device is removed.
has_resource(d, r) == r \in component_id[d]

device_instances(d) == component_id[d] \cap Instances

get_datapoints(d, r) == IF has_device(d) /\ r \in configs[d].resources THEN {r} ELSE {}

device_event_types(d) == IF has_device(d) THEN configs[d].types ELSE {}

set_config(d, cfg) ==
    /\ configs' = [x \in DOMAIN configs \cup {d} |-> IF x = d THEN cfg ELSE configs[x]]
    /\ component_id' = [component_id EXCEPT ![d] = cfg.resources]

remove_device(d) ==
    /\ configs' = [x \in DOMAIN configs \ {d} |-> configs[x]]
    /\ UNCHANGED component_id

RegistryInit ==
    /\ configs = [d \in {} |-> {}]
    /\ component_id = [d \in Devices |-> {}]

=============================================================================
