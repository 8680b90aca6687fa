----------------------------- MODULE DeviceProxy -----------------------------
(***************************************************************************)
(* The links between the host components of OpenStack endpoints and the     *)
(* Linux devices that stand for the same machines (DeviceProxyComponent,    *)
(* of which Host is the only subclass).                                    *)
(*                                                                         *)
(* Each side of a link is the GUID of the other object.  Every action is a  *)
(* database transaction, or one host's part of the transaction that a       *)
(* modeling cycle makes for all hosts of its endpoint.                      *)
(***************************************************************************)
EXTENDS Naturals, FiniteSets

CONSTANTS
    Hosts,          \* host components, by id
    Devices,        \* devices, by id
    Endpoints,
    EndpointOf,     \* the endpoint of a host component
    SuggestedName,  \* of the device to be created for a host
    Rank,           \* the pass of the search in which a device matches a host, 0 if none:
                    \* 1, 2 by its id, 3, 4 by its name, 5 by its address
    Uncreatable,    \* device ids with which createInstance fails
    MaxGuid         \* users stop before creations could need more GUIDs

ASSUME DeviceProxyAssumption ==
    /\ Hosts \cap Devices = {}
    /\ EndpointOf \in [Hosts -> Endpoints]
    /\ SuggestedName \in [Hosts -> Devices]
    /\ Rank \in [Hosts -> [Devices -> 0..5]]

VARIABLES
    guid,           \* of each object, 0 if it does not exist
    nextGuid,       \* GUIDs from here on are fresh
    openstackProxyDeviceUUID,       \* of each host component, 0 for None
    openstackProxyComponentUUID,    \* of each device, 0 for None
    inClass,        \* the devices in the hosts' proxy device class
    todo            \* the hosts that the transaction of an endpoint still maintains

vars == <<guid, nextGuid, openstackProxyDeviceUUID, openstackProxyComponentUUID,
          inClass, todo>>
links == <<openstackProxyDeviceUUID, openstackProxyComponentUUID>>

Exists(x) == guid[x] # 0

\* A link that leads to an object that exists (GUIDManager.getObject).
HasDevice(c, d) == Exists(d) /\ openstackProxyDeviceUUID[c] = guid[d]
HasComponent(d, c) == Exists(c) /\ openstackProxyComponentUUID[d] = guid[c]

\* component_for_proxy_device: a link in one direction only is disregarded.
Linked(c, d) == HasDevice(c, d) /\ HasComponent(d, c)

\* Mutant: A device that leads to the host is enough.
NeedMaintenance_BackOnly(c) == ~ \E d \in Devices : HasComponent(d, c)

\* need_maintenance.
NeedMaintenance(c) == ~ \E d \in Devices : Linked(c, d)

-----------------------------------------------------------------------------

\* Two objects never have the same GUID, and no GUID is used before it is given.
GuidsAreUnique ==
    /\ \A x \in Hosts \cup Devices : guid[x] < nextGuid
    /\ \A x, y \in Hosts \cup Devices : Exists(x) /\ guid[x] = guid[y] => x = y
    /\ \A c \in Hosts : openstackProxyDeviceUUID[c] < nextGuid
    /\ \A d \in Devices : openstackProxyComponentUUID[d] < nextGuid

TypeOK ==
    /\ GuidsAreUnique
    /\ guid \in [Hosts \cup Devices -> Nat]
    /\ nextGuid \in Nat \ {0}
    /\ openstackProxyDeviceUUID \in [Hosts -> Nat]
    /\ openstackProxyComponentUUID \in [Devices -> Nat]
    /\ inClass \subseteq Devices
    /\ todo \subseteq Hosts

Init ==
    /\ guid = [x \in Hosts \cup Devices |-> 0]
    /\ nextGuid = 1
    /\ openstackProxyDeviceUUID = [c \in Hosts |-> 0]
    /\ openstackProxyComponentUUID = [d \in Devices |-> 0]
    /\ inClass = {}
    /\ todo = {}

\* A new object, or a new GUID for an old one.
NewGuid(x) ==
    /\ guid' = [guid EXCEPT ![x] = nextGuid]
    /\ nextGuid' = nextGuid + 1

\* Mutant: The device does not learn its host.
Claim_OneWay(c, d, g) ==
    /\ openstackProxyDeviceUUID' = [openstackProxyDeviceUUID EXCEPT ![c] = g]
    /\ UNCHANGED openstackProxyComponentUUID

\* claim_proxy_device, of a device with this GUID.
Claim(c, d, g) ==
    /\ openstackProxyComponentUUID' = [openstackProxyComponentUUID EXCEPT ![d] = guid[c]]
    /\ openstackProxyDeviceUUID' = [openstackProxyDeviceUUID EXCEPT ![c] = g]

\* Mutant: Devices of other hosts too.
Claimable_Any(c) == {d \in inClass : Exists(d) /\ Rank[c][d] # 0}

\* The devices that match a host and are not linked to one.
Claimable(c) ==
    {d \in inClass : /\ Exists(d) /\ Rank[c][d] # 0
                     /\ \A other \in Hosts : ~ Linked(other, d)}

\* find_claimable_device: the first of those that match best.
FindClaimable(c) == {d \in Claimable(c) : \A e \in Claimable(c) : Rank[c][d] <= Rank[c][e]}

\* proxy_device, when it finds a device: the one the host has, whose link back is
\* set right, or one to claim.
ProxyDevice(c) ==
    /\ \/ \E d \in Devices : HasDevice(c, d) /\ Claim(c, d, guid[d])
       \/ /\ ~ \E d \in Devices : HasDevice(c, d)
          /\ \E d \in FindClaimable(c) : Claim(c, d, guid[d])
    /\ UNCHANGED <<guid, nextGuid, inClass>>

HasNoProxyDevice(c) == ~ (\E d \in Devices : HasDevice(c, d)) /\ FindClaimable(c) = {}

\* create_proxy_device fails when a device has that id, or otherwise.
Creatable(c) == ~ Exists(SuggestedName[c]) /\ SuggestedName[c] \notin Uncreatable

\* create_proxy_device, when it succeeds.
CreateProxyDevice(c) ==
    LET d == SuggestedName[c] IN
    /\ Creatable(c)
    /\ NewGuid(d)
    /\ Claim(c, d, nextGuid)
    /\ inClass' = inClass \cup {d}

\* Mutant: Nothing is created.
EnsureProxyDevice_NoCreation(c) ==
    \/ ProxyDevice(c)
    \/ HasNoProxyDevice(c) /\ UNCHANGED <<guid, nextGuid, inClass, links>>

\* ensure_proxy_device.
EnsureProxyDevice(c) ==
    \/ ProxyDevice(c)
    \/ HasNoProxyDevice(c) /\ CreateProxyDevice(c)
    \/ /\ HasNoProxyDevice(c) /\ ~ Creatable(c)
       /\ UNCHANGED <<guid, nextGuid, inClass, links>>

\* Mutant: The device keeps its host.
Release_ForwardOnly(S) ==
    /\ openstackProxyDeviceUUID' =
          [c \in Hosts |-> IF c \in S THEN 0 ELSE openstackProxyDeviceUUID[c]]
    /\ UNCHANGED openstackProxyComponentUUID

\* release_proxy_device of each host in S.
Release(S) ==
    /\ openstackProxyDeviceUUID' =
          [c \in Hosts |-> IF c \in S THEN 0 ELSE openstackProxyDeviceUUID[c]]
    /\ openstackProxyComponentUUID' =
          [d \in Devices |-> IF \E c \in S : HasDevice(c, d) THEN 0
                             ELSE openstackProxyComponentUUID[d]]

-----------------------------------------------------------------------------
(* What users, jobs and modeling do to the objects. *)

\* Users stop while there are GUIDs for all devices that may be created.
Idle == todo = {} /\ nextGuid + Cardinality(Hosts) <= MaxGuid

AddDevice(d, class) ==
    /\ Idle /\ ~ Exists(d)
    /\ NewGuid(d)
    /\ inClass' = inClass \cup class
    /\ UNCHANGED <<links, todo>>

\* onDeviceDeleted does nothing: it is subscribed to IObjectWillBeMovedEvent and
\* returns on every event that provides it.
DeleteDevice(d) ==
    /\ Idle /\ Exists(d)
    /\ guid' = [guid EXCEPT ![d] = 0]
    /\ openstackProxyComponentUUID' = [openstackProxyComponentUUID EXCEPT ![d] = 0]
    /\ inClass' = inClass \ {d}
    /\ UNCHANGED <<nextGuid, openstackProxyDeviceUUID, todo>>

\* To another device class or back.
MoveDevice(d) ==
    /\ Idle /\ Exists(d)
    /\ inClass' = IF d \in inClass THEN inClass \ {d} ELSE inClass \cup {d}
    /\ UNCHANGED <<guid, nextGuid, links, todo>>

\* setGUID, as when a device is restored.
ChangeGuid(d) ==
    /\ Idle /\ Exists(d)
    /\ NewGuid(d)
    /\ UNCHANGED <<links, inClass, todo>>

AddHost(c) ==
    /\ Idle /\ ~ Exists(c)
    /\ NewGuid(c)
    /\ openstackProxyDeviceUUID' = [openstackProxyDeviceUUID EXCEPT ![c] = 0]
    /\ UNCHANGED <<openstackProxyComponentUUID, inClass, todo>>

\* The host component goes, and onDeviceProxyComponentDeleted releases its device.
DeleteHost(c) ==
    /\ Idle /\ Exists(c)
    /\ Release({c})
    /\ guid' = [guid EXCEPT ![c] = 0]
    /\ UNCHANGED <<nextGuid, inClass, todo>>

HostsOf(e) == {c \in Hosts : EndpointOf[c] = e /\ Exists(c)}

\* An endpoint is moved: its hosts will be, so each of them releases its device.
MoveEndpoint(e) ==
    /\ Idle
    /\ Release(HostsOf(e))
    /\ UNCHANGED <<guid, nextGuid, inClass, todo>>

\* A graph, a report or an impact view asks for the device of a host.
ReadProxyDevice(c) ==
    /\ todo = {} /\ Exists(c)
    /\ ProxyDevice(c)
    /\ UNCHANGED todo

-----------------------------------------------------------------------------
(* Maintenance of all hosts of an endpoint. *)

\* At the end of modeling: set_maintain_proxydevices is called if
\* get_maintain_proxydevices finds a host in need.
StartMaintenance(e) ==
    /\ todo = {}
    /\ \E c \in HostsOf(e) : NeedMaintenance(c)
    /\ todo' = HostsOf(e)
    /\ UNCHANGED <<guid, nextGuid, links, inClass>>

\* The maintenance data source: set_ensure_service_monitoring ensures each host's
\* device too, in need or not.
StartServiceMonitoring(e) ==
    /\ todo = {} /\ HostsOf(e) # {}
    /\ todo' = HostsOf(e)
    /\ UNCHANGED <<guid, nextGuid, links, inClass>>

Maintain(c) ==
    /\ c \in todo
    /\ EnsureProxyDevice(c)
    /\ todo' = todo \ {c}

Users ==
    \/ \E d \in Devices : \/ \E class \in {{}, {d}} : AddDevice(d, class)
                          \/ DeleteDevice(d) \/ MoveDevice(d) \/ ChangeGuid(d)
    \/ \E c \in Hosts : AddHost(c) \/ DeleteHost(c)
    \/ \E e \in Endpoints : MoveEndpoint(e)

Next ==
    \/ Users
    \/ \E c \in Hosts : ReadProxyDevice(c) \/ Maintain(c)
    \/ \E e \in Endpoints : StartMaintenance(e) \/ StartServiceMonitoring(e)

Spec == Init /\ [][Next]_vars

\* Modeling of each endpoint comes again and again, and a transaction ends.
FairSpec ==
    /\ Spec
    /\ \A e \in Endpoints : SF_vars(StartMaintenance(e))
    /\ \A c \in Hosts : WF_vars(Maintain(c))

-----------------------------------------------------------------------------

\* A host component that has a device is the one that the device leads back to.  So
\* no device is shared, each event of a host's device is tagged with that host, and
\* maintenance of one host never takes the device of another.
LinksAreMutual ==
    \A c \in Hosts, d \in Devices : Exists(c) /\ HasDevice(c, d) => HasComponent(d, c)

\* A device linked to a host is not given to another host in one step; its host, or
\* the link, must go first.
NotStolen ==
    [][\A c, other \in Hosts, d \in Devices :
          Linked(c, d) /\ other # c => ~ Linked(other, d)']_vars

\* A link that is dissolved while both objects stay what they are is dissolved on
\* both sides: no event of the device is tagged with the host from then on.
DissolvedOnBothSides ==
    [][\A c \in Hosts, d \in Devices :
          Linked(c, d) /\ ~ Linked(c, d)' /\ guid'[c] = guid[c] /\ guid'[d] = guid[d]
              => ~ HasComponent(d, c)']_vars

Served(c) == \E d \in Devices : Linked(c, d)

\* Nothing can be done for a host: it has no device to claim and its device
\* cannot be created.
Blocked(c) == Claimable(c) = {} /\ ~ Creatable(c)

\* When the hosts of an endpoint have been maintained, each of them has its device
\* or can have none, whatever was claimed or created for those after it.
MaintainedAreServed ==
    [][\A e \in Endpoints :
          todo # {} /\ todo \subseteq HostsOf(e) /\ todo' = {}
              => \A c \in HostsOf(e) : Served(c)' \/ Blocked(c)']_vars

\* If the users let the objects be, every host has its device for good or can have
\* none: hosts do not take devices from each other for ever.
FinallyServed ==
    <>[][~ Users]_vars =>
        <>[](\A c \in Hosts : Exists(c) => Served(c) \/ Blocked(c))

=============================================================================
