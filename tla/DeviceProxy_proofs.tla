------------------------- MODULE DeviceProxy_proofs -------------------------
(***************************************************************************)
(* For any hosts, devices and ranks: GUIDs are unique, no device has two    *)
(* hosts or is taken from one by another, links are dissolved on both       *)
(* sides, and maintenance leaves no host without a device it could have.    *)
(***************************************************************************)
EXTENDS DeviceProxy, TLAPS

\* Of the endpoint under maintenance, those whose turn is over have a device or
\* can have none: what is claimed or created after them changes nothing for them.
MaintainedSoFar ==
    \A e \in Endpoints :
        todo # {} /\ todo \subseteq HostsOf(e)
            => \A c \in HostsOf(e) \ todo : Served(c) \/ Blocked(c)

\* Those that are maintained in one transaction exist and are of one endpoint.
TodoTogether == \A c, h \in todo : Exists(c) /\ EndpointOf[c] = EndpointOf[h]

IInv == TypeOK /\ LinksAreMutual /\ TodoTogether /\ MaintainedSoFar

USE DeviceProxyAssumption

-----------------------------------------------------------------------------
\* A device has one host, and a host one device.
LEMMA OneToOne ==
    ASSUME TypeOK
    PROVE  /\ \A c, other \in Hosts, d \in Devices :
                  HasComponent(d, c) /\ HasComponent(d, other) => c = other
           /\ \A c \in Hosts, d, e \in Devices :
                  HasDevice(c, d) /\ HasDevice(c, e) => d = e
BY DEF TypeOK, GuidsAreUnique, HasComponent, HasDevice, Exists

\* Initially there is nothing.
LEMMA InitInv == Init => IInv
BY DEF Init, IInv, TypeOK, GuidsAreUnique, LinksAreMutual, MaintainedSoFar, TodoTogether,
                      Exists,        HasDevice

\* What the users do, and moving, keeps types.
LEMMA UsersType ==
    ASSUME TypeOK, Users
    PROVE  TypeOK'
<1>1. ASSUME NEW d \in Devices, NEW class \in {{}, {d}}, AddDevice(d, class)
      PROVE  TypeOK'
  BY <1>1 DEF AddDevice, NewGuid, TypeOK, GuidsAreUnique, Exists, Idle, links
<1>2. ASSUME NEW d \in Devices, DeleteDevice(d)
      PROVE  TypeOK'
  BY <1>2 DEF DeleteDevice, TypeOK, GuidsAreUnique, Exists, Idle
<1>3. ASSUME NEW d \in Devices, MoveDevice(d)
      PROVE  TypeOK'
  BY <1>3 DEF MoveDevice, TypeOK, GuidsAreUnique, Exists, Idle, links
<1>4. ASSUME NEW d \in Devices, ChangeGuid(d)
      PROVE  TypeOK'
  BY <1>4 DEF ChangeGuid, NewGuid, TypeOK, GuidsAreUnique, Exists, Idle, links
<1>5. ASSUME NEW c \in Hosts, AddHost(c)
      PROVE  TypeOK'
  BY <1>5 DEF AddHost, NewGuid, TypeOK, GuidsAreUnique, Exists, Idle
<1>6. ASSUME NEW c \in Hosts, DeleteHost(c)
      PROVE  TypeOK'
  BY <1>6 DEF DeleteHost, Release, TypeOK, GuidsAreUnique, Exists, Idle
<1>7. ASSUME NEW e \in Endpoints, MoveEndpoint(e)
      PROVE  TypeOK'
  BY <1>7 DEF MoveEndpoint, Release, TypeOK, GuidsAreUnique, Exists, Idle
<1> QED
  BY <1>1, <1>2, <1>3, <1>4, <1>5, <1>6, <1>7 DEF Users

\* What the users do leaves links mutual.
LEMMA UsersLinks ==
    ASSUME TypeOK, LinksAreMutual, Users
    PROVE  LinksAreMutual'
<1>1. ASSUME NEW d \in Devices, NEW class \in {{}, {d}}, AddDevice(d, class)
      PROVE  LinksAreMutual'
  BY <1>1 DEF AddDevice, NewGuid, TypeOK, GuidsAreUnique, Exists, links,
              LinksAreMutual, HasDevice, HasComponent
<1>2. ASSUME NEW d \in Devices, DeleteDevice(d)
      PROVE  LinksAreMutual'
  BY <1>2 DEF DeleteDevice, TypeOK, GuidsAreUnique, Exists,
              LinksAreMutual, HasDevice, HasComponent
<1>3. ASSUME NEW d \in Devices, MoveDevice(d)
      PROVE  LinksAreMutual'
  BY <1>3 DEF MoveDevice, links, Exists, LinksAreMutual, HasDevice, HasComponent
<1>4. ASSUME NEW d \in Devices, ChangeGuid(d)
      PROVE  LinksAreMutual'
  BY <1>4 DEF ChangeGuid, NewGuid, TypeOK, GuidsAreUnique, Exists, links,
              LinksAreMutual, HasDevice, HasComponent
<1>5. ASSUME NEW c \in Hosts, AddHost(c)
      PROVE  LinksAreMutual'
  BY <1>5 DEF AddHost, NewGuid, TypeOK, GuidsAreUnique, Exists,
              LinksAreMutual, HasDevice, HasComponent
<1>6. ASSUME NEW c \in Hosts, DeleteHost(c)
      PROVE  LinksAreMutual'
  BY <1>6, OneToOne DEF DeleteHost, Release, TypeOK, Exists,
              LinksAreMutual, HasDevice, HasComponent
<1>7. ASSUME NEW e \in Endpoints, MoveEndpoint(e)
      PROVE  LinksAreMutual'
  BY <1>7, OneToOne DEF MoveEndpoint, Release, TypeOK, HostsOf, Exists,
              LinksAreMutual, HasDevice, HasComponent
<1> QED
  BY <1>1, <1>2, <1>3, <1>4, <1>5, <1>6, <1>7 DEF Users

-----------------------------------------------------------------------------
\* If a device can be claimed, one is found.
LEMMA FoundIfClaimable ==
    ASSUME TypeOK, NEW c \in Hosts, FindClaimable(c) = {}
    PROVE  Claimable(c) = {}
<1> SUFFICES ASSUME NEW d \in Claimable(c)
             PROVE  FALSE
  OBVIOUS
<1>1. \A e \in Claimable(c) : e \in Devices /\ Rank[c][e] \in 1..5
  BY DEF Claimable, TypeOK
<1>2. ASSUME NEW r \in 1..5, \A e \in Claimable(c) : r <= Rank[c][e]
      PROVE  \A e \in Claimable(c) : r + 1 <= Rank[c][e]
  BY <1>1, <1>2 DEF FindClaimable
<1>3. \A e \in Claimable(c) : 2 <= Rank[c][e]
  BY <1>1, <1>2
<1>4. \A e \in Claimable(c) : 3 <= Rank[c][e]
  BY <1>2, <1>3
<1>5. \A e \in Claimable(c) : 4 <= Rank[c][e]
  BY <1>2, <1>4
<1>6. \A e \in Claimable(c) : 5 <= Rank[c][e]
  BY <1>2, <1>5
<1> QED
  BY <1>1, <1>2, <1>6

\* A host without a device claims one that no host is linked to: existing or created.
Claims(c, d) ==
    /\ Exists(c)
    /\ ~ \E e \in Devices : HasDevice(c, e)
    /\ \A other \in Hosts : ~ Linked(other, d)
    /\ \/ Exists(d) /\ Claim(c, d, guid[d]) /\ UNCHANGED <<guid, nextGuid>>
       \/ ~ Exists(d) /\ Claim(c, d, nextGuid) /\ NewGuid(d)

\* A claim keeps types.
LEMMA ClaimType ==
    ASSUME TypeOK, NEW c \in Hosts, NEW d \in Devices, Claims(c, d),
           inClass' \subseteq Devices, todo' \subseteq Hosts
    PROVE  TypeOK'
<1>1. CASE Exists(d) /\ Claim(c, d, guid[d]) /\ UNCHANGED <<guid, nextGuid>>
  BY <1>1 DEF Claim, TypeOK, GuidsAreUnique, Exists
<1>2. CASE ~ Exists(d) /\ Claim(c, d, nextGuid) /\ NewGuid(d)
  BY <1>2 DEF Claim, NewGuid, TypeOK, GuidsAreUnique, Exists
<1> QED
  BY <1>1, <1>2 DEF Claims

\* A claim links the two and changes no other host's link.
LEMMA ClaimLinks ==
    ASSUME TypeOK, LinksAreMutual, NEW c \in Hosts, NEW d \in Devices, Claims(c, d)
    PROVE  /\ LinksAreMutual'
           /\ Linked(c, d)'
           /\ \A other \in Hosts \ {c}, e \in Devices : Linked(other, e)' <=> Linked(other, e)
           /\ \A x \in Hosts \cup Devices : Exists(x)' <=> Exists(x) \/ x = d
<1>1. CASE Exists(d) /\ Claim(c, d, guid[d]) /\ UNCHANGED <<guid, nextGuid>>
  <2>1. \A x \in Hosts \cup Devices : Exists(x)' <=> Exists(x)
    BY <1>1 DEF Exists
  <2>2. \A other \in Hosts \ {c}, e \in Devices :
            /\ HasDevice(other, e)' <=> HasDevice(other, e)
            /\ e # d => (HasComponent(e, other)' <=> HasComponent(e, other))
            /\ ~ HasComponent(d, other)'
    BY <1>1, <2>1 DEF Claim, HasDevice, HasComponent, TypeOK, GuidsAreUnique, Exists
  <2>3. \A e \in Devices : HasDevice(c, e)' <=> e = d
    BY <1>1 DEF Claim, HasDevice, TypeOK, GuidsAreUnique, Exists
  <2>4. HasComponent(d, c)'
    BY <1>1 DEF Claim, HasComponent, TypeOK, Exists, Claims
  <2>5. \A other \in Hosts : Exists(other) => ~ HasDevice(other, d)
    BY DEF Claims, Linked, LinksAreMutual
  <2> QED
    BY <1>1, <2>1, <2>2, <2>3, <2>4, <2>5 DEF LinksAreMutual, Linked, HasComponent
<1>2. CASE ~ Exists(d) /\ Claim(c, d, nextGuid) /\ NewGuid(d)
  <2>1. \A x \in Hosts \cup Devices : Exists(x)' <=> Exists(x) \/ x = d
    BY <1>2 DEF NewGuid, TypeOK, Exists
  <2>2. \A other \in Hosts \ {c}, e \in Devices :
            /\ e # d => (HasDevice(other, e)' <=> HasDevice(other, e))
            /\ ~ HasDevice(other, d)'
            /\ e # d => (HasComponent(e, other)' <=> HasComponent(e, other))
    BY <1>2 DEF Claim, NewGuid, HasDevice, HasComponent, TypeOK, GuidsAreUnique, Exists
  <2>3. \A e \in Devices : HasDevice(c, e)' <=> e = d
    BY <1>2 DEF Claim, NewGuid, HasDevice, TypeOK, GuidsAreUnique, Exists
  <2>4. HasComponent(d, c)'
    BY <1>2 DEF Claim, NewGuid, HasComponent, TypeOK, Exists, Claims
  <2>5. \A other \in Hosts : ~ HasDevice(other, d)
    BY <1>2 DEF HasDevice
  <2> QED
    BY <1>2, <2>1, <2>2, <2>3, <2>4, <2>5 DEF LinksAreMutual, Linked, HasComponent
<1> QED
  BY <1>1, <1>2 DEF Claims

\* A claim takes nothing from the other hosts that are served or blocked.
LEMMA ClaimServes ==
    ASSUME TypeOK, LinksAreMutual, NEW c \in Hosts, NEW d \in Devices, Claims(c, d),
           inClass' \subseteq inClass \cup {d}
    PROVE  /\ Served(c)'
           /\ \A h \in Hosts \ {c} : Served(h) => Served(h)'
           /\ \A h \in Hosts \ {c} : Blocked(h) => Blocked(h)'
<1>1. ASSUME NEW h \in Hosts, NEW e \in Claimable(h)'
      PROVE  e \in Claimable(h)
  <2>1. e # d
    BY <1>1, ClaimLinks DEF Claimable
  <2>2. e \in inClass /\ e \in Devices /\ Rank[h][e] # 0 /\ Exists(e)
    BY <1>1, <2>1, ClaimLinks DEF Claimable, TypeOK
  <2>3. \A other \in Hosts : ~ Linked(other, e)
    BY <1>1, <2>2, ClaimLinks DEF Claimable, Claims, Linked
  <2> QED
    BY <2>2, <2>3 DEF Claimable
<1>2. \A h \in Hosts : Creatable(h)' => Creatable(h)
  BY ClaimLinks DEF Creatable
<1> QED
  BY <1>1, <1>2, ClaimLinks DEF Served, Blocked

-----------------------------------------------------------------------------
\* Asking for the device of a host claims one, or changes nothing.
LEMMA ProxyDeviceClaims ==
    ASSUME TypeOK, LinksAreMutual, NEW c \in Hosts, Exists(c), ProxyDevice(c)
    PROVE  \/ (\E d \in Devices : HasDevice(c, d)) /\ UNCHANGED links
           \/ \E d \in Devices : Claims(c, d)
<1>1. ASSUME NEW d \in Devices, HasDevice(c, d), Claim(c, d, guid[d])
      PROVE  UNCHANGED links
  BY <1>1 DEF Claim, LinksAreMutual, HasDevice, HasComponent, links, TypeOK
<1>2. ASSUME ~ (\E d \in Devices : HasDevice(c, d)),
             NEW d \in FindClaimable(c), Claim(c, d, guid[d])
      PROVE  d \in Devices /\ Claims(c, d)
  BY <1>2 DEF FindClaimable, Claimable, Claims, ProxyDevice, TypeOK
<1> QED
  BY <1>1, <1>2 DEF ProxyDevice

\* A host that is maintained has its device, claims one, or can have none.
LEMMA MaintainClaims ==
    ASSUME TypeOK, LinksAreMutual, NEW c \in Hosts, Exists(c), EnsureProxyDevice(c)
    PROVE  \/ (Served(c) \/ Blocked(c)) /\ UNCHANGED <<guid, nextGuid, inClass, links>>
           \/ \E d \in Devices : Claims(c, d) /\ inClass' \subseteq inClass \cup {d}
<1>1. CASE ProxyDevice(c)
  BY <1>1, ProxyDeviceClaims DEF ProxyDevice, Served, Linked, LinksAreMutual
<1>2. CASE HasNoProxyDevice(c) /\ CreateProxyDevice(c)
  <2> DEFINE d == SuggestedName[c]
  <2>1. d \in Devices /\ ~ Exists(d) /\ Claim(c, d, nextGuid) /\ NewGuid(d)
        /\ inClass' = inClass \cup {d}
    BY <1>2 DEF CreateProxyDevice, Creatable
  <2>2. Claims(c, d)
    BY <1>2, <2>1 DEF Claims, HasNoProxyDevice, Linked, HasDevice
  <2> QED
    BY <2>1, <2>2
<1>3. CASE /\ HasNoProxyDevice(c) /\ ~ Creatable(c)
           /\ UNCHANGED <<guid, nextGuid, inClass, links>>
  BY <1>3, FoundIfClaimable DEF HasNoProxyDevice, Blocked
<1> QED
  BY <1>1, <1>2, <1>3 DEF EnsureProxyDevice

-----------------------------------------------------------------------------
\* What a step does to the hosts under maintenance and their objects.
LEMMA StepInv ==
    ASSUME IInv, [Next]_vars
    PROVE  IInv'
<1>1. CASE Users
  <2>1. todo = {} /\ todo' = {}
    BY <1>1 DEF Users, AddDevice, DeleteDevice, MoveDevice, ChangeGuid, AddHost,
                DeleteHost, MoveEndpoint, Idle
  <2> QED
    BY <1>1, <2>1, UsersType, UsersLinks DEF IInv, MaintainedSoFar, TodoTogether
<1>2. ASSUME NEW c \in Hosts, ReadProxyDevice(c)
      PROVE  IInv'
  <2>1. /\ todo = {} /\ todo' = {} /\ inClass' = inClass /\ Exists(c)
        /\ ProxyDevice(c) /\ UNCHANGED <<guid, nextGuid>>
    BY <1>2 DEF ReadProxyDevice, ProxyDevice
  <2>2. CASE UNCHANGED links
    BY <2>1, <2>2 DEF IInv, TypeOK, GuidsAreUnique, LinksAreMutual, MaintainedSoFar, TodoTogether,
                      Exists, links, HasDevice, HasComponent
  <2>3. ASSUME NEW d \in Devices, Claims(c, d)
        PROVE  IInv'
    BY <2>1, <2>3, ClaimType, ClaimLinks DEF IInv, TypeOK, MaintainedSoFar, TodoTogether
  <2> QED
    BY <2>1, <2>2, <2>3, ProxyDeviceClaims DEF IInv
<1>3. ASSUME NEW c \in Hosts, Maintain(c)
      PROVE  IInv'
  <2>1. /\ c \in todo /\ todo' = todo \ {c} /\ Exists(c)
        /\ EnsureProxyDevice(c)
    BY <1>3 DEF Maintain, IInv, TodoTogether
  <2>2. CASE (Served(c) \/ Blocked(c)) /\ UNCHANGED <<guid, nextGuid, inClass, links>>
    <3>1. TypeOK' /\ LinksAreMutual' /\ TodoTogether'
      BY <2>1, <2>2 DEF IInv, TypeOK, GuidsAreUnique, LinksAreMutual, Exists, TodoTogether,
                        links, HasDevice, HasComponent
    <3>2. \A h \in Hosts : /\ Served(h)' <=> Served(h)
                           /\ Blocked(h)' <=> Blocked(h)
      BY <2>2 DEF links, Served, Blocked, Claimable, Creatable, Linked, HasDevice,
                  HasComponent, Exists
    <3>3. \A e \in Endpoints : HostsOf(e)' = HostsOf(e)
      BY <2>2 DEF HostsOf, Exists
    <3>4. MaintainedSoFar'
      <4> SUFFICES ASSUME NEW e \in Endpoints, todo' # {}, todo' \subseteq HostsOf(e),
                          NEW h \in HostsOf(e) \ todo'
                   PROVE  Served(h) \/ Blocked(h)
        BY <3>2, <3>3 DEF MaintainedSoFar, HostsOf
      <4>1. CASE h = c
        BY <2>2, <4>1
      <4>2. CASE h # c
        <5>1. c \in HostsOf(e)
          BY <2>1 DEF IInv, TypeOK, TodoTogether, HostsOf
        <5> QED
          BY <2>1, <4>2, <5>1 DEF IInv, MaintainedSoFar
      <4> QED
        BY <4>1, <4>2
    <3> QED
      BY <3>1, <3>4 DEF IInv
  <2>3. ASSUME NEW d \in Devices, Claims(c, d), inClass' \subseteq inClass \cup {d}
        PROVE  IInv'
    <3>1. TypeOK' /\ LinksAreMutual'
      BY <2>1, <2>3, ClaimType, ClaimLinks DEF IInv, TypeOK
    <3>2. \A h \in Hosts : Exists(h)' <=> Exists(h)
      BY <2>3, ClaimLinks DEF IInv
    <3>3. TodoTogether'
      BY <2>1, <3>2 DEF IInv, TypeOK, TodoTogether
    <3>4. \A e \in Endpoints : HostsOf(e)' = HostsOf(e)
      BY <3>2 DEF HostsOf
    <3>5. MaintainedSoFar'
      <4> SUFFICES ASSUME NEW e \in Endpoints, todo' # {}, todo' \subseteq HostsOf(e),
                          NEW h \in HostsOf(e) \ todo'
                   PROVE  Served(h)' \/ Blocked(h)'
        BY <3>4 DEF MaintainedSoFar
      <4>1. CASE h = c
        BY <2>3, <4>1, ClaimServes DEF IInv
      <4>2. CASE h # c
        <5>1. c \in HostsOf(e)
          BY <2>1 DEF IInv, TypeOK, TodoTogether, HostsOf
        <5>2. Served(h) \/ Blocked(h)
          BY <2>1, <4>2, <5>1 DEF IInv, MaintainedSoFar
        <5> QED
          BY <2>3, <4>2, <5>2, ClaimServes DEF IInv, HostsOf
      <4> QED
        BY <4>1, <4>2
    <3> QED
      BY <3>1, <3>3, <3>5 DEF IInv
  <2> QED
    BY <2>1, <2>2, <2>3, MaintainClaims DEF IInv
<1>4. ASSUME NEW e \in Endpoints, StartMaintenance(e) \/ StartServiceMonitoring(e)
      PROVE  IInv'
  <2>1. todo' = HostsOf(e) /\ UNCHANGED <<guid, nextGuid, links, inClass>>
    BY <1>4 DEF StartMaintenance, StartServiceMonitoring
  <2>2. TypeOK' /\ LinksAreMutual' /\ TodoTogether'
    BY <2>1 DEF IInv, TypeOK, GuidsAreUnique, LinksAreMutual, Exists, TodoTogether,
                links, HasDevice, HasComponent, HostsOf
  <2>3. MaintainedSoFar'
    BY <2>1 DEF MaintainedSoFar, HostsOf, Exists
  <2> QED
    BY <2>2, <2>3 DEF IInv
<1>5. CASE UNCHANGED vars
  BY <1>5 DEF vars, IInv, TypeOK, GuidsAreUnique, LinksAreMutual, MaintainedSoFar, TodoTogether, HostsOf,
              Exists, links, Served, Blocked, Claimable, Creatable, Linked, HasDevice, HasComponent
<1> QED
  BY <1>1, <1>2, <1>3, <1>4, <1>5 DEF Next

LEMMA Inductive == Spec => []IInv
<1> QED
  BY InitInv, StepInv, PTL DEF Spec

-----------------------------------------------------------------------------
\* GUIDs are unique, and no reference is to one that is yet to be given.
THEOREM TypeOKHolds == Spec => []TypeOK
<1>1. IInv => TypeOK
  BY DEF IInv
<1> QED
  BY <1>1, Inductive, PTL

\* A host's device leads back to it, whatever is deleted, moved or given a new GUID
\* on either side, so that hosts never compete for a device they have.
THEOREM LinksAreMutualHolds == Spec => []LinksAreMutual
<1>1. IInv => LinksAreMutual
  BY DEF IInv
<1> QED
  BY <1>1, Inductive, PTL

\* In each step that claims, the links of the other hosts stay.
LEMMA OthersStay ==
    ASSUME IInv, [Next]_vars, NEW c \in Hosts, NEW d \in Devices, Linked(c, d)
    PROVE  \A other \in Hosts \ {c} : ~ Linked(other, d)'
<1> SUFFICES ASSUME NEW other \in Hosts \ {c}
             PROVE  ~ Linked(other, d)'
  OBVIOUS
<1>1. ~ Linked(other, d) /\ ~ HasComponent(d, other)
  BY OneToOne DEF IInv, Linked
<1>2. CASE Users
  BY <1>1, <1>2 DEF Users, AddDevice, DeleteDevice, MoveDevice, ChangeGuid, AddHost,
        DeleteHost, MoveEndpoint, Release, NewGuid, IInv, TypeOK, GuidsAreUnique, links,
        Linked, HasDevice, HasComponent, Exists
<1>3. CASE UNCHANGED <<guid, links>>
  BY <1>1, <1>3 DEF links, Linked, HasDevice, HasComponent, Exists
<1>4. ASSUME NEW h \in Hosts, NEW e \in Devices, Claims(h, e)
      PROVE  ~ Linked(other, d)'
  <2>1. d # e
    BY <1>4 DEF Claims
  <2>2. CASE h = other
    <3>1. Linked(h, e)' /\ TypeOK'
      BY <1>4, ClaimLinks, StepInv DEF IInv
    <3> QED
      BY <2>1, <2>2, <3>1, OneToOne, StepInv DEF IInv, Linked, HasDevice, TypeOK,
         GuidsAreUnique, Exists
  <2>3. CASE h # other
    BY <1>1, <1>4, <2>3, ClaimLinks DEF IInv
  <2> QED
    BY <2>2, <2>3
<1>5. ASSUME NEW h \in Hosts, ReadProxyDevice(h)
      PROVE  ~ Linked(other, d)'
  BY <1>3, <1>4, <1>5, ProxyDeviceClaims DEF ReadProxyDevice, ProxyDevice, IInv
<1>6. ASSUME NEW h \in Hosts, Maintain(h)
      PROVE  ~ Linked(other, d)'
  BY <1>3, <1>4, <1>6, MaintainClaims DEF Maintain, IInv, TodoTogether
<1>7. ASSUME NEW e \in Endpoints, StartMaintenance(e) \/ StartServiceMonitoring(e)
      PROVE  ~ Linked(other, d)'
  BY <1>3, <1>7 DEF StartMaintenance, StartServiceMonitoring
<1>8. CASE UNCHANGED vars
  BY <1>3, <1>8 DEF vars, links
<1> QED
  BY <1>2, <1>5, <1>6, <1>7, <1>8 DEF Next

\* No step gives a host's device to another host.
THEOREM NotStolenHolds == Spec => NotStolen
<1>1. IInv /\ [Next]_vars =>
          [\A c, other \in Hosts, d \in Devices :
              Linked(c, d) /\ other # c => ~ Linked(other, d)']_vars
  BY OthersStay
<1> QED
  BY <1>1, Inductive, PTL DEF Spec, NotStolen

\* A link that goes while both objects keep their GUIDs is one that was released,
\* and a release leaves nothing that leads back to the host.
LEMMA Dissolved ==
    ASSUME IInv, [Next]_vars, NEW c \in Hosts, NEW d \in Devices,
           Linked(c, d), ~ Linked(c, d)', guid'[c] = guid[c], guid'[d] = guid[d]
    PROVE  ~ HasComponent(d, c)'
<1>1. Exists(c) /\ Exists(d) /\ Exists(c)' /\ Exists(d)'
  BY DEF Linked, HasDevice, HasComponent, Exists
<1>2. CASE Users
  <2>1. ASSUME openstackProxyDeviceUUID'[c] = openstackProxyDeviceUUID[c],
               openstackProxyComponentUUID'[d] \in {openstackProxyComponentUUID[d], 0}
        PROVE  ~ HasComponent(d, c)'
    BY <1>1, <2>1 DEF Linked, HasDevice, HasComponent, Exists
  <2>2. ASSUME NEW S \in SUBSET Hosts, Release(S)
        PROVE  ~ HasComponent(d, c)'
    <3>1. CASE c \in S
      BY <1>1, <2>2, <3>1 DEF Release, Linked, HasComponent, Exists
    <3>2. CASE c \notin S
      BY <2>1, <2>2, <3>2 DEF Release
    <3> QED
      BY <3>1, <3>2
  <2>3. ASSUME NEW e \in Devices, NEW class \in {{}, {e}}, AddDevice(e, class)
        PROVE  ~ HasComponent(d, c)'
    BY <2>1, <2>3 DEF AddDevice, links
  <2>4. ASSUME NEW e \in Devices, DeleteDevice(e)
        PROVE  ~ HasComponent(d, c)'
    BY <2>1, <2>4 DEF DeleteDevice, IInv, TypeOK
  <2>5. ASSUME NEW e \in Devices, MoveDevice(e) \/ ChangeGuid(e)
        PROVE  ~ HasComponent(d, c)'
    BY <2>1, <2>5 DEF MoveDevice, ChangeGuid, links
  <2>6. ASSUME NEW h \in Hosts, AddHost(h)
        PROVE  ~ HasComponent(d, c)'
    BY <1>1, <2>1, <2>6 DEF AddHost, IInv, TypeOK
  <2>7. ASSUME NEW h \in Hosts, DeleteHost(h)
        PROVE  ~ HasComponent(d, c)'
    BY <2>2, <2>7 DEF DeleteHost
  <2>8. ASSUME NEW e \in Endpoints, MoveEndpoint(e)
        PROVE  ~ HasComponent(d, c)'
    BY <2>2, <2>8 DEF MoveEndpoint, HostsOf
  <2> QED
    BY <1>2, <2>3, <2>4, <2>5, <2>6, <2>7, <2>8 DEF Users
<1>3. ASSUME UNCHANGED <<guid, links>>
      PROVE  FALSE
  BY <1>3 DEF links, Linked, HasDevice, HasComponent, Exists
<1>4. ASSUME NEW h \in Hosts, NEW e \in Devices, Claims(h, e)
      PROVE  FALSE
  <2>1. h # c
    BY <1>4 DEF Claims, Linked
  <2> QED
    BY <1>4, <2>1, ClaimLinks DEF IInv
<1>5. ASSUME NEW h \in Hosts, ReadProxyDevice(h)
      PROVE  FALSE
  BY <1>3, <1>4, <1>5, ProxyDeviceClaims DEF ReadProxyDevice, ProxyDevice, IInv
<1>6. ASSUME NEW h \in Hosts, Maintain(h)
      PROVE  FALSE
  BY <1>3, <1>4, <1>6, MaintainClaims DEF Maintain, IInv, TodoTogether
<1>7. ASSUME NEW e \in Endpoints, StartMaintenance(e) \/ StartServiceMonitoring(e)
      PROVE  FALSE
  BY <1>3, <1>7 DEF StartMaintenance, StartServiceMonitoring
<1>8. CASE UNCHANGED vars
  BY <1>3, <1>8 DEF vars, links
<1> QED
  BY <1>2, <1>5, <1>6, <1>7, <1>8 DEF Next

\* What dissolves a link dissolves it on both sides.
THEOREM DissolvedOnBothSidesHolds == Spec => DissolvedOnBothSides
<1>1. IInv /\ [Next]_vars =>
          [\A c \in Hosts, d \in Devices :
              Linked(c, d) /\ ~ Linked(c, d)' /\ guid'[c] = guid[c] /\ guid'[d] = guid[d]
                  => ~ HasComponent(d, c)']_vars
  BY Dissolved
<1> QED
  BY <1>1, Inductive, PTL DEF Spec, DissolvedOnBothSides

\* When maintenance of an endpoint ends, none of its hosts lacks a device that
\* it could have, in whatever order they were maintained.
THEOREM MaintainedAreServedHolds == Spec => MaintainedAreServed
<1>1. ASSUME IInv, [Next]_vars, NEW e \in Endpoints,
             todo # {}, todo \subseteq HostsOf(e), todo' = {}, NEW h \in HostsOf(e)
      PROVE  Served(h)' \/ Blocked(h)'
  <2>1. PICK c \in Hosts : Maintain(c)
    BY <1>1 DEF Next, Users, AddDevice, DeleteDevice, MoveDevice, ChangeGuid, AddHost,
        DeleteHost, MoveEndpoint, ReadProxyDevice, StartMaintenance, StartServiceMonitoring,
        Idle, vars
  <2>2. todo = {c} /\ Exists(c) /\ EnsureProxyDevice(c)
    BY <1>1, <2>1 DEF Maintain, IInv, TodoTogether
  <2>3. h # c => Served(h) \/ Blocked(h)
    BY <1>1, <2>2 DEF IInv, MaintainedSoFar
  <2>4. CASE (Served(c) \/ Blocked(c)) /\ UNCHANGED <<guid, nextGuid, inClass, links>>
    BY <2>3, <2>4 DEF links, Served, Blocked, Claimable, Creatable, Linked, HasDevice,
                      HasComponent, Exists
  <2>5. ASSUME NEW d \in Devices, Claims(c, d), inClass' \subseteq inClass \cup {d}
        PROVE  Served(h)' \/ Blocked(h)'
    BY <1>1, <2>3, <2>5, ClaimServes DEF IInv, HostsOf
  <2> QED
    BY <2>2, <2>4, <2>5, MaintainClaims, <1>1 DEF IInv
<1>2. IInv /\ [Next]_vars =>
          [\A e \in Endpoints :
              todo # {} /\ todo \subseteq HostsOf(e) /\ todo' = {}
                  => \A c \in HostsOf(e) : Served(c)' \/ Blocked(c)']_vars
  BY <1>1
<1> QED
  BY <1>2, Inductive, PTL DEF Spec, MaintainedAreServed
=============================================================================
