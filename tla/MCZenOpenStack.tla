--------------------------- MODULE MCZenOpenStack ---------------------------
(* Small instances of ZenOpenStack for TLC. *)
EXTENDS ZenOpenStack, TLC

CONSTANTS d1, d2, c1, c2, i1, i2, v1, v2, mapped, other, s0, s1, s2

Cfg(types, resources, settings) ==
    [types |-> types, resources |-> resources, settings |-> settings]

Event(t, c) == [type |-> t, component |-> c]

\* Two settings and event types; a request that fails in the middle.
QueueConfigs == {Cfg({other}, {i1}, s1), Cfg({other, mapped}, {i1}, s2)}
QueueEvents == {<<Event(mapped, c1), Event(other, c1)>>,
                <<Event(mapped, c1), Malformed, Event(other, c1)>>}
QueueSamples == {<<i1>>, <<i1, Malformed>>}

\* Instances come and go, two vNICs appear one after the other, the second perhaps
\* while the first is looked for, and two metrics arrive at once.
VnicParents == v1 :> i1 @@ v2 :> i2
LiveConfigs == {Cfg({}, {i1, i2}, s1), Cfg({mapped}, {i2, v2}, s2)}
LiveSamples == {<<v1>>, <<v2>>, <<i1, i2>>}

=============================================================================
