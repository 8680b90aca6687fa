--------------------------- MODULE MCServiceStatus ---------------------------
(* A small instance of ServiceStatus for TLC: one host with a short name, a full
   name, a name with a suffix and an address, and another host. *)
EXTENDS ServiceStatus, TLC

CONSTANTS short, full, suffixed, address, other, forced, unprefixed, h1, h2

AllRefs == {short, full, suffixed, address, other}
MCNames == AllRefs \ {suffixed}
MCValid == AllRefs \cup {forced}
MCIds == MCValid \cup {unprefixed}
MCClean == [h \in AllRefs |-> IF h = suffixed THEN short ELSE h]
MCLength == [i \in MCIds |-> IF i = full THEN 3 ELSE IF i = short THEN 1 ELSE 2]
MCHostOf == [i \in MCIds |-> IF i \in {other, forced} THEN h2 ELSE h1]

Props(toId, same) == [toId |-> toId, same |-> same]
MCSettings == {Props(other :> forced, {}), Props(short :> unprefixed, {<<suffixed, full>>})}

\* Nothing is set at first, and later one assertion and no ids.
AssertedSettings == {Props([h \in {} |-> forced], same) : same \in {{}, {<<suffixed, full>>}}}

MCSightings == {{full, address}, {other}}

Answer(s, f, o) ==
    short :> s @@ full :> f @@ address :> address @@ other :> o
MCAnswers == {Answer(address, address, None), Answer(Loopback, Loopback, Loopback)}

\* A host has two services of a kind if its name has a suffix for each backend.
MCServiceAnswers == {short :> "up" @@ suffixed :> "down", suffixed :> "up" @@ other :> "disabled"}
=============================================================================
