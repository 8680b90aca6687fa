----------------------------- MODULE ObjectMaps -----------------------------
(***************************************************************************)
(* The object maps that the event mapping functions (events.py) and the    *)
(* vNIC task (zenopenstack.py) hand to the queues, and the groups in which *)
(* ConsolidatingObjectMapQueue.drain() (datamaps.py) releases them.        *)
(*                                                                         *)
(* An object map is a record: the component it is about, its directives    *)
(* (_add, _remove, _update) and its other attributes, a function on the    *)
(* attributes that are set.  An attribute is a plain property or a         *)
(* relationship setter (set_<x>), whose value is the set of component ids  *)
(* it refers to ({} is set_<x> = None).                                    *)
(***************************************************************************)
EXTENDS Integers

CONSTANTS
    Components,   \* the component ids object maps are about
    Props,        \* plain attributes
    Rels,         \* set_<relationship> attributes
    Values,       \* values of plain attributes
    Payloads      \* the attributes the mapping functions put into a map

IsPayload(a) ==
    /\ a = [k \in DOMAIN a |-> a[k]]
    /\ DOMAIN a \subseteq Props \cup Rels
    /\ \A k \in DOMAIN a : IF k \in Rels THEN a[k] \subseteq Components
                                         ELSE a[k] \in Values

ASSUME AttrAssumption == Props \cap Rels = {}
ASSUME PayloadAssumption == \A a \in Payloads : IsPayload(a)

NoAttrs == [k \in {} |-> {}]

Restriction(f, S) == [x \in S |-> f[x]]

(***************************************************************************)
(* What the mapping functions create.  A creation is an update with _add   *)
(* set on top; addRemoveDirective() takes _update away; the vNIC task sets *)
(* no directive at all.                                                    *)
(***************************************************************************)
CreateMap(c, a) == [id |-> c, add |-> TRUE, remove |-> FALSE, update |-> TRUE, attrs |-> a]
UpdateMap(c, a) == [id |-> c, add |-> FALSE, remove |-> FALSE, update |-> TRUE, attrs |-> a]
RemoveMap(c) == [id |-> c, add |-> FALSE, remove |-> TRUE, update |-> FALSE, attrs |-> NoAttrs]
VnicMap(c, a) == [id |-> c, add |-> FALSE, remove |-> FALSE, update |-> FALSE, attrs |-> a]

Arrivals ==
    {RemoveMap(c) : c \in Components}
        \cup {CreateMap(c, a) : c \in Components, a \in Payloads}
        \cup {UpdateMap(c, a) : c \in Components, a \in Payloads}
        \cup {VnicMap(c, a) : c \in Components, a \in Payloads}

IsMap(m) ==
    /\ m = [id |-> m.id, add |-> m.add, remove |-> m.remove, update |-> m.update,
            attrs |-> m.attrs]
    /\ m.id \in Components
    /\ m.add \in BOOLEAN /\ m.remove \in BOOLEAN /\ m.update \in BOOLEAN
    /\ IsPayload(m.attrs)

Ids(maps) == {m.id : m \in maps}

Refs(m) == UNION {m.attrs[k] : k \in DOMAIN m.attrs \cap Rels}

-----------------------------------------------------------------------------
(***************************************************************************)
(* The three groups in which drain() returns the maps M[c] it releases for *)
(* the components c \in DOMAIN M.                                          *)
(***************************************************************************)
NoMaps == [A |-> {}, B |-> {}, C |-> {}]

\* Group A: the maps that create a component.
Creating(M) == {c \in DOMAIN M : M[c].add}

\* Mutant: a list of references is moved only if all of it is being created.
MovedRefs_All(M, c) ==
    {k \in DOMAIN M[c].attrs \cap Rels :
        M[c].attrs[k] # {} /\ M[c].attrs[k] \subseteq Creating(M)}

\* The set_ attributes of a creating map that refer to a map of group A.
MovedRefs(M, c) ==
    {k \in DOMAIN M[c].attrs \cap Rels : M[c].attrs[k] \cap Creating(M) # {}}

\* A creating map without those references.
Stripped(M, c) ==
    [M[c] EXCEPT !.attrs = Restriction(M[c].attrs, DOMAIN M[c].attrs \ MovedRefs(M, c))]

\* Mutant: the new map is never given what was moved.
Moved_Empty(M, c) ==
    [id |-> c, add |-> FALSE, remove |-> FALSE, update |-> FALSE, attrs |-> NoAttrs]

\* _new_objmap(): the same component, no directive, only what was moved.
Moved(M, c) ==
    [id |-> c, add |-> FALSE, remove |-> FALSE, update |-> FALSE,
     attrs |-> Restriction(M[c].attrs, MovedRefs(M, c))]

Groups(M) ==
    [A |-> {Stripped(M, c) : c \in Creating(M)},
     B |-> {Moved(M, c) : c \in {d \in Creating(M) : MovedRefs(M, d) # {}}},
     C |-> {M[c] : c \in DOMAIN M \ Creating(M)}]

=============================================================================
