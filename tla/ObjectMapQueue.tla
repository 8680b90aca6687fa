--------------------------- MODULE ObjectMapQueue ---------------------------
(***************************************************************************)
(* ConsolidatingObjectMapQueue (datamaps.py): the queue that holds, merges *)
(* and discards the object maps made from OpenStack events before they are *)
(* applied to the Zenoss model.                                            *)
(***************************************************************************)
EXTENDS ObjectMaps

CONSTANTS
    Settings,     \* the queue settings zenhub may configure
    MaxTime       \* bound on the clock

ASSUME MaxTimeAssumption == MaxTime \in Nat
ASSUME SettingsAssumption ==
    Settings \subseteq [shortlived : Nat, blacklist : Nat, consolidate : Nat]

VARIABLES
    now,                      \* the clock read by self.now()
    settings,                 \* shortlived_, delete_blacklist_ and update_consolidate_seconds
    held_objmaps,             \* id -> [first |-> time of first update, objmap |-> merged map]
    blacklisted_components,   \* id -> time it was blacklisted
    out                       \* the groups drain() returned, when this step is a drain()

vars == <<now, settings, held_objmaps, blacklisted_components, out>>

-----------------------------------------------------------------------------
(***************************************************************************)
(* append(): the first map of a component is stored as it is; a later one  *)
(* is merged into it.  _add and _remove are set and never cleared, every   *)
(* other attribute (_update included) is overwritten by the newer map.     *)
(***************************************************************************)
\* Mutant: an attribute keeps its first value.
Overlay_FirstWins(old, new) ==
    [id |-> old.id,
     add |-> old.add \/ new.add,
     remove |-> old.remove \/ new.remove,
     update |-> old.update \/ new.update,
     attrs |-> [k \in DOMAIN new.attrs \cup DOMAIN old.attrs |->
                    IF k \in DOMAIN old.attrs THEN old.attrs[k] ELSE new.attrs[k]]]

Overlay(old, new) ==
    [id |-> old.id,
     add |-> old.add \/ new.add,
     remove |-> old.remove \/ new.remove,
     update |-> old.update \/ new.update,
     attrs |-> [k \in DOMAIN new.attrs \cup DOMAIN old.attrs |->
                    IF k \in DOMAIN new.attrs THEN new.attrs[k] ELSE old.attrs[k]]]

\* Mutant: every update starts the hold again.
Stored_Refresh(m) ==
    [first |-> now,
     objmap |-> IF m.id \in DOMAIN held_objmaps
                THEN Overlay(held_objmaps[m.id].objmap, m)
                ELSE m]

Stored(m) ==
    IF m.id \in DOMAIN held_objmaps
    THEN [first |-> held_objmaps[m.id].first,
          objmap |-> Overlay(held_objmaps[m.id].objmap, m)]
    ELSE [first |-> now, objmap |-> m]

AppendMap(m) ==
    /\ held_objmaps' = [c \in DOMAIN held_objmaps \cup {m.id} |->
                            IF c = m.id THEN Stored(m) ELSE held_objmaps[c]]
    /\ out' = NoMaps
    /\ UNCHANGED <<now, settings, blacklisted_components>>

-----------------------------------------------------------------------------
(***************************************************************************)
(* drain()                                                                 *)
(***************************************************************************)
\* What is left of the blacklist once the entries that are too old are gone.
Blacklist ==
    {c \in DOMAIN blacklisted_components :
        now - blacklisted_components[c] <= settings.blacklist}

\* Mutant: a deletion alone counts as short-lived.
Shortlived_AnyRemove ==
    {c \in DOMAIN held_objmaps : held_objmaps[c].objmap.remove}

\* Components both added and deleted while in the queue.
Shortlived ==
    {c \in DOMAIN held_objmaps :
        held_objmaps[c].objmap.add /\ held_objmaps[c].objmap.remove}

\* Mutant: blacklisted components are not dropped.
Kept_Blacklisted == DOMAIN held_objmaps \ Shortlived

\* The held maps that survive the blacklist.
Kept == DOMAIN held_objmaps \ (Blacklist \cup Shortlived)

\* Deleted components: released at once, and blacklisted.
Deleted == {c \in Kept : held_objmaps[c].objmap.remove /\ ~held_objmaps[c].objmap.add}

ReleaseTime(c) ==
    CASE held_objmaps[c].objmap.add -> held_objmaps[c].first + settings.shortlived
      [] c \in Deleted              -> now
      [] OTHER                      -> held_objmaps[c].first + settings.consolidate

Ready == {c \in Kept : ReleaseTime(c) <= now}

\* Mutant: what is released stays in the queue.
Drain_Keeps ==
    /\ held_objmaps' = Restriction(held_objmaps, Kept)
    /\ blacklisted_components' =
           [c \in Blacklist \cup Shortlived \cup Deleted |->
                IF c \in Shortlived \cup Deleted THEN now ELSE blacklisted_components[c]]
    /\ out' = Groups([c \in Ready |-> held_objmaps[c].objmap])
    /\ UNCHANGED <<now, settings>>

Drain ==
    /\ held_objmaps' = Restriction(held_objmaps, Kept \ Ready)
    /\ blacklisted_components' =
           [c \in Blacklist \cup Shortlived \cup Deleted |->
                IF c \in Shortlived \cup Deleted THEN now ELSE blacklisted_components[c]]
    /\ out' = Groups([c \in Ready |-> held_objmaps[c].objmap])
    /\ UNCHANGED <<now, settings>>

-----------------------------------------------------------------------------
(***************************************************************************)
(* reset(), which is also what becomes of a queue the map task deletes and *)
(* a later event creates again; the settings pushed by _updateConfig();    *)
(* and the clock.                                                          *)
(***************************************************************************)
Reset ==
    /\ held_objmaps' = NoAttrs
    /\ blacklisted_components' = NoAttrs
    /\ out' = NoMaps
    /\ UNCHANGED <<now, settings>>

Configure ==
    /\ settings' \in Settings
    /\ out' = NoMaps
    /\ UNCHANGED <<now, held_objmaps, blacklisted_components>>

Tick ==
    /\ now < MaxTime
    /\ now' = now + 1
    /\ out' = NoMaps
    /\ UNCHANGED <<settings, held_objmaps, blacklisted_components>>

Init ==
    /\ now = 0
    /\ settings \in Settings
    /\ held_objmaps = NoAttrs
    /\ blacklisted_components = NoAttrs
    /\ out = NoMaps

Next ==
    \/ \E m \in Arrivals : AppendMap(m)
    \/ Drain
    \/ Reset
    \/ Configure
    \/ Tick

Spec == Init /\ [][Next]_vars

-----------------------------------------------------------------------------
\* Type invariant: every held map is filed under its own id with a time that
\* has passed, and the blacklist holds times that have passed.
TypeOK ==
    /\ now \in 0..MaxTime
    /\ settings \in Settings
    /\ held_objmaps = [c \in DOMAIN held_objmaps |->
                           [first |-> held_objmaps[c].first, objmap |-> held_objmaps[c].objmap]]
    /\ DOMAIN held_objmaps \subseteq Components
    /\ \A c \in DOMAIN held_objmaps :
           /\ held_objmaps[c].first \in 0..now
           /\ IsMap(held_objmaps[c].objmap)
           /\ held_objmaps[c].objmap.id = c
    /\ blacklisted_components \in [DOMAIN blacklisted_components -> 0..now]
    /\ DOMAIN blacklisted_components \subseteq Components
    /\ out = [A |-> out.A, B |-> out.B, C |-> out.C]
    /\ \A m \in out.A \cup out.B \cup out.C : IsMap(m)

\* The maps of group A are applied first, in no particular order: none of
\* them refers to a component that the same drain creates, or it could be
\* applied before that component exists (datamaps.py, the comment on the
\* groups and the loop that fills group B).
CreationsAreIndependent ==
    \A m \in out.A : Refs(m) \cap Ids(out.A) = {}

\* Splitting a creating map loses nothing and invents nothing: what drain()
\* releases for a component it creates sets exactly the attributes that were
\* held for it, each to the value that was held, half of them after every
\* creation; and an update of a component that is not created is whole.
SplitIsLossless ==
    [][Drain =>
        \A c \in Ready :
            LET parts == {m \in out'.A \cup out'.B \cup out'.C : m.id = c}
                held == held_objmaps[c].objmap
            IN  /\ UNION {DOMAIN m.attrs : m \in parts} = DOMAIN held.attrs
                /\ \A m \in parts : \A k \in DOMAIN m.attrs : m.attrs[k] = held.attrs[k]
                /\ \E m \in parts : m.add = held.add /\ m.remove = held.remove]_vars

=============================================================================
