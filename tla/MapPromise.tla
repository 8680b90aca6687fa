----------------------------- MODULE MapPromise -----------------------------
(***************************************************************************)
(* What the object map queue does with what arrives, without its           *)
(* dictionaries: nothing is merged when it arrives and nothing is ever     *)
(* cleaned up.  The state is the log of the maps that arrived and were     *)
(* neither released nor discarded, and the time at which each component    *)
(* was last deleted.                                                       *)
(*                                                                         *)
(* The rules are those that drain() applies.  They are the docstring's of  *)
(* ConsolidatingObjectMapQueue (datamaps.py) but for two, marked (1) and   *)
(* (2) below, where the code does something else and the code is followed. *)
(***************************************************************************)
EXTENDS ObjectMaps, Sequences

CONSTANTS
    Durations,   \* shortlived, blacklist and consolidate seconds, fixed
    Never        \* no time: the component was never deleted

VARIABLES
    now,         \* the clock
    log,         \* per component, the arrivals: <<[at |-> time, map |-> map], ...>>
    deletedAt,   \* per component, when its deletion was last released or discarded
    out,         \* the groups this step's drain() returned
    drains       \* the number of drains, modulo 2: a drain is never a stutter

vars == <<now, log, deletedAt, out, drains>>

(***************************************************************************)
(* "build an aggregate datamap, overlaying each new datamap's changes onto *)
(* it": the value of an attribute is the one in the last map that sets it. *)
(***************************************************************************)
Sets(l, k) == {i \in DOMAIN l : k \in DOMAIN l[i].map.attrs}

LastSet(l, k) == CHOOSE i \in Sets(l, k) : \A j \in Sets(l, k) : j <= i

IsAdd(l) == \E i \in DOMAIN l : l[i].map.add
IsRemove(l) == \E i \in DOMAIN l : l[i].map.remove

Aggregate(c, l) ==
    [id |-> c,
     add |-> IsAdd(l),
     remove |-> IsRemove(l),
     update |-> \E i \in DOMAIN l : l[i].map.update,
     attrs |-> [k \in UNION {DOMAIN l[i].map.attrs : i \in DOMAIN l} |->
                    l[LastSet(l, k)].map.attrs[k]]]

(***************************************************************************)
(* The rules.                                                              *)
(***************************************************************************)
Pending == {c \in Components : log[c] # <<>>}

\* The component was deleted less than delete_blacklist_seconds ago.
Quiet(c) == deletedAt[c] # Never /\ now - deletedAt[c] <= Durations.blacklist

\* "If a map comes in during that time to delete that same component,
\* discard all maps for it".
Shortlived == {c \in Pending : IsAdd(log[c]) /\ IsRemove(log[c])}

\* (1) "If any objmap comes in for a blacklisted component, drop it": append()
\* takes it, and the blacklist that counts is that of the next drain, which
\* releases the map if the component's time is over by then.
Dropped == {c \in Pending : Quiet(c)}

Kept == Pending \ (Dropped \cup Shortlived)

\* "discard any other pending object maps for this component, and release
\* the remove datamap immediately".
Deleted == {c \in Kept : IsRemove(log[c])}

\* (2) "If a component is created by a map (_add=True), hold all updates to this
\* component for a period of time": the time counts from the first map that is
\* pending, which need not be the creation.
Age(c) == now - log[c][1].at

\* Others are held "until its age reaches update_consolidate_seconds".
Ready ==
    Deleted
        \cup {c \in Kept : IsAdd(log[c]) /\ Age(c) >= Durations.shortlived}
        \cup {c \in Kept \ Deleted : ~IsAdd(log[c]) /\ Age(c) >= Durations.consolidate}

Arrive(m) ==
    /\ log' = [log EXCEPT ![m.id] = Append(@, [at |-> now, map |-> m])]
    /\ out' = NoMaps
    /\ UNCHANGED <<now, deletedAt, drains>>

Release ==
    /\ log' = [c \in Components |-> IF c \in Kept \ Ready THEN log[c] ELSE <<>>]
    /\ deletedAt' = [c \in Components |->
                        IF c \in Shortlived \cup Deleted THEN now ELSE deletedAt[c]]
    /\ out' = Groups([c \in Ready |-> Aggregate(c, log[c])])
    /\ drains' = 1 - drains
    /\ UNCHANGED now

Forget ==
    /\ log' = [c \in Components |-> <<>>]
    /\ deletedAt' = [c \in Components |-> Never]
    /\ out' = NoMaps
    /\ UNCHANGED <<now, drains>>

Pass ==
    /\ now' = now + 1
    /\ out' = NoMaps
    /\ UNCHANGED <<log, deletedAt, drains>>

\* The caller has taken what was released.
Taken ==
    /\ out' = NoMaps
    /\ UNCHANGED <<now, log, deletedAt, drains>>

Init ==
    /\ now = 0
    /\ log = [c \in Components |-> <<>>]
    /\ deletedAt = [c \in Components |-> Never]
    /\ out = NoMaps
    /\ drains = 0

Next ==
    \/ \E m \in Arrivals : Arrive(m)
    \/ Release
    \/ Forget
    \/ Pass
    \/ Taken

Spec == Init /\ [][Next]_vars

=============================================================================
