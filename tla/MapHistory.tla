----------------------------- MODULE MapHistory -----------------------------
(***************************************************************************)
(* The object map queue with the history that its promises are about: what *)
(* was appended for a component since it last left the queue, and when its *)
(* deletion last left the queue.  None of these variables is read by the   *)
(* code's actions.  They show that the queue implements MapPromise.        *)
(***************************************************************************)
EXTENDS ObjectMapQueue, Sequences, FiniteSets

CONSTANTS
    Never,        \* no time
    MaxPending    \* bound on the arrivals in the log

ASSUME NeverAssumption == Never \notin Int
ASSUME MaxPendingAssumption == MaxPending \in Nat

VARIABLES
    log,          \* id -> <<[at |-> time, map |-> map], ...>>
    deletedAt,    \* id -> when its deletion was last released or discarded
    drains        \* the number of drains, modulo 2

hvars == <<now, settings, held_objmaps, blacklisted_components, out, log, deletedAt, drains>>

HInit ==
    /\ Init
    /\ log = [c \in Components |-> <<>>]
    /\ deletedAt = [c \in Components |-> Never]
    /\ drains = 0

Logged == UNION {{c} \X DOMAIN log[c] : c \in Components}

HAppend(m) ==
    /\ Cardinality(Logged) < MaxPending
    /\ AppendMap(m)
    /\ log' = [log EXCEPT ![m.id] = Append(@, [at |-> now, map |-> m])]
    /\ UNCHANGED <<deletedAt, drains>>

HDrain ==
    /\ Drain
    /\ log' = [c \in Components |-> IF c \in Kept \ Ready THEN log[c] ELSE <<>>]
    /\ deletedAt' = [c \in Components |->
                        IF c \in Shortlived \cup Deleted THEN now ELSE deletedAt[c]]
    /\ drains' = 1 - drains

HReset ==
    /\ Reset
    /\ log' = [c \in Components |-> <<>>]
    /\ deletedAt' = [c \in Components |-> Never]
    /\ UNCHANGED drains

HConfigure == Configure /\ UNCHANGED <<log, deletedAt, drains>>

HTick == Tick /\ UNCHANGED <<log, deletedAt, drains>>

HNext ==
    \/ \E m \in Arrivals : HAppend(m)
    \/ HDrain
    \/ HReset
    \/ HConfigure
    \/ HTick

HSpec == HInit /\ [][HNext]_hvars

-----------------------------------------------------------------------------
Duration == CHOOSE s \in Settings : TRUE

Promise == INSTANCE MapPromise WITH Durations <- Duration

\* With settings that do not change, what drain() returns depends only on what
\* arrived and when, and on when components were last deleted, as MapPromise
\* says: merging on arrival, in whatever order, and a blacklist that is cleaned
\* up only at drains decide nothing else (append and drain).
ImplementsPromise == Promise!Spec

\* delete_blacklist_seconds: once the deletion of a component has left the
\* queue, or the component was discarded as short-lived, nothing is released
\* for it, not even another deletion, until more time has passed than one of
\* the settings asks for, whatever events arrive late and however the settings
\* change meanwhile.
NoResurrection ==
    [][HDrain =>
        \A c \in Ids(out'.A \cup out'.B \cup out'.C) :
            \/ deletedAt[c] = Never
            \/ \E s \in Settings : now - deletedAt[c] > s.blacklist]_hvars

\* Nothing disappears without a reason: a component whose maps leave the
\* queue at a drain without being released was deleted while it was being
\* created, or a deletion of it left the queue before.
NothingLost ==
    [][HDrain =>
        \A c \in Components :
            (log[c] # <<>> /\ log'[c] = <<>>
                /\ c \notin Ids(out'.A \cup out'.B \cup out'.C)) =>
            \/ deletedAt[c] # Never
            \/ \E i, j \in DOMAIN log[c] : log[c][i].map.add /\ log[c][j].map.remove]_hvars

\* The last value wins: the map that is held for a component carries, for
\* every attribute, the value of the last map that set it, and the directives
\* of all of them; the age of the map is that of the first.
HeldIsAggregate ==
    /\ DOMAIN held_objmaps = {c \in Components : log[c] # <<>>}
    /\ \A c \in DOMAIN held_objmaps :
           held_objmaps[c] = [first |-> log[c][1].at, objmap |-> Promise!Aggregate(c, log[c])]

=============================================================================
