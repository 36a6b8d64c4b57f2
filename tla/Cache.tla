------------------------------- MODULE Cache -------------------------------
(***************************************************************************)
(* cache/cache.go: the two generations of records, keyed by socket cookie, *)
(* from which the saver learns what is new in a polling round, what changed*)
(* and what has gone.  The actions are conjuncts for the saver's actions.  *)
(***************************************************************************)
EXTENDS ArchivalRecord, Functions

VARIABLES
    current,    \* cookie -> record, filled by the round in progress
    previous,   \* cookie -> record of the last round not yet seen in this one
    cycles      \* rounds completed

cacheVars == <<current, previous, cycles>>

\* m[k] = v and delete(m, k) on a Go map.
MapPut(m, k, v) == [x \in DOMAIN m \cup {k} |-> IF x = k THEN v ELSE m[x]]
MapDelete(m, k) == Restrict(m, DOMAIN m \ {k})

EmptyMap == [x \in {} |-> x]

CacheInit ==
    /\ current = EmptyMap
    /\ previous = EmptyMap
    /\ cycles = 0

\* Mutants: keyed by another field; the evicted record stays in previous.
UpdateWrongKey(msg) ==
    /\ current' = MapPut(current, msg.RawIDM.State, msg)
    /\ previous' = MapDelete(previous, msg.RawIDM.State)
    /\ UNCHANGED cycles
UpdateNoEvict(msg) ==
    /\ current' = MapPut(current, msg.RawIDM.Cookie, msg)
    /\ UNCHANGED <<previous, cycles>>

\* Update returns the evicted record, previous[cookie], if there is one.
Update(msg) ==
    /\ current' = MapPut(current, msg.RawIDM.Cookie, msg)
    /\ previous' = MapDelete(previous, msg.RawIDM.Cookie)
    /\ UNCHANGED cycles

\* Mutant: the maps are not swapped, and the round that has ended is dropped.
EndCycleNoSwap ==
    /\ previous' = previous
    /\ current' = EmptyMap
    /\ cycles' = cycles + 1

\* EndCycle returns the records left in previous.
EndCycle ==
    /\ previous' = current
    /\ current' = EmptyMap
    /\ cycles' = cycles + 1

=============================================================================
