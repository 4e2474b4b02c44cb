----------------------------- MODULE RateLimiter ------------------------------
(* SlidingWindowRateLimiter (core/security.py): the requests of each client  *)
(* within the last Window, counted under a lock.                             *)
EXTENDS Integers, SequencesExt

CONSTANTS Clients,      \* rate keys: host, principal and tenant
          Limit,        \* requests that a client may make in a window
          Window,       \* 60 seconds
          TableLimit,   \* clients above which the table is purged
          MaxTime

VARIABLES events,       \* the deque of each client in the table
          now,          \* time.monotonic()
          granted,      \* all requests that were allowed to each client
          refused       \* the clients whose last request was refused just now

vars == <<events, now, granted, refused>>

Init ==
    /\ events = [c \in {} |-> <<>>]
    /\ now = 0
    /\ granted = [c \in Clients |-> <<>>]
    /\ refused = {}

(* The table makes an empty deque for a client that it does not know.        *)
Deque(c) == IF c \in DOMAIN events THEN events[c] ELSE <<>>

(* The loop pops events from the left: it stops before the first one that is *)
(* in the window, or at the end.                                             *)
Stops(times) ==
    {k \in 0..Len(times) : k < Len(times) => times[k + 1] > now - Window}

Popped(times) == Min(Stops(times))

Recent(times) == SubSeq(times, Popped(times) + 1, Len(times))

With(c, times) == [k \in DOMAIN events \cup {c} |-> IF k = c THEN times ELSE events[k]]

(* Mutant: a client with a single event is dropped.                          *)
MutantKept(times) == Len(times) > 1

(* Clients without events are dropped from a table that is too large.        *)
Kept(times) == times # <<>>
Purged(table) ==
    IF Cardinality(DOMAIN table) > TableLimit
    THEN [k \in {c \in DOMAIN table : Kept(table[c])} |-> table[k]] ELSE table

Full(times) == Len(times) >= Limit

Allow(c) ==
    /\ ~Full(Recent(Deque(c)))
    /\ events' = Purged(With(c, Append(Recent(Deque(c)), now)))
    /\ granted' = [granted EXCEPT ![c] = Append(@, now)]
    /\ refused' = {}
    /\ UNCHANGED now

Refuse(c) ==
    /\ Full(Recent(Deque(c)))
    /\ events' = With(c, Recent(Deque(c)))
    /\ refused' = {c}
    /\ UNCHANGED <<now, granted>>

Tick ==
    /\ now < MaxTime
    /\ now' = now + 1
    /\ refused' = {}
    /\ UNCHANGED <<events, granted>>

Next == (\E c \in Clients : Allow(c) \/ Refuse(c)) \/ Tick

Spec == Init /\ [][Next]_vars
-------------------------------------------------------------------------------
TypeOK ==
    /\ DOMAIN events \subseteq Clients
    /\ now \in 0..MaxTime
    /\ \A c \in DOMAIN events : \A i \in DOMAIN events[c] : events[c][i] <= now

InWindow(c) == Cardinality({i \in DOMAIN granted[c] : now - Window < granted[c][i]})

(* However the table is trimmed and purged, no client gets more than Limit   *)
(* requests into a window, none is refused that had fewer, and a client that *)
(* is not in the table has none.                                             *)
LimitIsExact ==
    \A c \in Clients :
        /\ InWindow(c) <= Limit
        /\ c \in refused => InWindow(c) = Limit
        /\ c \notin DOMAIN events => InWindow(c) = 0
===============================================================================
