------------------------------ MODULE RateLimiter ------------------------------
(***************************************************************************)
(* The sliding window that limits POST /ingest for one client address:     *)
(* RateLimitMiddleware of src/denoiser/api/middleware.py.                  *)
(*                                                                         *)
(* Every API process counts in one Redis sorted set; while Redis does not  *)
(* answer, each counts in a list of its own.  A request takes its time     *)
(* before it waits for Redis, so requests reach Redis out of order, at     *)
(* most Skew late.                                                         *)
(* A definition X_Y is X with a plausible mistake Y; nothing uses it.      *)
(***************************************************************************)
EXTENDS Naturals, FiniteSets, FiniteSetsExt

CONSTANTS
    Processes,     \* API processes
    MaxRequests,   \* max_requests
    Window,        \* window_seconds
    Skew,          \* assumption: longest wait for Redis
    MaxTime,       \* bound: the clock
    MaxOutages     \* bound: requests that Redis does not answer

ASSUME RateAssumption ==
    /\ {MaxRequests, Window} \subseteq Nat \ {0}
    /\ {Skew, MaxTime, MaxOutages} \subseteq Nat
    /\ "redis" \notin Processes

Times == 0 .. MaxTime

VARIABLES
    clock,
    zset,       \* the sorted set: members are the times themselves
    expiry,     \* when Redis drops the whole set; 0 when there is none
    memory,     \* memory[p]: the list of process p, as a count per time
    waiting,    \* times of requests that wait for Redis
    admitted,   \* history: admitted[m][t]: requests of time t let through by m
    asked,      \* history: times at which a request came
    outages

rateVars == <<clock, zset, expiry, memory, waiting, admitted, asked, outages>>
Judges == Processes \cup {"redis"}

RateInit ==
    /\ clock = 0 /\ zset = {} /\ expiry = 0
    /\ memory = [p \in Processes |-> [t \in Times |-> 0]]
    /\ waiting = {} /\ asked = {}
    /\ admitted = [m \in Judges |-> [t \in Times |-> 0]]
    /\ outages = 0

Fresh(t, now) == t + Window > now
Count(f) == SumFunctionOnSet(f, Times)
-----------------------------------------------------------------------------
Tick ==
    /\ clock < MaxTime /\ \A t \in waiting : clock < t + Skew
    /\ clock' = clock + 1
    /\ UNCHANGED <<zset, expiry, memory, waiting, admitted, asked, outages>>

\* Two requests of one instant are one member of the set: the count takes both for
\* one.  The clock is a float; the model lets an instant have one request.
Arrive ==
    /\ clock \notin asked
    /\ waiting' = waiting \cup {clock} /\ asked' = asked \cup {clock}
    /\ UNCHANGED <<clock, zset, expiry, memory, admitted, outages>>

Kept(t, set) == {u \in set : Fresh(u, t)}
Admits_OffByOne(n) == n <= MaxRequests + 1
Admits(n) == n <= MaxRequests
JudgeInRedis(t) ==
    /\ t \in waiting
    /\ LET current == IF expiry > clock THEN zset ELSE {}
           after == Kept(t, current \cup {t}) IN
       /\ zset' = after
       /\ admitted' = IF Admits(Cardinality(after))
                      THEN [admitted EXCEPT !["redis"][t] = @ + 1] ELSE admitted
    /\ expiry' = clock + Window
    /\ waiting' = waiting \ {t}
    /\ UNCHANGED <<clock, memory, asked, outages>>

\* Redis does not answer: only requests that are let through are remembered.
JudgeInMemory(p, t) ==
    /\ t \in waiting /\ outages < MaxOutages /\ outages' = outages + 1
    /\ LET recent == [u \in Times |-> IF Fresh(u, t) THEN memory[p][u] ELSE 0]
           ok == Count(recent) < MaxRequests IN
       /\ memory' = [memory EXCEPT ![p] =
                       IF ok THEN [recent EXCEPT ![t] = @ + 1] ELSE recent]
       /\ admitted' = IF ok THEN [admitted EXCEPT ![p][t] = @ + 1] ELSE admitted
    /\ waiting' = waiting \ {t}
    /\ UNCHANGED <<clock, zset, expiry, asked>>

RateNext ==
    \/ Tick \/ Arrive
    \/ \E t \in waiting : JudgeInRedis(t) \/ \E p \in Processes : JudgeInMemory(p, t)
RateSpec == RateInit /\ [][RateNext]_rateVars
-----------------------------------------------------------------------------
InWindow(m, t) == Count([u \in Times |-> IF u <= t /\ Fresh(u, t + Skew) THEN admitted[m][u] ELSE 0])

\* "Maximum N requests per W seconds" (middleware.py 167): no window of W seconds, less the
\* longest wait for Redis, sees more than N requests let through by Redis, nor by any one
\* process on its own; a client that meets an outage has N more for each process.  (A later
\* request that is judged first drops what the one before it would have counted.)
WindowRespected ==
    \A m \in Judges, t \in Times : InWindow(m, t) <= MaxRequests

=============================================================================
