------------------------------ MODULE RateLimit -----------------------------
(***************************************************************************)
(* The rate limit of one path and client (core/rate_limit.py and the       *)
(* middleware in main.py): a counter in Redis with a time to live, set by  *)
(* a command of its own, and a sliding window in the memory of each worker *)
(* when a command of Redis raises, at whatever point.                      *)
(***************************************************************************)
EXTENDS Naturals, Sequences, FiniteSets

CONSTANTS
    Worker,
    Request,      \* requests of the client
    Limit,        \* per_minute
    Window,       \* window_seconds, in ticks
    MaxTime,      \* ticks that are looked at
    MaxFailures   \* commands of Redis that raise

LimitAssumption ==
    /\ {Limit, Window, MaxTime} \subseteq Nat \ {0} /\ MaxFailures \in Nat
    /\ IsFiniteSet(Request)

VARIABLES
    now,
    counter,    \* the key: its count and when it expires (0: never)
    buckets,    \* InMemoryFixedWindowLimiter of each worker
    asked,      \* requests: where they are and what has become of them
    failed      \* commands that have raised

limitVars == <<now, counter, buckets, asked, failed>>

TypeOK ==
    /\ now \in 1..MaxTime
    /\ counter \in [count : 0..Cardinality(Request), until : 0..(MaxTime + Window)]
    /\ buckets \in [Worker -> Seq(1..MaxTime)]
    /\ asked \in [Request -> [pc : {"new", "expire", "check", "ttl", "passed", "refused"},
                              on : Worker, at : 0..MaxTime, count : 0..Cardinality(Request),
                              by : {"nothing", "redis", "memory"}]]
    /\ failed \in 0..MaxFailures

Init ==
    /\ now = 1 /\ counter = [count |-> 0, until |-> 0]
    /\ buckets = [w \in Worker |-> <<>>] /\ failed = 0
    /\ asked \in [Request -> [pc : {"new"}, on : Worker, at : {0}, count : {0}, by : {"nothing"}]]

Tick ==
    /\ now < MaxTime
    /\ now' = now + 1
    /\ counter' = IF counter.until = now + 1 THEN [count |-> 0, until |-> 0] ELSE counter
    /\ UNCHANGED <<buckets, asked, failed>>

\* INCR; the request that finds 1 sets the time to live.
Incr(r) ==
    /\ asked[r].pc = "new"
    /\ counter' = [counter EXCEPT !.count = @ + 1]
    /\ asked' = [asked EXCEPT ![r].pc = IF counter'.count = 1 THEN "expire" ELSE "check",
                              ![r].at = now, ![r].count = counter'.count]
    /\ UNCHANGED <<now, buckets, failed>>
Expire(r) ==
    /\ asked[r].pc = "expire"
    /\ counter' = IF counter.count > 0 THEN [counter EXCEPT !.until = now + Window] ELSE counter
    /\ asked' = [asked EXCEPT ![r].pc = "check"]
    /\ UNCHANGED <<now, buckets, failed>>
Check(r) ==
    /\ asked[r].pc = "check"
    /\ asked' = IF asked[r].count <= Limit
                THEN [asked EXCEPT ![r].pc = "passed", ![r].by = "redis"]
                ELSE [asked EXCEPT ![r].pc = "ttl"]
    /\ UNCHANGED <<now, counter, buckets, failed>>
Ttl(r) ==
    /\ asked[r].pc = "ttl"
    /\ asked' = [asked EXCEPT ![r].pc = "refused"]
    /\ UNCHANGED <<now, counter, buckets, failed>>

\* allow first pops what is out of the window off the left of the bucket.
Recent(w) ==
    LET old == CHOOSE n \in 0..Len(buckets[w]) :
                   /\ \A i \in 1..n : buckets[w][i] + Window <= now
                   /\ n < Len(buckets[w]) => buckets[w][n + 1] + Window > now
    IN SubSeq(buckets[w], old + 1, Len(buckets[w]))

\* A command raises: INCR, EXPIRE or TTL. The limiter in memory decides, also
\* for a request that Redis had counted, or refused.
\* Mutant: a request is noted only when the bucket is empty.
FallBackForgetful(r) ==
    /\ asked[r].pc \in {"new", "expire", "ttl"} /\ failed < MaxFailures
    /\ failed' = failed + 1
    /\ LET w == asked[r].on IN
       IF Len(Recent(w)) >= Limit
       THEN /\ buckets' = [buckets EXCEPT ![w] = Recent(w)]
            /\ asked' = [asked EXCEPT ![r].pc = "refused"]
       ELSE /\ buckets' = buckets
            /\ asked' = [asked EXCEPT ![r].pc = "passed", ![r].at = now, ![r].by = "memory"]
    /\ UNCHANGED <<now, counter>>
FallBack(r) ==
    /\ asked[r].pc \in {"new", "expire", "ttl"} /\ failed < MaxFailures
    /\ failed' = failed + 1
    /\ LET w == asked[r].on IN
       IF Len(Recent(w)) >= Limit
       THEN /\ buckets' = [buckets EXCEPT ![w] = Recent(w)]
            /\ asked' = [asked EXCEPT ![r].pc = "refused"]
       ELSE /\ buckets' = [buckets EXCEPT ![w] = Append(Recent(w), now)]
            /\ asked' = [asked EXCEPT ![r].pc = "passed", ![r].at = now, ![r].by = "memory"]
    /\ UNCHANGED <<now, counter>>

Next == Tick \/ \E r \in Request : Incr(r) \/ Expire(r) \/ Check(r) \/ Ttl(r) \/ FallBack(r)
Spec == Init /\ [][Next]_limitVars

----------------------------------------------------------------------------
(* Properties.                                                             *)

Passed(by, on, from) ==
    {r \in Request : asked[r].pc = "passed" /\ asked[r].by = by /\ asked[r].on \in on
                     /\ asked[r].at \in from..(from + Window - 1)}
\* In any window a client gets at most the limit from the memory of each
\* worker, and at most twice the limit from Redis, whose windows begin with
\* the first request: however the commands interleave and wherever they fail
\* (RedisFixedWindowLimiter, InMemoryFixedWindowLimiter, the middleware).
PassesAreBounded ==
    \A from \in 1..MaxTime :
        /\ Cardinality(Passed("redis", Worker, from)) <= 2 * Limit
        /\ \A w \in Worker : Cardinality(Passed("memory", {w}, from)) <= Limit
=============================================================================
