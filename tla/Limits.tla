-------------------------------- MODULE Limits --------------------------------
(* Rate limiting of one client and one path: RateLimitMiddleware, and the     *)
(* routes that count for themselves, over the counters of the cache.          *)
EXTENDS Cache, FiniteSets

CONSTANTS
    Limit,       \* requests allowed in a window
    MaxArrivals  \* bound: requests that arrive in one tick

ASSUME FinitePool == IsFiniteSet(Reqs)
ASSUME LimitAssumption == Limit \in Nat \ {0} /\ MaxArrivals \in Nat /\ MaxCount > Limit + 1

VARIABLES
    arrived,     \* requests of this tick
    recent,      \* history: requests admitted on a counter, by how many ticks ago (0 is now)
    faltered,    \* history: a command has been counted by the fallback
    emptied,     \* history: counters were dropped before their window ended
    unbounded    \* history: the expiry of the counter in Redis was lost

limitHistory == <<arrived, recent, faltered, emptied, unbounded>>

LimitTasks == [pc : {"count", "expire", "fallback"}] \cup [pc : {"ttl"}, n : Nat]
              \cup [pc : {"decide"}, n : Nat, by : Stores]

LimitsInit ==
    /\ arrived = 0 /\ recent = [s \in Stores |-> [a \in 0..Window - 1 |-> 0]]
    /\ faltered = FALSE /\ emptied = FALSE /\ unbounded = FALSE

------------------------------------------------------------------------------
Arrive(r) ==
    /\ arrived < MaxArrivals /\ arrived' = arrived + 1
    /\ Start(r, [pc |-> "count"])
    /\ UNCHANGED <<cacheVars, recent, faltered, emptied, unbounded>>

(* INCR.  A counter made by one whose answer is lost never gets its expiry.   *)
CountRedis(r) ==
    /\ At(r, "count") /\ up
    /\ IncrRedis
    /\ LET n == More(count["redis"].n) IN
         \/ /\ Become(r, IF ExpireDue(n) THEN [pc |-> "expire"] ELSE [pc |-> "ttl", n |-> n])
            /\ UNCHANGED unbounded
         \/ /\ Become(r, [pc |-> "fallback"])
            /\ unbounded' = (unbounded \/ n = 1)
    /\ UNCHANGED <<up, copy, recent, faltered, emptied, arrived>>

CountElsewhere(r) ==
    /\ At(r, "count") /\ ~up
    /\ Become(r, [pc |-> "fallback"])
    /\ UNCHANGED <<cacheVars, limitHistory>>

ExpireSet(r) ==
    /\ At(r, "expire") /\ up
    /\ ExpireRedis
    /\ Become(r, [pc |-> "ttl", n |-> 1]) \/ Become(r, [pc |-> "fallback"])
    /\ UNCHANGED <<up, copy, limitHistory>>

(* Redis is gone between INCR and EXPIRE.                                    *)
ExpireLost(r) ==
    /\ At(r, "expire") /\ ~up
    /\ unbounded' = TRUE
    /\ Become(r, [pc |-> "fallback"])
    /\ UNCHANGED <<cacheVars, recent, faltered, emptied, arrived>>

(* TTL is read for the Retry-After header only, but it can fail like any.    *)
AskTtl(r) ==
    /\ At(r, "ttl")
    /\ \/ up /\ Become(r, [pc |-> "decide", n |-> req[r].n, by |-> "redis"])
       \/ Become(r, [pc |-> "fallback"])
    /\ UNCHANGED <<cacheVars, limitHistory>>

CountMemory(r) ==
    /\ At(r, "fallback")
    /\ IncrMemory
    /\ faltered' = TRUE
    /\ Become(r, [pc |-> "decide", n |-> More(count["memory"].n), by |-> "memory"])
    /\ UNCHANGED <<up, copy, recent, emptied, unbounded, arrived>>

(* Mutant: the request that is being counted is left out.                    *)
RefusedLate(n) == n - 1 > Limit

(* "Too many requests, please try again later."                              *)
Refused(n) == n > Limit

Decide(r) ==
    /\ At(r, "decide")
    /\ recent' = IF Refused(req[r].n) THEN recent ELSE [recent EXCEPT ![req[r].by][0] = @ + 1]
    /\ Finish(r)
    /\ UNCHANGED <<cacheVars, faltered, emptied, unbounded, arrived>>

(* The clock, with the admissions of the last window.                        *)
Older(f) == [a \in 0..Window - 1 |-> IF a = 0 THEN 0 ELSE f[a - 1]]

LimitsTick ==
    /\ Tick
    /\ arrived' = 0
    /\ recent' = [s \in Stores |-> Older(recent[s])]
    /\ UNCHANGED <<faltered, emptied, unbounded>>

LimitsFault ==
    \/ (Outage \/ Return) /\ UNCHANGED limitHistory
    \/ (Restart \/ Flush) /\ emptied' = TRUE /\ UNCHANGED <<arrived, recent, faltered, unbounded>>
    \/ /\ Crash /\ emptied' = TRUE
       /\ unbounded' = (unbounded \/ \E r \in Reqs : At(r, "expire"))
       /\ UNCHANGED <<arrived, recent, faltered>>

LimitsStep(r) ==
    \/ CountRedis(r) \/ CountElsewhere(r) \/ ExpireSet(r) \/ ExpireLost(r) \/ AskTtl(r)
    \/ CountMemory(r) \/ Decide(r)

LimitsNext == LimitsTick \/ LimitsFault \/ \E r \in Reqs : Arrive(r) \/ LimitsStep(r)

LimitsSpec == HandlersInit /\ CacheInit /\ LimitsInit /\ [][LimitsNext]_<<req, cacheVars, limitHistory>>

------------------------------------------------------------------------------
LimitsTypeOK ==
    /\ up \in BOOLEAN /\ faltered \in BOOLEAN /\ emptied \in BOOLEAN /\ unbounded \in BOOLEAN
    /\ count \in [Stores -> [n : Nat, left : 0..Never]]
    /\ arrived \in 0..MaxArrivals /\ recent \in [Stores -> [0..Window - 1 -> Nat]]
    /\ req \in [Reqs -> LimitTasks \cup {Idle}]

(* The sums of the first values of f.                                        *)
Totals(f) == LET T[a \in 0..Window] == IF a = 0 THEN 0 ELSE T[a - 1] + f[a - 1] IN T
Admitted(s) == Totals(recent[s])[Window]

(* In any stretch of a window's length a client is admitted at most twice     *)
(* Limit, once for each of the two windows it touches, and as often again by  *)
(* the fallback when Redis fails, unless counters are emptied meanwhile.      *)
RateIsBounded ==
    ~emptied => Admitted("redis") + Admitted("memory") <= (IF faltered THEN 4 ELSE 2) * Limit

(* However often a refused client asks again, its window ends, unless the     *)
(* expiry of the counter was lost.                                            *)
WindowsEnd == \A s \in Stores : count[s].n > 0 ~> (count[s].n = 0 \/ unbounded)
=============================================================================
