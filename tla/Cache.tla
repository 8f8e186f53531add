-------------------------------- MODULE Cache --------------------------------
(* core/cache.py: the commands, over Redis and over the dictionaries a        *)
(* process falls back to.  Every command asks anew whether Redis answers      *)
(* (_redis_ok), and runs its fallback also when the answer to the command     *)
(* itself is lost, so the store a command reaches changes from one to the     *)
(* next.  One key holding a value and one counter are followed in each store. *)
(* Time is a number of ticks; the commands of a request take less than one.   *)
EXTENDS Handlers, Naturals

CONSTANTS
    Ttl,      \* lifetime of the value
    Window,   \* lifetime of the counter
    MaxCount, \* bound: where a counter stops, above any limit it is compared with
    None      \* no value

ASSUME CacheAssumption == Ttl \in Nat \ {0} /\ Window \in Nat \ {0} /\ MaxCount \in Nat \ {0}

VARIABLES
    up,       \* Redis answers
    copy,     \* the value in a store, and how long it has to live
    count     \* the counter in a store, and how long it has to live

cacheVars == <<up, copy, count>>

Stores == {"redis", "memory"}
Never == Window + 1   \* remaining life of a key without expiry
NoCount == [n |-> 0, left |-> 0]

CacheInit ==
    /\ up \in BOOLEAN
    /\ copy = [s \in Stores |-> None] /\ count = [s \in Stores |-> NoCount]

(* Where a read is served from, and which stores a write can reach: when the  *)
(* answer of Redis is lost the fallback is used as well.                      *)
Sources == IF up THEN Stores ELSE {"memory"}
Reached == IF up THEN {{"redis"}, Stores} ELSE {{"memory"}}

(* set_cache.                                                                *)
Put(v, S) ==
    copy' = [s \in Stores |-> IF s \in S THEN [val |-> v, left |-> Ttl] ELSE copy[s]]

(* delete_cache.                                                             *)
Drop(S) == copy' = [s \in Stores |-> IF s \in S THEN None ELSE copy[s]]

(* incr_cache: the next number, and the counter.  In memory a window that has *)
(* ended starts anew, and count and expiry are written together; in Redis     *)
(* EXPIRE is a command of its own.                                            *)
More(n) == IF n < MaxCount THEN n + 1 ELSE MaxCount
IncrRedis == count' = [count EXCEPT !["redis"] =
                          [n |-> More(@.n), left |-> IF @.n = 0 THEN Never ELSE @.left]]

(* Mutant: every increment sets the expiry.                                  *)
ExpireAlways(n) == TRUE

ExpireDue(n) == n = 1

ExpireRedis == count' = [count EXCEPT !["redis"].left = IF @ = 0 THEN 0 ELSE Window]
IncrMemory == count' = [count EXCEPT !["memory"] =
                          [n |-> More(@.n), left |-> IF @.n = 0 THEN Window ELSE @.left]]

(* flush_cache.                                                              *)
Flush ==
    /\ \E S \in Reached :
          /\ Drop(S)
          /\ count' = [s \in Stores |-> IF s \in S THEN NoCount ELSE count[s]]
    /\ UNCHANGED <<req, up>>

(* Redis stops answering this process; it comes back with what it held, or,   *)
(* restarted, with nothing.                                                   *)
Outage == up /\ up' = FALSE /\ UNCHANGED <<req, copy, count>>
Return == ~up /\ up' = TRUE /\ UNCHANGED <<req, copy, count>>
Restart ==
    /\ ~up /\ up' = TRUE
    /\ copy' = [copy EXCEPT !["redis"] = None]
    /\ count' = [count EXCEPT !["redis"] = NoCount]
    /\ UNCHANGED req

(* The process is killed and started again: requests and memory are lost.    *)
Crash ==
    /\ req' = [r \in Reqs |-> Idle]
    /\ copy' = [copy EXCEPT !["memory"] = None]
    /\ count' = [count EXCEPT !["memory"] = NoCount]
    /\ UNCHANGED up

(* Mutant: a copy is kept a tick too long.                                   *)
AgedLate(c) == IF c = None \/ c.left = 0 THEN None ELSE [c EXCEPT !.left = @ - 1]

(* A tick less to live, for every key that expires at all.                   *)
AgedCopy(c) == IF c = None \/ c.left = 1 THEN None ELSE [c EXCEPT !.left = @ - 1]
AgedCount(c) == IF c.left \in {0, Never} THEN c
                ELSE IF c.left = 1 THEN NoCount ELSE [c EXCEPT !.left = @ - 1]

Tick ==
    /\ \A r \in Reqs : req[r] = Idle
    /\ copy' = [s \in Stores |-> AgedCopy(copy[s])]
    /\ count' = [s \in Stores |-> AgedCount(count[s])]
    /\ UNCHANGED <<req, up>>
=============================================================================
