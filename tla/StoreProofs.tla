----------------------------- MODULE StoreProofs -----------------------------
(* Proofs about the cache and what is kept in it: Settings, then Limits, then *)
(* the two under one specification; for every number of requests, keys, saves *)
(* and arrivals, every lifetime and every limit.                              *)
EXTENDS MCStore, Counting, FiniteSetTheorems, TLAPS

USE CacheAssumption, SettingsAssumption, LimitAssumption

Saving == {"seek", "store", "drop"}
Copies == [val : Tables, left : 1..Ttl]

TypeInv ==
    /\ SettingsTypeOK
    /\ copy \in [Stores -> Copies \cup {None}]
    /\ ended \in SUBSET (0..MaxSaves)

------------------------------------------------------------------------------
(* What a request holds, and what a step does to it.                         *)
LEMMA IdleIs == Idle.pc = "idle"
  BY DEF Idle

LEMMA TaskFields ==
    ASSUME NEW x \in SettingsTasks \cup {Idle}
    PROVE  /\ x.pc \in {"idle", "select", "fill"} \cup Saving
           /\ x.pc = "fill" => x.rows \in Tables
           /\ x.pc \in Saving => /\ x.n \in 1..MaxSaves /\ x.keys \in SUBSET Names /\ x.all \in SUBSET Names
                                 /\ x.before \in SUBSET (0..MaxSaves)
           /\ x.pc \in {"store", "drop"} => x.k \in Names /\ x.found \in BOOLEAN
  BY IdleIs DEF SettingsTasks, Saving

LEMMA Tasks ==
    ASSUME NEW n \in 1..MaxSaves, NEW K \in SUBSET Names, NEW A \in SUBSET Names,
           NEW b \in SUBSET (0..MaxSaves)
    PROVE  /\ [pc |-> "seek", n |-> n, keys |-> K, all |-> A, before |-> b] \in SettingsTasks
           /\ \A k \in Names, f \in BOOLEAN :
                [pc |-> "store", k |-> k, found |-> f, n |-> n, keys |-> K, all |-> A, before |-> b] \in SettingsTasks
  BY DEF SettingsTasks

LEMMA StoreBecomesDrop ==
    ASSUME NEW x \in SettingsTasks, x.pc = "store"
    PROVE  LET y == [x EXCEPT !.pc = "drop"] IN
             /\ y \in SettingsTasks /\ y.pc = "drop"
             /\ y.k = x.k /\ y.n = x.n /\ y.keys = x.keys /\ y.all = x.all /\ y.before = x.before
  <1>1. x \in [pc : {"store", "drop"}, k : Names, found : BOOLEAN, n : 1..MaxSaves,
               keys : SUBSET Names, all : SUBSET Names, before : SUBSET (0..MaxSaves)]
    BY DEF SettingsTasks
  <1>. QED
    BY <1>1 DEF SettingsTasks

LEMMA Bounds ==
    ASSUME TypeInv
    PROVE  /\ up \in BOOLEAN /\ copy \in [Stores -> Copies \cup {None}] /\ table \in Tables
           /\ saves \in 0..MaxSaves /\ saves \in Nat /\ ended \in SUBSET (0..MaxSaves)
           /\ since \in [Names -> 0..Ttl] /\ excused \in [Stores -> BOOLEAN]
           /\ req \in [Reqs -> SettingsTasks \cup {Idle}]
           /\ Ttl \in Nat \ {0} /\ MaxSaves \in Nat
  BY DEF TypeInv, SettingsTypeOK

(* A step of one request leaves the others alone.                            *)
Moves(r, x) == req'[r] = x /\ \A q \in Reqs : q # r => req'[q] = req[q]

LEMMA Steps ==
    ASSUME TypeInv, NEW r \in Reqs
    PROVE  /\ \A x : Start(r, x) \/ Become(r, x) => Moves(r, x) /\ req' = [req EXCEPT ![r] = x]
           /\ Finish(r) => Moves(r, Idle) /\ req' = [req EXCEPT ![r] = Idle]
  BY Bounds DEF Start, Become, Finish, Moves

LEMMA Typed ==
    ASSUME TypeInv, NEW r \in Reqs, NEW x \in SettingsTasks \cup {Idle}, req' = [req EXCEPT ![r] = x]
    PROVE  req' \in [Reqs -> SettingsTasks \cup {Idle}]
  BY Bounds

(* The commands of the cache, and what they leave in a store.                *)
LEMMA Reaches == \A S \in Reached : S \subseteq Stores
  BY DEF Reached, Stores

LEMMA PutIs ==
    ASSUME TypeInv, NEW v \in Tables, NEW S \in SUBSET Stores, Put(v, S)
    PROVE  /\ copy' \in [Stores -> Copies \cup {None}]
           /\ \A s \in Stores : copy'[s] = IF s \in S THEN [val |-> v, left |-> Ttl] ELSE copy[s]
  <1>1. [val |-> v, left |-> Ttl] \in Copies
    BY DEF Copies
  <1>. QED
    BY <1>1, Bounds DEF Put

LEMMA DropIs ==
    ASSUME TypeInv, NEW S \in SUBSET Stores, Drop(S)
    PROVE  /\ copy' \in [Stores -> Copies \cup {None}]
           /\ \A s \in Stores : copy'[s] = IF s \in S THEN None ELSE copy[s]
  BY Bounds DEF Drop

LEMMA TickIs ==
    ASSUME TypeInv, SettingsTick
    PROVE  /\ copy' \in [Stores -> Copies \cup {None}]
           /\ \A s \in Stores : copy'[s] # None =>
                /\ copy[s] # None /\ copy'[s].val = copy[s].val
                /\ copy[s] \in Copies /\ copy'[s].left = copy[s].left - 1
           /\ since' = [k \in Names |-> IF since[k] < Ttl THEN since[k] + 1 ELSE Ttl]
           /\ UNCHANGED <<req, table, saves, excused, ended, answered>>
           /\ \A r \in Reqs : req[r] = Idle
  <1>1. /\ copy' = [s \in Stores |-> AgedCopy(copy[s])]
        /\ since' = [k \in Names |-> IF since[k] < Ttl THEN since[k] + 1 ELSE Ttl]
        /\ UNCHANGED <<req, table, saves, excused, ended, answered>>
        /\ \A r \in Reqs : req[r] = Idle
    BY DEF SettingsTick, Tick
  <1>2. ASSUME NEW c \in Copies \cup {None}
        PROVE  /\ AgedCopy(c) \in Copies \cup {None}
               /\ AgedCopy(c) # None => /\ c # None /\ AgedCopy(c).val = c.val
                                        /\ c \in Copies /\ AgedCopy(c).left = c.left - 1
    <2>1. CASE c = None \/ c.left = 1
      BY <2>1 DEF AgedCopy
    <2>2. CASE ~(c = None \/ c.left = 1)
      <3>1. c \in Copies /\ c # None /\ c.left # 1 /\ AgedCopy(c) = [c EXCEPT !.left = @ - 1]
        BY <2>2 DEF AgedCopy
      <3>2. c.left \in 2..Ttl
        BY <3>1, Bounds DEF Copies
      <3>3. c.left - 1 \in 1..Ttl
        BY <3>2, Bounds
      <3>. QED
        BY <3>1, <3>3 DEF Copies
    <2>. QED
      BY <2>1, <2>2
  <1>. QED
    BY <1>1, <1>2, Bounds

(* A fault drops copies and changes none, and only a crash touches requests.  *)
LEMMA FaultIs ==
    ASSUME TypeInv, SettingsFault
    PROVE  /\ copy' \in [Stores -> Copies \cup {None}] /\ up' \in BOOLEAN
           /\ \A s \in Stores : copy'[s] = copy[s] \/ copy'[s] = None
           /\ UNCHANGED <<table, saves, since, answered>>
           /\ \/ SettingsCrash /\ req' = [r \in Reqs |-> Idle]
              \/ UNCHANGED <<req, excused, ended>>
  <1>. USE Bounds
  <1>1. CASE SettingsCrash
    <2>1. copy' = [copy EXCEPT !["memory"] = None] /\ up' = up /\ req' = [r \in Reqs |-> Idle]
      BY <1>1 DEF SettingsCrash, Crash
    <2>2. UNCHANGED <<table, saves, since, answered>>
      BY <1>1 DEF SettingsCrash
    <2>. QED
      BY <1>1, <2>1, <2>2
  <1>2. CASE Flush /\ UNCHANGED settingsVars
    <2>1. PICK S \in Reached : Drop(S)
      BY <1>2 DEF Flush
    <2>2. UNCHANGED <<req, up, table, saves, since, excused, ended, answered>>
      BY <1>2 DEF Flush, settingsVars, settingsHistory
    <2>. QED
      BY <2>1, <2>2, Reaches, DropIs
  <1>3. CASE (Outage \/ Return \/ Restart) /\ UNCHANGED settingsVars
    <2>1. UNCHANGED <<req, table, saves, since, excused, ended, answered>> /\ up' \in BOOLEAN
      BY <1>3 DEF Outage, Return, Restart, settingsVars, settingsHistory
    <2>2. copy' = copy \/ copy' = [copy EXCEPT !["redis"] = None]
      BY <1>3 DEF Outage, Return, Restart
    <2>. QED
      BY <2>1, <2>2
  <1>. QED
    BY <1>1, <1>2, <1>3 DEF SettingsFault

------------------------------------------------------------------------------
(* The handlers' steps. *)
LEMMA LoadGetIs ==
    ASSUME TypeInv, NEW r \in Reqs, LoadGet(r)
    PROVE  /\ UNCHANGED <<up, copy, table, saves, since, excused, ended, answered>>
           /\ UNCHANGED req \/ (Moves(r, [pc |-> "select"]) /\ req' = [req EXCEPT ![r] = [pc |-> "select"]])
  <1>1. UNCHANGED <<up, copy, table, saves, since, excused, ended, answered>>
    BY DEF LoadGet, ServeHit, settingsVars, settingsHistory
  <1>2. UNCHANGED req \/ Start(r, [pc |-> "select"])
    BY DEF LoadGet
  <1>. QED
    BY <1>1, <1>2, Steps

LEMMA LoadSelectIs ==
    ASSUME TypeInv, NEW r \in Reqs, LoadSelect(r)
    PROVE  /\ UNCHANGED <<up, copy, table, saves, since, excused, ended, answered>>
           /\ req[r].pc = "select" /\ Moves(r, [pc |-> "fill", rows |-> table])
           /\ req' = [req EXCEPT ![r] = [pc |-> "fill", rows |-> table]]
  <1>1. UNCHANGED <<up, copy, table, saves, since, excused, ended, answered>>
    BY DEF LoadSelect, settingsVars, settingsHistory, cacheVars
  <1>2. At(r, "select") /\ Become(r, [pc |-> "fill", rows |-> table])
    BY DEF LoadSelect
  <1>. QED
    BY <1>1, <1>2, Steps DEF At

LEMMA LoadFillIs ==
    ASSUME TypeInv, NEW r \in Reqs, LoadFill(r)
    PROVE  /\ UNCHANGED <<up, table, saves, since, ended, answered>>
           /\ req[r].pc = "fill" /\ req[r].rows \in Tables
           /\ Moves(r, Idle) /\ req' = [req EXCEPT ![r] = Idle]
           /\ copy' \in [Stores -> Copies \cup {None}] /\ excused' \in [Stores -> BOOLEAN]
           /\ \A s \in Stores :
                \/ /\ copy'[s] = [val |-> req[r].rows, left |-> Ttl]
                   /\ req[r].rows # table => excused'[s]
                \/ copy'[s] = copy[s] /\ excused'[s] = excused[s]
  <1>1. UNCHANGED <<up, table, saves, since, ended, answered>> /\ At(r, "fill") /\ Finish(r)
    BY DEF LoadFill
  <1>2. PICK S \in Reached :
           /\ Put(req[r].rows, S)
           /\ excused' = [s \in Stores |-> IF s \in S THEN req[r].rows # table ELSE excused[s]]
    BY DEF LoadFill
  <1>3. req[r].pc = "fill" /\ req[r].rows \in Tables
    BY <1>1, Bounds, TaskFields DEF At
  <1>4. S \in SUBSET Stores
    BY Reaches
  <1>5. excused' \in [Stores -> BOOLEAN]
    BY <1>2, Bounds
  <1>6. \A s \in Stores : IF s \in S THEN req[r].rows # table => excused'[s] ELSE excused'[s] = excused[s]
    BY <1>2
  <1>. QED
    BY <1>1, <1>2, <1>3, <1>4, <1>5, <1>6, PutIs, Steps

LEMMA SaveStartIs ==
    ASSUME TypeInv, NEW r \in Reqs, SaveStart(r)
    PROVE  /\ UNCHANGED <<up, copy, table, since, excused, ended, answered>>
           /\ saves' = saves + 1 /\ saves' \in 1..MaxSaves /\ req[r] = Idle
           /\ \E K \in SUBSET Names :
                LET x == [pc |-> "seek", n |-> saves', keys |-> K, all |-> K, before |-> ended] IN
                  Moves(r, x) /\ req' = [req EXCEPT ![r] = x]
  <1>1. /\ UNCHANGED <<up, copy, table, since, excused, ended, answered>>
        /\ saves < MaxSaves /\ saves' = saves + 1
    BY DEF SaveStart, settingsHistory, cacheVars
  <1>2. PICK K \in SUBSET Names \ {{}} :
           Start(r, [pc |-> "seek", n |-> saves', keys |-> K, all |-> K, before |-> ended])
    BY DEF SaveStart
  <1>3. req[r] = Idle
    BY <1>2 DEF Start
  <1>4. saves' \in 1..MaxSaves
    BY <1>1, Bounds
  <1>5. LET x == [pc |-> "seek", n |-> saves', keys |-> K, all |-> K, before |-> ended] IN
          Moves(r, x) /\ req' = [req EXCEPT ![r] = x]
    BY <1>2, Steps
  <1>. QED
    BY <1>1, <1>3, <1>4, <1>5

LEMMA SaveSeekIs ==
    ASSUME TypeInv, NEW r \in Reqs, SaveSeek(r)
    PROVE  /\ UNCHANGED <<up, copy, table, saves, since, excused, ended, answered>>
           /\ req[r].pc = "seek"
           /\ \E k \in req[r].keys, f \in BOOLEAN :
                LET x == [pc |-> "store", k |-> k, found |-> f, n |-> req[r].n,
                          keys |-> req[r].keys \ {k}, all |-> req[r].all, before |-> req[r].before] IN
                  Moves(r, x) /\ req' = [req EXCEPT ![r] = x]
  <1>1. UNCHANGED <<up, copy, table, saves, since, excused, ended, answered>> /\ At(r, "seek")
    BY DEF SaveSeek, settingsVars, settingsHistory, cacheVars
  <1>2. PICK k \in req[r].keys :
           Become(r, [pc |-> "store", k |-> k, found |-> table[k] # 0, n |-> req[r].n,
                      keys |-> req[r].keys \ {k}, all |-> req[r].all, before |-> req[r].before])
    BY DEF SaveSeek
  <1>3. PICK f \in BOOLEAN : f = (table[k] # 0)
    OBVIOUS
  <1>4. Become(r, [pc |-> "store", k |-> k, found |-> f, n |-> req[r].n,
                   keys |-> req[r].keys \ {k}, all |-> req[r].all, before |-> req[r].before])
    BY <1>2, <1>3, Zenon
  <1>. QED
    BY <1>1, <1>4, Steps DEF At

LEMMA SaveStoreIs ==
    ASSUME TypeInv, NEW r \in Reqs, SaveStore(r)
    PROVE  /\ UNCHANGED <<up, copy, saves, excused, answered>> /\ req[r].pc = "store"
           /\ \/ /\ UNCHANGED <<table, since>> /\ ended' = ended \cup {req[r].n}
                 /\ Moves(r, Idle) /\ req' = [req EXCEPT ![r] = Idle]
              \/ LET x == [req[r] EXCEPT !.pc = "drop"] IN
                 /\ table' = [table EXCEPT ![req[r].k] = req[r].n]
                 /\ since' = [since EXCEPT ![req[r].k] = 0]
                 /\ ended' = ended
                 /\ Moves(r, x) /\ req' = [req EXCEPT ![r] = x]
  <1>1. UNCHANGED <<up, copy, saves, excused, answered>> /\ At(r, "store")
    BY DEF SaveStore, cacheVars
  <1>2. CASE ~req[r].found /\ table[req[r].k] # 0
    <2>1. Fail(r) /\ UNCHANGED <<table, since>>
      BY <1>2 DEF SaveStore
    <2>. QED
      BY <1>1, <2>1, Steps DEF Fail, At
  <1>3. CASE ~(~req[r].found /\ table[req[r].k] # 0)
    <2>1. /\ table' = [table EXCEPT ![req[r].k] = req[r].n]
          /\ since' = [since EXCEPT ![req[r].k] = 0]
          /\ ended' = ended
          /\ Become(r, [req[r] EXCEPT !.pc = "drop"])
      BY <1>3 DEF SaveStore
    <2>. QED
      BY <1>1, <2>1, Steps DEF At
  <1>. QED
    BY <1>2, <1>3

LEMMA SaveDropIs ==
    ASSUME TypeInv, NEW r \in Reqs, SaveDrop(r)
    PROVE  /\ UNCHANGED <<up, table, saves, since>> /\ req[r].pc = "drop"
           /\ copy' \in [Stores -> Copies \cup {None}] /\ excused' \in [Stores -> BOOLEAN]
           /\ \A s \in Stores : copy'[s] = None \/ (copy'[s] = copy[s] /\ excused'[s])
           /\ \/ LET x == [pc |-> "seek", n |-> req[r].n, keys |-> req[r].keys,
                           all |-> req[r].all, before |-> req[r].before] IN
                 /\ Moves(r, x) /\ req' = [req EXCEPT ![r] = x]
                 /\ UNCHANGED <<ended, answered>>
              \/ /\ req[r].keys = {} /\ Moves(r, Idle) /\ req' = [req EXCEPT ![r] = Idle]
                 /\ ended' = ended \cup {req[r].n}
                 /\ answered' = answered \cup {[keys |-> req[r].all, before |-> req[r].before]}
  <1>1. UNCHANGED <<up, table, saves, since>> /\ At(r, "drop")
    BY DEF SaveDrop
  <1>2. PICK S \in Reached : Drop(S) /\ excused' = [s \in Stores |-> s \notin S /\ copy[s] # None]
    BY DEF SaveDrop
  <1>3. S \in SUBSET Stores
    BY Reaches
  <1>4. excused' \in [Stores -> BOOLEAN]
    BY <1>2
  <1>5. \A s \in Stores : copy'[s] = None \/ (copy'[s] = copy[s] /\ excused'[s])
    <2>1. \A s \in Stores : copy'[s] = IF s \in S THEN None ELSE copy[s]
      BY <1>2, <1>3, DropIs
    <2>2. \A s \in Stores : s \notin S /\ copy[s] # None => excused'[s]
      BY <1>2
    <2>. QED
      BY <2>1, <2>2
  <1>6. copy' \in [Stores -> Copies \cup {None}]
    BY <1>2, <1>3, DropIs
  <1>7. \/ /\ Become(r, [pc |-> "seek", n |-> req[r].n, keys |-> req[r].keys,
                         all |-> req[r].all, before |-> req[r].before])
           /\ UNCHANGED <<ended, answered>>
        \/ /\ req[r].keys = {} /\ Finish(r) /\ ended' = ended \cup {req[r].n}
           /\ answered' = answered \cup {[keys |-> req[r].all, before |-> req[r].before]}
    BY DEF SaveDrop, Fail
  <1>. QED
    BY <1>1, <1>4, <1>5, <1>6, <1>7, Steps DEF At

LEMMA AbortIs ==
    ASSUME TypeInv, NEW r \in Reqs, SettingsAbort(r)
    PROVE  /\ UNCHANGED <<up, copy, table, saves, since, excused, answered>>
           /\ req[r].pc \in {"select", "seek", "store"}
           /\ Moves(r, Idle) /\ req' = [req EXCEPT ![r] = Idle]
           /\ ended' = ended \/ (req[r].pc \in Saving /\ ended' = ended \cup {req[r].n})
  <1>1. /\ UNCHANGED <<up, copy, table, saves, since, excused, answered>>
        /\ req[r].pc \in {"select", "seek", "store"} /\ Finish(r)
        /\ ended' = ended \/ (req[r].pc \in Saving /\ ended' = ended \cup {req[r].n})
    BY DEF SettingsAbort, cacheVars, At, Fail, Saving
  <1>. QED
    BY <1>1, Steps

------------------------------------------------------------------------------
LEMMA TypeStep ==
    ASSUME TypeInv, [SettingsNext]_<<req, cacheVars, settingsVars>>
    PROVE  TypeInv'
  <1>. USE Bounds
  <1>a. ASSUME up' \in BOOLEAN, copy' \in [Stores -> Copies \cup {None}], table' \in Tables,
               saves' \in 0..MaxSaves, since' \in [Names -> 0..Ttl], excused' \in [Stores -> BOOLEAN],
               req' \in [Reqs -> SettingsTasks \cup {Idle}], ended' \in SUBSET (0..MaxSaves)
        PROVE  TypeInv'
    BY <1>a DEF TypeInv, SettingsTypeOK, Copies
  <1>b. /\ Idle \in SettingsTasks \cup {Idle} /\ [pc |-> "select"] \in SettingsTasks
        /\ [pc |-> "fill", rows |-> table] \in SettingsTasks
    BY DEF SettingsTasks
  <1>c. \A r \in Reqs : req[r].pc \in Saving =>
          /\ req[r].n \in 1..MaxSaves /\ req[r].keys \in SUBSET Names /\ req[r].all \in SUBSET Names
          /\ req[r].before \in SUBSET (0..MaxSaves)
    BY TaskFields
  <1>1. CASE SettingsTick
    <2>1. since' \in [Names -> 0..Ttl]
      BY <1>1, TickIs
    <2>2. up' = up
      BY <1>1 DEF SettingsTick, Tick
    <2>. QED
      BY <1>1, <1>a, <2>1, <2>2, TickIs
  <1>2. CASE SettingsFault
    <2>1. /\ copy' \in [Stores -> Copies \cup {None}] /\ up' \in BOOLEAN
          /\ UNCHANGED <<table, saves, since>>
          /\ \/ SettingsCrash /\ req' = [r \in Reqs |-> Idle]
             \/ UNCHANGED <<req, excused, ended>>
      BY <1>2, FaultIs
    <2>2. CASE SettingsCrash /\ req' = [r \in Reqs |-> Idle]
      <3>1. excused' \in [Stores -> BOOLEAN]
        <4>1. excused' = [s \in Stores |-> excused[s] \/ \E r \in Reqs : At(r, "drop")]
          BY <2>2 DEF SettingsCrash
        <4>. QED
          BY <4>1
      <3>2. ended' = ended \cup {req[r].n : r \in {q \in Reqs : req[q].pc \in Saving}}
        BY <2>2 DEF SettingsCrash, Saving
      <3>3. ended' \in SUBSET (0..MaxSaves)
        BY <1>c, <3>2
      <3>4. req' \in [Reqs -> SettingsTasks \cup {Idle}]
        BY <2>2
      <3>. QED
        BY <1>a, <2>1, <3>1, <3>3, <3>4
    <2>. QED
      BY <1>a, <2>1, <2>2
  <1>3. ASSUME NEW r \in Reqs, LoadGet(r) \/ LoadSelect(r) \/ LoadFill(r) PROVE TypeInv'
    <2>1. \E x \in SettingsTasks \cup {Idle} : req' = [req EXCEPT ![r] = x]
      <3>1. CASE LoadGet(r)
        <4>1. req' = req \/ req' = [req EXCEPT ![r] = [pc |-> "select"]]
          BY <3>1, LoadGetIs
        <4>2. req[r] \in SettingsTasks \cup {Idle} /\ req = [req EXCEPT ![r] = req[r]]
          OBVIOUS
        <4>. QED
          BY <1>b, <4>1, <4>2
      <3>. QED
        BY <1>3, <1>b, <3>1, LoadSelectIs, LoadFillIs
    <2>2. req' \in [Reqs -> SettingsTasks \cup {Idle}]
      BY <2>1, Typed
    <2>3. /\ UNCHANGED <<up, table, saves, since, ended>> /\ copy' \in [Stores -> Copies \cup {None}]
          /\ excused' \in [Stores -> BOOLEAN]
      BY <1>3, LoadGetIs, LoadSelectIs, LoadFillIs
    <2>. QED
      BY <1>a, <2>2, <2>3
  <1>4. ASSUME NEW r \in Reqs, SaveStart(r) PROVE TypeInv'
    <2>1. \E x \in SettingsTasks \cup {Idle} : req' = [req EXCEPT ![r] = x]
      BY <1>4, SaveStartIs, Tasks
    <2>. QED
      BY <1>a, <1>4, <2>1, SaveStartIs, Typed
  <1>5. ASSUME NEW r \in Reqs, SaveSeek(r) PROVE TypeInv'
    <2>1. PICK k \in req[r].keys, f \in BOOLEAN :
            req' = [req EXCEPT ![r] = [pc |-> "store", k |-> k, found |-> f, n |-> req[r].n,
                       keys |-> req[r].keys \ {k}, all |-> req[r].all, before |-> req[r].before]]
      BY <1>5, SaveSeekIs
    <2>2. req[r].pc \in Saving
      BY <1>5, SaveSeekIs DEF Saving
    <2>3. k \in Names /\ req[r].keys \ {k} \in SUBSET Names
      BY <1>c, <2>2
    <2>4. \E x \in SettingsTasks \cup {Idle} : req' = [req EXCEPT ![r] = x]
      BY <1>c, <2>1, <2>2, <2>3, Tasks
    <2>. QED
      BY <1>a, <1>5, <2>4, SaveSeekIs, Typed
  <1>6. ASSUME NEW r \in Reqs, SaveStore(r) PROVE TypeInv'
    <2>1. req[r].pc = "store" /\ req[r].pc \in Saving /\ req[r] \in SettingsTasks
      BY <1>6, SaveStoreIs, IdleIs DEF Saving
    <2>2. req[r].k \in Names /\ req[r].n \in 0..MaxSaves
      BY <1>c, <2>1, TaskFields
    <2>3. \/ /\ UNCHANGED <<table, since>> /\ ended' = ended \cup {req[r].n} /\ req' = [req EXCEPT ![r] = Idle]
          \/ /\ table' = [table EXCEPT ![req[r].k] = req[r].n] /\ since' = [since EXCEPT ![req[r].k] = 0]
             /\ ended' = ended /\ req' = [req EXCEPT ![r] = [req[r] EXCEPT !.pc = "drop"]]
      BY <1>6, SaveStoreIs
    <2>4. [req[r] EXCEPT !.pc = "drop"] \in SettingsTasks
      BY <2>1, StoreBecomesDrop
    <2>5. \E x \in SettingsTasks \cup {Idle} : req' = [req EXCEPT ![r] = x]
      BY <2>3, <2>4
    <2>6. table' \in Tables
      BY <2>2, <2>3 DEF Tables
    <2>7. since' \in [Names -> 0..Ttl]
      BY <2>2, <2>3
    <2>8. ended' \in SUBSET (0..MaxSaves)
      BY <2>2, <2>3
    <2>. QED
      BY <1>a, <1>6, <2>5, <2>6, <2>7, <2>8, SaveStoreIs, Typed
  <1>7. ASSUME NEW r \in Reqs, SaveDrop(r) PROVE TypeInv'
    <2>1. req[r].pc \in Saving
      BY <1>7, SaveDropIs DEF Saving
    <2>2. \E x \in SettingsTasks \cup {Idle} : req' = [req EXCEPT ![r] = x]
      <3>1. \/ req' = [req EXCEPT ![r] = Idle]
            \/ req' = [req EXCEPT ![r] = [pc |-> "seek", n |-> req[r].n, keys |-> req[r].keys,
                                         all |-> req[r].all, before |-> req[r].before]]
        BY <1>7, SaveDropIs
      <3>. QED
        BY <1>c, <2>1, <3>1, Tasks
    <2>3. ended' \in SUBSET (0..MaxSaves)
      <3>1. ended' = ended \/ ended' = ended \cup {req[r].n}
        BY <1>7, SaveDropIs
      <3>. QED
        BY <1>c, <2>1, <3>1
    <2>. QED
      BY <1>a, <1>7, <2>2, <2>3, SaveDropIs, Typed
  <1>8. ASSUME NEW r \in Reqs, SettingsAbort(r) PROVE TypeInv'
    <2>1. ended' \in SUBSET (0..MaxSaves)
      BY <1>8, <1>c, AbortIs
    <2>. QED
      BY <1>a, <1>8, <2>1, AbortIs, Typed
  <1>9. CASE UNCHANGED <<req, cacheVars, settingsVars>>
    BY <1>a, <1>9 DEF cacheVars, settingsVars, settingsHistory
  <1>. QED
    BY <1>1, <1>2, <1>3, <1>4, <1>5, <1>6, <1>7, <1>8, <1>9 DEF SettingsNext

LEMMA TypeBegins == HandlersInit /\ CacheInit /\ SettingsInit => TypeInv
  <1>. SUFFICES ASSUME HandlersInit, CacheInit, SettingsInit PROVE TypeInv
    OBVIOUS
  <1>1. table \in Tables
    BY DEF SettingsInit, Tables
  <1>2. req \in [Reqs -> SettingsTasks \cup {Idle}]
    BY DEF HandlersInit
  <1>3. copy \in [Stores -> Copies \cup {None}] /\ \A s \in Stores : copy[s] = None
    BY DEF CacheInit
  <1>4. since \in [Names -> 0..Ttl] /\ excused \in [Stores -> BOOLEAN]
    BY DEF SettingsInit
  <1>. QED
    BY <1>1, <1>2, <1>3, <1>4 DEF CacheInit, SettingsInit, TypeInv, SettingsTypeOK

(* Every state is well typed.                                                *)
THEOREM TypeCorrect == SettingsSpec => []SettingsTypeOK
  <1>1. TypeInv => SettingsTypeOK
    BY DEF TypeInv
  <1>. QED
    BY <1>1, TypeBegins, TypeStep, PTL DEF SettingsSpec

------------------------------------------------------------------------------
(* A copy that differs from the table, and who is about to delete it.        *)
Stale(s) == copy[s] # None /\ copy[s].val # table
Explained(s) == excused[s] \/ \E r \in Reqs : At(r, "drop")

LEMMA StaleStep ==
    ASSUME TypeInv, StaleCopyIsExplained, [SettingsNext]_<<req, cacheVars, settingsVars>>
    PROVE  StaleCopyIsExplained'
  <1>. SUFFICES ASSUME NEW s \in Stores, Stale(s)' PROVE Explained(s)'
    BY DEF StaleCopyIsExplained, Stale, Explained
  <1>0. Stale(s) => Explained(s)
    BY DEF StaleCopyIsExplained, Stale, Explained
  (* A step of a request that is to delete nothing, after which the copy     *)
  (* and the table are as they were.                                         *)
  <1>a. ASSUME NEW r \in Reqs, req[r].pc # "drop", \A q \in Reqs : q # r => req'[q] = req[q],
               table' = table, copy'[s] = copy[s], excused'[s] = excused[s]
        PROVE  Explained(s)'
    <2>1. Stale(s)
      BY <1>a DEF Stale
    <2>. QED
      BY <1>0, <1>a, <2>1 DEF Explained, At
  <1>b. ASSUME UNCHANGED <<req, excused, table>>, copy'[s] = copy[s] \/ copy'[s] = None PROVE Explained(s)'
    BY <1>0, <1>b DEF Stale, Explained, At
  <1>1. CASE SettingsTick
    <2>1. Stale(s)
      BY <1>1, TickIs DEF Stale
    <2>. QED
      BY <1>0, <1>1, <2>1, TickIs DEF Explained, At
  <1>2. CASE SettingsFault
    <2>1. UNCHANGED table /\ (copy'[s] = copy[s] \/ copy'[s] = None)
      BY <1>2, FaultIs
    <2>2. Stale(s)
      BY <2>1 DEF Stale
    <2>3. CASE SettingsCrash
      <3>1. excused' = [z \in Stores |-> excused[z] \/ \E r \in Reqs : At(r, "drop")]
        BY <2>3 DEF SettingsCrash
      <3>2. excused'[s] = (excused[s] \/ \E r \in Reqs : At(r, "drop"))
        BY <3>1
      <3>3. excused'[s]
        BY <1>0, <2>2, <3>2, Zenon DEF Explained
      <3>. QED
        BY <3>3 DEF Explained
    <2>4. CASE UNCHANGED <<req, excused>>
      BY <1>b, <2>1, <2>4
    <2>. QED
      BY <1>2, <2>3, <2>4, FaultIs
  <1>3. ASSUME NEW r \in Reqs, LoadGet(r) PROVE Explained(s)'
    <2>1. UNCHANGED <<copy, table, excused>> /\ (UNCHANGED req \/ Moves(r, [pc |-> "select"]))
      BY <1>3, LoadGetIs
    <2>2. CASE UNCHANGED req
      BY <1>b, <2>1, <2>2
    <2>3. CASE Moves(r, [pc |-> "select"])
      <3>1. req[r].pc # "drop"
        BY <1>3, <2>3, IdleIs DEF LoadGet, Start
      <3>. QED
        BY <1>a, <2>1, <2>3, <3>1 DEF Moves
    <2>. QED
      BY <2>1, <2>2, <2>3
  <1>4. ASSUME NEW r \in Reqs, LoadSelect(r) PROVE Explained(s)'
    BY <1>4, <1>a, LoadSelectIs DEF Moves
  <1>5. ASSUME NEW r \in Reqs, LoadFill(r) PROVE Explained(s)'
    <2>1. /\ UNCHANGED table /\ req[r].pc # "drop" /\ \A q \in Reqs : q # r => req'[q] = req[q]
          /\ \/ copy'[s] = [val |-> req[r].rows, left |-> Ttl] /\ (req[r].rows # table => excused'[s])
             \/ copy'[s] = copy[s] /\ excused'[s] = excused[s]
      BY <1>5, LoadFillIs DEF Moves
    <2>2. CASE copy'[s] = [val |-> req[r].rows, left |-> Ttl] /\ (req[r].rows # table => excused'[s])
      BY <2>1, <2>2 DEF Stale, Explained
    <2>. QED
      BY <1>a, <2>1, <2>2
  <1>6. ASSUME NEW r \in Reqs, SaveStart(r) PROVE Explained(s)'
    <2>1. UNCHANGED <<copy, table, excused>> /\ req[r].pc # "drop" /\ \A q \in Reqs : q # r => req'[q] = req[q]
      BY <1>6, SaveStartIs, IdleIs DEF Moves
    <2>. QED
      BY <1>a, <2>1
  <1>7. ASSUME NEW r \in Reqs, SaveSeek(r) PROVE Explained(s)'
    <2>1. UNCHANGED <<copy, table, excused>> /\ req[r].pc # "drop" /\ \A q \in Reqs : q # r => req'[q] = req[q]
      BY <1>7, SaveSeekIs DEF Moves
    <2>. QED
      BY <1>a, <2>1
  <1>8. ASSUME NEW r \in Reqs, SaveStore(r) PROVE Explained(s)'
    <2>1. req[r].pc = "store" /\ req[r] \in SettingsTasks /\ UNCHANGED <<copy, excused>>
      BY <1>8, Bounds, SaveStoreIs, IdleIs
    <2>2. CASE UNCHANGED table /\ Moves(r, Idle)
      BY <1>a, <2>1, <2>2 DEF Moves
    <2>3. CASE Moves(r, [req[r] EXCEPT !.pc = "drop"])
      <3>1. req'[r].pc = "drop"
        BY <2>1, <2>3, StoreBecomesDrop DEF Moves
      <3>. QED
        BY <3>1 DEF Explained, At
    <2>. QED
      BY <1>8, <2>2, <2>3, SaveStoreIs
  <1>9. ASSUME NEW r \in Reqs, SaveDrop(r) PROVE Explained(s)'
    BY <1>9, SaveDropIs DEF Stale, Explained
  <1>10. ASSUME NEW r \in Reqs, SettingsAbort(r) PROVE Explained(s)'
    <2>1. UNCHANGED <<copy, table, excused>> /\ req[r].pc # "drop" /\ \A q \in Reqs : q # r => req'[q] = req[q]
      BY <1>10, AbortIs DEF Moves
    <2>. QED
      BY <1>a, <2>1
  <1>11. CASE UNCHANGED <<req, cacheVars, settingsVars>>
    BY <1>b, <1>11 DEF cacheVars, settingsVars, settingsHistory
  <1>. QED
    BY <1>1, <1>2, <1>3, <1>4, <1>5, <1>6, <1>7, <1>8, <1>9, <1>10, <1>11 DEF SettingsNext

(* A stale copy was read before a save and put after it, or a delete did not  *)
(* reach it, or will.                                                         *)
THEOREM StaleCopyIsExplainedHolds == SettingsSpec => []StaleCopyIsExplained
  <1>1. CacheInit => StaleCopyIsExplained
    BY DEF CacheInit, StaleCopyIsExplained
  <1>. QED
    BY <1>1, TypeBegins, TypeStep, StaleStep, PTL DEF SettingsSpec

------------------------------------------------------------------------------
(* A copy that misses a save has a tick less to live for every tick since the *)
(* save, and a copy about to be put misses none of an earlier tick.           *)
InTime(s, k) == copy[s] # None /\ copy[s].val[k] # table[k] => copy[s].left + since[k] <= Ttl
Recent(x, k) == x.pc = "fill" /\ x.rows[k] # table[k] => since[k] = 0

AgeInv == /\ \A s \in Stores, k \in Names : InTime(s, k)
          /\ \A r \in Reqs, k \in Names : Recent(req[r], k)

LEMMA AgeStep ==
    ASSUME TypeInv, AgeInv, [SettingsNext]_<<req, cacheVars, settingsVars>>
    PROVE  AgeInv'
  <1>. USE Bounds
  <1>0. /\ \A s \in Stores, k \in Names : InTime(s, k)
        /\ \A r \in Reqs, k \in Names : Recent(req[r], k)
    BY DEF AgeInv
  <1>i. \A s \in Stores : copy[s] # None => copy[s].left \in 1..Ttl
    BY DEF Copies
  (* A step that stores nothing, and puts or begins to put nothing.          *)
  <1>a. ASSUME UNCHANGED <<table, since>>, \A s \in Stores : copy'[s] = copy[s] \/ copy'[s] = None,
               \A q \in Reqs : req'[q] = req[q] \/ req'[q].pc # "fill"
        PROVE  AgeInv'
    BY <1>0, <1>a DEF AgeInv, InTime, Recent
  <1>1. CASE SettingsTick
    <2>1. ASSUME NEW s \in Stores, NEW k \in Names PROVE InTime(s, k)'
      <3>. SUFFICES ASSUME copy'[s] # None, copy'[s].val[k] # table'[k] PROVE copy'[s].left + since'[k] <= Ttl
        BY DEF InTime
      <3>1. copy[s] # None /\ copy[s].val[k] # table[k] /\ copy'[s].left = copy[s].left - 1
        BY <1>1, TickIs
      <3>2. copy[s].left + since[k] <= Ttl
        BY <1>0, <3>1 DEF InTime
      <3>3. since'[k] = IF since[k] < Ttl THEN since[k] + 1 ELSE Ttl
        BY <1>1, TickIs
      <3>4. copy[s].left \in 1..Ttl /\ since[k] \in 0..Ttl
        BY <1>i, <3>1
      <3>. QED
        BY <3>1, <3>2, <3>3, <3>4
    <2>2. \A r \in Reqs : req'[r].pc = "idle"
      BY <1>1, TickIs, IdleIs
    <2>. QED
      BY <2>1, <2>2 DEF AgeInv, Recent
  <1>2. CASE SettingsFault
    <2>1. /\ UNCHANGED <<table, since>> /\ \A s \in Stores : copy'[s] = copy[s] \/ copy'[s] = None
          /\ (req' = [r \in Reqs |-> Idle]) \/ UNCHANGED req
      BY <1>2, FaultIs
    <2>2. \A q \in Reqs : req'[q] = req[q] \/ req'[q].pc # "fill"
      BY <2>1, IdleIs
    <2>. QED
      BY <1>a, <2>1, <2>2
  <1>3. ASSUME NEW r \in Reqs, LoadGet(r) PROVE AgeInv'
    <2>1. UNCHANGED <<copy, table, since>> /\ (UNCHANGED req \/ Moves(r, [pc |-> "select"]))
      BY <1>3, LoadGetIs
    <2>2. \A q \in Reqs : req'[q] = req[q] \/ req'[q].pc # "fill"
      BY <2>1 DEF Moves
    <2>. QED
      BY <1>a, <2>1, <2>2
  <1>4. ASSUME NEW r \in Reqs, LoadSelect(r) PROVE AgeInv'
    <2>1. UNCHANGED <<copy, table, since>> /\ Moves(r, [pc |-> "fill", rows |-> table])
      BY <1>4, LoadSelectIs
    <2>2. req'[r].rows = table /\ \A q \in Reqs : q # r => req'[q] = req[q]
      BY <2>1 DEF Moves
    <2>. QED
      BY <1>0, <2>1, <2>2 DEF AgeInv, InTime, Recent
  <1>5. ASSUME NEW r \in Reqs, LoadFill(r) PROVE AgeInv'
    <2>1. /\ UNCHANGED <<table, since>> /\ req[r].pc = "fill" /\ Moves(r, Idle)
          /\ \A s \in Stores : copy'[s] = [val |-> req[r].rows, left |-> Ttl] \/ copy'[s] = copy[s]
      BY <1>5, LoadFillIs
    <2>2. ASSUME NEW s \in Stores, NEW k \in Names PROVE InTime(s, k)'
      <3>1. CASE copy'[s] = copy[s]
        BY <1>0, <2>1, <3>1 DEF InTime
      <3>2. CASE copy'[s] = [val |-> req[r].rows, left |-> Ttl]
        <4>1. copy'[s].val = req[r].rows /\ copy'[s].left = Ttl
          BY <3>2
        <4>2. req[r].rows[k] # table[k] => since[k] = 0
          BY <1>0, <2>1 DEF Recent
        <4>. QED
          BY <2>1, <4>1, <4>2 DEF InTime
      <3>. QED
        BY <2>1, <3>1, <3>2
    <2>3. \A q \in Reqs : req'[q] = req[q] \/ req'[q].pc # "fill"
      BY <2>1, IdleIs DEF Moves
    <2>. QED
      BY <1>0, <2>1, <2>2, <2>3 DEF AgeInv, Recent
  <1>6. ASSUME NEW r \in Reqs, SaveStart(r) \/ SaveSeek(r) \/ SaveDrop(r) \/ SettingsAbort(r) PROVE AgeInv'
    <2>1. UNCHANGED <<table, since>> /\ \A s \in Stores : copy'[s] = copy[s] \/ copy'[s] = None
      BY <1>6, SaveStartIs, SaveSeekIs, SaveDropIs, AbortIs
    <2>2. \A q \in Reqs : req'[q] = req[q] \/ req'[q].pc # "fill"
      <3>1. CASE SettingsAbort(r)
        BY <3>1, AbortIs, IdleIs DEF Moves
      <3>2. CASE SaveStart(r)
        <4>1. PICK K : Moves(r, [pc |-> "seek", n |-> saves', keys |-> K, all |-> K, before |-> ended])
          BY <3>2, SaveStartIs
        <4>. QED
          BY <4>1 DEF Moves
      <3>3. CASE SaveSeek(r)
        <4>1. PICK k, f : Moves(r, [pc |-> "store", k |-> k, found |-> f, n |-> req[r].n,
                                    keys |-> req[r].keys \ {k}, all |-> req[r].all, before |-> req[r].before])
          BY <3>3, SaveSeekIs
        <4>. QED
          BY <4>1 DEF Moves
      <3>4. CASE SaveDrop(r)
        <4>1. \/ Moves(r, Idle)
              \/ Moves(r, [pc |-> "seek", n |-> req[r].n, keys |-> req[r].keys,
                           all |-> req[r].all, before |-> req[r].before])
          BY <3>4, SaveDropIs
        <4>. QED
          BY <4>1, IdleIs DEF Moves
      <3>. QED
        BY <1>6, <3>1, <3>2, <3>3, <3>4
    <2>. QED
      BY <1>a, <2>1, <2>2
  <1>7. ASSUME NEW r \in Reqs, SaveStore(r) PROVE AgeInv'
    <2>1. req[r].pc = "store" /\ req[r] \in SettingsTasks /\ UNCHANGED copy
      BY <1>7, SaveStoreIs, IdleIs
    <2>2. CASE UNCHANGED <<table, since>> /\ Moves(r, Idle)
      <3>1. \A q \in Reqs : req'[q] = req[q] \/ req'[q].pc # "fill"
        BY <2>2, IdleIs DEF Moves
      <3>. QED
        BY <1>a, <2>1, <2>2, <3>1
    <2>3. CASE /\ table' = [table EXCEPT ![req[r].k] = req[r].n]
               /\ since' = [since EXCEPT ![req[r].k] = 0]
               /\ Moves(r, [req[r] EXCEPT !.pc = "drop"])
      <3>1. req'[r].pc = "drop" /\ \A q \in Reqs : q # r => req'[q] = req[q]
        BY <2>1, <2>3, StoreBecomesDrop DEF Moves
      <3>2. \A k \in Names : since'[k] = 0 \/ (since'[k] = since[k] /\ table'[k] = table[k])
        BY <2>3 DEF Tables
      <3>3. ASSUME NEW s \in Stores, NEW k \in Names PROVE InTime(s, k)'
        BY <1>0, <1>i, <2>1, <3>2 DEF InTime
      <3>4. ASSUME NEW q \in Reqs, NEW k \in Names PROVE Recent(req[q], k)'
        BY <1>0, <3>1, <3>2 DEF Recent
      <3>. QED
        BY <3>3, <3>4 DEF AgeInv
    <2>. QED
      BY <1>7, <2>2, <2>3, SaveStoreIs
  <1>8. CASE UNCHANGED <<req, cacheVars, settingsVars>>
    BY <1>a, <1>8 DEF cacheVars, settingsVars, settingsHistory
  <1>. QED
    BY <1>1, <1>2, <1>3, <1>4, <1>5, <1>6, <1>7, <1>8 DEF SettingsNext

LEMMA AgesBegin == HandlersInit /\ CacheInit => AgeInv
  BY IdleIs DEF HandlersInit, CacheInit, AgeInv, InTime, Recent

LEMMA AgeMeans == TypeInv /\ AgeInv => StalenessIsBounded
  <1>. SUFFICES ASSUME TypeInv, AgeInv, NEW s \in Stores, NEW k \in Names,
                       copy[s] # None, copy[s].val[k] # table[k]
                PROVE  since[k] < Ttl
    BY DEF StalenessIsBounded
  <1>1. copy[s].left + since[k] <= Ttl /\ copy[s].left \in 1..Ttl /\ since[k] \in 0..Ttl
    BY Bounds DEF AgeInv, InTime, Copies
  <1>. QED
    BY <1>1, Bounds

(* A reader sees a save at the latest a lifetime of the copy after it.       *)
THEOREM StalenessIsBoundedHolds == SettingsSpec => []StalenessIsBounded
  BY AgesBegin, AgeMeans, TypeBegins, TypeStep, AgeStep, PTL DEF SettingsSpec

------------------------------------------------------------------------------
(* Saves in flight have numbers of their own and have not ended; what one has *)
(* stored so far, and what an answered one has stored, is not by a save that  *)
(* had ended before it.                                                       *)
Left(x) == IF x.pc = "store" THEN x.keys \cup {x.k} ELSE x.keys
StoredWell(x) == \A k \in x.all : k \in Left(x) \/ table[k] \notin x.before

(* What a save in flight is known to be.                                     *)
Own(x) ==
    /\ x.n \in 1..saves /\ x.n \notin ended
    /\ x.before \subseteq ended /\ x.keys \subseteq Names /\ x.all \subseteq Names
    /\ StoredWell(x)

SaveInv ==
    /\ ended \subseteq 0..saves
    /\ \A r \in Reqs : req[r].pc \in Saving => Own(req[r])
    /\ \A r, q \in Reqs : req[r].pc \in Saving /\ req[q].pc \in Saving /\ req[r].n = req[q].n => r = q
    /\ \A a \in answered : a.before \subseteq ended /\ a.keys \subseteq Names
    /\ AnsweredSaveStands

LEMMA SaveStep ==
    ASSUME TypeInv, SaveInv, [SettingsNext]_<<req, cacheVars, settingsVars>>
    PROVE  SaveInv'
  <1>. USE Bounds
  <1>0. /\ ended \subseteq 0..saves
        /\ \A q \in Reqs : req[q].pc \in Saving => Own(req[q])
        /\ \A p, q \in Reqs : req[p].pc \in Saving /\ req[q].pc \in Saving /\ req[p].n = req[q].n => p = q
        /\ \A a \in answered : /\ a.before \subseteq ended /\ a.keys \subseteq Names
                               /\ \A k \in a.keys : table[k] \notin a.before
    BY DEF SaveInv, Own, AnsweredSaveStands
  <1>z. ASSUME /\ ended' \subseteq 0..saves'
               /\ \A q \in Reqs : req'[q].pc \in Saving => Own(req[q])'
               /\ \A p, q \in Reqs : req'[p].pc \in Saving /\ req'[q].pc \in Saving /\ req'[p].n = req'[q].n => p = q
               /\ \A a \in answered' : /\ a.before \subseteq ended' /\ a.keys \subseteq Names
                                       /\ \A k \in a.keys : table'[k] \notin a.before
        PROVE  SaveInv'
    BY <1>z DEF SaveInv, Own, AnsweredSaveStands
  (* A step that stores and answers nothing, and begins, ends or goes on     *)
  (* with no save.                                                           *)
  <1>a. ASSUME UNCHANGED <<table, saves, ended, answered>>,
               \A q \in Reqs : req'[q] = req[q] \/ req'[q].pc \notin Saving
        PROVE  SaveInv'
    <2>1. \A q \in Reqs : req'[q].pc \in Saving => Own(req[q])'
      BY <1>0, <1>a DEF Own, StoredWell, Left
    <2>. QED
      BY <1>0, <1>a, <1>z, <2>1
  (* A step that ends the save of request r, and answers it or not.          *)
  <1>b. ASSUME NEW r \in Reqs, req[r].pc \in Saving, UNCHANGED <<table, saves>>,
               ended' = ended \cup {req[r].n}, Moves(r, Idle),
               \A a \in answered' : a \in answered \/ (/\ a.before \subseteq ended /\ a.keys \subseteq Names
                                                       /\ \A k \in a.keys : table[k] \notin a.before)
        PROVE  SaveInv'
    <2>1. req'[r].pc \notin Saving /\ \A q \in Reqs : q # r => req'[q] = req[q]
      BY <1>b, IdleIs DEF Moves, Saving
    <2>2. ASSUME NEW q \in Reqs, req'[q].pc \in Saving PROVE Own(req[q])'
      <3>1. q # r /\ req'[q] = req[q] /\ req[q].pc \in Saving /\ Own(req[q])
        BY <1>0, <2>1, <2>2
      <3>2. req[q].n # req[r].n
        BY <1>0, <1>b, <3>1
      <3>. QED
        BY <1>b, <3>1, <3>2 DEF Own, StoredWell, Left
    <2>3. ended' \subseteq 0..saves'
      <3>1. Own(req[r])
        BY <1>0, <1>b
      <3>2. req[r].n \in 0..saves
        BY <3>1 DEF Own
      <3>3. saves' = saves /\ ended' = ended \cup {req[r].n}
        BY <1>b
      <3>. QED
        BY <1>0, <3>2, <3>3
    <2>4. \A a \in answered' : /\ a.before \subseteq ended' /\ a.keys \subseteq Names
                               /\ \A k \in a.keys : table'[k] \notin a.before
      BY <1>0, <1>b
    <2>5. \A p, q \in Reqs : req'[p].pc \in Saving /\ req'[q].pc \in Saving /\ req'[p].n = req'[q].n => p = q
      BY <1>0, <2>1
    <2>. QED
      BY <1>z, <2>2, <2>3, <2>4, <2>5
  (* A step that takes request r on with its save.                           *)
  <1>c. ASSUME NEW r \in Reqs, req[r].pc \in Saving, UNCHANGED <<saves, ended, answered>>,
               \A q \in Reqs : q # r => req'[q] = req[q],
               req'[r].n = req[r].n, Own(req[r])',
               \A q \in Reqs, k \in Names : q # r /\ req[q].pc \in Saving /\ table[k] \notin req[q].before
                                            => table'[k] \notin req[q].before,
               \A a \in answered, k \in Names : table[k] \notin a.before => table'[k] \notin a.before
        PROVE  SaveInv'
    <2>1. ASSUME NEW q \in Reqs, req'[q].pc \in Saving PROVE Own(req[q])'
      <3>1. CASE q # r
        <4>1. req'[q] = req[q] /\ req[q].pc \in Saving /\ Own(req[q])
          BY <1>0, <1>c, <2>1, <3>1
        <4>2. StoredWell(req[q])'
          BY <1>c, <3>1, <4>1 DEF Own, StoredWell, Left
        <4>. QED
          BY <1>c, <4>1, <4>2 DEF Own
      <3>. QED
        BY <1>c, <3>1
    <2>2. \A p, q \in Reqs : req'[p].pc \in Saving /\ req'[q].pc \in Saving /\ req'[p].n = req'[q].n => p = q
      BY <1>0, <1>c
    <2>3. \A a \in answered' : /\ a.before \subseteq ended' /\ a.keys \subseteq Names
                               /\ \A k \in a.keys : table'[k] \notin a.before
      BY <1>0, <1>c
    <2>. QED
      BY <1>0, <1>c, <1>z, <2>1, <2>2, <2>3
  <1>1. CASE SettingsTick
    BY <1>1, <1>a, TickIs
  <1>2. CASE SettingsFault
    <2>1. CASE SettingsCrash /\ req' = [r \in Reqs |-> Idle]
      <3>1. ended' = ended \cup {req[r].n : r \in {q \in Reqs : req[q].pc \in Saving}}
        BY <2>1 DEF SettingsCrash, Saving
      <3>2. UNCHANGED <<table, saves, answered>>
        BY <1>2, FaultIs
      <3>3. ended' \subseteq 0..saves' /\ ended \subseteq ended'
        <4>1. \A q \in Reqs : req[q].pc \in Saving => req[q].n \in 0..saves
          BY <1>0 DEF Own
        <4>. QED
          BY <1>0, <3>1, <3>2, <4>1
      <3>4. \A q \in Reqs : req'[q].pc \notin Saving
        BY <2>1, IdleIs DEF Saving
      <3>5. \A a \in answered' : /\ a.before \subseteq ended' /\ a.keys \subseteq Names
                                 /\ \A k \in a.keys : table'[k] \notin a.before
        BY <1>0, <3>2, <3>3
      <3>. QED
        BY <1>z, <3>3, <3>4, <3>5
    <2>2. CASE UNCHANGED <<req, ended>>
      BY <1>2, <1>a, <2>2, FaultIs
    <2>. QED
      BY <1>2, <2>1, <2>2, FaultIs
  <1>3. ASSUME NEW r \in Reqs, LoadGet(r) \/ LoadSelect(r) \/ LoadFill(r) PROVE SaveInv'
    <2>1. UNCHANGED <<table, saves, ended, answered>>
      BY <1>3, LoadGetIs, LoadSelectIs, LoadFillIs
    <2>2. \/ UNCHANGED req \/ Moves(r, [pc |-> "select"])
          \/ Moves(r, [pc |-> "fill", rows |-> table]) \/ Moves(r, Idle)
      BY <1>3, LoadGetIs, LoadSelectIs, LoadFillIs
    <2>3. \A q \in Reqs : req'[q] = req[q] \/ req'[q].pc \notin Saving
      BY <2>2, IdleIs DEF Moves, Saving
    <2>. QED
      BY <1>a, <2>1, <2>3
  <1>4. ASSUME NEW r \in Reqs, SaveStart(r) PROVE SaveInv'
    <2>1. /\ UNCHANGED <<table, ended, answered>> /\ saves' = saves + 1 /\ saves' \in Nat /\ req[r] = Idle
      BY <1>4, SaveStartIs
    <2>2. PICK K \in SUBSET Names : Moves(r, [pc |-> "seek", n |-> saves', keys |-> K, all |-> K, before |-> ended])
      BY <1>4, SaveStartIs
    <2>3. /\ req'[r].pc = "seek" /\ req'[r].n = saves' /\ req'[r].keys = K /\ req'[r].all = K
          /\ req'[r].before = ended /\ \A q \in Reqs : q # r => req'[q] = req[q]
      BY <2>2 DEF Moves
    <2>4. saves' \notin ended /\ 0..saves \subseteq 0..saves' /\ 1..saves \subseteq 1..saves'
      BY <1>0, <2>1
    <2>5. Own(req[r])'
      BY <2>1, <2>3, <2>4 DEF Own, StoredWell, Left
    <2>6. ASSUME NEW q \in Reqs, q # r, req'[q].pc \in Saving PROVE Own(req[q])' /\ req'[q].n # saves'
      <3>1. req'[q] = req[q] /\ Own(req[q])
        BY <1>0, <2>3, <2>6
      <3>2. req[q].n \in 1..saves
        BY <3>1 DEF Own
      <3>. QED
        BY <2>1, <2>4, <3>1, <3>2 DEF Own, StoredWell, Left
    <2>7. \A p, q \in Reqs : req'[p].pc \in Saving /\ req'[q].pc \in Saving /\ req'[p].n = req'[q].n => p = q
      BY <1>0, <2>3, <2>6
    <2>8. ended' \subseteq 0..saves'
      BY <1>0, <2>1, <2>4
    <2>9. \A a \in answered' : /\ a.before \subseteq ended' /\ a.keys \subseteq Names
                               /\ \A k \in a.keys : table'[k] \notin a.before
      BY <1>0, <2>1
    <2>. QED
      BY <1>z, <2>5, <2>6, <2>7, <2>8, <2>9
  <1>5. ASSUME NEW r \in Reqs, SaveSeek(r) PROVE SaveInv'
    <2>1. UNCHANGED <<table, saves, ended, answered>> /\ req[r].pc = "seek" /\ req[r].pc \in Saving
      BY <1>5, SaveSeekIs DEF Saving
    <2>2. PICK k \in req[r].keys, f \in BOOLEAN :
            Moves(r, [pc |-> "store", k |-> k, found |-> f, n |-> req[r].n,
                      keys |-> req[r].keys \ {k}, all |-> req[r].all, before |-> req[r].before])
      BY <1>5, SaveSeekIs
    <2>3. /\ req'[r].pc = "store" /\ req'[r].k = k /\ req'[r].n = req[r].n /\ req'[r].keys = req[r].keys \ {k}
          /\ req'[r].all = req[r].all /\ req'[r].before = req[r].before
          /\ \A q \in Reqs : q # r => req'[q] = req[q]
      BY <2>2 DEF Moves
    <2>4. Own(req[r])
      BY <1>0, <2>1
    <2>5. StoredWell(req[r])'
      BY <2>1, <2>3, <2>4 DEF Own, StoredWell, Left
    <2>6. Own(req[r])'
      BY <2>1, <2>3, <2>4, <2>5 DEF Own
    <2>. QED
      BY <1>c, <2>1, <2>3, <2>6
  <1>6. ASSUME NEW r \in Reqs, SaveStore(r) PROVE SaveInv'
    <2>0. req[r].pc = "store" /\ req[r].pc \in Saving /\ UNCHANGED <<saves, answered>>
      BY <1>6, SaveStoreIs DEF Saving
    <2>1. /\ req[r].pc = "store" /\ req[r].pc \in Saving /\ req[r] \in SettingsTasks
          /\ UNCHANGED <<saves, answered>> /\ req[r].k \in Names
      BY <2>0, IdleIs, TaskFields
    <2>2. Own(req[r])
      BY <1>0, <2>1
    <2>3. CASE UNCHANGED table /\ ended' = ended \cup {req[r].n} /\ Moves(r, Idle)
      BY <1>b, <2>1, <2>3
    <2>4. CASE /\ table' = [table EXCEPT ![req[r].k] = req[r].n] /\ ended' = ended
               /\ Moves(r, [req[r] EXCEPT !.pc = "drop"])
      <3>1. /\ req'[r].pc = "drop" /\ req'[r].n = req[r].n /\ req'[r].keys = req[r].keys
            /\ req'[r].all = req[r].all /\ req'[r].before = req[r].before
            /\ \A q \in Reqs : q # r => req'[q] = req[q]
        BY <2>1, <2>4, StoreBecomesDrop DEF Moves
      <3>2. \A k \in Names : table'[k] = IF k = req[r].k THEN req[r].n ELSE table[k]
        BY <2>4 DEF Tables
      <3>3. ASSUME NEW b, b \subseteq ended, NEW k \in Names, table[k] \notin b PROVE table'[k] \notin b
        BY <2>2, <3>2, <3>3 DEF Own
      <3>4. table'[req[r].k] = req[r].n /\ req[r].n \notin req[r].before
        BY <2>1, <2>2, <3>2 DEF Own
      <3>5. StoredWell(req[r])'
        BY <2>1, <2>2, <3>1, <3>3, <3>4 DEF Own, StoredWell, Left
      <3>6. Own(req[r])'
        BY <2>1, <2>2, <2>4, <3>1, <3>5 DEF Own
      <3>7. \A q \in Reqs, k \in Names : q # r /\ req[q].pc \in Saving /\ table[k] \notin req[q].before
                                         => table'[k] \notin req[q].before
        BY <1>0, <3>3 DEF Own
      <3>8. \A a \in answered, k \in Names : table[k] \notin a.before => table'[k] \notin a.before
        BY <1>0, <3>3
      <3>. QED
        BY <1>c, <2>1, <2>4, <3>1, <3>6, <3>7, <3>8
    <2>. QED
      BY <1>6, <2>3, <2>4, SaveStoreIs
  <1>7. ASSUME NEW r \in Reqs, SaveDrop(r) PROVE SaveInv'
    <2>1. UNCHANGED <<table, saves>> /\ req[r].pc = "drop" /\ req[r].pc \in Saving
      BY <1>7, SaveDropIs DEF Saving
    <2>2. Own(req[r])
      BY <1>0, <2>1
    <2>3. CASE /\ Moves(r, [pc |-> "seek", n |-> req[r].n, keys |-> req[r].keys,
                            all |-> req[r].all, before |-> req[r].before])
               /\ UNCHANGED <<ended, answered>>
      <3>1. /\ req'[r].pc = "seek" /\ req'[r].n = req[r].n /\ req'[r].keys = req[r].keys
            /\ req'[r].all = req[r].all /\ req'[r].before = req[r].before
            /\ \A q \in Reqs : q # r => req'[q] = req[q]
        BY <2>3 DEF Moves
      <3>2. StoredWell(req[r])'
        BY <2>1, <2>2, <3>1 DEF Own, StoredWell, Left
      <3>3. Own(req[r])'
        BY <2>1, <2>2, <2>3, <3>1, <3>2 DEF Own
      <3>. QED
        BY <1>c, <2>1, <2>3, <3>1, <3>3
    <2>4. CASE /\ req[r].keys = {} /\ Moves(r, Idle) /\ ended' = ended \cup {req[r].n}
               /\ answered' = answered \cup {[keys |-> req[r].all, before |-> req[r].before]}
      <3>1. \A k \in req[r].all : table[k] \notin req[r].before
        BY <2>1, <2>2, <2>4 DEF Own, StoredWell, Left
      <3>2. \A a \in answered' : a \in answered \/ (/\ a.before \subseteq ended /\ a.keys \subseteq Names
                                                    /\ \A k \in a.keys : table[k] \notin a.before)
        BY <2>2, <2>4, <3>1 DEF Own
      <3>. QED
        BY <1>b, <2>1, <2>4, <3>2
    <2>. QED
      BY <1>7, <2>3, <2>4, SaveDropIs
  <1>8. ASSUME NEW r \in Reqs, SettingsAbort(r) PROVE SaveInv'
    <2>1. /\ UNCHANGED <<table, saves, answered>> /\ Moves(r, Idle)
          /\ ended' = ended \/ (req[r].pc \in Saving /\ ended' = ended \cup {req[r].n})
      BY <1>8, AbortIs
    <2>2. CASE ended' = ended
      <3>1. \A q \in Reqs : req'[q] = req[q] \/ req'[q].pc \notin Saving
        BY <2>1, IdleIs DEF Moves, Saving
      <3>. QED
        BY <1>a, <2>1, <2>2, <3>1
    <2>3. CASE req[r].pc \in Saving /\ ended' = ended \cup {req[r].n}
      BY <1>b, <2>1, <2>3
    <2>. QED
      BY <2>1, <2>2, <2>3
  <1>9. CASE UNCHANGED <<req, cacheVars, settingsVars>>
    BY <1>a, <1>9 DEF settingsVars, settingsHistory
  <1>. QED
    BY <1>1, <1>2, <1>3, <1>4, <1>5, <1>6, <1>7, <1>8, <1>9 DEF SettingsNext

LEMMA SavesBegin == HandlersInit /\ SettingsInit => SaveInv
  BY IdleIs DEF HandlersInit, SettingsInit, SaveInv, AnsweredSaveStands, Saving

(* A save that was answered is undone only by one that had not ended when it  *)
(* began.                                                                     *)
THEOREM AnsweredSaveStandsHolds == SettingsSpec => []AnsweredSaveStands
  <1>1. SaveInv => AnsweredSaveStands
    BY DEF SaveInv
  <1>. QED
    BY <1>1, SavesBegin, TypeBegins, TypeStep, SaveStep, PTL DEF SettingsSpec

------------------------------------------------------------------------------
(* Limits.  Running totals of what was admitted.                             *)
Ages == 0..Window - 1
SumsTo(n, f, T) ==
    T \in [0..n -> Nat] /\ T[0] = 0 /\ \A a \in 1..n : T[a] = T[a - 1] + f[a - 1]

LEMMA TotalsSum == ASSUME NEW f \in [Ages -> Nat] PROVE SumsTo(Window, f, Totals(f))
  <1>. DEFINE S == {n \in Nat : n <= Window => \E T : SumsTo(n, f, T)}
  <1>1. 0 \in S
    <2>1. SumsTo(0, f, [a \in 0..0 |-> 0])
      BY DEF SumsTo
    <2>. QED
      BY <2>1
  <1>2. ASSUME NEW n \in Nat, n \in S PROVE n + 1 \in S
    <2>. SUFFICES ASSUME n + 1 <= Window PROVE \E T : SumsTo(n + 1, f, T)
      OBVIOUS
    <2>1. PICK T : SumsTo(n, f, T)
      BY <1>2
    <2>. DEFINE U == [a \in 0..n + 1 |-> IF a = n + 1 THEN T[n] + f[n] ELSE T[a]]
    <2>2. f[n] \in Nat /\ T[n] \in Nat
      BY <2>1 DEF SumsTo, Ages
    <2>3. SumsTo(n + 1, f, U)
      BY <2>1, <2>2 DEF SumsTo
    <2>. QED
      BY <2>3
  <1>3. PICK T : SumsTo(Window, f, T)
    <2>. HIDE DEF S
    <2>1. Window \in S
      BY <1>1, <1>2, AllNumbers
    <2>. QED
      BY <2>1 DEF S
  <1>4. T = [a \in 0..Window |-> IF a = 0 THEN 0 ELSE T[a - 1] + f[a - 1]]
    BY <1>3 DEF SumsTo
  <1>5. Totals(f) = [a \in 0..Window |-> IF a = 0 THEN 0 ELSE Totals(f)[a - 1] + f[a - 1]]
    BY <1>4, Zenon DEF Totals
  <1>6. /\ DOMAIN Totals(f) = 0..Window /\ Totals(f)[0] = 0
        /\ \A a \in 1..Window : Totals(f)[a] = Totals(f)[a - 1] + f[a - 1]
    <2>. DEFINE U == Totals(f)
    <2>1. U = [a \in 0..Window |-> IF a = 0 THEN 0 ELSE U[a - 1] + f[a - 1]]
      BY <1>5
    <2>. HIDE DEF U
    <2>2. DOMAIN U = 0..Window /\ U[0] = 0 /\ \A a \in 1..Window : U[a] = U[a - 1] + f[a - 1]
      BY <2>1
    <2>. QED
      BY <2>2 DEF U
  <1>. DEFINE N == {n \in Nat : n <= Window => Totals(f)[n] \in Nat}
  <1>7. ASSUME NEW n \in Nat, n \in N PROVE n + 1 \in N
    BY <1>6, <1>7 DEF Ages
  <1>8. \A n \in 0..Window : Totals(f)[n] \in Nat
    <2>1. 0 \in N
      BY <1>6
    <2>. HIDE DEF N
    <2>2. Nat \subseteq N
      BY <1>7, <2>1, AllNumbers
    <2>. QED
      BY <2>2 DEF N
  <1>9. Totals(f) = [a \in 0..Window |-> Totals(f)[a]]
    BY <1>5, Zenon
  <1>. QED
    BY <1>6, <1>8, <1>9 DEF SumsTo

(* Totals of more ages are no less.                                          *)
LEMMA TotalsGrow ==
    ASSUME NEW f \in [Ages -> Nat], NEW k \in 0..Window
    PROVE  Totals(f)[k] <= Totals(f)[Window] /\ Totals(f)[k] \in Nat /\ Totals(f)[Window] \in Nat
  <1>. DEFINE N == {n \in Nat : k + n <= Window => Totals(f)[k] <= Totals(f)[k + n]}
  <1>0. SumsTo(Window, f, Totals(f))
    BY TotalsSum
  <1>1. 0 \in N
    BY <1>0 DEF SumsTo
  <1>2. ASSUME NEW n \in Nat, n \in N PROVE n + 1 \in N
    <2>. SUFFICES ASSUME k + n + 1 <= Window PROVE Totals(f)[k] <= Totals(f)[k + (n + 1)]
      OBVIOUS
    <2>1. Totals(f)[k + n + 1] = Totals(f)[k + n] + f[k + n] /\ f[k + n] \in Nat
      BY <1>0 DEF SumsTo, Ages
    <2>2. Totals(f)[k] \in Nat /\ Totals(f)[k + n] \in Nat
      BY <1>0 DEF SumsTo
    <2>3. Totals(f)[k] <= Totals(f)[k + n] /\ k + (n + 1) = k + n + 1
      BY <1>2
    <2>. QED
      BY <2>1, <2>2, <2>3
  <1>3. Window - k \in N
    <2>. HIDE DEF N
    <2>. QED
      BY <1>1, <1>2, AllNumbers
  <1>. QED
    BY <1>0, <1>3 DEF SumsTo

(* A tick later they are the totals of one age less.                         *)
LEMMA TotalsAge ==
    ASSUME NEW f \in [Ages -> Nat], NEW k \in 1..Window
    PROVE  Totals(Older(f))[k] = Totals(f)[k - 1] /\ Older(f) \in [Ages -> Nat]
  <1>. DEFINE g == Older(f)
              N == {n \in Nat : n + 1 <= Window => Totals(g)[n + 1] = Totals(f)[n]}
  <1>0. g \in [Ages -> Nat] /\ g[0] = 0 /\ \A a \in 1..Window - 1 : g[a] = f[a - 1]
    BY DEF Older, Ages
  <1>. HIDE DEF g
  <1>1. SumsTo(Window, f, Totals(f)) /\ SumsTo(Window, g, Totals(g))
    BY <1>0, TotalsSum
  <1>2. 0 \in N
    BY <1>0, <1>1 DEF SumsTo
  <1>3. ASSUME NEW n \in Nat, n \in N PROVE n + 1 \in N
    <2>. SUFFICES ASSUME n + 2 <= Window PROVE Totals(g)[n + 2] = Totals(f)[n + 1]
      OBVIOUS
    <2>1. Totals(g)[n + 2] = Totals(g)[n + 1] + g[n + 1]
      BY <1>1 DEF SumsTo
    <2>2. Totals(f)[n + 1] = Totals(f)[n] + f[n]
      BY <1>1 DEF SumsTo
    <2>3. g[n + 1] = f[n] /\ Totals(g)[n + 1] = Totals(f)[n]
      BY <1>0, <1>3
    <2>. QED
      BY <2>1, <2>2, <2>3
  <1>4. k - 1 \in N
    <2>. HIDE DEF N
    <2>. QED
      BY <1>2, <1>3, AllNumbers
  <1>. QED
    BY <1>0, <1>4 DEF g

(* One more of age 0 counts in all of them.                                  *)
LEMMA TotalsAdd ==
    ASSUME NEW f \in [Ages -> Nat], NEW k \in 1..Window
    PROVE  LET g == [f EXCEPT ![0] = @ + 1] IN g \in [Ages -> Nat] /\ Totals(g)[k] = Totals(f)[k] + 1
  <1>. DEFINE g == [f EXCEPT ![0] = @ + 1]
              N == {n \in Nat : n + 1 <= Window => Totals(g)[n + 1] = Totals(f)[n + 1] + 1}
  <1>0. g \in [Ages -> Nat] /\ g[0] = f[0] + 1 /\ \A a \in 1..Window - 1 : g[a] = f[a]
    BY DEF Ages
  <1>. HIDE DEF g
  <1>1. SumsTo(Window, f, Totals(f)) /\ SumsTo(Window, g, Totals(g))
    BY <1>0, TotalsSum
  <1>2. 0 \in N
    <2>1. Totals(g)[1] = Totals(g)[0] + g[0] /\ Totals(f)[1] = Totals(f)[0] + f[0]
      BY <1>1 DEF SumsTo
    <2>2. Totals(g)[0] = 0 /\ Totals(f)[0] = 0 /\ f[0] \in Nat
      BY <1>1 DEF SumsTo, Ages
    <2>. QED
      BY <1>0, <2>1, <2>2
  <1>3. ASSUME NEW n \in Nat, n \in N PROVE n + 1 \in N
    <2>. SUFFICES ASSUME n + 2 <= Window PROVE Totals(g)[n + 2] = Totals(f)[n + 2] + 1
      OBVIOUS
    <2>1. Totals(g)[n + 2] = Totals(g)[n + 1] + g[n + 1] /\ Totals(f)[n + 2] = Totals(f)[n + 1] + f[n + 1]
      BY <1>1 DEF SumsTo
    <2>2. g[n + 1] = f[n + 1] /\ f[n + 1] \in Nat /\ Totals(f)[n + 1] \in Nat
      <3>1. n + 1 \in 1..Window - 1 /\ n + 1 \in Ages /\ n + 1 \in 0..Window
        BY DEF Ages
      <3>2. Totals(f)[n + 1] \in Nat
        BY <1>1, <3>1 DEF SumsTo
      <3>. QED
        BY <1>0, <3>1, <3>2
    <2>3. Totals(g)[n + 1] = Totals(f)[n + 1] + 1
      BY <1>3
    <2>. QED
      BY <2>1, <2>2, <2>3
  <1>4. k - 1 \in N
    <2>. HIDE DEF N
    <2>. QED
      BY <1>2, <1>3, AllNumbers
  <1>. QED
    BY <1>0, <1>4 DEF g

------------------------------------------------------------------------------
(* A counter stands at 0 exactly when it has no time to live, and the one in  *)
(* memory always has an end.                                                  *)
CountInv ==
    /\ \A s \in Stores : count[s].n = 0 <=> count[s].left = 0
    /\ count["memory"].left <= Window

CounterTypes == [n : Nat, left : 0..Never]

LEMMA LimitFacts ==
    ASSUME LimitsTypeOK
    PROVE  /\ count \in [Stores -> CounterTypes] /\ recent \in [Stores -> [Ages -> Nat]]
           /\ req \in [Reqs -> LimitTasks \cup {Idle}]
           /\ \A s \in Stores : /\ count[s].n \in Nat /\ count[s].left \in 0..Never
                                /\ count[s] \in CounterTypes /\ recent[s] \in [Ages -> Nat]
           /\ "redis" \in Stores /\ "memory" \in Stores /\ 0 \in Ages
  BY DEF LimitsTypeOK, CounterTypes, Ages, Stores

LEMMA LimitTaskFields ==
    ASSUME LimitsTypeOK, NEW r \in Reqs
    PROVE  /\ req[r].pc \in {"ttl", "decide"} => req[r].n \in Nat
           /\ req[r].pc = "decide" => req[r].by \in Stores
  BY DEF LimitsTypeOK, LimitTasks, Idle

LEMMA LimitTasksAre ==
    /\ \A p \in {"count", "expire", "fallback"} : [pc |-> p] \in LimitTasks
    /\ \A n \in Nat : [pc |-> "ttl", n |-> n] \in LimitTasks
    /\ \A n \in Nat, s \in Stores : [pc |-> "decide", n |-> n, by |-> s] \in LimitTasks
  BY DEF LimitTasks

LEMMA Numbers == ASSUME NEW n \in Nat PROVE More(n) \in Nat /\ More(n) > 0 /\ (More(n) = 1 => n = 0)
                                            /\ (More(n) <= Limit => More(n) = n + 1)
  BY DEF More

LEMMA LimitsTypeBegins == HandlersInit /\ CacheInit /\ LimitsInit => LimitsTypeOK /\ CountInv
  <1>. SUFFICES ASSUME HandlersInit, CacheInit, LimitsInit PROVE LimitsTypeOK /\ CountInv
    OBVIOUS
  <1>1. recent \in [Stores -> [0..Window - 1 -> Nat]]
    BY DEF LimitsInit
  <1>2. count \in [Stores -> [n : Nat, left : 0..Never]] /\ CountInv
    BY DEF CacheInit, NoCount, Never, CountInv, Stores
  <1>3. req \in [Reqs -> LimitTasks \cup {Idle}]
    BY DEF HandlersInit
  <1>4. up \in BOOLEAN /\ faltered \in BOOLEAN /\ emptied \in BOOLEAN /\ unbounded \in BOOLEAN
    BY Zenon DEF CacheInit, LimitsInit
  <1>5. arrived \in 0..MaxArrivals
    BY DEF LimitsInit
  <1>. QED
    BY <1>1, <1>2, <1>3, <1>4, <1>5 DEF LimitsTypeOK

(* What each command of a request does to the counters.                      *)
LEMMA CountingRedis ==
    ASSUME LimitsTypeOK, CountInv, IncrRedis
    PROVE  /\ count'["redis"].n = More(count["redis"].n)
           /\ count'["redis"].left = IF count["redis"].n = 0 THEN Never ELSE count["redis"].left
           /\ count'["memory"] = count["memory"]
           /\ count' \in [Stores -> CounterTypes] /\ CountInv'
  <1>. DEFINE c == [n |-> More(count["redis"].n),
                    left |-> IF count["redis"].n = 0 THEN Never ELSE count["redis"].left]
  <1>1. count' = [count EXCEPT !["redis"] = c]
    BY DEF IncrRedis
  <1>2. c \in CounterTypes /\ c.n # 0 /\ c.left # 0
    BY LimitFacts, Numbers DEF Never, CountInv, CounterTypes
  <1>3. c.n = More(count["redis"].n) /\ c.left = IF count["redis"].n = 0 THEN Never ELSE count["redis"].left
    OBVIOUS
  <1>. HIDE DEF c
  <1>4. count'["redis"] = c /\ count'["memory"] = count["memory"] /\ count' \in [Stores -> CounterTypes]
    BY <1>1, <1>2, LimitFacts DEF Stores
  <1>. QED
    BY <1>2, <1>3, <1>4 DEF CountInv, Stores

LEMMA ExpiringRedis ==
    ASSUME LimitsTypeOK, CountInv, ExpireRedis
    PROVE  /\ count'["redis"].n = count["redis"].n
           /\ count'["redis"].left = IF count["redis"].left = 0 THEN 0 ELSE Window
           /\ count'["memory"] = count["memory"]
           /\ count' \in [Stores -> CounterTypes] /\ CountInv'
  <1>. DEFINE c == [count["redis"] EXCEPT !.left = IF count["redis"].left = 0 THEN 0 ELSE Window]
  <1>1. count' = [count EXCEPT !["redis"] = c]
    BY DEF ExpireRedis
  <1>2. c \in CounterTypes /\ c.n = count["redis"].n /\ c.left = IF count["redis"].left = 0 THEN 0 ELSE Window
    BY LimitFacts DEF Never, CounterTypes
  <1>. HIDE DEF c
  <1>3. count'["redis"] = c /\ count'["memory"] = count["memory"] /\ count' \in [Stores -> CounterTypes]
    BY <1>1, <1>2, LimitFacts DEF Stores
  <1>. QED
    BY <1>2, <1>3 DEF CountInv, Stores

LEMMA CountingMemory ==
    ASSUME LimitsTypeOK, CountInv, IncrMemory
    PROVE  /\ count'["memory"].n = More(count["memory"].n)
           /\ count'["memory"].left = IF count["memory"].n = 0 THEN Window ELSE count["memory"].left
           /\ count'["redis"] = count["redis"]
           /\ count' \in [Stores -> CounterTypes] /\ CountInv'
  <1>. DEFINE c == [n |-> More(count["memory"].n),
                    left |-> IF count["memory"].n = 0 THEN Window ELSE count["memory"].left]
  <1>1. count' = [count EXCEPT !["memory"] = c]
    BY DEF IncrMemory
  <1>2. c \in CounterTypes /\ c.n # 0 /\ c.left # 0 /\ c.left <= Window
    BY LimitFacts, Numbers DEF Never, CountInv, CounterTypes
  <1>3. c.n = More(count["memory"].n) /\ c.left = IF count["memory"].n = 0 THEN Window ELSE count["memory"].left
    OBVIOUS
  <1>. HIDE DEF c
  <1>4. count'["memory"] = c /\ count'["redis"] = count["redis"] /\ count' \in [Stores -> CounterTypes]
    BY <1>1, <1>2, LimitFacts DEF Stores
  <1>. QED
    BY <1>2, <1>3, <1>4 DEF CountInv, Stores

(* A tick off a counter.                                                     *)
LEMMA CounterAges ==
    ASSUME NEW c \in CounterTypes, c.n = 0 <=> c.left = 0
    PROVE  /\ AgedCount(c) \in CounterTypes /\ (AgedCount(c).n = 0 <=> AgedCount(c).left = 0)
           /\ AgedCount(c).left <= c.left
           /\ c.left = 0 \/ c.left = Never => AgedCount(c) = c
           /\ c.left = 1 => AgedCount(c) = NoCount
           /\ c.left \in 2..Window => AgedCount(c).n = c.n /\ AgedCount(c).left = c.left - 1
  BY DEF AgedCount, CounterTypes, NoCount, Never

------------------------------------------------------------------------------
(* Each step of a request gives it a task.                                   *)
LEMMA Turns ==
    ASSUME LimitsTypeOK, NEW r \in Reqs
    PROVE  /\ \A x : Start(r, x) => req[r] = Idle /\ req' = [req EXCEPT ![r] = x]
           /\ \A x : Become(r, x) => req' = [req EXCEPT ![r] = x]
           /\ Finish(r) => req' = [req EXCEPT ![r] = Idle]
           /\ \A x \in LimitTasks \cup {Idle} :
                req' = [req EXCEPT ![r] = x] => req' \in [Reqs -> LimitTasks \cup {Idle}]
  BY DEF LimitsTypeOK, Start, Become, Finish

LEMMA LimitsTypeStep ==
    ASSUME LimitsTypeOK, CountInv, [LimitsNext]_<<req, cacheVars, limitHistory>>
    PROVE  LimitsTypeOK' /\ CountInv'
  <1>. USE LimitFacts
  <1>0. /\ up \in BOOLEAN /\ faltered \in BOOLEAN /\ emptied \in BOOLEAN /\ unbounded \in BOOLEAN
        /\ arrived \in 0..MaxArrivals
    BY DEF LimitsTypeOK
  <1>z. ASSUME /\ up' \in BOOLEAN /\ faltered' \in BOOLEAN /\ emptied' \in BOOLEAN /\ unbounded' \in BOOLEAN
               /\ arrived' \in 0..MaxArrivals
               /\ count' \in [Stores -> CounterTypes] /\ CountInv'
               /\ recent' \in [Stores -> [Ages -> Nat]]
               /\ req' \in [Reqs -> LimitTasks \cup {Idle}]
        PROVE  LimitsTypeOK' /\ CountInv'
    BY <1>z DEF LimitsTypeOK, CounterTypes, Ages
  (* A step of one request that leaves the counters alone.                   *)
  <1>a. ASSUME NEW r \in Reqs, NEW x \in LimitTasks \cup {Idle}, req' = [req EXCEPT ![r] = x],
               UNCHANGED <<up, count>>, faltered' = faltered, emptied' = emptied, unbounded' \in BOOLEAN,
               arrived' \in 0..MaxArrivals, recent' \in [Stores -> [Ages -> Nat]]
        PROVE  LimitsTypeOK' /\ CountInv'
    BY <1>0, <1>a, <1>z, Turns DEF CountInv
  <1>1. CASE LimitsTick
    <2>1. count' = [s \in Stores |-> AgedCount(count[s])] /\ recent' = [s \in Stores |-> Older(recent[s])]
          /\ UNCHANGED <<req, up, faltered, emptied, unbounded>> /\ arrived' = 0
      BY <1>1 DEF LimitsTick, Tick
    <2>2. \A s \in Stores : AgedCount(count[s]) \in CounterTypes
      BY CounterAges DEF CountInv
    <2>3. \A s \in Stores : Older(recent[s]) \in [Ages -> Nat]
      BY 1 \in 1..Window, TotalsAge
    <2>4. CountInv'
      BY <2>1, <2>2, CounterAges DEF CountInv, CounterTypes, Never
    <2>. QED
      BY <1>0, <1>z, <2>1, <2>2, <2>3, <2>4
  <1>2. CASE LimitsFault
    <2>1. UNCHANGED <<arrived, recent, faltered>> /\ up' \in BOOLEAN /\ emptied' \in BOOLEAN /\ unbounded' \in BOOLEAN
      BY <1>0, <1>2 DEF LimitsFault, limitHistory, Outage, Return, Restart, Flush, Crash
    <2>2. req' \in [Reqs -> LimitTasks \cup {Idle}]
      BY <1>2 DEF LimitsFault, Outage, Return, Restart, Flush, Crash
    <2>3. \A s \in Stores : count'[s] = count[s] \/ count'[s] = NoCount
      BY <1>2 DEF LimitsFault, Outage, Return, Restart, Flush, Crash
    <2>4. count' \in [Stores -> CounterTypes]
      <3>1. NoCount \in CounterTypes
        BY DEF NoCount, CounterTypes, Never
      <3>2. DOMAIN count' = Stores /\ count' = [s \in Stores |-> count'[s]]
        BY <1>2 DEF LimitsFault, Outage, Return, Restart, Flush, Crash
      <3>. QED
        BY <2>3, <3>1, <3>2
    <2>5. CountInv'
      <3>1. NoCount.n = 0 /\ NoCount.left = 0
        BY DEF NoCount
      <3>2. \A s \in Stores : count'[s].n = 0 <=> count'[s].left = 0
        BY <2>3, <3>1 DEF CountInv
      <3>3. count'["memory"].left <= Window
        BY <2>3, <3>1 DEF CountInv
      <3>. QED
        BY <3>2, <3>3 DEF CountInv
    <2>. QED
      BY <1>0, <1>z, <2>1, <2>2, <2>4, <2>5
  <1>3. ASSUME NEW r \in Reqs, Arrive(r) PROVE LimitsTypeOK' /\ CountInv'
    <2>1. req' = [req EXCEPT ![r] = [pc |-> "count"]] /\ arrived' = arrived + 1 /\ arrived < MaxArrivals
          /\ UNCHANGED <<up, count, recent, faltered, emptied, unbounded>>
      BY <1>3, Turns DEF Arrive, cacheVars
    <2>2. [pc |-> "count"] \in LimitTasks \cup {Idle} /\ arrived' \in 0..MaxArrivals
      BY <1>0, <2>1, LimitTasksAre
    <2>3. unbounded' \in BOOLEAN /\ recent' \in [Stores -> [Ages -> Nat]]
      BY <1>0, <2>1
    <2>. QED
      BY <1>a, <2>1, <2>2, <2>3
  <1>4. ASSUME NEW r \in Reqs, CountRedis(r) PROVE LimitsTypeOK' /\ CountInv'
    <2>1. IncrRedis /\ UNCHANGED <<up, recent, faltered, emptied, arrived>> /\ unbounded' \in BOOLEAN
      BY <1>0, <1>4 DEF CountRedis
    <2>2. \E x \in LimitTasks : req' = [req EXCEPT ![r] = x]
      BY <1>4, Turns, LimitTasksAre, Numbers DEF CountRedis
    <2>. QED
      BY <1>0, <1>z, <2>1, <2>2, CountingRedis, Turns
  <1>5. ASSUME NEW r \in Reqs, CountElsewhere(r) \/ ExpireLost(r) \/ AskTtl(r) PROVE LimitsTypeOK' /\ CountInv'
    <2>1. \E x \in LimitTasks : req' = [req EXCEPT ![r] = x]
      BY <1>5, Turns, LimitTasksAre, LimitTaskFields DEF CountElsewhere, ExpireLost, AskTtl, At
    <2>2. UNCHANGED <<up, count, recent, faltered, emptied, arrived>> /\ unbounded' \in BOOLEAN
      BY <1>0, <1>5 DEF CountElsewhere, ExpireLost, AskTtl, cacheVars, limitHistory
    <2>. QED
      BY <1>0, <1>a, <2>1, <2>2
  <1>6. ASSUME NEW r \in Reqs, ExpireSet(r) PROVE LimitsTypeOK' /\ CountInv'
    <2>1. ExpireRedis /\ UNCHANGED <<up, recent, faltered, emptied, unbounded, arrived>>
      BY <1>6 DEF ExpireSet, limitHistory
    <2>2. \E x \in LimitTasks : req' = [req EXCEPT ![r] = x]
      BY <1>6, Turns, LimitTasksAre DEF ExpireSet
    <2>. QED
      BY <1>0, <1>z, <2>1, <2>2, ExpiringRedis, Turns
  <1>7. ASSUME NEW r \in Reqs, CountMemory(r) PROVE LimitsTypeOK' /\ CountInv'
    <2>1. IncrMemory /\ UNCHANGED <<up, recent, emptied, unbounded, arrived>> /\ faltered' = TRUE
      BY <1>7 DEF CountMemory
    <2>2. \E x \in LimitTasks : req' = [req EXCEPT ![r] = x]
      BY <1>7, Turns, LimitTasksAre, Numbers DEF CountMemory
    <2>. QED
      BY <1>0, <1>z, <2>1, <2>2, CountingMemory, Turns
  <1>8. ASSUME NEW r \in Reqs, Decide(r) PROVE LimitsTypeOK' /\ CountInv'
    <2>1. UNCHANGED <<up, count, faltered, emptied, unbounded, arrived>> /\ req' = [req EXCEPT ![r] = Idle]
      BY <1>8, Turns DEF Decide, cacheVars
    <2>2. req[r].by \in Stores
      BY <1>8, LimitTaskFields DEF Decide, At
    <2>3. recent' = recent \/ recent' = [recent EXCEPT ![req[r].by] = [recent[req[r].by] EXCEPT ![0] = @ + 1]]
      BY <1>8 DEF Decide
    <2>4. [recent[req[r].by] EXCEPT ![0] = @ + 1] \in [Ages -> Nat]
      BY <2>2
    <2>5. recent' \in [Stores -> [Ages -> Nat]]
      BY <2>2, <2>3, <2>4
    <2>. QED
      BY <1>0, <1>a, <2>1, <2>5
  <1>9. CASE UNCHANGED <<req, cacheVars, limitHistory>>
    BY <1>0, <1>9, <1>z DEF cacheVars, limitHistory, CountInv
  <1>. QED
    BY <1>1, <1>2, <1>3, <1>4, <1>5, <1>6, <1>7, <1>8, <1>9 DEF LimitsNext, LimitsStep

(* Types of the counters, the admissions and the requests.                   *)
THEOREM LimitsTypeCorrect == LimitsSpec => []LimitsTypeOK
  BY LimitsTypeBegins, LimitsTypeStep, PTL DEF LimitsSpec

------------------------------------------------------------------------------
(* Requests that hold a number of counter s that lets them through.          *)
Holding(x, s) ==
    \/ x.pc = "decide" /\ x.by = s /\ x.n <= Limit
    \/ s = "redis" /\ (x.pc = "expire" \/ (x.pc = "ttl" /\ x.n <= Limit))
Through(s) == {r \in Reqs : Holding(req[r], s)}

LEMMA ThroughMoves ==
    ASSUME LimitsTypeOK, NEW r \in Reqs, NEW x, req' = [req EXCEPT ![r] = x], NEW s \in Stores
    PROVE  /\ Cardinality(Through(s)) \in Nat
           /\ Cardinality(Through(s))' = Cardinality(Through(s))
                    + ((IF Holding(x, s) THEN 1 ELSE 0) - (IF Holding(req[r], s) THEN 1 ELSE 0))
  <1>1. IsFiniteSet(Through(s)) /\ Cardinality(Through(s)) \in Nat
    BY FinitePool, FS_Subset, FS_CardinalityType DEF Through
  <1>2. r \in Through(s) <=> Holding(req[r], s)
    BY DEF Through
  <1>3. \A q \in Reqs : Holding(req'[q], s) <=> IF q = r THEN Holding(x, s) ELSE Holding(req[q], s)
    BY LimitFacts
  <1>4. Through(s)' = IF Holding(x, s) THEN Through(s) \cup {r} ELSE Through(s) \ {r}
    BY <1>3 DEF Through
  <1>5. CASE Holding(x, s)
    <2>1. Cardinality(Through(s))' = IF r \in Through(s) THEN Cardinality(Through(s)) ELSE Cardinality(Through(s)) + 1
      BY <1>1, <1>4, <1>5, FS_AddElement
    <2>. QED
      BY <1>1, <1>2, <1>5, <2>1
  <1>6. CASE ~Holding(x, s)
    <2>1. Cardinality(Through(s))' = IF r \in Through(s) THEN Cardinality(Through(s)) - 1 ELSE Cardinality(Through(s))
      BY <1>1, <1>4, <1>6, FS_RemoveElement
    <2>. QED
      BY <1>1, <1>2, <1>6, <2>1
  <1>. QED
    BY <1>5, <1>6

(* The admissions of the last window on counter s split at an age k: those of *)
(* the counter's present window, with those still to come, are at most what   *)
(* it has counted and the limit; those of the windows before are at most the  *)
(* limit.  While the counter has an end, k follows from it.                   *)
Cap(n) == IF n < Limit THEN n ELSE Limit
SplitAt(s, k) ==
    /\ Totals(recent[s])[k] + Cardinality(Through(s)) <= Cap(count[s].n)
    /\ Totals(recent[s])[Window] - Totals(recent[s])[k] <= Limit
    /\ count[s].left \in 1..Window => k = Window - count[s].left + 1
    /\ count[s].n = 0 => k = 1
    /\ s = "redis" /\ (\E r \in Reqs : req[r].pc = "expire") => k = 1

RateInv == ~emptied => \A s \in Stores : \E k \in 1..Window : SplitAt(s, k)

(* Without a fallback nothing is admitted on the counter in memory.          *)
FallbackInv == ~faltered => /\ Admitted("memory") = 0
                            /\ \A r \in Reqs : req[r].pc = "decide" => req[r].by # "memory"

LEMMA RateBegins == HandlersInit /\ CacheInit /\ LimitsInit => RateInv /\ FallbackInv
  <1>. SUFFICES ASSUME HandlersInit, CacheInit, LimitsInit PROVE RateInv /\ FallbackInv
    OBVIOUS
  <1>. DEFINE none == [a \in Ages |-> 0]
              N == {n \in Nat : n <= Window => Totals(none)[n] = 0}
  <1>1. none \in [Ages -> Nat] /\ SumsTo(Window, none, Totals(none)) /\ \A a \in Ages : none[a] = 0
    BY TotalsSum
  <1>. HIDE DEF none
  <1>2. \A n \in 0..Window : Totals(none)[n] = 0
    <2>1. 0 \in N
      BY <1>1 DEF SumsTo
    <2>2. ASSUME NEW n \in Nat, n \in N PROVE n + 1 \in N
      <3>. SUFFICES ASSUME n + 1 <= Window PROVE Totals(none)[n + 1] = 0
        OBVIOUS
      <3>1. Totals(none)[n + 1] = Totals(none)[n] + none[n] /\ none[n] = 0
        BY <1>1 DEF SumsTo, Ages
      <3>. QED
        BY <2>2, <3>1
    <2>. HIDE DEF N
    <2>3. Nat \subseteq N
      BY <2>1, <2>2, AllNumbers
    <2>. QED
      BY <2>3 DEF N
  <1>3. \A s \in Stores : recent[s] = none
    BY DEF LimitsInit, Ages, none
  <1>4. \A s \in Stores : count[s].n = 0 /\ count[s].left = 0
    BY DEF CacheInit, NoCount
  <1>5. \A r \in Reqs : req[r].pc = "idle"
    BY DEF HandlersInit, Idle
  <1>6. \A s \in Stores : Through(s) = {}
    BY <1>5 DEF Through, Holding
  <1>7. ASSUME NEW s \in Stores PROVE SplitAt(s, 1)
    <2>1. Totals(recent[s])[1] = 0 /\ Totals(recent[s])[Window] = 0 /\ Cardinality(Through(s)) = 0
      BY <1>2, <1>3, <1>6, FS_EmptySet
    <2>. QED
      BY <1>4, <1>5, <2>1 DEF SplitAt, Cap
  <1>8. Admitted("memory") = 0
    BY <1>2, <1>3 DEF Admitted, Stores
  <1>. QED
    BY <1>5, <1>7, <1>8 DEF RateInv, FallbackInv

(* A step of request r that admits nothing: the number it takes up or gives   *)
(* away is within what the counter has counted.                               *)
LEMMA SplitKept ==
    ASSUME LimitsTypeOK, NEW r \in Reqs, NEW x, req' = [req EXCEPT ![r] = x], recent' = recent,
           NEW s \in Stores, NEW k \in 1..Window, SplitAt(s, k), count'[s].n \in Nat,
           (IF Holding(x, s) THEN 1 ELSE 0) - (IF Holding(req[r], s) THEN 1 ELSE 0)
              <= Cap(count'[s].n) - Cap(count[s].n),
           count'[s].n = 0 => count[s].n = 0,
           count'[s].left \in 1..Window => count'[s].left = count[s].left \/ (count'[s].left = Window /\ k = 1),
           s = "redis" /\ x.pc = "expire" => k = 1
    PROVE  SplitAt(s, k)'
  <1>1. Totals(recent[s])[k] \in Nat /\ Totals(recent[s])' = Totals(recent[s])
    BY LimitFacts, TotalsGrow
  <1>2. Totals(recent[s])[k] + Cardinality(Through(s))' <= Cap(count'[s].n)
    <2>1. Totals(recent[s])[k] + Cardinality(Through(s)) <= Cap(count[s].n)
      BY DEF SplitAt
    <2>2. Cap(count[s].n) \in Nat /\ Cap(count'[s].n) \in Nat
      BY LimitFacts DEF Cap
    <2>. DEFINE gain == (IF Holding(x, s) THEN 1 ELSE 0) - (IF Holding(req[r], s) THEN 1 ELSE 0)
    <2>3. Cardinality(Through(s)) \in Nat /\ Cardinality(Through(s))' = Cardinality(Through(s)) + gain
      BY ThroughMoves
    <2>4. gain \in Int /\ gain <= Cap(count'[s].n) - Cap(count[s].n)
      OBVIOUS
    <2>. HIDE DEF gain
    <2>. QED
      BY <1>1, <2>1, <2>2, <2>3, <2>4
  <1>3. count'[s].left \in 1..Window => k = Window - count'[s].left + 1
    BY DEF SplitAt
  <1>4. s = "redis" /\ (\E q \in Reqs : req'[q].pc = "expire") => k = 1
    BY LimitFacts DEF SplitAt
  <1>. QED
    BY <1>1, <1>2, <1>3, <1>4 DEF SplitAt

(* An admission moves from those to come to those of now.                    *)
LEMMA SplitAdmits ==
    ASSUME LimitsTypeOK, NEW r \in Reqs, req' = [req EXCEPT ![r] = Idle], count' = count,
           NEW s \in Stores, NEW k \in 1..Window, SplitAt(s, k), Holding(req[r], s),
           recent'[s] = [recent[s] EXCEPT ![0] = @ + 1]
    PROVE  SplitAt(s, k)'
  <1>1. ~Holding(Idle, s)
    BY DEF Holding, Idle
  <1>2. Cardinality(Through(s)) \in Nat /\ Cardinality(Through(s))' = Cardinality(Through(s)) - 1
    <2>1. Cardinality(Through(s)) \in Nat
          /\ Cardinality(Through(s))' = Cardinality(Through(s))
                    + ((IF Holding(Idle, s) THEN 1 ELSE 0) - (IF Holding(req[r], s) THEN 1 ELSE 0))
      BY ThroughMoves
    <2>. QED
      BY <1>1, <2>1
  <1>3. /\ Totals(recent'[s])[k] = Totals(recent[s])[k] + 1
        /\ Totals(recent'[s])[Window] = Totals(recent[s])[Window] + 1
    <2>1. recent[s] \in [Ages -> Nat] /\ Window \in 1..Window
      BY LimitFacts
    <2>. QED
      BY <2>1, TotalsAdd
  <1>4. Totals(recent[s])[k] \in Nat /\ Totals(recent[s])[Window] \in Nat
    BY LimitFacts, TotalsGrow
  <1>5. \A q \in Reqs : req'[q].pc = "expire" => req[q].pc = "expire"
    BY LimitFacts DEF Idle
  <1>6. Cap(count[s].n) \in Nat
    BY LimitFacts DEF Cap
  <1>. QED
    BY <1>2, <1>3, <1>4, <1>5, <1>6 DEF SplitAt

(* A tick: those of the present window are a tick older; a window that ends   *)
(* becomes the one before.                                                    *)
LEMMA SplitAges ==
    ASSUME LimitsTypeOK, CountInv, LimitsTick, NEW s \in Stores, NEW k \in 1..Window, SplitAt(s, k)
    PROVE  \E j \in 1..Window : SplitAt(s, j)'
  <1>1. /\ count'[s] = AgedCount(count[s]) /\ recent'[s] = Older(recent[s]) /\ req' = req
        /\ \A r \in Reqs : req[r].pc = "idle"
    BY DEF LimitsTick, Tick, Idle
  <1>2. Through(s) = {} /\ Through(s)' = {}
    BY <1>1 DEF Through, Holding
  <1>3. Cardinality(Through(s)) = 0 /\ Cardinality(Through(s)') = 0
    BY <1>2, FS_EmptySet
  <1>. DEFINE old == Totals(recent[s])
              new == Totals(recent'[s])
  <1>4. \A j \in 0..Window : old[j] \in Nat /\ old[j] <= old[Window]
    BY LimitFacts, TotalsGrow
  <1>5. \A j \in 1..Window : new[j] = old[j - 1]
    BY <1>1, LimitFacts, TotalsAge
  <1>6. /\ old[k] <= Cap(count[s].n) /\ old[Window] - old[k] <= Limit
        /\ count[s].left \in 1..Window => k = Window - count[s].left + 1
        /\ count[s].n = 0 => k = 1
    <2>1. old[k] \in Nat
      BY <1>4
    <2>. QED
      BY <1>3, <2>1 DEF SplitAt
  <1>7. /\ count[s] \in CounterTypes /\ count[s].n \in Nat /\ count[s].left \in 0..Never
        /\ count[s].n = 0 <=> count[s].left = 0
    BY LimitFacts DEF CountInv
  <1>8. old[0] = 0
    BY LimitFacts, TotalsSum DEF SumsTo
  <1>. HIDE DEF old, new
  <1>9. ASSUME NEW j \in 1..Window,
               new[j] <= Cap(count'[s].n), new[Window] - new[j] <= Limit,
               count'[s].left \in 1..Window => j = Window - count'[s].left + 1,
               count'[s].n = 0 => j = 1
        PROVE  SplitAt(s, j)'
    <2>1. new[j] \in Nat
      BY <1>4, <1>5
    <2>2. \A r \in Reqs : req'[r].pc # "expire"
      BY <1>1
    <2>3. new[j] + Cardinality(Through(s)') <= Cap(count'[s].n)
      BY <1>3, <1>9, <2>1
    <2>. QED
      BY <1>9, <2>2, <2>3 DEF SplitAt, new
  <1>10. new[Window] = old[Window - 1] /\ old[Window - 1] \in Nat /\ old[Window - 1] <= old[Window]
    BY <1>4, <1>5
  <1>11. old[k] \in Nat /\ old[Window] \in Nat /\ Cap(count[s].n) \in Nat /\ Cap(count[s].n) <= Limit
    BY <1>4, <1>7 DEF Cap
  <1>12. CASE k < Window /\ count[s].left # 0 /\ count[s].left # 1
    <2>1. count'[s].n = count[s].n /\ count[s].n # 0
          /\ (count'[s].left \in 1..Window => count[s].left \in 1..Window /\ count'[s].left = count[s].left - 1)
      BY <1>1, <1>7, <1>12, CounterAges DEF Never
    <2>2. k + 1 \in 1..Window /\ new[k + 1] = old[k]
      BY <1>5, <1>12
    <2>3. count'[s].left \in 1..Window => k + 1 = Window - count'[s].left + 1
      BY <1>6, <1>7, <2>1
    <2>4. SplitAt(s, k + 1)'
      BY <1>6, <1>9, <1>10, <1>11, <2>1, <2>2, <2>3
    <2>. QED
      BY <2>2, <2>4
  <1>13. CASE k = Window /\ count[s].left # 0 /\ count[s].left # 1
    <2>1. count'[s].n = count[s].n /\ count[s].n # 0 /\ count'[s].left \notin 1..Window
      BY <1>1, <1>6, <1>7, <1>13, CounterAges DEF Never
    <2>2. SplitAt(s, Window)'
      BY <1>6, <1>9, <1>10, <1>11, <1>13, <2>1
    <2>. QED
      BY <2>2
  <1>14. CASE count[s].left \in {0, 1}
    <2>1. count'[s].n = 0 /\ count'[s].left = 0
      BY <1>1, <1>7, <1>14, CounterAges DEF NoCount
    <2>2. old[Window - 1] <= Limit
      <3>1. CASE count[s].left = 0
        <4>1. k = 1 /\ old[k] <= 0
          BY <1>6, <1>7, <3>1 DEF Cap
        <4>. QED
          BY <1>6, <1>10, <1>11, <4>1
      <3>2. CASE count[s].left = 1
        BY <1>6, <1>10, <1>11, <3>2
      <3>. QED
        BY <1>14, <3>1, <3>2
    <2>3. new[1] = 0
      BY <1>5, <1>8
    <2>4. SplitAt(s, 1)'
      BY <1>9, <1>10, <2>1, <2>2, <2>3 DEF Cap
    <2>. QED
      BY <2>4
  <1>. QED
    BY <1>7, <1>12, <1>13, <1>14

LEMMA RateStep ==
    ASSUME LimitsTypeOK, CountInv, RateInv, [LimitsNext]_<<req, cacheVars, limitHistory>>
    PROVE  RateInv'
  <1>. SUFFICES ASSUME ~emptied', NEW s \in Stores PROVE \E k \in 1..Window : SplitAt(s, k)'
    BY DEF RateInv
  <1>0. /\ \A c \in Stores : count[c].n \in Nat /\ count[c].left \in 0..Never /\ (count[c].n = 0 <=> count[c].left = 0)
        /\ Stores = {"redis", "memory"}
    BY LimitFacts DEF CountInv, Stores
  <1>k. ASSUME ~emptied PROVE \E k \in 1..Window : SplitAt(s, k)
    BY <1>k DEF RateInv
  <1>m. \A m, n \in Nat : m <= n => Cap(m) <= Cap(n) /\ Cap(m) \in Nat
    BY DEF Cap
  (* A step of one request that leaves the counters and the admissions alone *)
  (* and takes up no number.                                                 *)
  <1>a. ASSUME NEW r \in Reqs, NEW x, req' = [req EXCEPT ![r] = x], ~emptied,
               UNCHANGED <<count, recent>>, x.pc # "expire", Holding(x, s) => Holding(req[r], s)
        PROVE  \E k \in 1..Window : SplitAt(s, k)'
    <2>1. PICK k \in 1..Window : SplitAt(s, k)
      BY <1>a, <1>k
    <2>2. count'[s].n \in Nat /\ Cap(count'[s].n) - Cap(count[s].n) = 0
      BY <1>0, <1>a, <1>m
    <2>3. (IF Holding(x, s) THEN 1 ELSE 0) - (IF Holding(req[r], s) THEN 1 ELSE 0) <= 0
      BY <1>a
    <2>4. SplitAt(s, k)'
      BY <1>a, <2>1, <2>2, <2>3, SplitKept
    <2>. QED
      BY <2>4
  <1>1. CASE LimitsTick
    <2>1. ~emptied
      BY <1>1 DEF LimitsTick
    <2>. QED
      BY <1>1, <1>k, <2>1, SplitAges
  <1>2. CASE LimitsFault
    <2>1. UNCHANGED <<req, count, recent, emptied>>
      BY <1>2 DEF LimitsFault, Outage, Return, limitHistory
    <2>. QED
      BY <1>k, <2>1 DEF SplitAt, Through
  <1>3. ASSUME NEW r \in Reqs, Arrive(r) PROVE \E k \in 1..Window : SplitAt(s, k)'
    <2>. DEFINE x == [pc |-> "count"]
    <2>1. req' = [req EXCEPT ![r] = x] /\ UNCHANGED <<count, recent, emptied>>
      BY <1>3, Turns DEF Arrive, cacheVars
    <2>2. x.pc # "expire" /\ ~Holding(x, s)
      BY DEF Holding
    <2>. QED
      BY <1>a, <2>1, <2>2
  <1>4. ASSUME NEW r \in Reqs, CountRedis(r) PROVE \E k \in 1..Window : SplitAt(s, k)'
    <2>. DEFINE n == More(count["redis"].n)
    <2>0. n \in Nat /\ n # 0 /\ (n = 1 => count["redis"].n = 0) /\ (n <= Limit => n = count["redis"].n + 1)
          /\ Cap(count["redis"].n) <= Cap(n) /\ (n <= Limit => Cap(n) = Cap(count["redis"].n) + 1)
      BY <1>0, Numbers DEF Cap, More
    <2>1. IncrRedis /\ UNCHANGED <<recent, emptied>> /\ req[r].pc = "count"
      BY <1>4 DEF CountRedis, At
    <2>2. /\ count'["redis"].n = n
          /\ count'["redis"].left = IF count["redis"].n = 0 THEN Never ELSE count["redis"].left
          /\ count'["memory"] = count["memory"]
      BY <2>1, CountingRedis
    <2>3. PICK x : /\ req' = [req EXCEPT ![r] = x]
                   /\ x = [pc |-> "fallback"] \/ (n = 1 /\ x = [pc |-> "expire"]) \/ x = [pc |-> "ttl", n |-> n]
      BY <1>4, Turns DEF CountRedis, ExpireDue
    <2>4. /\ ~Holding(x, "memory") /\ (Holding(x, "redis") => n <= Limit) /\ (x.pc = "expire" => n = 1)
          /\ ~Holding(req[r], s)
      BY <2>1, <2>3 DEF Holding
    <2>5. PICK k \in 1..Window : SplitAt(s, k)
      BY <1>k, <2>1
    <2>. HIDE DEF n
    <2>6. CASE s = "memory"
      <3>1. Cap(count'[s].n) - Cap(count[s].n) = 0 /\ count'[s] = count[s]
        BY <1>0, <1>m, <2>2, <2>6
      <3>2. (IF Holding(x, s) THEN 1 ELSE 0) - (IF Holding(req[r], s) THEN 1 ELSE 0)
              <= Cap(count'[s].n) - Cap(count[s].n)
        BY <2>4, <2>6, <3>1
      <3>4. count'[s].n \in Nat /\ count'[s].left = count[s].left /\ ~(s = "redis" /\ x.pc = "expire")
        BY <1>0, <2>4, <2>6, <3>1
      <3>3. SplitAt(s, k)'
        BY <2>1, <2>3, <2>5, <3>1, <3>2, <3>4, SplitKept
      <3>. QED
        BY <3>3
    <2>7. CASE s = "redis"
      <3>1. (IF Holding(x, s) THEN 1 ELSE 0) - (IF Holding(req[r], s) THEN 1 ELSE 0) <= Cap(n) - Cap(count[s].n)
        <4>1. Cap(n) \in Nat /\ Cap(count[s].n) \in Nat
          BY <1>0, <1>m, <2>0
        <4>. QED
          BY <2>0, <2>4, <2>7, <4>1
      <3>2. count'[s].left \in 1..Window => count'[s].left = count[s].left
        BY <1>0, <2>2, <2>7 DEF Never
      <3>3. x.pc = "expire" => k = 1
        BY <2>0, <2>4, <2>5, <2>7 DEF SplitAt
      <3>4. SplitAt(s, k)'
        BY <2>0, <2>1, <2>2, <2>3, <2>5, <2>7, <3>1, <3>2, <3>3, SplitKept
      <3>. QED
        BY <3>4
    <2>. QED
      BY <1>0, <2>6, <2>7
  <1>5. ASSUME NEW r \in Reqs, CountElsewhere(r) \/ ExpireLost(r) \/ AskTtl(r)
        PROVE  \E k \in 1..Window : SplitAt(s, k)'
    <2>1. UNCHANGED <<count, recent, emptied>>
      BY <1>5 DEF CountElsewhere, ExpireLost, AskTtl, cacheVars, limitHistory
    <2>2. PICK x : /\ req' = [req EXCEPT ![r] = x]
                   /\ \/ x = [pc |-> "fallback"]
                      \/ req[r].pc = "ttl" /\ x = [pc |-> "decide", n |-> req[r].n, by |-> "redis"]
      BY <1>5, Turns DEF CountElsewhere, ExpireLost, AskTtl, At
    <2>3. x.pc # "expire" /\ (Holding(x, s) => Holding(req[r], s))
      BY <2>2 DEF Holding
    <2>. QED
      BY <1>a, <2>1, <2>2, <2>3
  <1>6. ASSUME NEW r \in Reqs, ExpireSet(r) PROVE \E k \in 1..Window : SplitAt(s, k)'
    <2>1. ExpireRedis /\ UNCHANGED <<recent, emptied>> /\ req[r].pc = "expire"
      BY <1>6 DEF ExpireSet, limitHistory, At
    <2>2. /\ count'["redis"].n = count["redis"].n
          /\ count'["redis"].left = IF count["redis"].left = 0 THEN 0 ELSE Window
          /\ count'["memory"] = count["memory"]
      BY <2>1, ExpiringRedis
    <2>3. PICK x : /\ req' = [req EXCEPT ![r] = x]
                   /\ x = [pc |-> "fallback"] \/ x = [pc |-> "ttl", n |-> 1]
      BY <1>6, Turns DEF ExpireSet
    <2>4. x.pc # "expire" /\ (Holding(x, s) => Holding(req[r], s))
      BY <2>1, <2>3 DEF Holding
    <2>5. PICK k \in 1..Window : SplitAt(s, k)
      BY <1>k, <2>1
    <2>6. count'[s].n = count[s].n /\ Cap(count'[s].n) - Cap(count[s].n) = 0
      BY <1>0, <1>m, <2>2
    <2>7. count'[s].left \in 1..Window => count'[s].left = count[s].left \/ (count'[s].left = Window /\ k = 1)
      BY <1>0, <2>1, <2>2, <2>5 DEF SplitAt
    <2>8. (IF Holding(x, s) THEN 1 ELSE 0) - (IF Holding(req[r], s) THEN 1 ELSE 0) <= 0
      BY <2>4
    <2>9. SplitAt(s, k)'
      BY <1>0, <2>1, <2>3, <2>4, <2>5, <2>6, <2>7, <2>8, SplitKept
    <2>. QED
      BY <2>9
  <1>7. ASSUME NEW r \in Reqs, CountMemory(r) PROVE \E k \in 1..Window : SplitAt(s, k)'
    <2>. DEFINE n == More(count["memory"].n)
    <2>0. n \in Nat /\ n # 0 /\ (n <= Limit => n = count["memory"].n + 1)
          /\ Cap(count["memory"].n) <= Cap(n) /\ (n <= Limit => Cap(n) = Cap(count["memory"].n) + 1)
      BY <1>0, Numbers DEF Cap, More
    <2>1. IncrMemory /\ UNCHANGED <<recent, emptied>> /\ req[r].pc = "fallback"
      BY <1>7 DEF CountMemory, At
    <2>2. /\ count'["memory"].n = n
          /\ count'["memory"].left = IF count["memory"].n = 0 THEN Window ELSE count["memory"].left
          /\ count'["redis"] = count["redis"]
      BY <2>1, CountingMemory
    <2>. DEFINE x == [pc |-> "decide", n |-> n, by |-> "memory"]
    <2>3. req' = [req EXCEPT ![r] = x]
      BY <1>7, Turns DEF CountMemory
    <2>4. ~Holding(x, "redis") /\ (Holding(x, "memory") => n <= Limit) /\ x.pc # "expire" /\ ~Holding(req[r], s)
      BY <2>1 DEF Holding
    <2>5. PICK k \in 1..Window : SplitAt(s, k)
      BY <1>k, <2>1
    <2>. HIDE DEF n, x
    <2>6. CASE s = "redis"
      <3>1. Cap(count'[s].n) - Cap(count[s].n) = 0 /\ count'[s] = count[s]
        BY <1>0, <1>m, <2>2, <2>6
      <3>2. (IF Holding(x, s) THEN 1 ELSE 0) - (IF Holding(req[r], s) THEN 1 ELSE 0)
              <= Cap(count'[s].n) - Cap(count[s].n)
        BY <2>4, <2>6, <3>1
      <3>4. count'[s].n \in Nat /\ count'[s].left = count[s].left /\ ~(s = "redis" /\ x.pc = "expire")
        BY <1>0, <2>4, <2>6, <3>1
      <3>3. SplitAt(s, k)'
        BY <2>1, <2>3, <2>5, <3>1, <3>2, <3>4, SplitKept
      <3>. QED
        BY <3>3
    <2>7. CASE s = "memory"
      <3>1. (IF Holding(x, s) THEN 1 ELSE 0) - (IF Holding(req[r], s) THEN 1 ELSE 0) <= Cap(n) - Cap(count[s].n)
        <4>1. Cap(n) \in Nat /\ Cap(count[s].n) \in Nat
          BY <1>0, <1>m, <2>0
        <4>. QED
          BY <2>0, <2>4, <2>7, <4>1
      <3>2. count[s].n = 0 => k = 1
        BY <2>5 DEF SplitAt
      <3>3. SplitAt(s, k)'
        BY <2>0, <2>1, <2>2, <2>3, <2>4, <2>5, <2>7, <3>1, <3>2, SplitKept
      <3>. QED
        BY <3>3
    <2>. QED
      BY <1>0, <2>6, <2>7
  <1>8. ASSUME NEW r \in Reqs, Decide(r) PROVE \E k \in 1..Window : SplitAt(s, k)'
    <2>1. UNCHANGED <<count, emptied>> /\ req' = [req EXCEPT ![r] = Idle] /\ req[r].pc = "decide"
      BY <1>8, Turns DEF Decide, cacheVars, At
    <2>2. req[r].by \in Stores /\ req[r].n \in Nat
      BY <2>1, LimitTaskFields
    <2>3. PICK k \in 1..Window : SplitAt(s, k)
      BY <1>k, <2>1
    <2>4. CASE req[r].by = s /\ req[r].n <= Limit
      <3>1. recent'[s] = [recent[s] EXCEPT ![0] = @ + 1]
        BY <1>8, <2>2, <2>4, LimitFacts DEF Decide, Refused
      <3>2. SplitAt(s, k)'
        BY <2>1, <2>3, <2>4, <3>1, SplitAdmits DEF Holding
      <3>. QED
        BY <3>2
    <2>5. CASE ~(req[r].by = s /\ req[r].n <= Limit)
      <3>1. recent'[s] = recent[s] /\ ~Holding(req[r], s) /\ ~Holding(Idle, s) /\ Idle.pc # "expire"
        BY <1>8, <2>1, <2>2, <2>5, LimitFacts DEF Decide, Refused, Holding, Idle
      <3>2. Cardinality(Through(s))' = Cardinality(Through(s))
        <4>1. Cardinality(Through(s)) \in Nat
              /\ Cardinality(Through(s))' = Cardinality(Through(s))
                    + ((IF Holding(Idle, s) THEN 1 ELSE 0) - (IF Holding(req[r], s) THEN 1 ELSE 0))
          BY <2>1, ThroughMoves
        <4>. QED
          BY <3>1, <4>1
      <3>3. \A q \in Reqs : req'[q].pc = "expire" => req[q].pc = "expire"
        BY <2>1, <3>1, LimitFacts
      <3>4. SplitAt(s, k)'
        BY <2>1, <2>3, <3>1, <3>2, <3>3 DEF SplitAt
      <3>. QED
        BY <3>4
    <2>. QED
      BY <2>4, <2>5
  <1>9. CASE UNCHANGED <<req, cacheVars, limitHistory>>
    <2>1. UNCHANGED <<req, count, recent, emptied>>
      BY <1>9 DEF cacheVars, limitHistory
    <2>. QED
      BY <1>k, <2>1 DEF SplitAt, Through
  <1>. QED
    BY <1>1, <1>2, <1>3, <1>4, <1>5, <1>6, <1>7, <1>8, <1>9 DEF LimitsNext, LimitsStep

LEMMA FallbackStep ==
    ASSUME LimitsTypeOK, FallbackInv, [LimitsNext]_<<req, cacheVars, limitHistory>>
    PROVE  FallbackInv'
  <1>. SUFFICES ASSUME ~faltered'
                PROVE  /\ Admitted("memory")' = 0
                       /\ \A r \in Reqs : req'[r].pc = "decide" => req'[r].by # "memory"
    BY DEF FallbackInv
  <1>1. ~faltered
    BY DEF LimitsNext, LimitsStep, LimitsTick, LimitsFault, Arrive, CountRedis, CountElsewhere, ExpireSet,
           ExpireLost, AskTtl, CountMemory, Decide, limitHistory
  <1>2. /\ Admitted("memory") = 0
        /\ \A r \in Reqs : req[r].pc = "decide" => req[r].by # "memory"
    BY <1>1 DEF FallbackInv
  <1>3. \A r \in Reqs : ~CountMemory(r)
    BY DEF CountMemory
  <1>4. ASSUME NEW r \in Reqs, req'[r] # req[r], req'[r].pc = "decide" PROVE req'[r].by = "redis"
    <2>1. PICK q \in Reqs : Arrive(q) \/ LimitsStep(q)
      BY <1>4 DEF LimitsNext, LimitsTick, Tick, LimitsFault, Outage, Return, Restart, Flush, Crash, Idle
    <2>2. req'[q].pc = "decide" => req'[q].by = "redis"
      BY <1>3, <2>1, Turns, LimitFacts
         DEF LimitsStep, Arrive, CountRedis, CountElsewhere, ExpireSet, ExpireLost, AskTtl, Decide, Idle
    <2>3. q = r
      BY <1>3, <1>4, <2>1, Turns, LimitFacts
         DEF LimitsStep, Arrive, CountRedis, CountElsewhere, ExpireSet, ExpireLost, AskTtl, Decide
    <2>. QED
      BY <1>4, <2>2, <2>3
  <1>5. Admitted("memory")' = 0
    <2>1. CASE UNCHANGED recent
      BY <1>2, <2>1 DEF Admitted
    <2>2. CASE LimitsTick
      <3>1. recent'["memory"] = Older(recent["memory"])
        BY <2>2, LimitFacts DEF LimitsTick
      <3>2. Totals(recent'["memory"])[Window] = Totals(recent["memory"])[Window - 1]
        BY <3>1, LimitFacts, TotalsAge
      <3>. QED
        BY <1>2, <3>2, LimitFacts, TotalsGrow DEF Admitted
    <2>3. ASSUME NEW r \in Reqs, Decide(r) PROVE Admitted("memory")' = 0
      <3>1. req[r].by \in Stores /\ req[r].by # "memory"
        BY <1>2, <2>3, LimitTaskFields DEF Decide, At
      <3>2. recent'["memory"] = recent["memory"]
        BY <2>3, <3>1, LimitFacts DEF Decide
      <3>. QED
        BY <1>2, <3>2 DEF Admitted
    <2>. QED
      BY <2>1, <2>2, <2>3 DEF LimitsNext, LimitsStep, LimitsFault, Arrive, CountRedis, CountElsewhere, ExpireSet,
           ExpireLost, AskTtl, CountMemory, limitHistory
  <1>. QED
    BY <1>2, <1>4, <1>5

LEMMA RateFollows == LimitsTypeOK /\ RateInv /\ FallbackInv => RateIsBounded
  <1>. SUFFICES ASSUME LimitsTypeOK, RateInv, FallbackInv, ~emptied PROVE RateIsBounded
    BY DEF RateIsBounded
  <1>1. ASSUME NEW s \in Stores PROVE Admitted(s) <= 2 * Limit /\ Admitted(s) \in Nat
    <2>1. PICK k \in 1..Window : SplitAt(s, k)
      BY DEF RateInv
    <2>2. Totals(recent[s])[k] \in Nat /\ Totals(recent[s])[Window] \in Nat
      BY LimitFacts, TotalsGrow
    <2>3. Cardinality(Through(s)) \in Nat
      BY FinitePool, FS_Subset, FS_CardinalityType DEF Through
    <2>4. Cap(count[s].n) <= Limit /\ Cap(count[s].n) \in Nat
      BY LimitFacts DEF Cap
    <2>. QED
      BY <2>1, <2>2, <2>3, <2>4 DEF SplitAt, Admitted
  <1>. QED
    BY <1>1 DEF RateIsBounded, FallbackInv, Stores

(* In any stretch of a window's length a client is admitted at most twice     *)
(* Limit, four times when the fallback has counted as well.                   *)
THEOREM RateIsBoundedHolds == LimitsSpec => []RateIsBounded
  BY LimitsTypeBegins, LimitsTypeStep, RateBegins, RateStep, FallbackStep, RateFollows, PTL DEF LimitsSpec

------------------------------------------------------------------------------
(* One specification for both: while one part moves, what the other promises  *)
(* is about variables that rest.                                              *)
SettingsHold == TypeInv /\ StaleCopyIsExplained /\ AgeInv /\ SaveInv /\ RateIsBounded
LimitsHold ==
    /\ LimitsTypeOK /\ CountInv /\ RateInv /\ FallbackInv
    /\ copy = [s \in Stores |-> None] /\ answered = {}
StoreInv == (part = "Settings" /\ SettingsHold) \/ (part = "Limits" /\ LimitsHold)

LEMMA NothingKept ==
    ASSUME LimitsHold, [LimitsNext]_<<req, cacheVars, limitHistory>>
    PROVE  copy' = [s \in Stores |-> None]
  <1>0. copy = [s \in Stores |-> None] /\ Stores = {"redis", "memory"}
    BY DEF LimitsHold, Stores
  <1>1. CASE LimitsTick
    BY <1>0, <1>1 DEF LimitsTick, Tick, AgedCopy
  <1>2. CASE LimitsFault
    <2>1. \A S : Drop(S) => copy' = [s \in Stores |-> None]
      BY <1>0 DEF Drop
    <2>2. Flush => copy' = [s \in Stores |-> None]
      BY <2>1 DEF Flush
    <2>. QED
      BY <1>0, <1>2, <2>2 DEF LimitsFault, Outage, Return, Restart, Crash
  <1>3. ASSUME NEW r \in Reqs, Arrive(r) \/ LimitsStep(r) PROVE copy' = copy
    BY <1>3 DEF Arrive, LimitsStep, CountRedis, CountElsewhere, ExpireSet, ExpireLost, AskTtl,
                CountMemory, Decide, cacheVars
  <1>4. CASE UNCHANGED <<req, cacheVars, limitHistory>>
    BY <1>0, <1>4 DEF cacheVars
  <1>. QED
    BY <1>0, <1>1, <1>2, <1>3, <1>4 DEF LimitsNext

LEMMA StoreBegins == StoreInit => StoreInv
  <1>. SUFFICES ASSUME StoreInit PROVE SettingsHold /\ LimitsHold
    BY DEF StoreInit, StoreInv
  <1>1. HandlersInit /\ CacheInit /\ SettingsInit /\ LimitsInit
    BY DEF StoreInit
  <1>2. TypeInv /\ LimitsTypeOK /\ CountInv /\ RateInv /\ FallbackInv
    BY <1>1, TypeBegins, LimitsTypeBegins, RateBegins
  <1>3. StaleCopyIsExplained /\ copy = [s \in Stores |-> None] /\ answered = {}
    BY <1>1 DEF CacheInit, StaleCopyIsExplained, SettingsInit
  <1>. QED
    BY <1>1, <1>2, <1>3, AgesBegin, SavesBegin, RateFollows DEF SettingsHold, LimitsHold

LEMMA StoreStep == StoreInv /\ [StoreNext]_storeVars => StoreInv'
  <1>. SUFFICES ASSUME StoreInv, [StoreNext]_storeVars PROVE StoreInv'
    OBVIOUS
  <1>0. part' = part
    BY DEF StoreNext, storeVars
  <1>1. CASE part = "Settings"
    <2>1. SettingsHold
      BY <1>1 DEF StoreInv
    <2>2. [SettingsNext]_<<req, cacheVars, settingsVars>> /\ UNCHANGED limitHistory
      BY <1>1 DEF StoreNext, storeVars
    <2>3. TypeInv' /\ StaleCopyIsExplained' /\ AgeInv' /\ SaveInv'
      BY <2>1, <2>2, TypeStep, StaleStep, AgeStep, SaveStep DEF SettingsHold
    <2>4. RateIsBounded'
      BY <2>1, <2>2 DEF SettingsHold, RateIsBounded, limitHistory, Admitted
    <2>. QED
      BY <1>0, <1>1, <2>3, <2>4 DEF StoreInv, SettingsHold
  <1>2. CASE part = "Limits"
    <2>1. LimitsHold
      BY <1>2 DEF StoreInv
    <2>2. [LimitsNext]_<<req, cacheVars, limitHistory>> /\ UNCHANGED settingsVars
      BY <1>2 DEF StoreNext, storeVars
    <2>3. LimitsTypeOK' /\ CountInv' /\ RateInv' /\ FallbackInv'
      BY <2>1, <2>2, LimitsTypeStep, RateStep, FallbackStep DEF LimitsHold
    <2>4. copy' = [s \in Stores |-> None] /\ answered' = {}
      BY <2>1, <2>2, NothingKept DEF LimitsHold, settingsVars, settingsHistory
    <2>. QED
      BY <1>0, <1>2, <2>3, <2>4 DEF StoreInv, LimitsHold
  <1>. QED
    BY <1>1, <1>2 DEF StoreInv

LEMMA StoreMeans ==
    StoreInv => /\ TypesOK /\ StaleCopyIsExplained /\ StalenessIsBounded
                /\ AnsweredSaveStands /\ RateIsBounded
  <1>1. CASE part = "Settings" /\ SettingsHold
    <2>1. TypeInv /\ StaleCopyIsExplained /\ AgeInv /\ SaveInv /\ RateIsBounded
      BY <1>1 DEF SettingsHold
    <2>. QED
      BY <1>1, <2>1, AgeMeans DEF TypesOK, TypeInv, SaveInv
  <1>2. CASE part = "Limits" /\ LimitsHold
    <2>1. LimitsTypeOK /\ RateInv /\ FallbackInv /\ (\A s \in Stores : copy[s] = None) /\ answered = {}
      BY <1>2 DEF LimitsHold
    <2>2. StaleCopyIsExplained /\ StalenessIsBounded /\ AnsweredSaveStands
      BY <2>1 DEF StaleCopyIsExplained, StalenessIsBounded, AnsweredSaveStands
    <2>. QED
      BY <1>2, <2>1, <2>2, RateFollows DEF TypesOK
  <1>. QED
    BY <1>1, <1>2 DEF StoreInv

(* The types of whichever part moves, in every behaviour that is explored.    *)
THEOREM StoreTypesCorrect == StoreSpec => []TypesOK
  BY StoreBegins, StoreStep, StoreMeans, PTL DEF StoreSpec

(* The promises of the parts hold under the specification the run explores,   *)
(* where each also meets the faults and the rests of the other.               *)
THEOREM StoreKeepsPromises ==
    StoreSpec => [](StaleCopyIsExplained /\ StalenessIsBounded /\ AnsweredSaveStands /\ RateIsBounded)
  BY StoreBegins, StoreStep, StoreMeans, PTL DEF StoreSpec
=============================================================================
