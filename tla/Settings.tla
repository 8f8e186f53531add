------------------------------- MODULE Settings -------------------------------
(* services/setting_service.py: the table of settings and the copy of the     *)
(* whole table that every reader goes through.  A value is the number of the  *)
(* save that stored it, 0 where no row exists; rows are never deleted.        *)
EXTENDS Cache

CONSTANTS
    Names,      \* keys of settings
    MaxSaves    \* bound: saves started

ASSUME SettingsAssumption == MaxSaves \in Nat

VARIABLES
    table,      \* the rows
    saves,      \* saves started
    since,      \* history: ticks since a key was stored, up to Ttl
    excused,    \* history: the copy in a store was read before, or not deleted after, a save
    ended,      \* history: saves that have ended, in whatever way
    answered    \* history: saves answered as successful, with what had ended before each

settingsHistory == <<since, excused, ended, answered>>
settingsVars == <<table, saves, settingsHistory>>

Tables == [Names -> 0..MaxSaves]
SettingsTasks ==
    [pc : {"select"}] \cup [pc : {"fill"}, rows : Tables]
    \cup [pc : {"seek"}, n : 1..MaxSaves, keys : SUBSET Names, all : SUBSET Names, before : SUBSET (0..MaxSaves)]
    \cup [pc : {"store", "drop"}, k : Names, found : BOOLEAN, n : 1..MaxSaves,
          keys : SUBSET Names, all : SUBSET Names, before : SUBSET (0..MaxSaves)]

SettingsInit ==
    /\ table \in [Names -> {0}] /\ saves = 0
    /\ since = [k \in Names |-> Ttl] /\ excused = [s \in Stores |-> FALSE]
    /\ ended = {0} /\ answered = {}

------------------------------------------------------------------------------
(* Mutant: serving a copy gives it its full life again.                      *)
RenewOnHit(s) == copy' = [copy EXCEPT ![s].left = Ttl]

ServeHit(s) == UNCHANGED copy

(* _load_all: the copy, or else the rows and a new copy of them.             *)
LoadGet(r) ==
    /\ \E s \in Sources :
          \/ copy[s] # None /\ req[r] = Idle /\ ServeHit(s) /\ UNCHANGED req
          \/ copy[s] = None /\ Start(r, [pc |-> "select"]) /\ UNCHANGED copy
    /\ UNCHANGED <<up, count, settingsVars>>

LoadSelect(r) ==
    /\ At(r, "select")
    /\ Become(r, [pc |-> "fill", rows |-> table])
    /\ UNCHANGED <<cacheVars, settingsVars>>

LoadFill(r) ==
    /\ At(r, "fill")
    /\ \E S \in Reached :
          /\ Put(req[r].rows, S)
          /\ excused' = [s \in Stores |-> IF s \in S THEN req[r].rows # table ELSE excused[s]]
    /\ Finish(r)
    /\ UNCHANGED <<up, count, table, saves, since, ended, answered>>

------------------------------------------------------------------------------
(* save_settings: update_setting for one key after another, each committed.  *)
SaveStart(r) ==
    /\ saves < MaxSaves /\ saves' = saves + 1
    /\ \E K \in SUBSET Names \ {{}} :
          Start(r, [pc |-> "seek", n |-> saves', keys |-> K, all |-> K, before |-> ended])
    /\ UNCHANGED <<cacheVars, table, settingsHistory>>

SaveSeek(r) ==
    /\ At(r, "seek")
    /\ \E k \in req[r].keys :
          Become(r, [pc |-> "store", k |-> k, found |-> table[k] # 0, n |-> req[r].n,
                     keys |-> req[r].keys \ {k}, all |-> req[r].all, before |-> req[r].before])
    /\ UNCHANGED <<cacheVars, settingsVars>>

Fail(r) == Finish(r) /\ ended' = ended \cup {req[r].n}

(* Mutant: only the update of a row drops the copy.                          *)
StoreQuietly(r) ==
    /\ At(r, "store")
    /\ LET k == req[r].k IN
         /\ table' = [table EXCEPT ![k] = req[r].n] /\ since' = [since EXCEPT ![k] = 0]
         /\ IF req[r].found THEN Become(r, [req[r] EXCEPT !.pc = "drop"]) /\ UNCHANGED ended ELSE Fail(r)
    /\ UNCHANGED <<cacheVars, saves, excused, answered>>

(* Mutant: a row that exists is left as it is.                               *)
StoreOnce(r) ==
    /\ At(r, "store")
    /\ LET k == req[r].k IN
         /\ table' = [table EXCEPT ![k] = IF @ = 0 THEN req[r].n ELSE @]
         /\ since' = [since EXCEPT ![k] = 0]
    /\ Become(r, [req[r] EXCEPT !.pc = "drop"])
    /\ UNCHANGED <<cacheVars, saves, excused, ended, answered>>

(* The key is unique: of two first saves of a key that overlap, the later one *)
(* fails, and leaves what it had stored of the other keys.                    *)
SaveStore(r) ==
    /\ At(r, "store")
    /\ LET k == req[r].k IN
         IF ~req[r].found /\ table[k] # 0
         THEN Fail(r) /\ UNCHANGED <<table, since>>
         ELSE /\ table' = [table EXCEPT ![k] = req[r].n]
              /\ since' = [since EXCEPT ![k] = 0]
              /\ Become(r, [req[r] EXCEPT !.pc = "drop"])
              /\ UNCHANGED ended
    /\ UNCHANGED <<cacheVars, saves, excused, answered>>

(* invalidate_settings_cache, in the stores it reaches; then the next key.   *)
SaveDrop(r) ==
    /\ At(r, "drop")
    /\ \E S \in Reached : Drop(S) /\ excused' = [s \in Stores |-> s \notin S /\ copy[s] # None]
    /\ IF req[r].keys # {}
       THEN /\ Become(r, [pc |-> "seek", n |-> req[r].n, keys |-> req[r].keys,
                          all |-> req[r].all, before |-> req[r].before])
            /\ UNCHANGED <<ended, answered>>
       ELSE /\ Fail(r)
            /\ answered' = answered \cup {[keys |-> req[r].all, before |-> req[r].before]}
    /\ UNCHANGED <<up, count, table, saves, since>>

(* The database fails a statement of a load or of a save.                    *)
SettingsAbort(r) ==
    /\ \/ At(r, "select") /\ Finish(r) /\ UNCHANGED ended
       \/ req[r].pc \in {"seek", "store"} /\ Fail(r)
    /\ UNCHANGED <<cacheVars, table, saves, since, excused, answered>>

SettingsTick ==
    /\ Tick
    /\ since' = [k \in Names |-> IF since[k] < Ttl THEN since[k] + 1 ELSE Ttl]
    /\ UNCHANGED <<table, saves, excused, ended, answered>>

SettingsCrash ==
    /\ Crash
    /\ excused' = [s \in Stores |-> excused[s] \/ \E r \in Reqs : At(r, "drop")]
    /\ ended' = ended \cup {req[r].n : r \in {q \in Reqs : req[q].pc \in {"seek", "store", "drop"}}}
    /\ UNCHANGED <<table, saves, since, answered>>

SettingsFault ==
    \/ SettingsCrash
    \/ (Flush \/ Outage \/ Return \/ Restart) /\ UNCHANGED settingsVars

SettingsNext ==
    \/ SettingsTick \/ SettingsFault
    \/ \E r \in Reqs :
          \/ LoadGet(r) \/ LoadSelect(r) \/ LoadFill(r) \/ SaveStart(r)
          \/ SaveSeek(r) \/ SaveStore(r) \/ SaveDrop(r) \/ SettingsAbort(r)

SettingsSpec == HandlersInit /\ CacheInit /\ SettingsInit /\ [][SettingsNext]_<<req, cacheVars, settingsVars>>

------------------------------------------------------------------------------
SettingsTypeOK ==
    /\ up \in BOOLEAN
    /\ \A s \in Stores : copy[s] = None \/ (copy[s].val \in Tables /\ copy[s].left \in 1..Ttl)
    /\ table \in Tables /\ saves \in 0..MaxSaves
    /\ since \in [Names -> 0..Ttl] /\ excused \in [Stores -> BOOLEAN]
    /\ req \in [Reqs -> SettingsTasks \cup {Idle}]

(* A copy that differs from the table was read before a save and put after    *)
(* it, or belongs to a store a delete did not reach, or is about to be        *)
(* deleted: no other order of loads and saves leaves one.                     *)
StaleCopyIsExplained ==
    \A s \in Stores :
        copy[s] # None /\ copy[s].val # table =>
            excused[s] \/ \E r \in Reqs : At(r, "drop")

(* Whatever the order and the faults, a reader sees a save at the latest a    *)
(* lifetime of the copy after it was stored.                                  *)
StalenessIsBounded ==
    \A s \in Stores, k \in Names :
        copy[s] # None /\ copy[s].val[k] # table[k] => since[k] < Ttl

(* A save that was answered is undone, for any of its keys, only by a save    *)
(* that had not ended when it began.                                          *)
AnsweredSaveStands == \A a \in answered : \A k \in a.keys : table[k] \notin a.before
=============================================================================
