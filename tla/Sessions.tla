------------------------------ MODULE Sessions ------------------------------
(* The life of an opaque session token: the user_session and user rows in    *)
(* the database, the two cache keys auth:session:<token> and                  *)
(* auth:user:<id> that shadow them, and the request handlers that read and    *)
(* write both.  A handler is interrupted at every await, so it is a sequence  *)
(* of steps, one per cache command and one per committed database statement;  *)
(* what it computes between two awaits belongs to the step before.            *)
(*                                                                            *)
(* Time is kept as ages: Tick lets one unit pass for every row, every copy of *)
(* a row, every cache key and every request in flight.  issue_session and     *)
(* validate_session always write expires_at as updated_at plus the lifetime,  *)
(* so the age since updated_at decides both comparisons.                      *)
EXTENDS Naturals, FiniteSets

CONSTANTS
    Tokens,      \* session tokens (random_handle), each issued at most once
    Users,       \* account ids
    Reqs,        \* requests the server can have in flight at once
    Owner,       \* the user a token is issued to
    Remembered,  \* the tokens issued with the remember flag
    Day, Month,  \* the two lifetimes: timedelta(days=1) and timedelta(days=30)
    Ttl,         \* _SESSION_TTL = _USER_TTL = 300 seconds
    Span,        \* longest time between the first and the last step of a request
    None         \* no token, no user

ASSUME TimingAssumption ==
    /\ Ttl \in Nat \ {0}
    /\ Span \in Nat
    /\ Day \in Nat
    /\ Month \in Nat
    /\ Ttl + Span <= Day
    /\ Day <= Month
ASSUME OwnerAssumption == Owner \in [Tokens -> Users] /\ Remembered \subseteq Tokens
ASSUME NoneAssumption == None \notin Tokens /\ None \notin Users

VARIABLES
    stage,      \* user_session row of a token: unissued, live or gone
    age,        \* time since that row's updated_at
    status,     \* user row: active, inactive or deleted
    sttl,       \* time the session key has left in the cache, 0 when absent
    sage,       \* age of the copy under the session key
    uttl,       \* time the user key has left in the cache, 0 when absent
    ustat,      \* the status in the copy under the user key
    req,        \* what each request is doing, with its local copies
    dead,       \* history: time since the row of a token was deleted
    since,      \* history: time since the status of a user last changed
    known,      \* the tokens that a login has answered with
    excused     \* history: tokens whose key may outlive their row, see Deleting, SkipKey and Abort

vars == <<stage, age, status, sttl, sage, uttl, ustat, req, dead, since, known, excused>>
rowVars == <<stage, age, dead>>
userVars == <<status, since, known>>
sessionKeyVars == <<sttl, sage>>
userKeyVars == <<uttl, ustat>>

Statuses == {"active", "inactive"}
UpdateAge == Day
Life(t) == IF t \in Remembered THEN Month ELSE Day

(* The longest a deleted session can still be accepted, and the longest a    *)
(* change of status can be overlooked.                                        *)
RevokedGrace == 2 * Ttl + 3 * Span - 2
StatusGrace == Ttl + 2 * Span - 1

(* Clocks stop one past the last value that any comparison can tell apart.   *)
AgeCap == Month + 1
DeadCap == RevokedGrace + 1
SinceCap == StatusGrace + 1
Older(n, cap) == IF n < cap THEN n + 1 ELSE n

(* Mutant: a key is stored with no lifetime.                                 *)
Unexpiring(n) == n

(* The time a key has left, one unit later.                                  *)
Younger(n) == IF n > 0 THEN n - 1 ELSE 0

------------------------------------------------------------------------------
(* Requests.  A request holds a copy of a session while it may still write    *)
(* that copy to the session key; it owes the deletion of the keys of the rows *)
(* it has deleted.                                                            *)

Holding == {"fill", "reget", "update", "rewrite", "renew", "fillnew"}
Steps == {"idle", "insert", "select", "user", "getuser", "filluser", "ok", "revoke",
          "drop", "list", "purge", "dropmany", "setstatus", "dropuser"} \cup Holding

Requests == [pc : Steps, tok : Tokens \cup {None}, usr : Users \cup {None},
             age : 0..AgeCap, el : 0..Span, st : Statuses, todo : SUBSET Tokens]
Idle == [pc |-> "idle", tok |-> None, usr |-> None, age |-> 0, el |-> 0,
         st |-> "active", todo |-> {}]
Task(p, t, u) == [Idle EXCEPT !.pc = p, !.tok = t, !.usr = u]

At(r, p) == req[r].pc = p
Start(r, task) == At(r, "idle") /\ req' = [req EXCEPT ![r] = task]
Go(r, p) == req' = [req EXCEPT ![r].pc = p]
Finish(r) == req' = [req EXCEPT ![r] = Idle]

Holders(t) == {r \in Reqs : req[r].tok = t /\ req[r].pc \in Holding}
Owes(r, t) == \/ At(r, "drop") /\ req[r].tok = t
              \/ At(r, "dropmany") /\ t \in req[r].todo

LiveOf(u) == {t \in Tokens : Owner[t] = u /\ stage[t] = "live"}

(* The rows of a set of tokens are deleted by a handler that goes on to       *)
(* delete the keys of the tokens in keyed.  A key may outlive its row, until  *)
(* it expires, if the handler does not delete it or does not get that far, if *)
(* the deletion does not reach the store, or if another request holds a copy  *)
(* of the row at that moment or when the key is deleted.                      *)
Deleting(S, keyed) ==
    /\ stage' = [t \in Tokens |-> IF t \in S THEN "gone" ELSE stage[t]]
    /\ age' = [t \in Tokens |-> IF t \in S THEN 0 ELSE age[t]]
    /\ dead' = [t \in Tokens |-> IF t \in S THEN 0 ELSE dead[t]]
    /\ excused' = excused \cup (S \ keyed) \cup {t \in S : Holders(t) # {}}

PutSession(t, a) == sttl' = [sttl EXCEPT ![t] = Ttl] /\ sage' = [sage EXCEPT ![t] = a]
DropSession(t) ==
    /\ sttl' = [sttl EXCEPT ![t] = 0]
    /\ sage' = [sage EXCEPT ![t] = 0]
    /\ excused' = IF Holders(t) = {} THEN excused ELSE excused \cup {t}
PutUser(u, s) == uttl' = [uttl EXCEPT ![u] = Ttl] /\ ustat' = [ustat EXCEPT ![u] = s]
DropUser(u) == uttl' = [uttl EXCEPT ![u] = 0] /\ ustat' = [ustat EXCEPT ![u] = "active"]

Init ==
    /\ stage = [t \in Tokens |-> "unissued"]
    /\ age = [t \in Tokens |-> 0]
    /\ status = [u \in Users |-> "active"]
    /\ sttl = [t \in Tokens |-> 0]
    /\ sage = [t \in Tokens |-> 0]
    /\ uttl = [u \in Users |-> 0]
    /\ ustat = [u \in Users |-> "active"]
    /\ req = [r \in Reqs |-> Idle]
    /\ dead = [t \in Tokens |-> 0]
    /\ since = [u \in Users |-> 0]
    /\ known = {}
    /\ excused = {}

------------------------------------------------------------------------------
(* Login and issue_session. *)

(* Every login reads the user first; the ones that end a TFA challenge or a   *)
(* login link do not look at its status.  The token drawn is nobody else's.   *)
Login(r, t) ==
    /\ stage[t] = "unissued"
    /\ \A q \in Reqs : ~(At(q, "insert") /\ req[q].tok = t)
    /\ status[Owner[t]] # "deleted"
    /\ Start(r, Task("insert", t, Owner[t]))
    /\ UNCHANGED <<rowVars, userVars, sessionKeyVars, userKeyVars, excused>>

(* The row is committed, unless its user has gone: the foreign key fails.    *)
InsertSession(r) ==
    /\ At(r, "insert")
    /\ IF status[req[r].usr] = "deleted"
       THEN Finish(r) /\ UNCHANGED <<stage, age>>
       ELSE /\ stage' = [stage EXCEPT ![req[r].tok] = "live"]
            /\ age' = [age EXCEPT ![req[r].tok] = 0]
            /\ Go(r, "renew")
    /\ UNCHANGED <<dead, userVars, sessionKeyVars, userKeyVars, excused>>

(* db.refresh reads the row back and fails if it has gone already.           *)
RefreshSession(r) ==
    /\ At(r, "renew")
    /\ IF stage[req[r].tok] = "live"
       THEN req' = [req EXCEPT ![r].pc = "fillnew", ![r].age = age[req[r].tok]]
       ELSE Finish(r)
    /\ UNCHANGED <<rowVars, userVars, sessionKeyVars, userKeyVars, excused>>

(* The login answers, and its client knows the token.                        *)
CacheIssued(r) ==
    /\ At(r, "fillnew")
    /\ PutSession(req[r].tok, req[r].age)
    /\ known' = known \cup {req[r].tok}
    /\ Finish(r)
    /\ UNCHANGED <<rowVars, status, since, userKeyVars, excused>>

------------------------------------------------------------------------------
(* validate_session. *)

(* Mutant: renews every copy that is not fresh.                              *)
JudgedEarly(task, a, next) ==
    [task EXCEPT !.pc = IF a > Life(task.tok) THEN "revoke"
                        ELSE IF a > 0 THEN next ELSE "user",
                 !.age = 0]

(* What a request does with a copy of age a: an expired one is revoked, one   *)
(* older than a day is renewed (its age restarts at this moment), any other   *)
(* is used as it is.  The copy from the cache is looked up again before the   *)
(* update; the row read from the database is still in the identity map.       *)
Judged(task, a, next) ==
    [task EXCEPT !.pc = IF a > Life(task.tok) THEN "revoke"
                        ELSE IF a > UpdateAge THEN next ELSE "user",
                 !.age = 0]

ReadSessionHit(r, t) ==
    /\ t \in known
    /\ sttl[t] > 0
    /\ Start(r, Judged(Task("idle", t, Owner[t]), sage[t], "reget"))
    /\ UNCHANGED <<rowVars, userVars, sessionKeyVars, userKeyVars, excused>>

ReadSessionMiss(r, t) ==
    /\ t \in known
    /\ sttl[t] = 0
    /\ Start(r, Task("select", t, Owner[t]))
    /\ UNCHANGED <<rowVars, userVars, sessionKeyVars, userKeyVars, excused>>

SelectSession(r) ==
    /\ At(r, "select")
    /\ IF stage[req[r].tok] = "live"
       THEN req' = [req EXCEPT ![r].pc = "fill", ![r].age = age[req[r].tok]]
       ELSE Finish(r)
    /\ UNCHANGED <<rowVars, userVars, sessionKeyVars, userKeyVars, excused>>

FillSession(r) ==
    /\ At(r, "fill")
    /\ PutSession(req[r].tok, req[r].age)
    /\ req' = [req EXCEPT ![r] = Judged(@, @.age, "update")]
    /\ UNCHANGED <<rowVars, userVars, userKeyVars, excused>>

(* Without a row the update is skipped and the copy is cached all the same.  *)
ReselectSession(r) ==
    /\ At(r, "reget")
    /\ Go(r, IF stage[req[r].tok] = "live" THEN "update" ELSE "rewrite")
    /\ UNCHANGED <<rowVars, userVars, sessionKeyVars, userKeyVars, excused>>

(* An update that matches no row raises StaleDataError.                      *)
UpdateSession(r) ==
    /\ At(r, "update")
    /\ IF stage[req[r].tok] = "live"
       THEN age' = [age EXCEPT ![req[r].tok] = req[r].age] /\ Go(r, "rewrite")
       ELSE Finish(r) /\ UNCHANGED age
    /\ UNCHANGED <<stage, dead, userVars, sessionKeyVars, userKeyVars, excused>>

RewriteSession(r) ==
    /\ At(r, "rewrite")
    /\ PutSession(req[r].tok, req[r].age)
    /\ req' = [req EXCEPT ![r].pc = "user", ![r].age = 0]
    /\ UNCHANGED <<rowVars, userVars, userKeyVars, excused>>

Admit(r, s) == IF s = "active" THEN Go(r, "ok") ELSE Finish(r)

(* Mutant: a hit restarts the lifetime of the user key.                      *)
ReadUserHitExtending(r) ==
    /\ At(r, "user")
    /\ uttl[req[r].usr] > 0
    /\ PutUser(req[r].usr, ustat[req[r].usr])
    /\ Admit(r, ustat[req[r].usr])
    /\ UNCHANGED <<rowVars, userVars, sessionKeyVars, excused>>

ReadUserHit(r) ==
    /\ At(r, "user")
    /\ uttl[req[r].usr] > 0
    /\ Admit(r, ustat[req[r].usr])
    /\ UNCHANGED <<rowVars, userVars, sessionKeyVars, userKeyVars, excused>>

ReadUserMiss(r) ==
    /\ At(r, "user")
    /\ uttl[req[r].usr] = 0
    /\ Go(r, "getuser")
    /\ UNCHANGED <<rowVars, userVars, sessionKeyVars, userKeyVars, excused>>

(* Mutant: does not ask whether the row was found.                           *)
GetUserUnchecked(r) ==
    /\ At(r, "getuser")
    /\ req' = [req EXCEPT ![r].pc = "filluser", ![r].st = status[req[r].usr]]
    /\ UNCHANGED <<rowVars, userVars, sessionKeyVars, userKeyVars, excused>>

GetUser(r) ==
    /\ At(r, "getuser")
    /\ IF status[req[r].usr] = "deleted"
       THEN Finish(r)
       ELSE req' = [req EXCEPT ![r].pc = "filluser", ![r].st = status[req[r].usr]]
    /\ UNCHANGED <<rowVars, userVars, sessionKeyVars, userKeyVars, excused>>

FillUser(r) ==
    /\ At(r, "filluser")
    /\ PutUser(req[r].usr, req[r].st)
    /\ Admit(r, req[r].st)
    /\ UNCHANGED <<rowVars, userVars, sessionKeyVars, excused>>

(* The handler behind the authentication answers.                            *)
Answer(r) ==
    /\ At(r, "ok")
    /\ Finish(r)
    /\ UNCHANGED <<rowVars, userVars, sessionKeyVars, userKeyVars, excused>>

------------------------------------------------------------------------------
(* Ending sessions. *)

DeleteRow(t) == IF stage[t] = "live" THEN Deleting({t}, {t})
                                     ELSE UNCHANGED <<stage, age, dead, excused>>

(* Logout is revoke_session on the token of the cookie.                      *)
Logout(r, t) ==
    /\ t \in known
    /\ DeleteRow(t)
    /\ Start(r, Task("drop", t, Owner[t]))
    /\ UNCHANGED <<userVars, sessionKeyVars, userKeyVars>>

(* logout_session_by_id finds the row first, then deletes it by its id.      *)
LogoutById(r, t) ==
    /\ stage[t] = "live"
    /\ Start(r, Task("revoke", t, Owner[t]))
    /\ UNCHANGED <<rowVars, userVars, sessionKeyVars, userKeyVars, excused>>

(* The delete of logout_session_by_id, and of revoke_session on an expired   *)
(* copy.                                                                      *)
RevokeRow(r) ==
    /\ At(r, "revoke")
    /\ DeleteRow(req[r].tok)
    /\ Go(r, "drop")
    /\ UNCHANGED <<userVars, sessionKeyVars, userKeyVars>>

(* Mutant: the key is left to expire.                                        *)
KeepKey(r) ==
    /\ At(r, "drop")
    /\ Finish(r)
    /\ UNCHANGED <<rowVars, userVars, sessionKeyVars, userKeyVars, excused>>

DropKey(r) ==
    /\ At(r, "drop")
    /\ DropSession(req[r].tok)
    /\ Finish(r)
    /\ UNCHANGED <<rowVars, userVars, userKeyVars>>

(* change_password, once the hash is stored: the user key goes first, then    *)
(* every session of the user.  reset_password goes to the sessions directly,  *)
(* and needs no session of its own.                                           *)
ChangePassword(r) ==
    /\ At(r, "ok")
    /\ DropUser(req[r].usr)
    /\ Go(r, "list")
    /\ UNCHANGED <<rowVars, userVars, sessionKeyVars, excused>>

ResetPassword(r, u) ==
    /\ status[u] # "deleted"
    /\ Start(r, Task("list", None, u))
    /\ UNCHANGED <<rowVars, userVars, sessionKeyVars, userKeyVars, excused>>

ListTokens(r) ==
    /\ At(r, "list")
    /\ LET found == LiveOf(req[r].usr) IN
         req' = [req EXCEPT ![r].todo = found, ![r].pc = IF found = {} THEN "dropuser" ELSE "purge"]
    /\ UNCHANGED <<rowVars, userVars, sessionKeyVars, userKeyVars, excused>>

(* Deletes by user id, so also rows committed since they were listed.        *)
PurgeRows(r) ==
    /\ At(r, "purge")
    /\ Deleting(LiveOf(req[r].usr), req[r].todo)
    /\ Go(r, "dropmany")
    /\ UNCHANGED <<userVars, sessionKeyVars, userKeyVars>>

Went(r, t) == req' = [req EXCEPT ![r].todo = @ \ {t},
                                 ![r].pc = IF req[r].todo = {t} THEN "dropuser" ELSE "dropmany"]

DropOneKey(r, t) ==
    /\ At(r, "dropmany")
    /\ t \in req[r].todo
    /\ DropSession(t)
    /\ Went(r, t)
    /\ UNCHANGED <<rowVars, userVars, userKeyVars>>

(* delete_cache swallows the error of a store it cannot reach: the key stays  *)
(* and the handler goes on.                                                   *)
SkipKey(r, t) ==
    /\ Owes(r, t)
    /\ IF At(r, "drop") THEN Finish(r) ELSE Went(r, t)
    /\ excused' = excused \cup {t}
    /\ UNCHANGED <<rowVars, userVars, sessionKeyVars, userKeyVars>>

DropUserKey(r) ==
    /\ At(r, "dropuser")
    /\ DropUser(req[r].usr)
    /\ Finish(r)
    /\ UNCHANGED <<rowVars, userVars, sessionKeyVars, excused>>

(* account_revoke_all deletes the rows of the caller and keeps their ids     *)
(* only to count them: no session key is deleted.                             *)
RevokeAll(r) ==
    /\ At(r, "ok")
    /\ Deleting(LiveOf(req[r].usr), {})
    /\ req' = [req EXCEPT ![r].pc = "dropuser", ![r].todo = LiveOf(req[r].usr)]
    /\ UNCHANGED <<userVars, sessionKeyVars, userKeyVars>>

------------------------------------------------------------------------------
(* Accounts. *)

ChangeStatus(u, s) ==
    /\ status' = [status EXCEPT ![u] = s] /\ since' = [since EXCEPT ![u] = 0]
    /\ UNCHANGED known

(* set_account_status reads the row; the update it sends later names only    *)
(* columns that differ from what it read.                                     *)
SetStatus(r, u, s) ==
    /\ status[u] \in Statuses \ {s}
    /\ Start(r, [Task("setstatus", None, u) EXCEPT !.st = s])
    /\ UNCHANGED <<rowVars, userVars, sessionKeyVars, userKeyVars, excused>>

WriteStatus(r) ==
    /\ At(r, "setstatus")
    /\ IF status[req[r].usr] = "deleted"
       THEN Finish(r) /\ UNCHANGED userVars
       ELSE /\ IF status[req[r].usr] = req[r].st
               THEN UNCHANGED userVars
               ELSE ChangeStatus(req[r].usr, req[r].st)
            /\ Go(r, "dropuser")
    /\ UNCHANGED <<rowVars, sessionKeyVars, userKeyVars, excused>>

(* update_account, set_password, the changes of two-factor authentication,    *)
(* and set_account_status when the account has the status already: other      *)
(* columns change, and the user key goes.                                     *)
UpdateAccount(r, u) ==
    /\ status[u] # "deleted"
    /\ Start(r, Task("dropuser", None, u))
    /\ UNCHANGED <<rowVars, userVars, sessionKeyVars, userKeyVars, excused>>

(* The sessions and the user go in one transaction; of the keys only the     *)
(* user's is deleted.                                                         *)
DeleteAccount(r, u) ==
    /\ status[u] # "deleted"
    /\ Deleting(LiveOf(u), {})
    /\ ChangeStatus(u, "deleted")
    /\ Start(r, Task("dropuser", None, u))
    /\ UNCHANGED <<sessionKeyVars, userKeyVars>>

(* /setting/cache-clear empties the whole cache.                             *)
FlushCache ==
    /\ sttl' = [t \in Tokens |-> 0] /\ sage' = [t \in Tokens |-> 0]
    /\ uttl' = [u \in Users |-> 0] /\ ustat' = [u \in Users |-> "active"]
    /\ UNCHANGED <<rowVars, userVars, req, excused>>

------------------------------------------------------------------------------
(* A unit of time.  No request outlives Span: the one bound on timing that    *)
(* is assumed, and far below the 24 hours of UpdateAge.                       *)
Later(task) ==
    IF task.pc = "idle" THEN task
    ELSE [task EXCEPT !.el = @ + 1, !.age = IF task.pc \in Holding THEN Older(@, AgeCap) ELSE @]

Tick ==
    /\ \A r \in Reqs : req[r].pc # "idle" => req[r].el < Span
    /\ age' = [t \in Tokens |-> IF stage[t] = "live" THEN Older(age[t], AgeCap) ELSE age[t]]
    /\ sttl' = [t \in Tokens |-> Younger(sttl[t])]
    /\ sage' = [t \in Tokens |-> IF sttl[t] > 1 THEN Older(sage[t], AgeCap) ELSE 0]
    /\ uttl' = [u \in Users |-> Younger(uttl[u])]
    /\ ustat' = [u \in Users |-> IF uttl[u] > 1 THEN ustat[u] ELSE "active"]
    /\ req' = [r \in Reqs |-> Later(req[r])]
    /\ dead' = [t \in Tokens |-> IF stage[t] = "gone" THEN Older(dead[t], DeadCap) ELSE 0]
    /\ since' = [u \in Users |-> Older(since[u], SinceCap)]
    /\ UNCHANGED <<stage, status, known, excused>>

(* A request may end at any of its awaits: an error, a client that has gone,  *)
(* or the end of the process.  What it has committed stays, and the keys it   *)
(* still had to delete stay too.                                              *)
Abort(r) ==
    /\ ~At(r, "idle")
    /\ Finish(r)
    /\ excused' = excused \cup {t \in Tokens : Owes(r, t)}
    /\ UNCHANGED <<rowVars, userVars, sessionKeyVars, userKeyVars>>

(* A client or an administrator sends a request.                             *)
Arrive(r) ==
    \/ \E t \in Tokens : \/ Login(r, t) \/ ReadSessionHit(r, t) \/ ReadSessionMiss(r, t)
                         \/ Logout(r, t) \/ LogoutById(r, t)
    \/ \E u \in Users : \/ ResetPassword(r, u) \/ UpdateAccount(r, u) \/ DeleteAccount(r, u)
                        \/ \E s \in Statuses : SetStatus(r, u, s)

(* A request in flight takes its next step.                                  *)
Proceed(r) ==
    \/ InsertSession(r) \/ RefreshSession(r) \/ CacheIssued(r)
    \/ SelectSession(r) \/ FillSession(r) \/ ReselectSession(r) \/ UpdateSession(r) \/ RewriteSession(r)
    \/ ReadUserHit(r) \/ ReadUserMiss(r) \/ GetUser(r) \/ FillUser(r)
    \/ Answer(r) \/ ChangePassword(r) \/ RevokeAll(r)
    \/ RevokeRow(r) \/ DropKey(r) \/ ListTokens(r) \/ PurgeRows(r)
    \/ (\E t \in Tokens : DropOneKey(r, t)) \/ DropUserKey(r) \/ WriteStatus(r)

(* What goes wrong with a request in flight.                                 *)
Fail(r) == Abort(r) \/ \E t \in Tokens : SkipKey(r, t)

Next == Tick \/ FlushCache \/ \E r \in Reqs : Arrive(r) \/ Proceed(r) \/ Fail(r)

Spec == Init /\ [][Next]_vars

(* The event loop runs every request that is ready, and time passes.  No      *)
(* client has to send anything, and nothing has to fail.                      *)
FairSpec == Spec /\ WF_vars(Tick) /\ \A r \in Reqs : WF_vars(Proceed(r))

------------------------------------------------------------------------------
TypeOK ==
    /\ stage \in [Tokens -> {"unissued", "live", "gone"}]
    /\ age \in [Tokens -> 0..AgeCap]
    /\ status \in [Users -> Statuses \cup {"deleted"}]
    /\ sttl \in [Tokens -> 0..Ttl]
    /\ sage \in [Tokens -> 0..AgeCap]
    /\ uttl \in [Users -> 0..Ttl]
    /\ ustat \in [Users -> Statuses]
    /\ req \in [Reqs -> Requests]
    /\ dead \in [Tokens -> 0..DeadCap]
    /\ since \in [Users -> 0..SinceCap]
    /\ known \in SUBSET Tokens
    /\ excused \in SUBSET Tokens

(* A session whose row is deleted, by whatever handler and whatever was in    *)
(* flight, is accepted for two cache lifetimes and three request spans at     *)
(* most: neither a late cache write nor the sliding renewal of a cached copy  *)
(* can keep it alive.                                                         *)
RevokedSessionsDie ==
    \A r \in Reqs : At(r, "ok") /\ stage[req[r].tok] = "gone" => dead[req[r].tok] <= RevokedGrace

(* A user who is deactivated or deleted is refused after one cache lifetime   *)
(* and two request spans, whatever copies of the user were in flight.         *)
InactiveUsersAreRefused ==
    \A r \in Reqs : At(r, "ok") /\ status[req[r].usr] # "active" => since[req[r].usr] <= StatusGrace

(* A session key outlives its row only for a reason: a handler that deletes   *)
(* rows without their keys, one that ended between the two, a deletion that   *)
(* did not reach the store, another request that held a copy of the row when  *)
(* the row or the key was deleted, or a key deletion still to come.           *)
OrphanKeysAreExplained ==
    \A t \in Tokens : stage[t] = "gone" /\ sttl[t] > 0 =>
        t \in excused \/ \E r \in Reqs : Owes(r, t)

(* Once the row is deleted, there is a time after which neither the cache     *)
(* nor any request vouches for the session again.                             *)
Vouched(t) == sttl[t] > 0 \/ \E r \in Reqs : At(r, "ok") /\ req[r].tok = t
RevocationIsFinal == \A t \in Tokens : stage[t] = "gone" ~> [](~Vouched(t))
=============================================================================
