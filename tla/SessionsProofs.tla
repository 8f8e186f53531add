--------------------------- MODULE SessionsProofs ---------------------------
(* Proofs about Sessions for every number of tokens, users and requests and   *)
(* every Ttl, Span, Day and Month within TimingAssumption.                    *)
EXTENDS Sessions, TLAPS

(* A request that works on a session or a user has one, and a request that is *)
(* not in flight carries nothing over from the last one.                      *)
TokenSteps == Holding \cup {"insert", "select", "user", "getuser", "filluser", "ok", "revoke", "drop"}
UserSteps == TokenSteps \cup {"list", "purge", "dropmany", "setstatus", "dropuser"}
WellFormed(x) ==
    /\ x.pc \in TokenSteps => x.tok \in Tokens /\ x.usr = Owner[x.tok]
    /\ x.pc \in UserSteps => x.usr \in Users
    /\ x.pc = "idle" => x = Idle
ReqOK == \A r \in Reqs : WellFormed(req[r])

TypeInv == TypeOK /\ ReqOK

USE TimingAssumption, OwnerAssumption, NoneAssumption

(* The bounds that clocks stop at are natural numbers.                       *)
LEMMA Bounds ==
    /\ RevokedGrace \in Nat /\ StatusGrace \in Nat
    /\ AgeCap \in Nat /\ DeadCap \in Nat /\ SinceCap \in Nat
  BY DEF RevokedGrace, StatusGrace, AgeCap, DeadCap, SinceCap

(* Nothing is issued, cached or in flight at the start.                      *)
LEMMA TypeInit == Init => TypeInv
  <1> SUFFICES ASSUME Init PROVE TypeInv
    OBVIOUS
  <1>1. Idle \in Requests
    BY Bounds DEF Idle, Requests, Steps, Statuses
  <1>2. TypeOK
    BY <1>1, Bounds DEF Init, TypeOK, Statuses
  <1>3. ReqOK
    BY DEF Init, ReqOK, WellFormed, Idle, Holding, TokenSteps, UserSteps
  <1>. QED
    BY <1>2, <1>3 DEF TypeInv

(* A unit of time keeps the record of a request well formed.                 *)
LEMMA LaterOK ==
    ASSUME NEW task \in Requests, task.pc # "idle" => task.el < Span
    PROVE  /\ Later(task) \in Requests
           /\ Later(task).pc = task.pc /\ Later(task).tok = task.tok /\ Later(task).usr = task.usr
           /\ Later(task).todo = task.todo
           /\ task.pc = "idle" => Later(task) = task
  <1>1. Older(task.age, AgeCap) \in 0..AgeCap
    BY Bounds DEF Requests, Older
  <1>2. CASE task.pc = "idle"
    BY <1>2 DEF Later
  <1>3. CASE task.pc # "idle"
    <2>1. PICK a \in 0..AgeCap : Later(task) = [task EXCEPT !.el = task.el + 1, !.age = a]
      BY <1>1, <1>3 DEF Later, Requests
    <2>2. task.el + 1 \in 0..Span
      BY <1>3 DEF Requests
    <2>. QED
      BY <1>3, <2>1, <2>2 DEF Requests
  <1>. QED
    BY <1>2, <1>3

(* A unit of time keeps every type.                                          *)
LEMMA TypeTick == TypeInv /\ Tick => TypeInv'
  <1> SUFFICES ASSUME TypeInv, Tick PROVE TypeInv'
    OBVIOUS
  <1>1. ASSUME NEW t \in Tokens
        PROVE  /\ age'[t] \in 0..AgeCap /\ sttl'[t] \in 0..Ttl
               /\ sage'[t] \in 0..AgeCap /\ dead'[t] \in 0..DeadCap
    <2>1. age[t] \in 0..AgeCap /\ sttl[t] \in 0..Ttl /\ sage[t] \in 0..AgeCap /\ dead[t] \in 0..DeadCap
      BY DEF TypeInv, TypeOK
    <2>2. /\ Older(age[t], AgeCap) \in 0..AgeCap /\ Younger(sttl[t]) \in 0..Ttl
          /\ Older(sage[t], AgeCap) \in 0..AgeCap /\ Older(dead[t], DeadCap) \in 0..DeadCap
      BY <2>1, Bounds DEF Older, Younger
    <2>3. /\ age'[t] \in {age[t], Older(age[t], AgeCap)} /\ sttl'[t] = Younger(sttl[t])
          /\ sage'[t] \in {0, Older(sage[t], AgeCap)} /\ dead'[t] \in {0, Older(dead[t], DeadCap)}
      BY DEF Tick
    <2>. QED
      BY <2>1, <2>2, <2>3, Bounds
  <1>2. ASSUME NEW u \in Users
        PROVE  uttl'[u] \in 0..Ttl /\ ustat'[u] \in Statuses /\ since'[u] \in 0..SinceCap
    <2>1. uttl[u] \in 0..Ttl /\ ustat[u] \in Statuses /\ since[u] \in 0..SinceCap
      BY DEF TypeInv, TypeOK
    <2>2. Younger(uttl[u]) \in 0..Ttl /\ Older(since[u], SinceCap) \in 0..SinceCap
      BY <2>1, Bounds DEF Older, Younger
    <2>. QED
      BY <2>1, <2>2 DEF Tick, Statuses
  <1>3. ASSUME NEW r \in Reqs
        PROVE  /\ req'[r] \in Requests
               /\ req'[r].pc = req[r].pc /\ req'[r].tok = req[r].tok /\ req'[r].usr = req[r].usr
               /\ req[r].pc = "idle" => req'[r] = req[r]
    <2>1. req[r] \in Requests /\ req[r].el \in 0..Span /\ req[r].age \in 0..AgeCap
      BY DEF TypeInv, TypeOK, Requests
    <2>2. Older(req[r].age, AgeCap) \in 0..AgeCap
      BY <2>1, Bounds DEF Older
    <2>3. req[r].pc # "idle" => req[r].el + 1 \in 0..Span
      BY <2>1 DEF Tick
    <2>4. req'[r] = Later(req[r])
      BY DEF Tick
    <2>. QED
      BY <2>1, <2>2, <2>3, <2>4, LaterOK
  <1>4. TypeOK'
    BY <1>1, <1>2, <1>3 DEF Tick, TypeInv, TypeOK
  <1>5. ReqOK'
    BY <1>3 DEF TypeInv, ReqOK, WellFormed
  <1>. QED
    BY <1>4, <1>5 DEF TypeInv

(* What a step of request r does to req: only its own record changes, into   *)
(* another well-formed one.                                                   *)
ReqMove(r) ==
    /\ req' = [req EXCEPT ![r] = req'[r]]
    /\ req'[r] \in Requests
    /\ WellFormed(req'[r])

(* The record of an idle request is well formed.                             *)
LEMMA IdleOK == Idle \in Requests /\ WellFormed(Idle)
  BY Bounds DEF Idle, Requests, Steps, Statuses, WellFormed, Holding, TokenSteps, UserSteps

(* A step of request r changes the record of r alone, and keeps it well      *)
(* formed.                                                                    *)
LEMMA ReqMoves ==
    ASSUME TypeInv, NEW r \in Reqs, Arrive(r) \/ Proceed(r) \/ Fail(r)
    PROVE  ReqMove(r)
  <1>0. req \in [Reqs -> Requests] /\ req[r] \in Requests /\ WellFormed(req[r])
    BY DEF TypeInv, TypeOK, ReqOK
  <1> USE <1>0, IdleOK, Bounds DEF ReqMove, Requests, WellFormed, Steps, Holding, TokenSteps, UserSteps, Statuses
  <1>1. ASSUME NEW t \in Tokens, Login(r, t) PROVE ReqMove(r)
    BY <1>1 DEF Login, At, Start, Task, Idle
  <1>2. ASSUME NEW t \in Tokens, ReadSessionHit(r, t) PROVE ReqMove(r)
    <2> DEFINE x == Task("idle", t, Owner[t])
    <2>1. x \in Requests /\ x.tok = t /\ x.usr = Owner[t]
      BY DEF Task, Idle, Requests, Steps, Statuses
    <2>2. req' = [req EXCEPT ![r] = Judged(x, sage[t], "reget")]
      BY <1>2 DEF ReadSessionHit, Start
    <2> HIDE DEF x
    <2>3. PICK p \in {"revoke", "reget", "user"} : req'[r] = [x EXCEPT !.pc = p, !.age = 0]
      BY <2>2 DEF Judged
    <2>4. p \in Steps /\ 0 \in 0..AgeCap
      BY DEF Steps, Holding
    <2>5. req'[r] \in Requests /\ req'[r].pc = p /\ req'[r].tok = t /\ req'[r].usr = Owner[t]
      BY <2>1, <2>3, <2>4 DEF Requests
    <2>6. WellFormed(req'[r])
      BY <2>3, <2>5 DEF WellFormed
    <2>. QED
      BY <2>2, <2>5, <2>6
  <1>3. ASSUME NEW t \in Tokens, ReadSessionMiss(r, t) PROVE ReqMove(r)
    <2>1. req' = [req EXCEPT ![r] = Task("select", t, Owner[t])]
      BY <1>3 DEF ReadSessionMiss, Start
    <2>2. Task("select", t, Owner[t]) \in Requests /\ WellFormed(Task("select", t, Owner[t]))
      BY DEF Task, Idle, Requests, WellFormed, Steps, Holding, TokenSteps, UserSteps, Statuses
    <2>. QED
      BY <2>1, <2>2
  <1>4. ASSUME NEW t \in Tokens, Logout(r, t) PROVE ReqMove(r)
    BY <1>4 DEF Logout, At, Start, Task, Idle
  <1>5. ASSUME NEW t \in Tokens, LogoutById(r, t) PROVE ReqMove(r)
    BY <1>5 DEF LogoutById, At, Start, Task, Idle
  <1>6. ASSUME NEW t \in Tokens, At(r, "dropmany"), Went(r, t) PROVE ReqMove(r)
    <2>1. /\ req[r].pc = "dropmany"
          /\ req' = [req EXCEPT ![r].todo = @ \ {t}, ![r].pc = IF req[r].todo = {t} THEN "dropuser" ELSE "dropmany"]
      BY <1>6 DEF Went, At
    <2>2. PICK p \in {"dropuser", "dropmany"} :
            req' = [req EXCEPT ![r] = [req[r] EXCEPT !.todo = req[r].todo \ {t}, !.pc = p]]
      BY <2>1
    <2>3. /\ req'[r] \in Requests
          /\ req'[r].pc = p /\ req'[r].usr = req[r].usr
      BY <2>2 DEF Requests, Steps
    <2>4. req[r].usr \in Users
      BY <2>1 DEF WellFormed, UserSteps
    <2>5. WellFormed(req'[r])
      BY <2>3, <2>4 DEF WellFormed, TokenSteps, Holding
    <2>. QED
      BY <2>2, <2>3, <2>5
  <1>7. ASSUME NEW u \in Users, ResetPassword(r, u) PROVE ReqMove(r)
    BY <1>7 DEF ResetPassword, At, Start, Task, Idle
  <1>8. ASSUME NEW u \in Users, DeleteAccount(r, u) PROVE ReqMove(r)
    BY <1>8 DEF DeleteAccount, At, Start, Task, Idle
  <1>9. ASSUME NEW u \in Users, NEW s \in Statuses, SetStatus(r, u, s) PROVE ReqMove(r)
    <2> DEFINE x == Task("setstatus", None, u)
    <2>1. x \in Requests /\ x.pc = "setstatus" /\ x.usr = u
      BY DEF Task, Idle, Requests, Steps, Statuses
    <2>2. req' = [req EXCEPT ![r] = [x EXCEPT !.st = s]]
      BY <1>9 DEF SetStatus, Start
    <2> HIDE DEF x
    <2>3. req'[r] \in Requests /\ req'[r].pc = "setstatus" /\ req'[r].usr = u
      BY <2>1, <2>2 DEF Requests
    <2>4. WellFormed(req'[r])
      BY <2>3 DEF WellFormed, TokenSteps, Holding
    <2>. QED
      BY <2>2, <2>3, <2>4
  <1>10. ASSUME InsertSession(r) PROVE ReqMove(r)
    BY <1>10 DEF InsertSession, At, Go, Finish
  <1>11. ASSUME RefreshSession(r) PROVE ReqMove(r)
    BY <1>11 DEF RefreshSession, At, Finish
  <1>12. ASSUME CacheIssued(r) PROVE ReqMove(r)
    BY <1>12 DEF CacheIssued, At, Finish
  <1>13. ASSUME SelectSession(r) PROVE ReqMove(r)
    BY <1>13 DEF SelectSession, At, Finish
  <1>14. ASSUME FillSession(r) PROVE ReqMove(r)
    <2>1. req' = [req EXCEPT ![r] = Judged(req[r], req[r].age, "update")]
      BY <1>14 DEF FillSession
    <2>2. req[r].tok \in Tokens /\ req[r].usr = Owner[req[r].tok]
      BY <1>14 DEF FillSession, At, WellFormed, TokenSteps, Holding
    <2>3. PICK p \in {"revoke", "update", "user"} : req'[r] = [req[r] EXCEPT !.pc = p, !.age = 0]
      BY <2>1 DEF Judged
    <2>4. p \in Steps /\ 0 \in 0..AgeCap
      BY DEF Steps, Holding
    <2>5. req'[r] \in Requests /\ req'[r].pc = p /\ req'[r].tok = req[r].tok /\ req'[r].usr = req[r].usr
      BY <2>3, <2>4 DEF Requests
    <2>6. WellFormed(req'[r])
      BY <2>2, <2>3, <2>5 DEF WellFormed
    <2>. QED
      BY <2>1, <2>5, <2>6
  <1>15. ASSUME ReselectSession(r) PROVE ReqMove(r)
    BY <1>15 DEF ReselectSession, At, Go
  <1>16. ASSUME UpdateSession(r) PROVE ReqMove(r)
    BY <1>16 DEF UpdateSession, At, Go, Finish
  <1>17. ASSUME RewriteSession(r) PROVE ReqMove(r)
    <2>1. req' = [req EXCEPT ![r] = [req[r] EXCEPT !.pc = "user", !.age = 0]]
      BY <1>17 DEF RewriteSession
    <2>2. req[r].tok \in Tokens /\ req[r].usr = Owner[req[r].tok]
      BY <1>17 DEF RewriteSession, At, WellFormed, TokenSteps, Holding
    <2>3. req'[r] = [req[r] EXCEPT !.pc = "user", !.age = 0] /\ "user" \in Steps /\ 0 \in 0..AgeCap
      BY <2>1 DEF Steps
    <2>4. /\ req'[r] \in Requests
          /\ req'[r].pc = "user" /\ req'[r].tok = req[r].tok /\ req'[r].usr = req[r].usr
      BY <2>3 DEF Requests
    <2>5. WellFormed(req'[r])
      BY <2>2, <2>4 DEF WellFormed
    <2>. QED
      BY <2>1, <2>4, <2>5
  <1>18. ASSUME ReadUserHit(r) PROVE ReqMove(r)
    BY <1>18 DEF ReadUserHit, At, Go, Finish, Admit
  <1>19. ASSUME ReadUserMiss(r) PROVE ReqMove(r)
    BY <1>19 DEF ReadUserMiss, At, Go
  <1>20. ASSUME GetUser(r) PROVE ReqMove(r)
    BY <1>20 DEF GetUser, At, Finish
  <1>21. ASSUME FillUser(r) PROVE ReqMove(r)
    BY <1>21 DEF FillUser, At, Go, Finish, Admit
  <1>22. ASSUME Answer(r) PROVE ReqMove(r)
    BY <1>22 DEF Answer, At, Finish
  <1>23. ASSUME ChangePassword(r) PROVE ReqMove(r)
    BY <1>23 DEF ChangePassword, At, Go
  <1>24. ASSUME RevokeAll(r) PROVE ReqMove(r)
    BY <1>24 DEF RevokeAll, At, LiveOf
  <1>25. ASSUME RevokeRow(r) PROVE ReqMove(r)
    BY <1>25 DEF RevokeRow, At, Go
  <1>26. ASSUME DropKey(r) PROVE ReqMove(r)
    BY <1>26 DEF DropKey, At, Finish
  <1>27. ASSUME ListTokens(r) PROVE ReqMove(r)
    BY <1>27 DEF ListTokens, At, LiveOf
  <1>28. ASSUME PurgeRows(r) PROVE ReqMove(r)
    BY <1>28 DEF PurgeRows, At, Go, LiveOf
  <1>29. ASSUME DropUserKey(r) PROVE ReqMove(r)
    BY <1>29 DEF DropUserKey, At, Finish
  <1>30. ASSUME WriteStatus(r) PROVE ReqMove(r)
    BY <1>30 DEF WriteStatus, At, Go, Finish
  <1>31. ASSUME NEW u \in Users, UpdateAccount(r, u) PROVE ReqMove(r)
    BY <1>31 DEF UpdateAccount, At, Start, Task, Idle
  <1>32. ASSUME Finish(r) PROVE ReqMove(r)
    BY <1>32 DEF Finish
  <1>33. (\E t \in Tokens : DropOneKey(r, t)) => \E t \in Tokens : At(r, "dropmany") /\ Went(r, t)
    BY DEF DropOneKey
  <1>34. Fail(r) => Finish(r) \/ \E t \in Tokens : At(r, "dropmany") /\ Went(r, t)
    BY DEF Fail, Abort, SkipKey, Owes, At
  <1> HIDE DEF ReqMove, Requests, WellFormed, Steps, Holding, TokenSteps, UserSteps, Statuses
  <1>. QED
    BY <1>1, <1>2, <1>3, <1>4, <1>5, <1>6, <1>7, <1>8, <1>9, <1>10, <1>11, <1>12, <1>13,
       <1>14, <1>15, <1>16, <1>17, <1>18, <1>19, <1>20, <1>21, <1>22, <1>23, <1>24, <1>25,
       <1>26, <1>27, <1>28, <1>29, <1>30, <1>31, <1>32, <1>33, <1>34 DEF Arrive, Proceed

DataOK ==
    /\ stage \in [Tokens -> {"unissued", "live", "gone"}]
    /\ age \in [Tokens -> 0..AgeCap]
    /\ status \in [Users -> Statuses \cup {"deleted"}]
    /\ sttl \in [Tokens -> 0..Ttl]
    /\ sage \in [Tokens -> 0..AgeCap]
    /\ uttl \in [Users -> 0..Ttl]
    /\ ustat \in [Users -> Statuses]
    /\ dead \in [Tokens -> 0..DeadCap]
    /\ since \in [Users -> 0..SinceCap]
    /\ known \in SUBSET Tokens
    /\ excused \in SUBSET Tokens

(* A step of a request keeps the types of the rows, keys and histories.      *)
LEMMA DataStep ==
    ASSUME TypeInv, NEW r \in Reqs, Arrive(r) \/ Proceed(r) \/ Fail(r)
    PROVE  DataOK'
  <1>0. DataOK /\ req[r] \in Requests /\ WellFormed(req[r])
    BY DEF TypeInv, TypeOK, ReqOK, DataOK
  <1>a. 0 \in 0..AgeCap /\ 0 \in 0..DeadCap /\ 0 \in 0..SinceCap /\ 0 \in 0..Ttl /\ Ttl \in 0..Ttl
    BY Bounds
  <1> USE <1>0, <1>a DEF DataOK, rowVars, userVars, sessionKeyVars, userKeyVars
  <1>1. ASSUME NEW t \in Tokens, Login(r, t) PROVE DataOK'
    BY <1>1 DEF Login
  <1>2. ASSUME NEW t \in Tokens, ReadSessionHit(r, t) PROVE DataOK'
    BY <1>2 DEF ReadSessionHit
  <1>3. ASSUME NEW t \in Tokens, ReadSessionMiss(r, t) PROVE DataOK'
    BY <1>3 DEF ReadSessionMiss
  <1>4. ASSUME NEW t \in Tokens, Logout(r, t) PROVE DataOK'
    BY <1>4 DEF Logout, DeleteRow, Deleting
  <1>5. ASSUME NEW t \in Tokens, LogoutById(r, t) PROVE DataOK'
    BY <1>5 DEF LogoutById
  <1>6. ASSUME NEW t \in Tokens, DropOneKey(r, t) PROVE DataOK'
    BY <1>6 DEF DropOneKey, DropSession
  <1>7. ASSUME NEW u \in Users, ResetPassword(r, u) PROVE DataOK'
    BY <1>7 DEF ResetPassword
  <1>8. ASSUME NEW u \in Users, DeleteAccount(r, u) PROVE DataOK'
    BY <1>8 DEF DeleteAccount, Deleting, ChangeStatus, LiveOf
  <1>9. ASSUME NEW u \in Users, NEW s \in Statuses, SetStatus(r, u, s) PROVE DataOK'
    BY <1>9 DEF SetStatus
  <1>10. ASSUME InsertSession(r) PROVE DataOK'
    BY <1>10 DEF InsertSession, At, WellFormed, TokenSteps, Holding, Requests
  <1>11. ASSUME RefreshSession(r) PROVE DataOK'
    BY <1>11 DEF RefreshSession
  <1>12. ASSUME CacheIssued(r) PROVE DataOK'
    BY <1>12 DEF CacheIssued, PutSession, At, WellFormed, TokenSteps, Holding, Requests
  <1>13. ASSUME SelectSession(r) PROVE DataOK'
    BY <1>13 DEF SelectSession
  <1>14. ASSUME FillSession(r) PROVE DataOK'
    BY <1>14 DEF FillSession, PutSession, At, WellFormed, TokenSteps, Holding, Requests
  <1>15. ASSUME ReselectSession(r) PROVE DataOK'
    BY <1>15 DEF ReselectSession
  <1>16. ASSUME UpdateSession(r) PROVE DataOK'
    BY <1>16 DEF UpdateSession, At, WellFormed, TokenSteps, Holding, Requests
  <1>17. ASSUME RewriteSession(r) PROVE DataOK'
    BY <1>17 DEF RewriteSession, PutSession, At, WellFormed, TokenSteps, Holding, Requests
  <1>18. ASSUME ReadUserHit(r) PROVE DataOK'
    BY <1>18 DEF ReadUserHit
  <1>19. ASSUME ReadUserMiss(r) PROVE DataOK'
    BY <1>19 DEF ReadUserMiss
  <1>20. ASSUME GetUser(r) PROVE DataOK'
    BY <1>20 DEF GetUser
  <1>21. ASSUME FillUser(r) PROVE DataOK'
    BY <1>21 DEF FillUser, PutUser, At, WellFormed, Requests, TokenSteps, UserSteps, Statuses
  <1>22. ASSUME Answer(r) PROVE DataOK'
    BY <1>22 DEF Answer
  <1>23. ASSUME ChangePassword(r) PROVE DataOK'
    BY <1>23 DEF ChangePassword, DropUser, Statuses
  <1>24. ASSUME RevokeAll(r) PROVE DataOK'
    BY <1>24 DEF RevokeAll, Deleting, LiveOf
  <1>25. ASSUME RevokeRow(r) PROVE DataOK'
    BY <1>25 DEF RevokeRow, DeleteRow, Deleting, At, WellFormed, TokenSteps
  <1>26. ASSUME DropKey(r) PROVE DataOK'
    BY <1>26 DEF DropKey, DropSession, At, WellFormed, TokenSteps, Holding, Requests
  <1>27. ASSUME ListTokens(r) PROVE DataOK'
    BY <1>27 DEF ListTokens, LiveOf
  <1>28. ASSUME PurgeRows(r) PROVE DataOK'
    BY <1>28 DEF PurgeRows, Deleting, LiveOf
  <1>29. ASSUME DropUserKey(r) PROVE DataOK'
    BY <1>29 DEF DropUserKey, DropUser, Statuses
  <1>30. ASSUME WriteStatus(r) PROVE DataOK'
    BY <1>30 DEF WriteStatus, ChangeStatus, At, WellFormed, Requests, TokenSteps, UserSteps, Statuses
  <1>31. ASSUME NEW u \in Users, UpdateAccount(r, u) PROVE DataOK'
    BY <1>31 DEF UpdateAccount
  <1>32. ASSUME Fail(r) PROVE DataOK'
    BY <1>32 DEF Fail, Abort, SkipKey
  <1>. QED
    BY <1>1, <1>2, <1>3, <1>4, <1>5, <1>6, <1>7, <1>8, <1>9, <1>10, <1>11, <1>12, <1>13,
       <1>14, <1>15, <1>16, <1>17, <1>18, <1>19, <1>20, <1>21, <1>22, <1>23, <1>24, <1>25,
       <1>26, <1>27, <1>28, <1>29, <1>30, <1>31, <1>32 DEF Arrive, Proceed

(* Every step keeps the type invariant.                                      *)
LEMMA TypeStep == TypeInv /\ [Next]_vars => TypeInv'
  <1> SUFFICES ASSUME TypeInv, [Next]_vars PROVE TypeInv'
    OBVIOUS
  <1>1. ASSUME NEW r \in Reqs, Arrive(r) \/ Proceed(r) \/ Fail(r) PROVE TypeInv'
    <2>1. req' \in [Reqs -> Requests] /\ ReqOK'
      BY <1>1, ReqMoves DEF ReqMove, TypeInv, TypeOK, ReqOK
    <2>. QED
      BY <1>1, <2>1, DataStep DEF TypeInv, TypeOK, DataOK
  <1>2. ASSUME FlushCache PROVE TypeInv'
    BY <1>2, Bounds DEF FlushCache, TypeInv, TypeOK, ReqOK, Statuses, rowVars, userVars
  <1>3. ASSUME UNCHANGED vars PROVE TypeInv'
    BY <1>3 DEF vars, TypeInv, TypeOK, ReqOK
  <1>. QED
    BY <1>1, <1>2, <1>3, TypeTick DEF Next

(* Every variable keeps its type and every request in flight has the session  *)
(* or the user that its next step works on.                                   *)
THEOREM TypeInvariance == Spec => []TypeInv
  <1>1. Init => TypeInv
    BY TypeInit
  <1>2. TypeInv /\ [Next]_vars => TypeInv'
    BY TypeStep
  <1>. QED
    BY <1>1, <1>2, PTL DEF Spec

(* The type invariant that the runs check, for every instance.               *)
THEOREM TypeCorrect == Spec => []TypeOK
  <1>1. TypeInv => TypeOK
    BY DEF TypeInv
  <1>. QED
    BY <1>1, TypeInvariance, PTL

------------------------------------------------------------------------------
(* What makes OrphanKeysAreExplained inductive: a copy that a request still   *)
(* holds of a deleted row counts like the key it will be written to.          *)
KeyInv ==
    \A t \in Tokens : stage[t] = "gone" /\ (sttl[t] > 0 \/ Holders(t) # {}) =>
        t \in excused \/ \E r \in Reqs : Owes(r, t)

(* Most steps of r neither delete the row of k nor its key, nor give k a new  *)
(* copy: what r or the cache holds of a deleted session, one of them had.     *)
Quiet(r, k) ==
    /\ stage'[k] = "gone" => stage[k] = "gone"
    /\ sttl'[k] > 0 => sttl[k] > 0 \/ r \in Holders(k)
    /\ stage'[k] = "gone" /\ req'[r].tok = k /\ req'[r].pc \in Holding => sttl[k] > 0 \/ r \in Holders(k)
    /\ excused' = excused
    /\ ~Owes(r, k)

(* A quiet step leaves a key or copy of a deleted session explained.         *)
LEMMA KeyQuiet ==
    ASSUME KeyInv, NEW r \in Reqs, req \in [Reqs -> Requests], ReqMove(r), NEW k \in Tokens, Quiet(r, k),
           stage'[k] = "gone", sttl'[k] > 0 \/ Holders(k)' # {}
    PROVE  k \in excused' \/ \E q \in Reqs : Owes(q, k)'
  <1>1. \A q \in Reqs \ {r} : req'[q] = req[q]
    BY DEF ReqMove
  <1>2. sttl[k] > 0 \/ Holders(k) # {}
    BY <1>1 DEF Quiet, Holders
  <1>3. k \in excused \/ \E q \in Reqs \ {r} : Owes(q, k)
    BY <1>2 DEF KeyInv, Quiet
  <1>. QED
    BY <1>1, <1>3 DEF Quiet, Owes, At

(* The steps that delete neither rows nor session keys are quiet.            *)
LEMMA QuietSteps ==
    ASSUME TypeInv, NEW r \in Reqs, ReqMove(r), NEW k \in Tokens,
           \/ \E t \in Tokens : Login(r, t) \/ ReadSessionHit(r, t) \/ ReadSessionMiss(r, t) \/ LogoutById(r, t)
           \/ \E u \in Users : ResetPassword(r, u) \/ UpdateAccount(r, u) \/ \E s \in Statuses : SetStatus(r, u, s)
           \/ InsertSession(r) \/ RefreshSession(r) \/ CacheIssued(r)
           \/ SelectSession(r) \/ FillSession(r) \/ ReselectSession(r) \/ UpdateSession(r) \/ RewriteSession(r)
           \/ ReadUserHit(r) \/ ReadUserMiss(r) \/ GetUser(r) \/ FillUser(r)
           \/ Answer(r) \/ ChangePassword(r) \/ ListTokens(r) \/ DropUserKey(r) \/ WriteStatus(r)
    PROVE  Quiet(r, k)
  <1>0. TypeOK /\ req[r] \in Requests /\ WellFormed(req[r])
    BY DEF TypeInv, TypeOK, ReqOK
  <1> USE <1>0 DEF Quiet, TypeOK, Holders, Holding, Owes, At, Go, Start, Finish,
                   rowVars, userVars, sessionKeyVars, userKeyVars, Requests, Idle, Task
  <1>1. ASSUME NEW t \in Tokens, Login(r, t) PROVE Quiet(r, k)
    BY <1>1 DEF Login
  <1>2. ASSUME NEW t \in Tokens, ReadSessionHit(r, t) PROVE Quiet(r, k)
    BY <1>2 DEF ReadSessionHit, Judged
  <1>3. ASSUME NEW t \in Tokens, ReadSessionMiss(r, t) PROVE Quiet(r, k)
    BY <1>3 DEF ReadSessionMiss
  <1>4. ASSUME NEW t \in Tokens, LogoutById(r, t) PROVE Quiet(r, k)
    BY <1>4 DEF LogoutById
  <1>5. ASSUME NEW u \in Users, ResetPassword(r, u) \/ UpdateAccount(r, u) PROVE Quiet(r, k)
    <2>1. CASE ResetPassword(r, u)
      BY <2>1 DEF ResetPassword
    <2>2. CASE UpdateAccount(r, u)
      BY <2>2 DEF UpdateAccount
    <2>. QED
      BY <1>5, <2>1, <2>2
  <1>6. ASSUME NEW u \in Users, NEW s \in Statuses, SetStatus(r, u, s) PROVE Quiet(r, k)
    BY <1>6 DEF SetStatus
  <1>7. ASSUME InsertSession(r) PROVE Quiet(r, k)
    BY <1>7 DEF InsertSession
  <1>8. ASSUME RefreshSession(r) PROVE Quiet(r, k)
    BY <1>8 DEF RefreshSession
  <1>9. ASSUME CacheIssued(r) PROVE Quiet(r, k)
    BY <1>9 DEF CacheIssued, PutSession
  <1>10. ASSUME SelectSession(r) PROVE Quiet(r, k)
    BY <1>10 DEF SelectSession
  <1>11. ASSUME FillSession(r) PROVE Quiet(r, k)
    BY <1>11 DEF FillSession, Judged, PutSession
  <1>12. ASSUME ReselectSession(r) PROVE Quiet(r, k)
    BY <1>12 DEF ReselectSession
  <1>13. ASSUME UpdateSession(r) PROVE Quiet(r, k)
    BY <1>13 DEF UpdateSession
  <1>14. ASSUME RewriteSession(r) PROVE Quiet(r, k)
    BY <1>14 DEF RewriteSession, PutSession
  <1>15. ASSUME ReadUserHit(r) PROVE Quiet(r, k)
    BY <1>15 DEF ReadUserHit, Admit
  <1>16. ASSUME ReadUserMiss(r) PROVE Quiet(r, k)
    BY <1>16 DEF ReadUserMiss
  <1>17. ASSUME GetUser(r) PROVE Quiet(r, k)
    BY <1>17 DEF GetUser
  <1>18. ASSUME FillUser(r) PROVE Quiet(r, k)
    BY <1>18 DEF FillUser, Admit
  <1>19. ASSUME Answer(r) PROVE Quiet(r, k)
    BY <1>19 DEF Answer
  <1>20. ASSUME ChangePassword(r) PROVE Quiet(r, k)
    BY <1>20 DEF ChangePassword
  <1>21. ASSUME ListTokens(r) PROVE Quiet(r, k)
    BY <1>21 DEF ListTokens
  <1>22. ASSUME DropUserKey(r) PROVE Quiet(r, k)
    BY <1>22 DEF DropUserKey
  <1>23. ASSUME WriteStatus(r) PROVE Quiet(r, k)
    BY <1>23 DEF WriteStatus
  <1>. QED
    BY <1>1, <1>2, <1>3, <1>4, <1>5, <1>6, <1>7, <1>8, <1>9, <1>10, <1>11, <1>12, <1>13,
       <1>14, <1>15, <1>16, <1>17, <1>18, <1>19, <1>20, <1>21, <1>22, <1>23

(* When rows are deleted, a key that stays is owed by this request, or        *)
(* excused.                                                                   *)
LEMMA KeyDelete ==
    ASSUME TypeOK, KeyInv, NEW r \in Reqs, ReqMove(r), NEW k \in Tokens,
           NEW S \in SUBSET Tokens, NEW keyed \in SUBSET Tokens, Deleting(S, keyed), UNCHANGED sttl,
           ~Owes(r, k), r \notin Holders(k)', k \in S \cap keyed => Owes(r, k)',
           stage'[k] = "gone", sttl'[k] > 0 \/ Holders(k)' # {}
    PROVE  k \in excused' \/ \E q \in Reqs : Owes(q, k)'
  <1>1. \A q \in Reqs \ {r} : req'[q] = req[q]
    BY DEF ReqMove, TypeOK
  <1>2. CASE k \in S
    BY <1>2 DEF Deleting
  <1>3. CASE k \notin S
    <2>1. stage[k] = "gone" /\ excused \subseteq excused'
      BY <1>3 DEF Deleting, TypeOK
    <2>2. sttl[k] > 0 \/ Holders(k) # {}
      BY <1>1 DEF Holders
    <2>3. k \in excused \/ \E q \in Reqs \ {r} : Owes(q, k)
      BY <2>1, <2>2 DEF KeyInv
    <2>. QED
      BY <1>1, <2>1, <2>3 DEF Owes, At
  <1>. QED
    BY <1>2, <1>3

(* Dropping the key of t leaves t excused if anyone still holds a copy.      *)
LEMMA KeyDrop ==
    ASSUME TypeOK, KeyInv, NEW r \in Reqs, ReqMove(r), NEW k \in Tokens,
           NEW t \in Tokens, DropSession(t), UNCHANGED stage,
           r \notin Holders(k)', k # t /\ Owes(r, k) => Owes(r, k)',
           stage'[k] = "gone", sttl'[k] > 0 \/ Holders(k)' # {}
    PROVE  k \in excused' \/ \E q \in Reqs : Owes(q, k)'
  <1>1. \A q \in Reqs \ {r} : req'[q] = req[q]
    BY DEF ReqMove, TypeOK
  <1>2. CASE k = t
    <2>1. Holders(k) # {}
      BY <1>1, <1>2 DEF DropSession, TypeOK, Holders
    <2>. QED
      BY <1>2, <2>1 DEF DropSession
  <1>3. CASE k # t
    <2>1. stage[k] = "gone" /\ excused \subseteq excused' /\ sttl'[k] = sttl[k]
      BY <1>3 DEF DropSession, TypeOK
    <2>2. sttl[k] > 0 \/ Holders(k) # {}
      BY <1>1, <2>1 DEF Holders
    <2>3. k \in excused \/ \E q \in Reqs : Owes(q, k)
      BY <2>1, <2>2 DEF KeyInv
    <2>. QED
      BY <1>1, <1>3, <2>1, <2>3 DEF Owes, At
  <1>. QED
    BY <1>2, <1>3

(* Every step of a request keeps the keys of deleted sessions explained.     *)
LEMMA KeyStep ==
    ASSUME TypeInv, KeyInv, NEW r \in Reqs, Arrive(r) \/ Proceed(r) \/ Fail(r)
    PROVE  KeyInv'
  <1> SUFFICES ASSUME NEW k \in Tokens, stage'[k] = "gone", sttl'[k] > 0 \/ Holders(k)' # {}
               PROVE  k \in excused' \/ \E q \in Reqs : Owes(q, k)'
    BY DEF KeyInv
  <1>0. TypeOK /\ req[r] \in Requests /\ WellFormed(req[r]) /\ ReqMove(r)
    BY ReqMoves DEF TypeInv, TypeOK, ReqOK
  <1>a. req \in [Reqs -> Requests]
    BY <1>0 DEF TypeOK
  <1> USE <1>0, <1>a
  <1>1. ASSUME NEW t \in Tokens, Logout(r, t) \/ (RevokeRow(r) /\ t = req[r].tok)
        PROVE  k \in excused' \/ \E q \in Reqs : Owes(q, k)'
    <2>1. /\ ~Owes(r, k) /\ r \notin Holders(k)' /\ UNCHANGED sttl
          /\ DeleteRow(t)
          /\ k = t => Owes(r, k)'
      <3>1. CASE Logout(r, t)
        BY <3>1 DEF Logout, sessionKeyVars, At, Start, Owes, Holders, Holding, Idle, Task
      <3>2. CASE RevokeRow(r) /\ t = req[r].tok
        BY <3>2 DEF RevokeRow, sessionKeyVars, At, Go, Owes, Holders, Holding, Requests
      <3>. QED
        BY <1>1, <3>1, <3>2
    <2>2. CASE stage[t] = "live"
      BY <2>1, <2>2, KeyDelete DEF DeleteRow
    <2>3. CASE stage[t] # "live"
      <3>1. Quiet(r, k)
        BY <2>1, <2>3 DEF DeleteRow, Quiet, Holders
      <3>. QED
        BY <3>1, KeyQuiet
    <2>. QED
      BY <2>2, <2>3
  <1>2. ASSUME PurgeRows(r)
        PROVE  k \in excused' \/ \E q \in Reqs : Owes(q, k)'
    <2>1. /\ ~Owes(r, k) /\ r \notin Holders(k)' /\ UNCHANGED sttl
          /\ Deleting(LiveOf(req[r].usr), req[r].todo)
          /\ k \in req[r].todo => Owes(r, k)'
      BY <1>2 DEF PurgeRows, sessionKeyVars, At, Go, Owes, Holders, Holding, Requests
    <2>. QED
      BY <2>1, KeyDelete DEF LiveOf, Requests
  <1>3. ASSUME NEW u, Deleting(LiveOf(u), {}), RevokeAll(r) \/ DeleteAccount(r, u)
        PROVE  k \in excused' \/ \E q \in Reqs : Owes(q, k)'
    <2>1. ~Owes(r, k) /\ r \notin Holders(k)' /\ UNCHANGED sttl
      <3>1. CASE RevokeAll(r)
        <4>1. req'[r].pc = "dropuser" /\ req[r].pc = "ok"
          BY <3>1 DEF RevokeAll, At, Requests
        <4>. QED
          BY <3>1, <4>1 DEF RevokeAll, sessionKeyVars, At, Owes, Holders, Holding
      <3>2. CASE DeleteAccount(r, u)
        BY <3>2 DEF DeleteAccount, sessionKeyVars, At, Start, Owes, Holders, Holding, Idle, Task
      <3>. QED
        BY <1>3, <3>1, <3>2
    <2>2. LiveOf(u) \in SUBSET Tokens /\ {} \in SUBSET Tokens /\ k \notin LiveOf(u) \cap {}
      BY DEF LiveOf
    <2>. QED
      BY <1>3, <2>1, <2>2, KeyDelete
  <1>4. ASSUME NEW t \in Tokens, DropOneKey(r, t) \/ (DropKey(r) /\ t = req[r].tok)
        PROVE  k \in excused' \/ \E q \in Reqs : Owes(q, k)'
    <2>1. DropSession(t) /\ UNCHANGED stage
      BY <1>4 DEF DropOneKey, DropKey, rowVars
    <2>2. r \notin Holders(k)' /\ (k # t /\ Owes(r, k) => Owes(r, k)')
      BY <1>4 DEF DropOneKey, DropKey, Went, Finish, At, Owes, Holders, Holding, Requests, Idle
    <2>. QED
      BY <2>1, <2>2, KeyDrop
  <1>5. ASSUME Quiet(r, k)
        PROVE  k \in excused' \/ \E q \in Reqs : Owes(q, k)'
    BY <1>5, KeyQuiet
  <1>6. RevokeRow(r) \/ DropKey(r) => req[r].tok \in Tokens
    BY DEF RevokeRow, DropKey, At, WellFormed, TokenSteps
  <1>7. ASSUME Fail(r)
        PROVE  k \in excused' \/ \E q \in Reqs : Owes(q, k)'
    (* What r owed and no longer does is excused.                            *)
    <2>1. r \notin Holders(k)' /\ (Owes(r, k) => Owes(r, k)' \/ k \in excused')
      <3>1. CASE Abort(r)
        BY <3>1 DEF Abort, Finish, Holders, Holding, Idle
      <3>2. ASSUME NEW t \in Tokens, SkipKey(r, t)
            PROVE  r \notin Holders(k)' /\ (Owes(r, k) => Owes(r, k)' \/ k \in excused')
        BY <3>2 DEF SkipKey, Went, Finish, At, Owes, Holders, Holding, Requests, Idle
      <3>. QED
        BY <1>7, <3>1, <3>2 DEF Fail
    <2>2. stage' = stage /\ sttl' = sttl /\ excused \subseteq excused'
      BY <1>7 DEF Fail, Abort, SkipKey, rowVars, sessionKeyVars
    <2>3. \A q \in Reqs \ {r} : req'[q] = req[q]
      BY DEF ReqMove
    <2>4. k \in excused \/ \E q \in Reqs : Owes(q, k)
      BY <2>1, <2>2, <2>3 DEF KeyInv, Holders
    <2>. QED
      BY <2>1, <2>2, <2>3, <2>4 DEF Owes, At
  <1>. QED
    BY <1>1, <1>2, <1>3, <1>4, <1>5, <1>6, <1>7, QuietSteps DEF Arrive, Proceed, RevokeAll, DeleteAccount

(* A key of a deleted session, or a copy that may become one, is explained.   *)
THEOREM KeyInvariance == Spec => []KeyInv
  <1>1. Init => KeyInv
    BY DEF Init, KeyInv
  <1>2. ASSUME TypeInv, KeyInv, [Next]_vars PROVE KeyInv'
    <2>1. ASSUME Tick PROVE KeyInv'
      <3>1. \A r \in Reqs : req'[r].pc = req[r].pc /\ req'[r].tok = req[r].tok /\ req'[r].todo = req[r].todo
        <4> SUFFICES ASSUME NEW r \in Reqs
                     PROVE req'[r].pc = req[r].pc /\ req'[r].tok = req[r].tok /\ req'[r].todo = req[r].todo
          OBVIOUS
        <4>1. req[r] \in Requests /\ (req[r].pc # "idle" => req[r].el < Span) /\ req'[r] = Later(req[r])
          BY <1>2, <2>1 DEF Tick, TypeInv, TypeOK
        <4>. QED
          BY <4>1, LaterOK
      <3>2. \A t \in Tokens : sttl'[t] > 0 => sttl[t] > 0
        BY <1>2, <2>1 DEF Tick, Younger, TypeInv, TypeOK
      <3>. QED
        BY <1>2, <2>1, <3>1, <3>2 DEF Tick, KeyInv, Holders, Owes, At
    <2>2. ASSUME FlushCache PROVE KeyInv'
      BY <1>2, <2>2 DEF FlushCache, KeyInv, Holders, Owes, At, rowVars
    <2>3. ASSUME UNCHANGED vars PROVE KeyInv'
      BY <1>2, <2>3 DEF vars, KeyInv, Holders, Owes, At
    <2>. QED
      BY <1>2, <2>1, <2>2, <2>3, KeyStep DEF Next
  <1>. QED
    BY <1>1, <1>2, TypeInvariance, PTL DEF Spec

(* A session key outlives its row only for one of the reasons that            *)
(* OrphanKeysAreExplained names, for any number of requests.                  *)
THEOREM OrphanKeys == Spec => []OrphanKeysAreExplained
  <1>1. KeyInv => OrphanKeysAreExplained
    BY DEF KeyInv, OrphanKeysAreExplained
  <1>. QED
    BY <1>1, KeyInvariance, PTL

------------------------------------------------------------------------------
(* How long copies of a deleted session last.  A copy that was read from the *)
(* row is as old as the request that holds it and leaves a key that ends      *)
(* within Ttl + Span of the deletion (FirstCopy).  A copy that was renewed     *)
(* after the deletion was read from such a key, and the key it is written to  *)
(* expires before the copy is old enough to be renewed again (RenewedCopy):   *)
(* this is where Ttl + Span <= UpdateAge is needed.                           *)
Gone(r, steps) == req[r].pc \in steps /\ stage[req[r].tok] = "gone"
FirstCopy(t) == sttl[t] + dead[t] <= Ttl + Span
RenewedCopy(t) == sage[t] + sttl[t] <= Ttl + Span /\ sttl[t] + dead[t] <= 2 * Ttl + 2 * Span - 1
RevokedKey(t) == stage[t] = "gone" /\ sttl[t] > 0 => FirstCopy(t) \/ RenewedCopy(t)
RevokedReq(r) ==
    /\ req[r].pc \in {"reget", "update", "rewrite"} => req[r].age <= req[r].el
    /\ Gone(r, {"renew", "fillnew", "fill", "update"}) => dead[req[r].tok] <= req[r].el
    /\ Gone(r, {"reget", "rewrite"}) => dead[req[r].tok] <= req[r].el + Ttl + Span - 1
    /\ Gone(r, {"user", "getuser", "filluser", "ok"}) =>
          dead[req[r].tok] <= req[r].el + 2 * Ttl + 2 * Span - 2
RevokedInv == (\A t \in Tokens : RevokedKey(t)) /\ (\A r \in Reqs : RevokedReq(r))

(* A deleted row stays deleted, and only its deletion resets its clock.      *)
LEMMA RowsMove ==
    ASSUME TypeInv, NEW r \in Reqs, Arrive(r) \/ Proceed(r) \/ Fail(r), NEW k \in Tokens, stage'[k] = "gone"
    PROVE  dead'[k] = 0 \/ (stage[k] = "gone" /\ dead'[k] = dead[k])
  <1>0. TypeOK
    BY DEF TypeInv
  <1>1. ASSUME NEW S, NEW keyed, Deleting(S, keyed)
        PROVE  dead'[k] = 0 \/ (stage[k] = "gone" /\ dead'[k] = dead[k])
    BY <1>0, <1>1 DEF Deleting, TypeOK
  <1>2. ASSUME UNCHANGED rowVars
        PROVE  dead'[k] = 0 \/ (stage[k] = "gone" /\ dead'[k] = dead[k])
    BY <1>2 DEF rowVars
  <1>3. ASSUME InsertSession(r) \/ UpdateSession(r)
        PROVE  dead'[k] = 0 \/ (stage[k] = "gone" /\ dead'[k] = dead[k])
    BY <1>0, <1>3 DEF InsertSession, UpdateSession, TypeOK
  <1>4. ASSUME NEW t, DeleteRow(t)
        PROVE  dead'[k] = 0 \/ (stage[k] = "gone" /\ dead'[k] = dead[k])
    BY <1>1, <1>2, <1>4 DEF DeleteRow, rowVars
  <1>5. (\E t \in Tokens : Login(r, t) \/ ReadSessionHit(r, t) \/ ReadSessionMiss(r, t) \/ LogoutById(r, t)
                           \/ DropOneKey(r, t)) => UNCHANGED rowVars
    BY DEF Login, ReadSessionHit, ReadSessionMiss, LogoutById, DropOneKey
  <1>6. (\E u \in Users : ResetPassword(r, u) \/ UpdateAccount(r, u) \/ \E s \in Statuses : SetStatus(r, u, s)) => UNCHANGED rowVars
    BY DEF ResetPassword, UpdateAccount, SetStatus
  <1>7. RefreshSession(r) \/ CacheIssued(r) \/ SelectSession(r) \/ FillSession(r) \/ ReselectSession(r)
        \/ RewriteSession(r) => UNCHANGED rowVars
    BY DEF RefreshSession, CacheIssued, SelectSession, FillSession, ReselectSession, RewriteSession
  <1>8. ReadUserHit(r) \/ ReadUserMiss(r) \/ GetUser(r) \/ FillUser(r) \/ Answer(r) \/ ChangePassword(r)
        => UNCHANGED rowVars
    BY DEF ReadUserHit, ReadUserMiss, GetUser, FillUser, Answer, ChangePassword
  <1>9. DropKey(r) \/ ListTokens(r) \/ DropUserKey(r) \/ WriteStatus(r) => UNCHANGED rowVars
    BY DEF DropKey, ListTokens, DropUserKey, WriteStatus
  <1>10. /\ \A t : Logout(r, t) => DeleteRow(t)
         /\ RevokeRow(r) => DeleteRow(req[r].tok)
    BY DEF Logout, RevokeRow
  <1>11. /\ PurgeRows(r) => Deleting(LiveOf(req[r].usr), req[r].todo)
         /\ RevokeAll(r) => Deleting(LiveOf(req[r].usr), {})
         /\ \A u : DeleteAccount(r, u) => Deleting(LiveOf(u), {})
    BY DEF PurgeRows, RevokeAll, DeleteAccount
  <1>12. Fail(r) => UNCHANGED rowVars
    BY DEF Fail, Abort, SkipKey
  <1>. QED
    BY <1>1, <1>2, <1>3, <1>4, <1>5, <1>6, <1>7, <1>8, <1>9, <1>10, <1>11, <1>12 DEF Arrive, Proceed

(* A step of r leaves the bounds of every other request.                     *)
LEMMA RevokedOthers ==
    ASSUME TypeInv, RevokedInv, NEW r \in Reqs, Arrive(r) \/ Proceed(r) \/ Fail(r), NEW q \in Reqs \ {r}
    PROVE  RevokedReq(q)'
  <1>1. req'[q] = req[q] /\ req[q] \in Requests /\ WellFormed(req[q]) /\ RevokedReq(q)
    BY ReqMoves DEF ReqMove, TypeInv, TypeOK, ReqOK, RevokedInv
  <1>2. CASE req[q].tok \in Tokens
    <2>1. req[q].el \in Nat /\ dead[req[q].tok] \in Nat /\ Ttl \in Nat \ {0} /\ Span \in Nat
      BY <1>1, <1>2, Bounds DEF TypeInv, TypeOK, Requests
    <2>2. \A S : Gone(q, S)' => dead'[req[q].tok] = 0 \/ (Gone(q, S) /\ dead'[req[q].tok] = dead[req[q].tok])
      BY <1>1, <1>2, RowsMove DEF Gone
    <2>. QED
      BY <1>1, <2>1, <2>2 DEF RevokedReq
  <1>3. CASE req[q].tok \notin Tokens
    BY <1>1, <1>3 DEF WellFormed, TokenSteps, Holding, RevokedReq, Gone
  <1>. QED
    BY <1>2, <1>3

(* Steps after which r holds nothing that can vouch for a session.           *)
Settled == {"idle", "insert", "select", "revoke", "drop", "list", "purge", "dropmany", "setstatus", "dropuser"}

(* A step of r keeps the bound of the copy that r itself holds.              *)
LEMMA RevokedMine ==
    ASSUME TypeInv, RevokedInv, NEW r \in Reqs, Arrive(r) \/ Proceed(r) \/ Fail(r)
    PROVE  RevokedReq(r)'
  <1>0. /\ TypeOK /\ req[r] \in Requests /\ WellFormed(req[r]) /\ RevokedReq(r)
        /\ req'[r] \in Requests /\ WellFormed(req'[r]) /\ req' = [req EXCEPT ![r] = req'[r]]
    BY ReqMoves DEF ReqMove, TypeInv, TypeOK, ReqOK, RevokedInv
  <1>a. Ttl \in Nat \ {0} /\ Span \in Nat /\ Day \in Nat /\ Month \in Nat /\ Ttl + Span <= Day /\ Day <= Month
    OBVIOUS
  <1>b. req[r].el \in 0..Span /\ req[r].age \in 0..AgeCap /\ req \in [Reqs -> Requests]
    BY <1>0 DEF Requests, TypeOK
  <1>1. ASSUME req'[r].pc \in Settled PROVE RevokedReq(r)'
    BY <1>1 DEF Settled, RevokedReq, Gone
  <1>2. ASSUME InsertSession(r) PROVE RevokedReq(r)'
    BY <1>0, <1>b, <1>2 DEF InsertSession, At, Go, Finish, Idle, RevokedReq, Gone, WellFormed, TokenSteps, Requests, TypeOK
  <1>3. ASSUME RefreshSession(r) \/ SelectSession(r) PROVE RevokedReq(r)'
    <2>1. stage' = stage /\ req[r].tok \in Tokens
      BY <1>0, <1>3 DEF RefreshSession, SelectSession, rowVars, At, WellFormed, TokenSteps, Holding
    <2>2. \/ req'[r] = Idle
          \/ stage[req'[r].tok] = "live" /\ req'[r].pc \in {"fill", "fillnew"}
      BY <1>b, <1>3 DEF RefreshSession, SelectSession, Finish, Requests
    <2>. QED
      BY <2>1, <2>2 DEF RevokedReq, Gone, Idle
  <1>4. ASSUME NEW t \in Tokens, ReadSessionHit(r, t) PROVE RevokedReq(r)'
    <2>1. /\ stage' = stage /\ dead' = dead /\ sttl[t] > 0
          /\ req'[r] = Judged(Task("idle", t, Owner[t]), sage[t], "reget")
      BY <1>b, <1>4 DEF ReadSessionHit, Start, rowVars
    <2>2. /\ req'[r].tok = t /\ req'[r].el = 0 /\ req'[r].age = 0
          /\ req'[r].pc \in {"revoke", "reget", "user"}
          /\ sage[t] <= UpdateAge => req'[r].pc = "user"
      BY <2>1, <1>a, <1>0 DEF Judged, Task, Idle, Life, UpdateAge, TypeOK
    <2>3. stage[t] = "gone" => FirstCopy(t) \/ RenewedCopy(t)
      BY <2>1 DEF RevokedInv, RevokedKey
    <2>4. /\ sttl[t] \in Nat /\ sage[t] \in Nat /\ dead[t] \in Nat
      BY <1>0, Bounds DEF TypeOK
    <2>5. stage[t] = "gone" /\ FirstCopy(t) => dead[t] <= Ttl + Span - 1
      BY <2>1, <2>4, <1>a DEF FirstCopy
    <2>6. stage[t] = "gone" /\ RenewedCopy(t) => sage[t] <= UpdateAge /\ dead[t] <= 2 * Ttl + 2 * Span - 2
      BY <2>1, <2>4, <1>a DEF RenewedCopy, UpdateAge
    <2>7. Ttl + Span - 1 <= 2 * Ttl + 2 * Span - 2
      BY <1>a
    <2>. QED
      BY <2>1, <2>2, <2>3, <2>4, <2>5, <2>6, <2>7, <1>a DEF RevokedReq, Gone
  <1>5. ASSUME FillSession(r) PROVE RevokedReq(r)'
    <2>1. /\ stage' = stage /\ dead' = dead /\ req[r].pc = "fill" /\ req[r].tok \in Tokens
          /\ req'[r] = Judged(req[r], req[r].age, "update")
      BY <1>0, <1>b, <1>5 DEF FillSession, rowVars, At, WellFormed, TokenSteps, Holding
    <2>2. /\ req'[r].tok = req[r].tok /\ req'[r].el = req[r].el /\ req'[r].age = 0
          /\ req'[r].pc \in {"revoke", "update", "user"}
      BY <2>1, <1>0 DEF Judged, Requests
    <2>3. dead[req[r].tok] \in Nat
      BY <2>1, <1>0, Bounds DEF TypeOK
    <2>. QED
      BY <2>1, <2>2, <2>3, <1>0, <1>a, <1>b DEF RevokedReq, Gone
  <1>6. ASSUME ReselectSession(r) PROVE RevokedReq(r)'
    <2>1. /\ stage' = stage /\ dead' = dead /\ req[r].pc = "reget" /\ req[r].tok \in Tokens
          /\ req'[r] = [req[r] EXCEPT !.pc = IF stage[req[r].tok] = "live" THEN "update" ELSE "rewrite"]
      BY <1>0, <1>b, <1>6 DEF ReselectSession, Go, rowVars, At, WellFormed, TokenSteps, Holding
    <2>2. /\ req'[r].tok = req[r].tok /\ req'[r].el = req[r].el /\ req'[r].age = req[r].age
          /\ req'[r].pc = IF stage[req[r].tok] = "live" THEN "update" ELSE "rewrite"
      BY <2>1, <1>0 DEF Requests
    <2>. QED
      BY <2>1, <2>2, <1>0 DEF RevokedReq, Gone
  <1>7. ASSUME UpdateSession(r) PROVE RevokedReq(r)'
    <2>1. /\ stage' = stage /\ dead' = dead /\ req[r].pc = "update" /\ req[r].tok \in Tokens
          /\ \/ req'[r] = Idle
             \/ stage[req[r].tok] = "live" /\ req'[r] = [req[r] EXCEPT !.pc = "rewrite"]
      BY <1>0, <1>b, <1>7 DEF UpdateSession, Go, Finish, At, WellFormed, TokenSteps, Holding
    <2>. QED
      BY <2>1, <1>0 DEF RevokedReq, Gone, Requests, Idle
  <1>8. ASSUME RewriteSession(r) PROVE RevokedReq(r)'
    <2>1. /\ stage' = stage /\ dead' = dead /\ req[r].pc = "rewrite" /\ req[r].tok \in Tokens
          /\ req'[r] = [req[r] EXCEPT !.pc = "user", !.age = 0]
      BY <1>0, <1>b, <1>8 DEF RewriteSession, rowVars, At, WellFormed, TokenSteps, Holding
    <2>2. req'[r].tok = req[r].tok /\ req'[r].el = req[r].el /\ req'[r].pc = "user"
      BY <2>1, <1>0 DEF Requests
    <2>3. dead[req[r].tok] \in Nat
      BY <2>1, <1>0, Bounds DEF TypeOK
    <2>. QED
      BY <2>1, <2>2, <2>3, <1>0, <1>a, <1>b DEF RevokedReq, Gone
  <1>9. ASSUME ReadUserHit(r) \/ ReadUserMiss(r) \/ GetUser(r) \/ FillUser(r) PROVE RevokedReq(r)'
    <2>1. /\ stage' = stage /\ dead' = dead
          /\ req[r].pc \in {"user", "getuser", "filluser"} /\ req[r].tok \in Tokens
      BY <1>0, <1>9 DEF ReadUserHit, ReadUserMiss, GetUser, FillUser, rowVars, At, WellFormed, TokenSteps
    <2>2. \/ req'[r] = Idle
          \/ /\ req'[r].tok = req[r].tok /\ req'[r].el = req[r].el
             /\ req'[r].pc \in {"getuser", "filluser", "ok"}
      BY <1>0, <1>b, <1>9 DEF ReadUserHit, ReadUserMiss, GetUser, FillUser, Admit, Go, Finish, Requests
    <2>. QED
      BY <2>1, <2>2, <1>0 DEF RevokedReq, Gone, Idle
  <1>10. ASSUME \/ \E t \in Tokens : Login(r, t) \/ ReadSessionMiss(r, t) \/ Logout(r, t) \/ LogoutById(r, t)
                \/ \E u \in Users : \/ ResetPassword(r, u) \/ UpdateAccount(r, u) \/ DeleteAccount(r, u)
                                    \/ \E s \in Statuses : SetStatus(r, u, s)
         PROVE RevokedReq(r)'
    <2>1. ASSUME NEW x, Start(r, x), x.pc \in Settled PROVE req'[r].pc \in Settled
      BY <1>b, <2>1 DEF Start
    <2>2. \A p \in Settled : \A t, u : Task(p, t, u).pc \in Settled
      BY DEF Task, Idle
    <2>3. \A u, s : [Task("setstatus", None, u) EXCEPT !.st = s].pc \in Settled
      BY DEF Task, Idle, Settled
    <2>4. {"insert", "select", "drop", "revoke", "list", "dropuser"} \subseteq Settled
      BY DEF Settled
    <2>. QED
      BY <1>10, <2>1, <2>2, <2>3, <2>4, <1>1
         DEF Login, ReadSessionMiss, Logout, LogoutById, ResetPassword, UpdateAccount, DeleteAccount, SetStatus
  <1>11. ASSUME \/ CacheIssued(r) \/ Answer(r) \/ ChangePassword(r) \/ RevokeAll(r) \/ RevokeRow(r)
                \/ DropKey(r) \/ ListTokens(r) \/ PurgeRows(r) \/ DropUserKey(r) \/ WriteStatus(r)
                \/ Fail(r) \/ \E t \in Tokens : DropOneKey(r, t)
         PROVE RevokedReq(r)'
    <2>1. Finish(r) => req'[r].pc \in Settled
      BY <1>b DEF Finish, Idle, Settled
    <2>2. \A p \in Settled : Go(r, p) => req'[r].pc \in Settled
      BY <1>0, <1>b DEF Go, Requests
    <2>3. {"list", "drop", "dropmany", "dropuser"} \subseteq Settled
      BY DEF Settled
    <2>4. CASE CacheIssued(r) \/ Answer(r) \/ DropKey(r) \/ DropUserKey(r)
      BY <1>1, <2>1, <2>4 DEF CacheIssued, Answer, DropKey, DropUserKey
    <2>5. CASE ChangePassword(r) \/ RevokeRow(r) \/ PurgeRows(r) \/ WriteStatus(r)
      BY <1>1, <2>1, <2>2, <2>3, <2>5 DEF ChangePassword, RevokeRow, PurgeRows, WriteStatus
    <2>6. CASE RevokeAll(r)
      BY <1>0, <1>b, <1>1, <2>3, <2>6 DEF RevokeAll, Requests
    <2>7. CASE ListTokens(r)
      BY <1>0, <1>b, <1>1, <2>7 DEF ListTokens, Requests, Settled
    <2>8. ASSUME NEW t \in Tokens, Went(r, t) PROVE RevokedReq(r)'
      BY <1>0, <1>b, <1>1, <2>8 DEF Went, Requests, Settled
    <2>9. Fail(r) \/ (\E t \in Tokens : DropOneKey(r, t)) => Finish(r) \/ \E t \in Tokens : Went(r, t)
      BY DEF Fail, Abort, SkipKey, DropOneKey
    <2>. QED
      BY <1>1, <1>11, <2>1, <2>4, <2>5, <2>6, <2>7, <2>8, <2>9
  <1>. QED
    BY <1>2, <1>3, <1>4, <1>5, <1>6, <1>7, <1>8, <1>9, <1>10, <1>11 DEF Arrive, Proceed

(* What a step of r does to the session keys.                                *)
LEMMA KeysMove ==
    ASSUME TypeInv, NEW r \in Reqs, Arrive(r) \/ Proceed(r) \/ Fail(r), NEW k \in Tokens
    PROVE  \/ sttl'[k] = 0
           \/ sttl'[k] = sttl[k] /\ sage'[k] = sage[k]
           \/ /\ req[r].pc \in {"fill", "fillnew", "rewrite"} /\ req[r].tok = k
              /\ UNCHANGED rowVars /\ sttl'[k] = Ttl /\ sage'[k] = req[r].age
  <1> DEFINE Goal == \/ sttl'[k] = 0
                     \/ sttl'[k] = sttl[k] /\ sage'[k] = sage[k]
                     \/ /\ req[r].pc \in {"fill", "fillnew", "rewrite"} /\ req[r].tok = k
                        /\ UNCHANGED rowVars /\ sttl'[k] = Ttl /\ sage'[k] = req[r].age
  <1>1. sttl \in [Tokens -> 0..Ttl] /\ sage \in [Tokens -> 0..AgeCap]
    BY DEF TypeInv, TypeOK
  <1>2. ASSUME UNCHANGED sessionKeyVars PROVE Goal
    BY <1>2 DEF sessionKeyVars
  <1>3. ASSUME NEW t, DropSession(t) PROVE Goal
    BY <1>1, <1>3 DEF DropSession
  <1>4. ASSUME CacheIssued(r) \/ FillSession(r) \/ RewriteSession(r) PROVE Goal
    BY <1>1, <1>4 DEF CacheIssued, FillSession, RewriteSession, PutSession, At
  <1>5. (\E t \in Tokens : \/ Login(r, t) \/ ReadSessionHit(r, t) \/ ReadSessionMiss(r, t)
                           \/ Logout(r, t) \/ LogoutById(r, t)) => UNCHANGED sessionKeyVars
    BY DEF Login, ReadSessionHit, ReadSessionMiss, Logout, LogoutById
  <1>6. (\E u \in Users : \/ ResetPassword(r, u) \/ UpdateAccount(r, u) \/ DeleteAccount(r, u)
                          \/ \E s \in Statuses : SetStatus(r, u, s)) => UNCHANGED sessionKeyVars
    BY DEF ResetPassword, UpdateAccount, DeleteAccount, SetStatus
  <1>7. InsertSession(r) \/ RefreshSession(r) \/ SelectSession(r) \/ ReselectSession(r) \/ UpdateSession(r)
        => UNCHANGED sessionKeyVars
    BY DEF InsertSession, RefreshSession, SelectSession, ReselectSession, UpdateSession
  <1>8. ReadUserHit(r) \/ ReadUserMiss(r) \/ GetUser(r) \/ FillUser(r) \/ Answer(r) \/ ChangePassword(r)
        => UNCHANGED sessionKeyVars
    BY DEF ReadUserHit, ReadUserMiss, GetUser, FillUser, Answer, ChangePassword
  <1>9. RevokeAll(r) \/ RevokeRow(r) \/ ListTokens(r) \/ PurgeRows(r) \/ DropUserKey(r) \/ WriteStatus(r)
        => UNCHANGED sessionKeyVars
    BY DEF RevokeAll, RevokeRow, ListTokens, PurgeRows, DropUserKey, WriteStatus
  <1>10. (DropKey(r) => DropSession(req[r].tok)) /\ \A t : DropOneKey(r, t) => DropSession(t)
    BY DEF DropKey, DropOneKey
  <1>11. Fail(r) => UNCHANGED sessionKeyVars
    BY DEF Fail, Abort, SkipKey
  <1>. QED
    BY <1>2, <1>3, <1>4, <1>5, <1>6, <1>7, <1>8, <1>9, <1>10, <1>11 DEF Arrive, Proceed

(* A step of r keeps the bounds of the session keys.                         *)
LEMMA RevokedKeys ==
    ASSUME TypeInv, RevokedInv, NEW r \in Reqs, Arrive(r) \/ Proceed(r) \/ Fail(r), NEW k \in Tokens
    PROVE  RevokedKey(k)'
  <1> SUFFICES ASSUME stage'[k] = "gone", sttl'[k] > 0
               PROVE  FirstCopy(k)' \/ RenewedCopy(k)'
    BY DEF RevokedKey
  <1>0. /\ req[r] \in Requests /\ RevokedReq(r) /\ RevokedKey(k)
        /\ sttl[k] \in 0..Ttl /\ sage[k] \in Nat /\ dead[k] \in Nat
    BY Bounds DEF TypeInv, TypeOK, RevokedInv
  <1>a. Ttl \in Nat \ {0} /\ Span \in Nat
    OBVIOUS
  <1>b. req[r].el \in 0..Span /\ req[r].age \in Nat
    BY <1>0, Bounds DEF Requests
  <1>1. dead'[k] = 0 \/ (stage[k] = "gone" /\ dead'[k] = dead[k])
    BY RowsMove
  <1>2. CASE sttl'[k] = 0
    BY <1>2
  <1>3. CASE sttl'[k] = sttl[k] /\ sage'[k] = sage[k]
    BY <1>0, <1>a, <1>1, <1>3 DEF RevokedKey, FirstCopy, RenewedCopy
  <1>4. CASE /\ req[r].pc \in {"fill", "fillnew", "rewrite"} /\ req[r].tok = k
             /\ UNCHANGED rowVars /\ sttl'[k] = Ttl /\ sage'[k] = req[r].age
    <2>1. stage[k] = "gone" /\ dead'[k] = dead[k]
      BY <1>4 DEF rowVars
    <2>2. CASE req[r].pc \in {"fill", "fillnew"}
      BY <1>0, <1>a, <1>b, <1>4, <2>1, <2>2 DEF RevokedReq, Gone, FirstCopy
    <2>3. CASE req[r].pc = "rewrite"
      BY <1>0, <1>a, <1>b, <1>4, <2>1, <2>3 DEF RevokedReq, Gone, RenewedCopy
    <2>. QED
      BY <1>4, <2>2, <2>3
  <1>. QED
    BY <1>2, <1>3, <1>4, KeysMove

(* A unit of time ages the deletion, the keys and the requests alike.        *)
LEMMA RevokedTick == TypeInv /\ RevokedInv /\ Tick => RevokedInv'
  <1> SUFFICES ASSUME TypeInv, RevokedInv, Tick PROVE RevokedInv'
    OBVIOUS
  <1>a. Ttl \in Nat \ {0} /\ Span \in Nat /\ stage' = stage
    BY DEF Tick
  <1>1. ASSUME NEW k \in Tokens PROVE RevokedKey(k)'
    <2>1. /\ sttl[k] \in Nat /\ sage[k] \in 0..AgeCap /\ dead[k] \in 0..DeadCap /\ RevokedKey(k)
      BY DEF TypeInv, TypeOK, RevokedInv
    <2>2. /\ sttl'[k] = Younger(sttl[k])
          /\ sage'[k] = IF sttl[k] > 1 THEN Older(sage[k], AgeCap) ELSE 0
          /\ dead'[k] = IF stage[k] = "gone" THEN Older(dead[k], DeadCap) ELSE 0
      BY DEF Tick
    <2>3. sttl'[k] > 0 => sttl[k] > 1 /\ sttl'[k] = sttl[k] - 1
      BY <2>1, <2>2 DEF Younger
    <2>4. Older(sage[k], AgeCap) \in 0..(sage[k] + 1) /\ Older(dead[k], DeadCap) \in 0..(dead[k] + 1)
      BY <2>1, Bounds DEF Older
    <2>. QED
      BY <1>a, <2>1, <2>2, <2>3, <2>4 DEF RevokedKey, FirstCopy, RenewedCopy
  <1>2. ASSUME NEW r \in Reqs PROVE RevokedReq(r)'
    <2>1. req[r] \in Requests /\ WellFormed(req[r]) /\ RevokedReq(r) /\ req'[r] = Later(req[r])
      BY DEF TypeInv, TypeOK, ReqOK, RevokedInv, Tick
    <2>2. CASE req[r].pc = "idle"
      BY <2>1, <2>2 DEF Later, RevokedReq, Gone
    <2>3. CASE req[r].pc # "idle" /\ req[r].tok \in Tokens
      <3>1. req[r].el < Span
        BY <2>3 DEF Tick
      <3>2. /\ req'[r].pc = req[r].pc /\ req'[r].tok = req[r].tok /\ req'[r].el = req[r].el + 1
            /\ req'[r].age \in 0..(req[r].age + 1)
        BY <2>1, <2>3, <3>1, Bounds DEF Later, Requests, Older
      <3>3. dead[req[r].tok] \in 0..DeadCap /\ req[r].el \in Nat /\ req[r].age \in Nat
        BY <2>1, <2>3, Bounds DEF TypeInv, TypeOK, Requests
      <3>4. dead'[req[r].tok] \in 0..(dead[req[r].tok] + 1)
        BY <2>3, <3>3, Bounds DEF Tick, Older
      <3>. QED
        BY <1>a, <2>1, <2>3, <3>2, <3>3, <3>4 DEF RevokedReq, Gone
    <2>4. CASE req[r].tok \notin Tokens
      <3>1. req'[r].pc = req[r].pc
        BY <2>1, LaterOK DEF Tick
      <3>. QED
        BY <2>1, <2>4, <3>1 DEF WellFormed, TokenSteps, Holding, RevokedReq, Gone
    <2>. QED
      BY <2>2, <2>3, <2>4
  <1>. QED
    BY <1>1, <1>2 DEF RevokedInv

(* Every copy of a deleted session is bounded in age, and a renewed one is     *)
(* never renewed again.                                                       *)
THEOREM RevokedInvariance == Spec => []RevokedInv
  <1>1. Init => RevokedInv
    BY DEF Init, Idle, RevokedInv, RevokedKey, RevokedReq, Gone
  <1>2. ASSUME TypeInv, RevokedInv, [Next]_vars PROVE RevokedInv'
    <2>1. ASSUME NEW r \in Reqs, Arrive(r) \/ Proceed(r) \/ Fail(r) PROVE RevokedInv'
      BY <1>2, <2>1, RevokedMine, RevokedOthers, RevokedKeys DEF RevokedInv
    <2>2. ASSUME FlushCache PROVE RevokedInv'
      BY <1>2, <2>2 DEF FlushCache, RevokedInv, RevokedKey, RevokedReq, Gone, rowVars
    <2>3. ASSUME UNCHANGED vars PROVE RevokedInv'
      BY <1>2, <2>3 DEF vars, RevokedInv, RevokedKey, RevokedReq, Gone, FirstCopy, RenewedCopy
    <2>. QED
      BY <1>2, <2>1, <2>2, <2>3, RevokedTick DEF Next
  <1>. QED
    BY <1>1, <1>2, TypeInvariance, PTL DEF Spec

(* No session is accepted longer than RevokedGrace after its row is deleted,  *)
(* whatever the number of sessions and of requests in flight, as long as a    *)
(* request and a cache lifetime together are shorter than UpdateAge.          *)
THEOREM RevokedSessionsDieHolds == Spec => []RevokedSessionsDie
  <1>1. TypeInv /\ RevokedInv => RevokedSessionsDie
    <2> SUFFICES ASSUME TypeInv, RevokedInv, NEW r \in Reqs, At(r, "ok"), stage[req[r].tok] = "gone"
                 PROVE  dead[req[r].tok] <= RevokedGrace
      BY DEF RevokedSessionsDie
    <2>1. req[r] \in Requests /\ req[r].tok \in Tokens /\ RevokedReq(r)
      BY DEF TypeInv, TypeOK, ReqOK, WellFormed, TokenSteps, At, RevokedInv
    <2>2. dead[req[r].tok] \in Nat /\ req[r].el \in 0..Span /\ Ttl \in Nat \ {0} /\ Span \in Nat
      BY <2>1, Bounds DEF TypeInv, TypeOK, Requests
    <2>. QED
      BY <2>1, <2>2 DEF RevokedReq, Gone, RevokedGrace, At
  <1>. QED
    BY <1>1, TypeInvariance, RevokedInvariance, PTL

------------------------------------------------------------------------------
(* How long a change of status can be overlooked.  A copy of the user row is  *)
(* at most as old as the request that read it; the key it is written to       *)
(* expires Ttl later, and is never extended by a hit.                         *)
StatusKey(u) == uttl[u] > 0 /\ ustat[u] # status[u] => uttl[u] + since[u] <= Ttl + Span
StatusReq(r) ==
    /\ At(r, "filluser") /\ req[r].st # status[req[r].usr] => since[req[r].usr] <= req[r].el
    /\ At(r, "ok") /\ status[req[r].usr] # "active" => since[req[r].usr] <= req[r].el + Ttl + Span - 1
StatusInv == (\A u \in Users : StatusKey(u)) /\ (\A r \in Reqs : StatusReq(r))

(* What a step of r does to a user row.                                      *)
LEMMA UsersMove ==
    ASSUME TypeInv, NEW r \in Reqs, Arrive(r) \/ Proceed(r) \/ Fail(r), NEW k \in Users
    PROVE  since'[k] = 0 \/ (status'[k] = status[k] /\ since'[k] = since[k])
  <1> DEFINE Goal == since'[k] = 0 \/ (status'[k] = status[k] /\ since'[k] = since[k])
  <1>0. status \in [Users -> Statuses \cup {"deleted"}] /\ since \in [Users -> 0..SinceCap]
    BY DEF TypeInv, TypeOK
  <1>1. ASSUME UNCHANGED userVars \/ UNCHANGED <<status, since>> PROVE Goal
    BY <1>1 DEF userVars
  <1>2. ASSUME NEW u, NEW s, ChangeStatus(u, s) PROVE Goal
    BY <1>0, <1>2 DEF ChangeStatus
  <1>3. (\E t \in Tokens : \/ Login(r, t) \/ ReadSessionHit(r, t) \/ ReadSessionMiss(r, t)
                           \/ Logout(r, t) \/ LogoutById(r, t) \/ DropOneKey(r, t)) => UNCHANGED userVars
    BY DEF Login, ReadSessionHit, ReadSessionMiss, Logout, LogoutById, DropOneKey
  <1>4. (\E u \in Users : ResetPassword(r, u) \/ UpdateAccount(r, u) \/ \E s \in Statuses : SetStatus(r, u, s)) => UNCHANGED userVars
    BY DEF ResetPassword, UpdateAccount, SetStatus
  <1>5. InsertSession(r) \/ RefreshSession(r) \/ SelectSession(r) \/ FillSession(r)
        \/ ReselectSession(r) \/ UpdateSession(r) \/ RewriteSession(r) => UNCHANGED userVars
    BY DEF InsertSession, RefreshSession, SelectSession, FillSession, ReselectSession,
           UpdateSession, RewriteSession
  <1>6. ReadUserHit(r) \/ ReadUserMiss(r) \/ GetUser(r) \/ FillUser(r) \/ Answer(r) \/ ChangePassword(r)
        => UNCHANGED userVars
    BY DEF ReadUserHit, ReadUserMiss, GetUser, FillUser, Answer, ChangePassword
  <1>7. RevokeAll(r) \/ RevokeRow(r) \/ DropKey(r) \/ ListTokens(r) \/ PurgeRows(r) \/ DropUserKey(r)
        => UNCHANGED userVars
    BY DEF RevokeAll, RevokeRow, DropKey, ListTokens, PurgeRows, DropUserKey
  <1>8. /\ WriteStatus(r) => UNCHANGED userVars \/ ChangeStatus(req[r].usr, req[r].st)
        /\ \A u : DeleteAccount(r, u) => ChangeStatus(u, "deleted")
    BY DEF WriteStatus, DeleteAccount
  <1>9. Fail(r) => UNCHANGED userVars
    BY DEF Fail, Abort, SkipKey
  <1>10. CacheIssued(r) => UNCHANGED <<status, since>>
    BY DEF CacheIssued
  <1>. QED
    BY <1>1, <1>2, <1>3, <1>4, <1>5, <1>6, <1>7, <1>8, <1>9, <1>10 DEF Arrive, Proceed

(* What a step of r does to a user key.                                      *)
LEMMA UserKeysMove ==
    ASSUME TypeInv, NEW r \in Reqs, Arrive(r) \/ Proceed(r) \/ Fail(r), NEW k \in Users
    PROVE  \/ uttl'[k] = 0
           \/ uttl'[k] = uttl[k] /\ ustat'[k] = ustat[k]
           \/ /\ At(r, "filluser") /\ req[r].usr = k
              /\ UNCHANGED userVars /\ uttl'[k] = Ttl /\ ustat'[k] = req[r].st
  <1> DEFINE Goal == \/ uttl'[k] = 0
                     \/ uttl'[k] = uttl[k] /\ ustat'[k] = ustat[k]
                     \/ /\ At(r, "filluser") /\ req[r].usr = k
                        /\ UNCHANGED userVars /\ uttl'[k] = Ttl /\ ustat'[k] = req[r].st
  <1>0. uttl \in [Users -> 0..Ttl] /\ ustat \in [Users -> Statuses]
    BY DEF TypeInv, TypeOK
  <1>1. ASSUME UNCHANGED userKeyVars PROVE Goal
    BY <1>1 DEF userKeyVars
  <1>2. ASSUME NEW u, DropUser(u) PROVE Goal
    BY <1>0, <1>2 DEF DropUser
  <1>3. ASSUME FillUser(r) PROVE Goal
    BY <1>0, <1>3 DEF FillUser, PutUser
  <1>4. (\E t \in Tokens : \/ Login(r, t) \/ ReadSessionHit(r, t) \/ ReadSessionMiss(r, t)
                           \/ Logout(r, t) \/ LogoutById(r, t) \/ DropOneKey(r, t)) => UNCHANGED userKeyVars
    BY DEF Login, ReadSessionHit, ReadSessionMiss, Logout, LogoutById, DropOneKey
  <1>5. (\E u \in Users : \/ ResetPassword(r, u) \/ UpdateAccount(r, u) \/ DeleteAccount(r, u)
                          \/ \E s \in Statuses : SetStatus(r, u, s)) => UNCHANGED userKeyVars
    BY DEF ResetPassword, UpdateAccount, DeleteAccount, SetStatus
  <1>6. InsertSession(r) \/ RefreshSession(r) \/ CacheIssued(r) \/ SelectSession(r) \/ FillSession(r)
        \/ ReselectSession(r) \/ UpdateSession(r) \/ RewriteSession(r) => UNCHANGED userKeyVars
    BY DEF InsertSession, RefreshSession, CacheIssued, SelectSession, FillSession, ReselectSession,
           UpdateSession, RewriteSession
  <1>7. ReadUserHit(r) \/ ReadUserMiss(r) \/ GetUser(r) \/ Answer(r) => UNCHANGED userKeyVars
    BY DEF ReadUserHit, ReadUserMiss, GetUser, Answer
  <1>8. RevokeAll(r) \/ RevokeRow(r) \/ DropKey(r) \/ ListTokens(r) \/ PurgeRows(r) \/ WriteStatus(r)
        => UNCHANGED userKeyVars
    BY DEF RevokeAll, RevokeRow, DropKey, ListTokens, PurgeRows, WriteStatus
  <1>9. ChangePassword(r) \/ DropUserKey(r) => DropUser(req[r].usr)
    BY DEF ChangePassword, DropUserKey
  <1>10. Fail(r) => UNCHANGED userKeyVars
    BY DEF Fail, Abort, SkipKey
  <1>. QED
    BY <1>1, <1>2, <1>3, <1>4, <1>5, <1>6, <1>7, <1>8, <1>9, <1>10 DEF Arrive, Proceed

(* A step of r keeps the bounds of the user keys.                            *)
LEMMA StatusKeys ==
    ASSUME TypeInv, StatusInv, NEW r \in Reqs, Arrive(r) \/ Proceed(r) \/ Fail(r), NEW k \in Users
    PROVE  StatusKey(k)'
  <1>0. /\ req[r] \in Requests /\ StatusReq(r) /\ StatusKey(k)
        /\ uttl[k] \in 0..Ttl /\ since[k] \in Nat /\ uttl'[k] \in 0..Ttl
    BY DataStep, Bounds DEF TypeInv, TypeOK, DataOK, StatusInv
  <1>a. Ttl \in Nat \ {0} /\ Span \in Nat /\ req[r].el \in 0..Span
    BY <1>0 DEF Requests
  <1>1. CASE since'[k] = 0 \/ uttl'[k] = 0
    BY <1>0, <1>a, <1>1 DEF StatusKey
  <1>2. CASE uttl'[k] = uttl[k] /\ ustat'[k] = ustat[k] /\ status'[k] = status[k] /\ since'[k] = since[k]
    BY <1>0, <1>2 DEF StatusKey
  <1>3. CASE /\ At(r, "filluser") /\ req[r].usr = k
             /\ UNCHANGED userVars /\ uttl'[k] = Ttl /\ ustat'[k] = req[r].st
    BY <1>0, <1>a, <1>3 DEF StatusReq, StatusKey, userVars
  <1>. QED
    BY <1>1, <1>2, <1>3, UsersMove, UserKeysMove

(* A step of r leaves the bounds of every other request.                     *)
LEMMA StatusOthers ==
    ASSUME TypeInv, StatusInv, NEW r \in Reqs, Arrive(r) \/ Proceed(r) \/ Fail(r), NEW q \in Reqs \ {r}
    PROVE  StatusReq(q)'
  <1>1. req'[q] = req[q] /\ req[q] \in Requests /\ WellFormed(req[q]) /\ StatusReq(q)
    BY ReqMoves DEF ReqMove, TypeInv, TypeOK, ReqOK, StatusInv
  <1>2. CASE req[q].usr \in Users
    <2>1. req[q].el \in Nat /\ Ttl \in Nat \ {0} /\ Span \in Nat
      BY <1>1 DEF Requests
    <2>2. \/ since'[req[q].usr] = 0
          \/ status'[req[q].usr] = status[req[q].usr] /\ since'[req[q].usr] = since[req[q].usr]
      BY <1>2, UsersMove
    <2>. QED
      BY <1>1, <2>1, <2>2 DEF StatusReq, At
  <1>3. CASE req[q].usr \notin Users
    BY <1>1, <1>3 DEF WellFormed, UserSteps, TokenSteps, StatusReq, At
  <1>. QED
    BY <1>2, <1>3

(* Only the steps that read or fill the user key lead to filluser or ok.     *)
LEMMA StatusQuiet ==
    ASSUME TypeInv, NEW r \in Reqs, Arrive(r) \/ Proceed(r) \/ Fail(r),
           ~(ReadUserHit(r) \/ GetUser(r) \/ FillUser(r))
    PROVE  req'[r].pc \notin {"filluser", "ok"}
  <1>0. req \in [Reqs -> Requests] /\ req[r] \in Requests
    BY DEF TypeInv, TypeOK
  <1>1. ASSUME NEW x, Start(r, x), x.pc \notin {"filluser", "ok"} PROVE req'[r].pc \notin {"filluser", "ok"}
    BY <1>0, <1>1 DEF Start
  <1>2. ASSUME NEW p, Go(r, p), p \notin {"filluser", "ok"} PROVE req'[r].pc \notin {"filluser", "ok"}
    BY <1>0, <1>2 DEF Go, Requests
  <1>3. ASSUME Finish(r) PROVE req'[r].pc \notin {"filluser", "ok"}
    BY <1>0, <1>3 DEF Finish, Idle
  <1>4. ASSUME NEW t \in Tokens, \/ Login(r, t) \/ ReadSessionMiss(r, t) \/ Logout(r, t) \/ LogoutById(r, t)
        PROVE req'[r].pc \notin {"filluser", "ok"}
    <2>1. \A p \in {"insert", "select", "drop", "revoke"} : \A u : Task(p, t, u).pc = p
      BY DEF Task, Idle
    <2>. QED
      BY <1>1, <1>4, <2>1 DEF Login, ReadSessionMiss, Logout, LogoutById
  <1>5. ASSUME NEW u \in Users, ResetPassword(r, u) \/ UpdateAccount(r, u) \/ DeleteAccount(r, u)
        PROVE req'[r].pc \notin {"filluser", "ok"}
    <2>1. Task("list", None, u).pc = "list" /\ Task("dropuser", None, u).pc = "dropuser"
      BY DEF Task, Idle
    <2>. QED
      BY <1>1, <1>5, <2>1 DEF ResetPassword, UpdateAccount, DeleteAccount
  <1>6. ASSUME NEW u \in Users, NEW s \in Statuses, SetStatus(r, u, s)
        PROVE req'[r].pc \notin {"filluser", "ok"}
    <2>1. [Task("setstatus", None, u) EXCEPT !.st = s].pc = "setstatus"
      BY DEF Task, Idle
    <2>. QED
      BY <1>1, <1>6, <2>1 DEF SetStatus
  <1>7. ASSUME NEW t \in Tokens, ReadSessionHit(r, t) PROVE req'[r].pc \notin {"filluser", "ok"}
    <2>1. Judged(Task("idle", t, Owner[t]), sage[t], "reget").pc \in {"revoke", "reget", "user"}
      BY DEF Judged, Task, Idle
    <2>. QED
      BY <1>1, <1>7, <2>1 DEF ReadSessionHit
  <1>8. ASSUME NEW t \in Tokens, Went(r, t) PROVE req'[r].pc \notin {"filluser", "ok"}
    <2>1. PICK p \in {"dropuser", "dropmany"} :
            req' = [req EXCEPT ![r] = [req[r] EXCEPT !.todo = req[r].todo \ {t}, !.pc = p]]
      BY <1>8 DEF Went
    <2>. QED
      BY <1>0, <2>1 DEF Requests
  <1>9. ASSUME FillSession(r) \/ RewriteSession(r) PROVE req'[r].pc \notin {"filluser", "ok"}
    <2>1. Judged(req[r], req[r].age, "update").pc \in {"revoke", "update", "user"}
      BY <1>0 DEF Judged, Requests
    <2>. QED
      BY <1>0, <1>9, <2>1 DEF FillSession, RewriteSession, Requests
  <1>10. ASSUME \/ InsertSession(r) \/ CacheIssued(r) \/ ReselectSession(r) \/ UpdateSession(r)
                \/ ReadUserMiss(r) \/ Answer(r) \/ ChangePassword(r) \/ RevokeRow(r) \/ DropKey(r)
                \/ PurgeRows(r) \/ DropUserKey(r) \/ WriteStatus(r)
         PROVE req'[r].pc \notin {"filluser", "ok"}
    BY <1>2, <1>3, <1>10 DEF InsertSession, CacheIssued, ReselectSession, UpdateSession, ReadUserMiss,
         Answer, ChangePassword, RevokeRow, DropKey, PurgeRows, DropUserKey, WriteStatus
  <1>11. ASSUME RefreshSession(r) \/ SelectSession(r) PROVE req'[r].pc \notin {"filluser", "ok"}
    BY <1>0, <1>3, <1>11 DEF RefreshSession, SelectSession, Requests
  <1>12. ASSUME RevokeAll(r) PROVE req'[r].pc \notin {"filluser", "ok"}
    BY <1>0, <1>12 DEF RevokeAll, Requests
  <1>13. ASSUME ListTokens(r) PROVE req'[r].pc \notin {"filluser", "ok"}
    BY <1>0, <1>13 DEF ListTokens, Requests
  <1>14. Fail(r) \/ (\E t \in Tokens : DropOneKey(r, t)) => Finish(r) \/ \E t \in Tokens : Went(r, t)
    BY DEF Fail, Abort, SkipKey, DropOneKey
  <1>. QED
    BY <1>3, <1>4, <1>5, <1>6, <1>7, <1>8, <1>9, <1>10, <1>11, <1>12, <1>13, <1>14 DEF Arrive, Proceed

(* A step of r keeps the bound of what r itself has read of its user.        *)
LEMMA StatusMine ==
    ASSUME TypeInv, StatusInv, NEW r \in Reqs, Arrive(r) \/ Proceed(r) \/ Fail(r)
    PROVE  StatusReq(r)'
  <1>0. /\ TypeOK /\ req[r] \in Requests /\ WellFormed(req[r]) /\ StatusReq(r)
        /\ req \in [Reqs -> Requests] /\ req[r].el \in 0..Span
        /\ Ttl \in Nat \ {0} /\ Span \in Nat
    BY DEF TypeInv, TypeOK, ReqOK, StatusInv, Requests
  <1>1. CASE ReadUserHit(r)
    <2> DEFINE u == req[r].usr
    <2>1. /\ status' = status /\ since' = since /\ u \in Users
          /\ uttl[u] \in Nat \ {0} /\ since[u] \in Nat /\ StatusKey(u)
      BY <1>0, <1>1, Bounds DEF ReadUserHit, At, userVars, WellFormed, UserSteps, TokenSteps, TypeOK, StatusInv
    <2>2. \/ req'[r] = Idle
          \/ /\ ustat[u] = "active" /\ req'[r].pc = "ok" /\ req'[r].usr = u /\ req'[r].el = req[r].el
      BY <1>0, <1>1 DEF ReadUserHit, Admit, Go, Finish, Requests
    <2>. QED
      BY <1>0, <2>1, <2>2 DEF StatusReq, StatusKey, At, Idle
  <1>2. CASE GetUser(r)
    <2>1. status' = status
      BY <1>2 DEF GetUser, userVars
    <2>2. \/ req'[r] = Idle
          \/ req'[r].pc = "filluser" /\ req'[r].usr = req[r].usr /\ req'[r].st = status[req[r].usr]
      <3>1. CASE status[req[r].usr] = "deleted"
        BY <1>0, <1>2, <3>1 DEF GetUser, Finish
      <3>2. CASE status[req[r].usr] # "deleted"
        <4>1. req' = [req EXCEPT ![r] = [req[r] EXCEPT !.pc = "filluser", !.st = status[req[r].usr]]]
          BY <1>2, <3>2 DEF GetUser
        <4>. QED
          BY <1>0, <4>1 DEF Requests
      <3>. QED
        BY <3>1, <3>2
    <2>. QED
      BY <2>1, <2>2 DEF StatusReq, At, Idle
  <1>3. CASE FillUser(r)
    <2>1. /\ status' = status /\ since' = since /\ req[r].usr \in Users /\ since[req[r].usr] \in Nat
          /\ At(r, "filluser")
      BY <1>0, <1>3, Bounds DEF FillUser, At, userVars, WellFormed, UserSteps, TokenSteps, TypeOK
    <2>2. \/ req'[r] = Idle
          \/ /\ req[r].st = "active" /\ req'[r].pc = "ok" /\ req'[r].usr = req[r].usr
             /\ req'[r].el = req[r].el
      BY <1>0, <1>3 DEF FillUser, Admit, Go, Finish, Requests
    <2>. QED
      BY <1>0, <2>1, <2>2 DEF StatusReq, At, Idle
  <1>4. CASE ~(ReadUserHit(r) \/ GetUser(r) \/ FillUser(r))
    BY <1>4, StatusQuiet DEF StatusReq, At
  <1>. QED
    BY <1>1, <1>2, <1>3, <1>4

(* A unit of time ages the change, the user keys and the requests alike.     *)
LEMMA StatusTick == TypeInv /\ StatusInv /\ Tick => StatusInv'
  <1> SUFFICES ASSUME TypeInv, StatusInv, Tick PROVE StatusInv'
    OBVIOUS
  <1>a. Ttl \in Nat \ {0} /\ Span \in Nat /\ status' = status
    BY DEF Tick
  <1>1. ASSUME NEW u \in Users
        PROVE  since[u] \in Nat /\ since'[u] \in 0..(since[u] + 1)
    BY Bounds DEF TypeInv, TypeOK, Tick, Older
  <1>2. ASSUME NEW u \in Users PROVE StatusKey(u)'
    <2>1. uttl[u] \in Nat /\ uttl'[u] = Younger(uttl[u]) /\ StatusKey(u)
      BY DEF TypeInv, TypeOK, Tick, StatusInv
    <2>2. uttl'[u] > 0 => uttl[u] > 1 /\ uttl'[u] = uttl[u] - 1 /\ ustat'[u] = ustat[u]
      BY <2>1 DEF Younger, Tick
    <2>. QED
      BY <1>a, <1>1, <2>1, <2>2 DEF StatusKey
  <1>3. ASSUME NEW r \in Reqs PROVE StatusReq(r)'
    <2>1. req[r] \in Requests /\ WellFormed(req[r]) /\ StatusReq(r) /\ req'[r] = Later(req[r])
      BY DEF TypeInv, TypeOK, ReqOK, StatusInv, Tick
    <2>2. req[r].pc # "idle" => req[r].el < Span
      BY DEF Tick
    <2>3. req'[r].pc = req[r].pc /\ req'[r].usr = req[r].usr
      BY <2>1, <2>2, LaterOK
    <2>4. CASE req[r].pc \in {"filluser", "ok"}
      <3>1. req[r].usr \in Users /\ req[r].el \in Nat
        BY <2>1, <2>4 DEF WellFormed, UserSteps, TokenSteps, Requests
      <3>2. req'[r].el = req[r].el + 1 /\ req'[r].st = req[r].st
        BY <2>1, <2>4 DEF Later, Requests
      <3>. QED
        BY <1>a, <1>1, <2>1, <2>3, <3>1, <3>2 DEF StatusReq, At
    <2>5. CASE req[r].pc \notin {"filluser", "ok"}
      BY <2>3, <2>5 DEF StatusReq, At
    <2>. QED
      BY <2>4, <2>5
  <1>. QED
    BY <1>2, <1>3 DEF StatusInv

(* Every copy of a user row that disagrees with the row is bounded in age,    *)
(* whichever of the handlers that read and fill the user key holds it.        *)
THEOREM StatusInvariance == Spec => []StatusInv
  <1>1. Init => StatusInv
    BY DEF Init, Idle, StatusInv, StatusKey, StatusReq, At
  <1>2. ASSUME TypeInv, StatusInv, [Next]_vars PROVE StatusInv'
    <2>1. ASSUME NEW r \in Reqs, Arrive(r) \/ Proceed(r) \/ Fail(r) PROVE StatusInv'
      BY <1>2, <2>1, StatusMine, StatusOthers, StatusKeys DEF StatusInv
    <2>2. ASSUME FlushCache PROVE StatusInv'
      BY <1>2, <2>2 DEF FlushCache, StatusInv, StatusKey, StatusReq, At, userVars
    <2>3. ASSUME UNCHANGED vars PROVE StatusInv'
      BY <1>2, <2>3 DEF vars, StatusInv, StatusKey, StatusReq, At
    <2>. QED
      BY <1>2, <2>1, <2>2, <2>3, StatusTick DEF Next
  <1>. QED
    BY <1>1, <1>2, TypeInvariance, PTL DEF Spec

(* No request acts for a user longer than StatusGrace after the user was      *)
(* deactivated or deleted, for any number of requests and any cache lifetime. *)
THEOREM InactiveUsersAreRefusedHolds == Spec => []InactiveUsersAreRefused
  <1>1. TypeInv /\ StatusInv => InactiveUsersAreRefused
    <2> SUFFICES ASSUME TypeInv, StatusInv, NEW r \in Reqs, At(r, "ok"), status[req[r].usr] # "active"
                 PROVE  since[req[r].usr] <= StatusGrace
      BY DEF InactiveUsersAreRefused
    <2>1. req[r] \in Requests /\ req[r].usr \in Users /\ StatusReq(r)
      BY DEF TypeInv, TypeOK, ReqOK, WellFormed, UserSteps, TokenSteps, At, StatusInv
    <2>2. since[req[r].usr] \in Nat /\ req[r].el \in 0..Span /\ Ttl \in Nat \ {0} /\ Span \in Nat
      BY <2>1, Bounds DEF TypeInv, TypeOK, Requests
    <2>. QED
      BY <2>1, <2>2 DEF StatusReq, StatusGrace
  <1>. QED
    BY <1>1, TypeInvariance, StatusInvariance, PTL

=============================================================================
