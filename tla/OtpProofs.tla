------------------------------ MODULE OtpProofs ------------------------------
(* Proofs about Otp for every number of requests, attempts and codes.        *)
EXTENDS Otp, Counting, FiniteSetTheorems

USE AttemptsAssumption

Verifying == {"count", "burn", "spend"}
On(r, c) == req[r].pc \in Verifying /\ req[r].code = c
Issues(r) == req[r].pc \in {"delete", "commit"}

(* A request past its first step works on a code.                            *)
WellFormed(x) == x.pc = "commit" \/ x.pc \in Verifying => x.code \in Codes
ReqOK == \A r \in Reqs : WellFormed(req[r])
TypeInv == TypeOK /\ ReqOK

(* A step of a request changes its own record only.                          *)
ReqMove(r) ==
    /\ req' = [req EXCEPT ![r] = req'[r]]
    /\ req'[r] \in Requests
    /\ WellFormed(req'[r])

(* No attempt is a value of the counter.                                     *)
LEMMA ZeroIsRead == 0 \in 0..MaxAttempts + 1
  OBVIOUS

(* A request that ends becomes idle.                                         *)
LEMMA FinishMoves ==
    ASSUME TypeInv, NEW r \in Reqs, Finish(r)
    PROVE  ReqMove(r) /\ req'[r] = Idle
  BY ZeroIsRead DEF Finish, ReqMove, TypeInv, TypeOK, Idle, Requests, Steps, WellFormed, Verifying

(* A request that goes on keeps its code.                                    *)
LEMMA GoMoves ==
    ASSUME TypeInv, NEW r \in Reqs, NEW p \in {"burn", "spend"}, At(r, "count"), Go(r, p)
    PROVE  ReqMove(r) /\ req'[r].pc = p /\ req'[r].code = req[r].code
  <1>1. req \in [Reqs -> Requests] /\ WellFormed(req[r])
    BY DEF TypeInv, TypeOK, ReqOK
  <1>2. req' = [req EXCEPT ![r] = [req[r] EXCEPT !.pc = p]]
    BY DEF Go
  <1>. QED
    BY <1>1, <1>2 DEF ReqMove, Requests, Steps, WellFormed, Verifying, At

(* Each action in terms of the record it leaves behind.                      *)
LEMMA ReqMoves ==
    ASSUME TypeInv, NEW r \in Reqs, Handle(r)
    PROVE  ReqMove(r)
  <1>0. req \in [Reqs -> Requests] /\ req[r] \in Requests
    BY DEF TypeInv, TypeOK
  <1>1. CASE IssueDelete(r)
    <2>1. stored \in SUBSET Codes
      BY DEF TypeInv, TypeOK
    <2>. QED
      BY <1>0, <1>1, <2>1, ZeroIsRead DEF IssueDelete, Start, ReqMove, Requests, Steps, WellFormed, Verifying
  <1>2. CASE IssueStamp(r)
    <2>1. last + 1 \in Codes
      BY <1>2 DEF IssueStamp, TypeInv, TypeOK, Codes
    <2>. QED
      BY <1>0, <1>2, <2>1 DEF IssueStamp, ReqMove, Requests, Steps, WellFormed, Verifying
  <1>3. CASE IssueCommit(r) \/ VerifyBurn(r) \/ VerifySpend(r) \/ Abort(r)
    BY <1>3, FinishMoves DEF IssueCommit, VerifyBurn, VerifySpend, Abort
  <1>4. ASSUME NEW c \in Codes, NEW right \in BOOLEAN, VerifySelect(r, c, right) PROVE ReqMove(r)
    <2>1. attempts[c] \in 0..MaxAttempts + 1
      BY DEF TypeInv, TypeOK
    <2>. QED
      BY <1>0, <1>4, <2>1 DEF VerifySelect, Start, ReqMove, Requests, Steps, WellFormed, Verifying
  <1>5. CASE VerifyCount(r)
    BY <1>5, FinishMoves, GoMoves DEF VerifyCount
  <1>. QED
    BY <1>1, <1>2, <1>3, <1>4, <1>5 DEF Handle

(* Every step keeps the types.                                               *)
LEMMA TypeStep == TypeInv /\ [Next]_vars => TypeInv'
  <1> SUFFICES ASSUME TypeInv, [Next]_vars PROVE TypeInv'
    OBVIOUS
  <1> USE DEF TypeInv, TypeOK, history
  <1>1. ASSUME NEW r \in Reqs, Handle(r) PROVE TypeInv'
    <2>1. req' \in [Reqs -> Requests] /\ ReqOK'
      BY <1>1, ReqMoves DEF ReqMove, ReqOK
    <2>2. req[r] \in Requests /\ WellFormed(req[r])
      BY DEF ReqOK
    <2>3. CASE IssueDelete(r) \/ Abort(r)
      BY <2>1, <2>3 DEF IssueDelete, Abort
    <2>4. CASE IssueStamp(r)
      BY <2>1, <2>4 DEF IssueStamp
    <2>5. CASE IssueCommit(r)
      BY <2>1, <2>2, <2>5 DEF IssueCommit, At, WellFormed
    <2>6. ASSUME NEW c \in Codes, NEW right, VerifySelect(r, c, right) PROVE TypeInv'
      BY <2>1, <2>6 DEF VerifySelect
    <2>7. CASE VerifyCount(r)
      <3>1. req[r].code \in Codes /\ Counted(req[r].read) \in 0..MaxAttempts + 1
        BY <2>2, <2>7 DEF VerifyCount, At, WellFormed, Verifying, Requests, Counted
      <3>. QED
        BY <2>1, <2>7, <3>1 DEF VerifyCount
    <2>8. CASE VerifyBurn(r) \/ VerifySpend(r)
      BY <2>1, <2>2, <2>8 DEF VerifyBurn, VerifySpend, At, WellFormed, Verifying
    <2>. QED
      BY <1>1, <2>3, <2>4, <2>5, <2>6, <2>7, <2>8 DEF Handle
  <1>2. ASSUME NEW c \in Codes, Lapse(c) PROVE TypeInv'
    BY <1>2 DEF Lapse, ReqOK
  <1>3. CASE UNCHANGED vars
    BY <1>3 DEF vars, ReqOK
  <1>. QED
    BY <1>1, <1>2, <1>3 DEF Next

(* Types and well-formed requests are an invariant.                          *)
THEOREM TypeInvariance == Spec => []TypeInv
  <1>1. Init => TypeInv
    <2> SUFFICES ASSUME Init PROVE TypeInv
      OBVIOUS
    <2>1. Idle \in Requests /\ WellFormed(Idle)
      BY ZeroIsRead DEF Idle, Requests, Steps, WellFormed, Verifying
    <2>2. req \in [Reqs -> Requests] /\ ReqOK
      BY <2>1 DEF Init, ReqOK
    <2>3. attempts \in [Codes -> 0..MaxAttempts + 1]
      BY ZeroIsRead DEF Init
    <2>4. last \in 0..MaxCodes
      BY DEF Init
    <2>. QED
      BY <2>2, <2>3, <2>4 DEF Init, TypeInv, TypeOK
  <1>. QED
    BY <1>1, TypeStep, PTL DEF Spec

(* Every variable keeps its type, for any number of requests and codes.      *)
THEOREM TypeCorrect == Spec => []TypeOK
  <1>1. TypeInv => TypeOK
    BY DEF TypeInv
  <1>. QED
    BY <1>1, TypeInvariance, PTL

------------------------------------------------------------------------------
(* The counter, and every copy of it, lags behind the comparisons made, or    *)
(* the limit has been reached.                                                *)
Backed(n, c) == n <= guesses[c] \/ guesses[c] >= MaxAttempts
CountInv ==
    /\ \A c \in Codes : Backed(attempts[c], c)
    /\ \A r \in Reqs : At(r, "count") => Backed(req[r].read, req[r].code)
    /\ \A r \in Reqs : At(r, "burn") => guesses[req[r].code] >= MaxAttempts
    /\ \A c \in locked : guesses[c] >= MaxAttempts

(* A step that writes no counter keeps CountInv.                             *)
LEMMA CountQuiet ==
    ASSUME TypeInv, CountInv, NEW r \in Reqs, ReqMove(r), attempts' = attempts, guesses' = guesses,
           locked' = locked \/ (At(r, "burn") /\ locked' = locked \cup {req[r].code}),
           req'[r].pc \notin {"count", "burn"} \/
              (\E c \in Codes : req'[r].pc = "count" /\ req'[r].code = c /\ req'[r].read = attempts[c])
    PROVE  CountInv'
  <1>1. \A q \in Reqs \ {r} : req'[q] = req[q]
    BY DEF ReqMove, TypeInv, TypeOK
  <1>2. (\A c \in Codes : Backed(attempts[c], c))' /\ (\A c \in locked : guesses[c] >= MaxAttempts)'
    BY DEF CountInv, Backed
  <1>3. \A q \in Reqs \ {r} : /\ At(q, "count")' => Backed(req[q].read, req[q].code)'
                              /\ At(q, "burn")' => (guesses[req[q].code] >= MaxAttempts)'
    BY <1>1 DEF CountInv, At, Backed
  <1>4. At(r, "count")' => Backed(req[r].read, req[r].code)'
    BY DEF CountInv, At, Backed
  <1>5. ~At(r, "burn")'
    BY DEF At
  <1>. QED
    BY <1>2, <1>3, <1>4, <1>5 DEF CountInv

(* The counted attempt is one more than was read; it is compared unless the   *)
(* limit is passed.                                                           *)
LEMMA CountStep ==
    ASSUME TypeInv, CountInv, NEW r \in Reqs, VerifyCount(r)
    PROVE  CountInv'
  <1> SUFFICES ASSUME NEW c, NEW m, NEW n, c = req[r].code, m = req[r].read, n = Counted(m)
               PROVE  CountInv'
    OBVIOUS
  <1>0. ReqMove(r)
    BY ReqMoves DEF Handle
  <1>1. \A q \in Reqs \ {r} : req'[q] = req[q]
    BY <1>0 DEF ReqMove, TypeInv, TypeOK
  <1>2. /\ c \in Codes /\ At(r, "count") /\ Backed(req[r].read, c)
        /\ req[r].read \in 0..MaxAttempts + 1 /\ guesses \in [Codes -> Nat] /\ attempts \in [Codes -> 0..MaxAttempts + 1]
    BY DEF VerifyCount, At, TypeInv, TypeOK, ReqOK, WellFormed, Verifying, Requests, CountInv
  <1>3. CASE c \notin stored
    <2>1. req'[r].pc = "idle" /\ attempts' = attempts /\ guesses' = guesses /\ locked' = locked
      BY <1>3, FinishMoves DEF VerifyCount, Idle
    <2>. QED
      BY <1>0, <2>1, CountQuiet
  <1>4. CASE c \in stored /\ n > MaxAttempts
    <2>1. guesses[c] >= MaxAttempts
      BY <1>2, <1>4 DEF Backed, Counted
    <2>2. req'[r].pc = "burn" /\ req'[r].code = c /\ guesses' = guesses /\ locked' = locked
          /\ \A d \in Codes : d # c => attempts'[d] = attempts[d]
      BY <1>2, <1>4, GoMoves DEF VerifyCount
    <2>3. (\A d \in Codes : Backed(attempts[d], d))'
      BY <2>1, <2>2 DEF CountInv, Backed
    <2>. QED
      BY <1>1, <2>1, <2>2, <2>3 DEF CountInv, Backed, At
  <1>5. CASE c \in stored /\ ~(n > MaxAttempts)
    <2>1. n = req[r].read + 1
      BY <1>2, <1>5 DEF Counted
    <2>2. /\ attempts' = [attempts EXCEPT ![c] = n] /\ guesses' = [guesses EXCEPT ![c] = @ + 1]
          /\ locked' = locked
      BY <1>5 DEF VerifyCount
    <2>3. req'[r].pc \in {"spend", "idle"}
      BY <1>2, <1>5, GoMoves, FinishMoves DEF VerifyCount, Idle
    <2>4. \A d \in Codes : guesses[d] \in Nat /\ guesses'[d] \in Nat /\ guesses[d] <= guesses'[d]
      BY <1>2, <2>2
    <2>5. \A d \in Codes, k \in 0..MaxAttempts + 1 : Backed(k, d) => Backed(k, d)'
      BY <2>4 DEF Backed
    <2>6. Backed(n, c)'
      BY <1>2, <2>1, <2>2 DEF Backed
    <2>7. \A d \in Codes : Backed(attempts[d], d)'
      BY <1>2, <2>2, <2>5, <2>6 DEF CountInv
    <2>8. \A q \in Reqs \ {r} : req[q].pc \in Verifying => req[q].code \in Codes /\ req[q].read \in 0..MaxAttempts + 1
      BY DEF TypeInv, TypeOK, ReqOK, WellFormed, Requests
    <2>9. \A q \in Reqs : At(q, "count")' => Backed(req[q].read, req[q].code)'
      BY <1>1, <2>3, <2>5, <2>8 DEF CountInv, At, Verifying, Backed
    <2>10. \A q \in Reqs : At(q, "burn")' => (guesses[req[q].code] >= MaxAttempts)'
      BY <1>1, <2>3, <2>4, <2>8 DEF CountInv, At, Verifying
    <2>11. \A d \in locked' : guesses'[d] >= MaxAttempts
      BY <2>2, <2>4 DEF CountInv, TypeInv, TypeOK
    <2>. QED
      BY <2>7, <2>9, <2>10, <2>11 DEF CountInv
  <1>. QED
    BY <1>3, <1>4, <1>5

(* A code is locked only after its limit of comparisons.                     *)
THEOREM NoEarlyLockoutHolds == Spec => []NoEarlyLockout
  <1>1. Init => CountInv
    BY DEF Init, CountInv, Backed, At, Idle
  <1>2. ASSUME TypeInv, CountInv, [Next]_vars PROVE CountInv'
    <2>1. ASSUME NEW r \in Reqs, Handle(r) PROVE CountInv'
      <3>0. ReqMove(r) /\ req[r] \in Requests
        BY <1>2, <2>1, ReqMoves DEF TypeInv, TypeOK
      <3>1. CASE IssueDelete(r) \/ IssueStamp(r)
        <4>1. req \in [Reqs -> Requests]
          BY <1>2 DEF TypeInv, TypeOK
        <4>2. IssueDelete(r) => req'[r].pc = "delete"
          BY <4>1 DEF IssueDelete, Start
        <4>3. IssueStamp(r) => req'[r].pc = "commit"
          BY <4>1 DEF IssueStamp, Requests
        <4>. QED
          BY <1>2, <3>0, <3>1, <4>2, <4>3, CountQuiet DEF IssueDelete, IssueStamp, history
      <3>2. CASE IssueCommit(r) \/ VerifyBurn(r) \/ VerifySpend(r) \/ Abort(r)
        <4>1. req'[r].pc = "idle"
          BY <1>2, <3>2, FinishMoves DEF IssueCommit, VerifyBurn, VerifySpend, Abort, Idle
        <4>. QED
          BY <1>2, <3>0, <3>2, <4>1, CountQuiet DEF IssueCommit, VerifyBurn, VerifySpend, Abort, history
      <3>3. ASSUME NEW c \in Codes, NEW right \in BOOLEAN, VerifySelect(r, c, right) PROVE CountInv'
        <4>1. req'[r].pc = "count" /\ req'[r].code = c /\ req'[r].read = attempts[c]
          BY <1>2, <3>3 DEF VerifySelect, Start, TypeInv, TypeOK
        <4>. QED
          BY <1>2, <3>0, <3>3, <4>1, CountQuiet DEF VerifySelect
      <3>. QED
        BY <1>2, <2>1, <3>1, <3>2, <3>3, CountStep DEF Handle
    <2>2. CASE (\E c \in Codes : Lapse(c)) \/ UNCHANGED vars
      BY <1>2, <2>2 DEF Lapse, vars, history, CountInv, Backed, At
    <2>. QED
      BY <1>2, <2>1, <2>2 DEF Next
  <1>3. CountInv => NoEarlyLockout
    BY DEF CountInv, NoEarlyLockout
  <1>. QED
    BY <1>1, <1>2, <1>3, TypeInvariance, PTL DEF Spec

------------------------------------------------------------------------------
(* A code that is about to be inserted is used by nobody yet, and by nobody   *)
(* twice inserted; a code that was verified is neither in the table nor on    *)
(* its way there; and while no two requests were verifying it, a code has one *)
(* verifier or one success, not both.                                         *)
Coming(c) == \E r \in Reqs : At(r, "commit") /\ req[r].code = c
Unused(c) == c \notin stored /\ wins[c] = 0 /\ \A r \in Reqs : ~On(r, c)
Single(c) ==
    /\ Coming(c) => Unused(c) /\ c <= last
    /\ \A r \in Reqs, q \in Reqs : At(r, "commit") /\ At(q, "commit") /\ req[r].code = c /\ req[q].code = c => r = q
    /\ c > last => Unused(c)
    /\ c \notin contested =>
          /\ wins[c] <= 1
          /\ wins[c] > 0 => c \notin stored /\ \A r \in Reqs : ~On(r, c)
          /\ \A r \in Reqs, q \in Reqs : On(r, c) /\ On(q, c) => r = q
UseInv == \A c \in Codes : Single(c)

(* A step that puts no request on c, and neither inserts nor spends it.      *)
Still(r, c) ==
    /\ last' = last /\ wins' = wins
    /\ c \in stored' => c \in stored
    /\ c \in contested <=> c \in contested'
    /\ On(r, c)' => On(r, c)
    /\ At(r, "commit")' => At(r, "commit") /\ req'[r].code = req[r].code

(* A still step keeps the invariant of c.                                    *)
LEMMA StillStep ==
    ASSUME TypeInv, UseInv, NEW r \in Reqs, ReqMove(r), NEW c \in Codes, Still(r, c)
    PROVE  Single(c)'
  <1>1. \A q \in Reqs \ {r} : req'[q] = req[q]
    BY DEF ReqMove, TypeInv, TypeOK
  <1>2. Single(c)
    BY DEF UseInv
  <1>3. \A q \in Reqs : (On(q, c)' => On(q, c)) /\ (At(q, "commit")' => At(q, "commit") /\ req'[q].code = req[q].code)
    BY <1>1 DEF Still, On, At
  <1> HIDE DEF On
  <1>4. Coming(c)' => Coming(c)
    BY <1>3 DEF Coming
  <1>5. Unused(c) => Unused(c)'
    BY <1>3 DEF Unused, Still
  <1>. QED
    BY <1>2, <1>3, <1>4, <1>5 DEF Single, Still

(* The new code is larger than every other.                                  *)
LEMMA StampStep ==
    ASSUME TypeInv, UseInv, NEW r \in Reqs, IssueStamp(r), NEW c \in Codes
    PROVE  Single(c)'
  <1>0. ReqMove(r)
    BY ReqMoves DEF Handle
  <1>1. \A q \in Reqs \ {r} : req'[q] = req[q]
    BY <1>0 DEF ReqMove, TypeInv, TypeOK
  <1>2. req[r].pc = "delete" /\ req'[r].pc = "commit" /\ req'[r].code = last + 1 /\ last' = last + 1
    BY DEF IssueStamp, At, TypeInv, TypeOK, Requests
  <1>3. stored' = stored /\ wins' = wins /\ contested' = contested
    BY DEF IssueStamp, history
  <1>4. Single(c) /\ last \in Nat /\ c \in Nat
    BY DEF UseInv, TypeInv, TypeOK, Codes
  <1>5. \A q \in Reqs : On(q, c)' <=> On(q, c)
    BY <1>1, <1>2 DEF On, Verifying
  <1>6. Unused(c) <=> Unused(c)'
    BY <1>3, <1>5 DEF Unused
  <1>7. CASE c = last + 1
    <2>1. Unused(c) /\ ~Coming(c)
      BY <1>4, <1>7 DEF Single
    <2>2. \A q \in Reqs : At(q, "commit")' /\ req'[q].code = c => q = r
      BY <1>1, <2>1 DEF Coming, At
    <2>. QED
      BY <1>2, <1>3, <1>4, <1>5, <1>6, <1>7, <2>1, <2>2 DEF Single
  <1>8. CASE c # last + 1
    <2>1. \A q \in Reqs : At(q, "commit")' /\ req'[q].code = c => At(q, "commit") /\ req[q].code = c
      BY <1>1, <1>2, <1>8 DEF At
    <2>2. Coming(c)' => Coming(c)
      BY <2>1 DEF Coming
    <2>. QED
      BY <1>2, <1>3, <1>4, <1>5, <1>6, <1>8, <2>1, <2>2 DEF Single
  <1>. QED
    BY <1>7, <1>8

(* The row that is inserted was coming, and is no longer.                    *)
LEMMA CommitStep ==
    ASSUME TypeInv, UseInv, NEW r \in Reqs, IssueCommit(r), NEW c \in Codes
    PROVE  Single(c)'
  <1>0. ReqMove(r) /\ req'[r] = Idle
    BY FinishMoves DEF IssueCommit
  <1>1. \A q \in Reqs \ {r} : req'[q] = req[q]
    BY <1>0 DEF ReqMove, TypeInv, TypeOK
  <1>2. /\ last' = last /\ wins' = wins /\ contested' = contested
        /\ stored' = (stored \ req[r].seen) \cup {req[r].code}
        /\ At(r, "commit")
    BY DEF IssueCommit, history
  <1>3. CASE c # req[r].code
    <2>1. Still(r, c)
      BY <1>0, <1>2, <1>3 DEF Still, On, At, Verifying, Idle
    <2>. QED
      BY <1>0, <2>1, StillStep
  <1>4. CASE c = req[r].code
    <2>1. Single(c) /\ Coming(c) /\ Unused(c) /\ c <= last
      BY <1>2, <1>4 DEF UseInv, Single, Coming
    <2>2. \A q \in Reqs : ~On(q, c)'
      BY <1>0, <1>1, <2>1 DEF Unused, On, Verifying, Idle
    <2>3. ~Coming(c)'
      BY <1>0, <1>1, <1>2, <1>4, <2>1 DEF Single, Coming, At, Idle
    <2>4. last \in Nat /\ c \in Nat /\ ~(c > last)
      BY <2>1 DEF TypeInv, TypeOK, Codes
    <2>5. wins'[c] = 0
      BY <1>2, <2>1 DEF Unused
    <2>. QED
      BY <1>2, <2>2, <2>3, <2>4, <2>5 DEF Single, Coming
  <1>. QED
    BY <1>3, <1>4

(* A second verifier of a code makes it contested.                           *)
LEMMA SelectStep ==
    ASSUME TypeInv, UseInv, NEW r \in Reqs, NEW d \in Codes, NEW right \in BOOLEAN, VerifySelect(r, d, right),
           NEW c \in Codes
    PROVE  Single(c)'
  <1>0. ReqMove(r)
    BY ReqMoves DEF Handle
  <1>1. \A q \in Reqs \ {r} : req'[q] = req[q]
    BY <1>0 DEF ReqMove, TypeInv, TypeOK
  <1>2. req[r].pc = "idle" /\ req'[r].pc = "count" /\ req'[r].code = d
    BY DEF VerifySelect, Start, At, TypeInv, TypeOK
  <1>3. last' = last /\ stored' = stored /\ wins' = wins /\ d \in stored
    BY DEF VerifySelect, Newest
  <1>4. contested' = IF \E q \in Reqs : On(q, d) THEN contested \cup {d} ELSE contested
    BY DEF VerifySelect, On, Verifying
  <1>5. CASE c # d
    <2>1. Still(r, c)
      BY <1>2, <1>3, <1>4, <1>5 DEF Still, On, At
    <2>. QED
      BY <1>0, <2>1, StillStep
  <1>6. CASE c = d
    <2>1. Single(c) /\ ~Unused(c) /\ ~Coming(c) /\ ~(c > last)
      BY <1>3, <1>6 DEF UseInv, Single, Unused
    <2>2. ~Coming(c)' /\ \A q \in Reqs : ~(At(q, "commit") /\ req[q].code = c)'
      BY <1>1, <1>2, <2>1 DEF Coming, At
    <2>3. c \notin contested' => c \notin contested /\ \A q \in Reqs : ~On(q, c)
      BY <1>4, <1>6
    <2>4. c \notin contested' => \A q \in Reqs : On(q, c)' => q = r
      BY <1>1, <2>3 DEF On
    <2>5. wins[c] \in Nat /\ (c \notin contested' => wins[c] = 0)
      BY <1>3, <1>6, <2>1, <2>3 DEF Single, TypeInv, TypeOK
    <2>. QED
      BY <1>3, <2>1, <2>2, <2>4, <2>5 DEF Single
  <1>. QED
    BY <1>5, <1>6

(* The only verifier of a code becomes its one success.                      *)
LEMMA SpendStep ==
    ASSUME TypeInv, UseInv, NEW r \in Reqs, VerifySpend(r), NEW c \in Codes
    PROVE  Single(c)'
  <1>0. ReqMove(r) /\ req'[r] = Idle
    BY FinishMoves DEF VerifySpend
  <1>1. \A q \in Reqs \ {r} : req'[q] = req[q]
    BY <1>0 DEF ReqMove, TypeInv, TypeOK
  <1>2. last' = last /\ contested' = contested /\ stored' = stored \ {req[r].code}
    BY DEF VerifySpend
  <1>3. /\ wins' = [wins EXCEPT ![req[r].code] = @ + 1]
        /\ wins \in [Codes -> Nat] /\ On(r, req[r].code) /\ req[r].pc # "commit"
    BY DEF VerifySpend, On, At, Verifying, TypeInv, TypeOK
  <1>4. Single(c)
    BY DEF UseInv
  <1>5. \A q \in Reqs : (On(q, c)' => On(q, c) /\ q # r)
                        /\ (At(q, "commit")' => At(q, "commit") /\ req'[q].code = req[q].code)
    BY <1>0, <1>1 DEF On, At, Verifying, Idle
  <1>6. Coming(c)' => Coming(c)
    BY <1>5 DEF Coming
  <1>7. CASE c # req[r].code
    <2>1. wins'[c] = wins[c] /\ (c \in stored' <=> c \in stored)
      BY <1>2, <1>3, <1>7
    <2>2. Unused(c) => Unused(c)'
      BY <1>5, <2>1 DEF Unused
    <2>. QED
      BY <1>2, <1>4, <1>5, <1>6, <2>1, <2>2 DEF Single
  <1>8. CASE c = req[r].code
    <2>1. On(r, c) /\ ~Unused(c) /\ ~Coming(c) /\ ~(c > last)
      BY <1>3, <1>4, <1>8 DEF Single, Unused
    <2>2. c \notin contested => wins[c] = 0 /\ \A q \in Reqs : ~On(q, c)'
      <3>1. c \notin contested => ~(wins[c] > 0) /\ \A q \in Reqs : On(q, c) => q = r
        BY <1>4, <2>1 DEF Single
      <3>. QED
        BY <1>3, <1>5, <3>1
    <2>3. c \notin stored' /\ wins'[c] = wins[c] + 1
      BY <1>2, <1>3, <1>8
    <2>4. \A q \in Reqs, p \in Reqs :
             (At(q, "commit") /\ At(p, "commit") /\ req[q].code = c /\ req[p].code = c => q = p)'
      BY <1>5, <2>1 DEF Coming
    <2>5. wins[c] \in Nat
      BY <1>3
    <2>. QED
      BY <1>2, <1>6, <2>1, <2>2, <2>3, <2>4, <2>5 DEF Single
  <1>. QED
    BY <1>7, <1>8

(* The steps that are still for every code.                                  *)
LEMMA StillSteps ==
    ASSUME TypeInv, NEW r \in Reqs, NEW c \in Codes,
           IssueDelete(r) \/ VerifyCount(r) \/ VerifyBurn(r) \/ Abort(r)
    PROVE  Still(r, c)
  <1> USE DEF Still, On, At, Verifying, history
  <1>1. CASE IssueDelete(r)
    BY <1>1 DEF IssueDelete, Start, TypeInv, TypeOK
  <1>2. CASE VerifyBurn(r) \/ Abort(r)
    BY <1>2, FinishMoves DEF VerifyBurn, Abort, Idle
  <1>3. CASE VerifyCount(r)
    <2>1. req'[r] = Idle \/ (req'[r].pc \in {"burn", "spend"} /\ req'[r].code = req[r].code)
      BY <1>3, FinishMoves, GoMoves DEF VerifyCount
    <2>. QED
      BY <1>3, <2>1 DEF VerifyCount, Idle
  <1>. QED
    BY <1>1, <1>2, <1>3

(* A code is verified once, unless two requests were verifying it together.  *)
THEOREM CodeIsUsedOnceHolds == Spec => []CodeIsUsedOnce
  <1>1. Init => UseInv
    BY DEF Init, UseInv, Single, Coming, Unused, On, At, Verifying, Idle
  <1>2. ASSUME TypeInv, UseInv, [Next]_vars PROVE UseInv'
    <2> SUFFICES ASSUME NEW c \in Codes PROVE Single(c)'
      BY DEF UseInv
    <2>1. ASSUME NEW r \in Reqs, Handle(r) PROVE Single(c)'
      <3>1. ReqMove(r)
        BY <1>2, <2>1, ReqMoves
      <3>. QED
        BY <1>2, <2>1, <3>1, StillStep, StillSteps, StampStep, CommitStep, SelectStep, SpendStep DEF Handle
    <2>2. CASE (\E d \in Codes : Lapse(d)) \/ UNCHANGED vars
      BY <1>2, <2>2 DEF Lapse, vars, history, UseInv, Single, Coming, Unused, On, At
    <2>. QED
      BY <1>2, <2>1, <2>2 DEF Next
  <1>3. UseInv => CodeIsUsedOnce
    BY DEF UseInv, Single, CodeIsUsedOnce
  <1>. QED
    BY <1>1, <1>2, <1>3, TypeInvariance, PTL DEF Spec

------------------------------------------------------------------------------
(* While no issues overlap, the one in flight saw every code of the table.   *)
AloneInv ==
    ~overlapped =>
       /\ \A c \in stored, d \in stored : c = d
       /\ \A r \in Reqs : Issues(r) => stored \subseteq req[r].seen
       /\ \A r \in Reqs, q \in Reqs : Issues(r) /\ Issues(q) => r = q

(* A step that starts no issue and adds no code keeps AloneInv.              *)
LEMMA AloneQuiet ==
    ASSUME TypeInv, AloneInv, NEW r \in Reqs, ReqMove(r), overlapped' = overlapped, stored' \subseteq stored,
           Issues(r)' => Issues(r) /\ req'[r].seen = req[r].seen
    PROVE  AloneInv'
  <1>1. \A q \in Reqs \ {r} : req'[q] = req[q]
    BY DEF ReqMove, TypeInv, TypeOK
  <1>. QED
    BY <1>1 DEF AloneInv, Issues

(* Every step keeps AloneInv.                                                *)
LEMMA AloneStep ==
    ASSUME TypeInv, AloneInv, NEW r \in Reqs, Handle(r)
    PROVE  AloneInv'
  <1>0. ReqMove(r) /\ req \in [Reqs -> Requests]
    BY ReqMoves DEF TypeInv, TypeOK
  <1>a. \A q \in Reqs \ {r} : req'[q] = req[q]
    BY <1>0 DEF ReqMove
  <1> USE <1>0 DEF Issues, history
  <1>1. CASE IssueDelete(r)
    <2>1. req'[r].pc = "delete" /\ req'[r].seen = stored /\ stored' = stored
      BY <1>1 DEF IssueDelete, Start
    <2>2. ~overlapped' => ~overlapped /\ \A q \in Reqs : ~Issues(q)
      BY <1>1 DEF IssueDelete, At
    <2>. QED
      BY <1>a, <2>1, <2>2 DEF AloneInv
  <1>2. CASE IssueStamp(r)
    <2>1. req'[r].seen = req[r].seen /\ req[r].pc = "delete"
      BY <1>2 DEF IssueStamp, At, Requests
    <2>. QED
      BY <1>2, <2>1, AloneQuiet DEF IssueStamp
  <1>3. CASE IssueCommit(r)
    <2>1. req'[r] = Idle /\ Issues(r)
      BY <1>3, FinishMoves DEF IssueCommit, At
    <2>2. stored' = (stored \ req[r].seen) \cup {req[r].code} /\ overlapped' = overlapped
      BY <1>3 DEF IssueCommit
    <2>3. ~overlapped => stored' = {req[r].code} /\ \A q \in Reqs : ~Issues(q)'
      BY <1>a, <2>1, <2>2 DEF AloneInv, Idle
    <2>. QED
      BY <2>2, <2>3 DEF AloneInv
  <1>4. ASSUME NEW c \in Codes, NEW right \in BOOLEAN, VerifySelect(r, c, right) PROVE AloneInv'
    <2>1. req'[r].pc = "count"
      BY <1>4 DEF VerifySelect, Start
    <2>. QED
      BY <1>4, <2>1, AloneQuiet DEF VerifySelect
  <1>5. CASE VerifyCount(r)
    <2>1. req'[r].pc \in {"idle", "burn", "spend"}
      BY <1>5, FinishMoves, GoMoves DEF VerifyCount, Idle
    <2>. QED
      BY <1>5, <2>1, AloneQuiet DEF VerifyCount
  <1>6. CASE VerifyBurn(r) \/ VerifySpend(r) \/ Abort(r)
    <2>1. req'[r].pc = "idle"
      BY <1>6, FinishMoves DEF VerifyBurn, VerifySpend, Abort, Idle
    <2>. QED
      BY <1>6, <2>1, AloneQuiet DEF VerifyBurn, VerifySpend, Abort
  <1>. QED
    BY <1>1, <1>2, <1>3, <1>4, <1>5, <1>6 DEF Handle

(* Without overlapping issues an identifier has one code at most.            *)
THEOREM OneCodeAtATimeHolds == Spec => []OneCodeAtATime
  <1>1. Init => AloneInv
    BY DEF Init, AloneInv, Issues, Idle
  <1>2. ASSUME TypeInv, AloneInv, [Next]_vars PROVE AloneInv'
    <2>1. CASE (\E c \in Codes : Lapse(c)) \/ UNCHANGED vars
      BY <1>2, <2>1 DEF Lapse, vars, history, AloneInv, Issues
    <2>. QED
      BY <1>2, <2>1, AloneStep DEF Next
  <1>3. AloneInv => OneCodeAtATime
    <2> SUFFICES ASSUME AloneInv, ~overlapped PROVE Cardinality(stored) <= 1
      BY DEF OneCodeAtATime
    <2>1. \A c \in stored, d \in stored : c = d
      BY DEF AloneInv
    <2>2. CASE stored = {}
      BY <2>2, FS_EmptySet
    <2>3. CASE stored # {}
      <3>1. PICK c \in stored : stored = {c}
        BY <2>1, <2>3
      <3>. QED
        <4>1. Cardinality(stored) = 1
          BY <3>1, FS_Singleton
        <4>. QED
          BY <4>1
    <2>. QED
      BY <2>2, <2>3
  <1>. QED
    BY <1>1, <1>2, <1>3, TypeInvariance, PTL DEF Spec

------------------------------------------------------------------------------
(* The numbers of lattice paths, which bound the comparisons.                 *)
K == Cardinality(Reqs)

(* The pool is finite.                                                        *)
LEMMA KIsANumber == K \in Nat
  BY FinitenessAssumption, FS_CardinalityType DEF K

(* A row begins with 1 and adds the row before it up.                        *)
Row(m, a, g) == g[0] = 1 /\ \A k \in 1..m : g[k] = a[k] + g[k - 1]

(* A row of any length exists.                                               *)
LEMMA RowExists ==
    ASSUME NEW a, NEW m \in Nat, \A k \in 1..m : a[k] \in Nat
    PROVE  \E g \in [0..m -> Nat] : Row(m, a, g)
  <1> DEFINE S == {j \in Nat : j <= m => \E g \in [0..j -> Nat] : Row(j, a, g)}
  <1>1. 0 \in S
    <2>1. [k \in 0..0 |-> 1] \in [0..0 -> Nat] /\ Row(0, a, [k \in 0..0 |-> 1])
      BY DEF Row
    <2>. QED
      BY <2>1
  <1>2. ASSUME NEW j \in Nat, j \in S PROVE j + 1 \in S
    <2> SUFFICES ASSUME j + 1 <= m PROVE \E g \in [0..j + 1 -> Nat] : Row(j + 1, a, g)
      OBVIOUS
    <2>1. PICK g \in [0..j -> Nat] : Row(j, a, g)
      BY <1>2
    <2> DEFINE h == [k \in 0..j + 1 |-> IF k = j + 1 THEN a[j + 1] + g[j] ELSE g[k]]
    <2>2. h \in [0..j + 1 -> Nat]
      OBVIOUS
    <2>3. Row(j + 1, a, h)
      <3>1. h[0] = 1
        BY <2>1 DEF Row
      <3>2. ASSUME NEW k \in 1..j PROVE h[k] = a[k] + h[k - 1]
        <4>1. k \in 0..j + 1 /\ k - 1 \in 0..j + 1 /\ k # j + 1 /\ k - 1 # j + 1
          OBVIOUS
        <4>. QED
          BY <2>1, <4>1 DEF Row
      <3>3. h[j + 1] = a[j + 1] + h[j]
        OBVIOUS
      <3>4. ASSUME NEW k \in 1..j + 1 PROVE h[k] = a[k] + h[k - 1]
        <4>1. CASE k \in 1..j
          BY <3>2, <4>1
        <4>2. CASE k = j + 1
          BY <3>3, <4>2
        <4>. QED
          BY <4>1, <4>2
      <3> HIDE DEF h
      <3>. QED
        BY <3>1, <3>4 DEF Row
    <2>. QED
      BY <2>2, <2>3
  <1>3. m \in S
    BY <1>1, <1>2, AllNumbers
  <1>. QED
    BY <1>3

(* A table of n + 1 rows: 1 along two edges, else the sum of the two          *)
(* neighbours before it.                                                      *)
Grid(n) == (0..n) \X (0..K)
Filled(t, x) == t[x] = IF x[1] = 0 \/ x[2] = 0 THEN 1 ELSE t[<<x[1] - 1, x[2]>>] + t[<<x[1], x[2] - 1>>]
Table(n, t) == t \in [Grid(n) -> Nat] /\ \A x \in Grid(n) : Filled(t, x)

(* A pair of the grid, by its parts.                                          *)
LEMMA Pairs ==
    ASSUME NEW n \in Nat, NEW x \in Grid(n)
    PROVE  /\ x = <<x[1], x[2]>> /\ x[1] \in 0..n /\ x[2] \in 0..K
           /\ x[1] # 0 => <<x[1] - 1, x[2]>> \in Grid(n)
           /\ x[2] # 0 => <<x[1], x[2] - 1>> \in Grid(n)
  BY KIsANumber DEF Grid

(* One more row.                                                              *)
LEMMA TableGrows ==
    ASSUME NEW n \in Nat, NEW t, Table(n, t)
    PROVE  \E u : Table(n + 1, u)
  <1> DEFINE above == [k \in 0..K |-> t[<<n, k>>]]
  <1>0. K \in Nat /\ n + 1 \in Nat
    BY KIsANumber
  <1>1. \A k \in 0..K : t[<<n, k>>] \in Nat
    <2>1. \A k \in 0..K : <<n, k>> \in Grid(n)
      BY DEF Grid
    <2>. QED
      BY <2>1 DEF Table
  <1>2. PICK g \in [0..K -> Nat] : Row(K, above, g)
    <2>1. \A k \in 1..K : above[k] \in Nat
      BY <1>1
    <2> HIDE DEF above
    <2>. QED
      BY <1>0, <2>1, RowExists
  <1>3. g[0] = 1 /\ \A k \in 1..K : g[k] = t[<<n, k>>] + g[k - 1]
    <2>1. \A k \in 1..K : above[k] = t[<<n, k>>]
      BY <1>0
    <2> HIDE DEF above
    <2>. QED
      BY <1>2, <2>1 DEF Row
  <1> HIDE DEF above
  <1> DEFINE u == [x \in Grid(n + 1) |-> IF x[1] = n + 1 THEN g[x[2]] ELSE t[x]]
  <1>4. \A x \in Grid(n + 1) : x[1] # n + 1 => x \in Grid(n)
    BY <1>0 DEF Grid
  <1>5. \A x \in Grid(n) : x \in Grid(n + 1) /\ x[1] # n + 1
    BY <1>0 DEF Grid
  <1>6. u \in [Grid(n + 1) -> Nat]
    <2>1. \A x \in Grid(n + 1) : x[2] \in 0..K
      BY DEF Grid
    <2>. QED
      BY <1>4, <2>1 DEF Table
  <1>7. \A x \in Grid(n) : u[x] = t[x]
    BY <1>5
  <1>8. \A k \in 0..K : <<n + 1, k>> \in Grid(n + 1) /\ u[<<n + 1, k>>] = g[k]
    <2> SUFFICES ASSUME NEW k \in 0..K PROVE <<n + 1, k>> \in Grid(n + 1) /\ u[<<n + 1, k>>] = g[k]
      OBVIOUS
    <2>1. <<n + 1, k>> \in Grid(n + 1)
      BY <1>0 DEF Grid
    <2>2. PICK x \in Grid(n + 1) : x = <<n + 1, k>>
      BY <2>1
    <2>3. x[1] = n + 1 /\ x[2] = k
      BY <2>2
    <2>. QED
      BY <2>2, <2>3
  <1> HIDE DEF u
  <1>9. ASSUME NEW x \in Grid(n + 1) PROVE Filled(u, x)
    <2>1. CASE x[1] # n + 1
      <3>1. x \in Grid(n) /\ Filled(t, x)
        BY <1>4, <2>1 DEF Table
      <3>2. /\ x[1] # 0 => u[<<x[1] - 1, x[2]>>] = t[<<x[1] - 1, x[2]>>]
            /\ x[2] # 0 => u[<<x[1], x[2] - 1>>] = t[<<x[1], x[2] - 1>>]
        BY <1>7, <3>1, Pairs
      <3>. QED
        BY <1>7, <3>1, <3>2 DEF Filled
    <2>2. CASE x[1] = n + 1
      <3>1. x = <<n + 1, x[2]>> /\ x[2] \in 0..K
        BY <1>0, <2>2, Pairs
      <3>2. PICK k \in 0..K : k = x[2]
        BY <3>1
      <3>3. u[x] = g[k]
        BY <1>8, <3>1, <3>2
      <3>4. CASE k = 0
        BY <1>3, <3>2, <3>3, <3>4 DEF Filled
      <3>5. CASE k # 0
        <4>1. k - 1 \in 0..K /\ k \in 1..K
          BY <1>0, <3>5
        <4>2. <<n, k>> \in Grid(n) /\ n = (n + 1) - 1
          BY DEF Grid
        <4>3. u[<<n, k>>] = t[<<n, k>>]
          BY <1>7, <4>2
        <4>4. u[<<n + 1, k - 1>>] = g[k - 1]
          BY <1>8, <4>1
        <4>5. u[x] = u[<<n, k>>] + u[<<n + 1, k - 1>>]
          BY <1>3, <3>3, <4>1, <4>3, <4>4
        <4>. QED
          BY <2>2, <3>2, <3>5, <4>2, <4>5 DEF Filled
      <3>. QED
        BY <3>4, <3>5
    <2>. QED
      BY <2>1, <2>2
  <1>. QED
    BY <1>6, <1>9 DEF Table

(* Paths is such a table: the equation that defines it has a solution.        *)
LEMMA PathsTable == Table(MaxAttempts, Paths)
  <1> DEFINE S == {n \in Nat : \E t : Table(n, t)}
  <1>0. MaxAttempts \in Nat /\ K \in Nat
    BY KIsANumber
  <1>a. \A y \in Grid(MaxAttempts) : y[1] \in Nat /\ y[2] \in Nat /\ y[1] + y[2] \in Nat
    BY <1>0 DEF Grid
  <1>1. 0 \in S
    <2> DEFINE t == [x \in Grid(0) |-> 1]
    <2>1. \A x \in Grid(0) : x[1] = 0
      BY DEF Grid
    <2>2. Table(0, t)
      BY <2>1 DEF Table, Filled
    <2>. QED
      BY <2>2
  <1>2. \A n \in Nat : n \in S => n + 1 \in S
    BY TableGrows
  <1>3. PICK t : Table(MaxAttempts, t)
    <2>1. MaxAttempts \in S
      BY <1>0, <1>1, <1>2, AllNumbers
    <2>. QED
      BY <2>1
  <1> DEFINE Step(f, x) == IF x[1] = 0 \/ x[2] = 0 THEN 1 ELSE f[<<x[1] - 1, x[2]>>] + f[<<x[1], x[2] - 1>>]
             Whole(f) == f = [x \in Grid(MaxAttempts) |-> Step(f, x)]
  <1>4. Whole(t)
    <2>1. \A x \in Grid(MaxAttempts) : t[x] = Step(t, x)
      BY <1>3 DEF Table, Filled
    <2> HIDE DEF Step
    <2>. QED
      BY <1>3, <2>1 DEF Table
  <1>5. Paths = CHOOSE f : Whole(f)
    BY DEF Paths, Grid, K
  <1>6. Whole(Paths)
    <2> HIDE DEF Whole
    <2>. QED
      BY <1>4, <1>5
  <1>7. \A x \in Grid(MaxAttempts) : Filled(Paths, x)
    <2> HIDE DEF Step
    <2>1. \A x \in Grid(MaxAttempts) : Paths[x] = Step(Paths, x)
      BY <1>6
    <2>. QED
      BY <2>1 DEF Step, Filled
  <1> DEFINE D == {m \in Nat : \A x \in Grid(MaxAttempts) : x[1] + x[2] <= m => Paths[x] \in Nat}
  <1>8. Nat \subseteq D
    <2>1. ASSUME NEW m \in Nat, NEW x \in Grid(MaxAttempts), x[1] + x[2] <= m,
                 \A y \in Grid(MaxAttempts) : y[1] + y[2] < m => Paths[y] \in Nat
          PROVE  Paths[x] \in Nat
      <3>1. x[1] \in Nat /\ x[2] \in Nat
        BY <1>a
      <3>2. CASE x[1] = 0 \/ x[2] = 0
        <4>1. Paths[x] = 1
          BY <1>7, <3>1, <3>2 DEF Filled
        <4>. QED
          BY <4>1
      <3>3. CASE x[1] # 0 /\ x[2] # 0
        <4>1. PICK y \in Grid(MaxAttempts), z \in Grid(MaxAttempts) :
                 y = <<x[1] - 1, x[2]>> /\ z = <<x[1], x[2] - 1>>
          BY <1>0, <3>3, Pairs
        <4>2. Paths[y] \in Nat /\ Paths[z] \in Nat
          BY <2>1, <3>1, <3>3, <4>1
        <4>. QED
          BY <1>7, <3>3, <4>1, <4>2 DEF Filled
      <3>. QED
        BY <3>2, <3>3
    <2>3. 0 \in D
      <3>1. \A y \in Grid(MaxAttempts) : ~(y[1] + y[2] < 0)
        BY <1>a
      <3>. QED
        BY <2>1, <3>1
    <2>4. ASSUME NEW m \in Nat, m \in D PROVE m + 1 \in D
      <3>1. \A y \in Grid(MaxAttempts) : y[1] + y[2] < m + 1 => Paths[y] \in Nat
        BY <1>a, <2>4
      <3>. QED
        BY <2>1, <3>1
    <2>. QED
      BY <2>3, <2>4, AllNumbers
  <1>9. \A x \in Grid(MaxAttempts) : Paths[x] \in Nat
    <2>1. \A x \in Grid(MaxAttempts) : x[1] + x[2] \in D /\ x[1] + x[2] <= x[1] + x[2]
      BY <1>8, <1>a
    <2>. QED
      BY <2>1
  <1>. QED
    <2>1. Paths = [x \in Grid(MaxAttempts) |-> Paths[x]]
      BY <1>6
    <2>. QED
      BY <1>7, <1>9, <2>1 DEF Table

(* The table by its rows and columns.                                         *)
LEMMA PathsFacts ==
    /\ \A n \in 0..MaxAttempts, k \in 0..K : Paths[<<n, k>>] \in Nat /\ (n = 0 \/ k = 0 => Paths[<<n, k>>] = 1)
    /\ \A n \in 1..MaxAttempts, k \in 1..K : Paths[<<n, k>>] = Paths[<<n - 1, k>>] + Paths[<<n, k - 1>>]
  <1>0. MaxAttempts \in Nat /\ K \in Nat
    BY KIsANumber
  <1>1. ASSUME NEW n \in 0..MaxAttempts, NEW k \in 0..K
        PROVE  /\ Paths[<<n, k>>] \in Nat
               /\ n = 0 \/ k = 0 => Paths[<<n, k>>] = 1
               /\ n # 0 /\ k # 0 => Paths[<<n, k>>] = Paths[<<n - 1, k>>] + Paths[<<n, k - 1>>]
    <2>1. PICK x \in Grid(MaxAttempts) : x = <<n, k>>
      BY DEF Grid
    <2>2. x[1] = n /\ x[2] = k
      BY <2>1
    <2>3. Paths[x] \in Nat /\ Filled(Paths, x)
      BY PathsTable DEF Table
    <2>. QED
      BY <2>1, <2>2, <2>3 DEF Filled
  <1>2. ASSUME NEW n \in 1..MaxAttempts, NEW k \in 1..K
        PROVE  Paths[<<n, k>>] = Paths[<<n - 1, k>>] + Paths[<<n, k - 1>>]
    <2>1. n \in 0..MaxAttempts /\ k \in 0..K /\ n # 0 /\ k # 0
      BY <1>0
    <2>. QED
      BY <1>1, <2>1
  <1>. QED
    BY <1>1, <1>2

(* What k requests can do with v attempts that one attempt less did not let   *)
(* them.                                                                      *)
Ways(v, k) == IF k = 0 THEN 0 ELSE Paths[<<v, k - 1>>]

(* The sum of two neighbours.                                                 *)
LEMMA WaysAdd ==
    ASSUME NEW v \in 1..MaxAttempts, NEW k \in 0..K
    PROVE  Ways(v, k) \in Nat /\ Paths[<<v, k>>] = Paths[<<v - 1, k>>] + Ways(v, k)
  <1>1. CASE k = 0
    BY <1>1, PathsFacts DEF Ways
  <1>2. CASE k # 0
    <2>1. k \in 1..K /\ k - 1 \in 0..K /\ v \in 0..MaxAttempts
      BY <1>2, KIsANumber
    <2>. QED
      BY <1>2, <2>1, PathsFacts DEF Ways
  <1>. QED
    BY <1>1, <1>2

(* One request more has as many ways as all before it together.               *)
LEMMA WaysNext ==
    ASSUME NEW v \in 1..MaxAttempts, NEW k \in 0..K, k < K
    PROVE  Ways(v, k + 1) = Paths[<<v - 1, k>>] + Ways(v, k)
  <1>1. k + 1 # 0 /\ (k + 1) - 1 = k
    BY KIsANumber
  <1>. QED
    BY <1>1, WaysAdd DEF Ways

(* More requests have no fewer ways.                                          *)
LEMMA WaysRise ==
    ASSUME NEW v \in 1..MaxAttempts, NEW j \in 0..K, NEW k \in 0..K, j <= k
    PROVE  Ways(v, j) <= Ways(v, k)
  <1> DEFINE S == {d \in Nat : j + d <= K => Ways(v, j) <= Ways(v, j + d)}
  <1>0. j \in Nat /\ k \in Nat /\ K \in Nat
    BY KIsANumber
  <1>1. 0 \in S
    <2>1. j + 0 = j
      BY <1>0
    <2>2. Ways(v, j) \in Nat
      BY WaysAdd
    <2>. QED
      BY <2>1, <2>2
  <1>2. ASSUME NEW d \in Nat, d \in S PROVE d + 1 \in S
    <2> SUFFICES ASSUME j + (d + 1) <= K PROVE Ways(v, j) <= Ways(v, j + (d + 1))
      BY <1>0
    <2>1. j + d \in 0..K /\ j + d < K /\ j + (d + 1) = (j + d) + 1 /\ (j + d) + 1 \in 0..K
      BY <1>0
    <2>2. Ways(v, j) <= Ways(v, j + d)
      BY <1>2, <2>1
    <2>3. Ways(v, (j + d) + 1) = Paths[<<v - 1, j + d>>] + Ways(v, j + d)
      BY <2>1, WaysNext
    <2>4. Paths[<<v - 1, j + d>>] \in Nat /\ Ways(v, j + d) \in Nat /\ Ways(v, j) \in Nat
      <3>1. v - 1 \in 0..MaxAttempts
        BY SMT
      <3>. QED
        BY <2>1, <3>1, PathsFacts, WaysAdd
    <2>. QED
      BY <2>1, <2>2, <2>3, <2>4
  <1>3. Nat \subseteq S
    BY <1>1, <1>2, AllNumbers
  <1>4. k - j \in Nat /\ j + (k - j) = k /\ k <= K
    BY <1>0
  <1>5. k - j \in S
    BY <1>3, <1>4
  <1>. QED
    BY <1>4, <1>5

------------------------------------------------------------------------------
(* The requests that can no longer put the counter of c back to n: it has     *)
(* passed n, and they hold no copy that has not.                              *)
Past(n, c) == {r \in Reqs : attempts[c] > n /\ (At(r, "count") /\ req[r].code = c => req[r].read > n)}
Spent(v, c) == Cardinality(Past(MaxAttempts - v, c))

(* s[v] of the comparisons made are charged to the last v attempts: no more   *)
(* to each than the requests that are past it had ways to it.                 *)
Ledger(s, c) ==
    /\ s[0] = 0
    /\ \A v \in 1..MaxAttempts : s[v] <= s[v - 1] + Ways(v, Spent(v, c))
Charged(c) == \E s \in [0..MaxAttempts -> Nat] : Ledger(s, c) /\ guesses[c] = s[MaxAttempts]
LedgerInv == \A c \in Codes : Charged(c)

(* The requests in a set, counted.                                            *)
LEMMA Counts ==
    ASSUME NEW A, NEW B, A \subseteq B, B \subseteq Reqs
    PROVE  /\ Cardinality(A) \in 0..K /\ Cardinality(B) \in 0..K /\ Cardinality(A) <= Cardinality(B)
           /\ A # B => Cardinality(A) + 1 <= Cardinality(B)
  <1>1. IsFiniteSet(Reqs) /\ IsFiniteSet(B) /\ IsFiniteSet(A)
    BY FinitenessAssumption, FS_Subset
  <1>2. Cardinality(A) \in Nat /\ Cardinality(B) \in Nat /\ K \in Nat
    BY <1>1, FS_CardinalityType DEF K
  <1>3. Cardinality(A) <= Cardinality(B) /\ Cardinality(B) <= K
    BY <1>1, FS_Subset DEF K
  <1>4. Cardinality(A) = Cardinality(B) => A = B
    BY <1>1, FS_Subset
  <1>. QED
    BY <1>2, <1>3, <1>4

(* If at most m requests are past the last w attempts, there were fewer       *)
(* comparisons than there are paths.                                          *)
LEMMA LedgerBound ==
    ASSUME NEW c \in Codes, NEW s \in [0..MaxAttempts -> Nat], Ledger(s, c),
           NEW w \in 0..MaxAttempts, NEW m \in 0..K, \A v \in 1..w : Spent(v, c) <= m
    PROVE  s[w] < Paths[<<w, m>>]
  <1> DEFINE S == {j \in Nat : j <= w => s[j] < Paths[<<j, m>>]}
  <1>1. 0 \in S
    <2>1. Paths[<<0, m>>] = 1
      BY PathsFacts
    <2>. QED
      BY <2>1 DEF Ledger
  <1>2. ASSUME NEW j \in Nat, j \in S PROVE j + 1 \in S
    <2> SUFFICES ASSUME j + 1 <= w PROVE s[j + 1] < Paths[<<j + 1, m>>]
      BY SMT
    <2> DEFINE v == j + 1
    <2>1. v \in 1..MaxAttempts /\ v \in 1..w /\ v - 1 = j /\ j \in 0..MaxAttempts
      BY SMT
    <2>2. s[j] < Paths[<<j, m>>]
      BY <1>2
    <2>3. s[v] <= s[j] + Ways(v, Spent(v, c))
      BY <2>1 DEF Ledger
    <2>4. Spent(v, c) \in 0..K /\ Spent(v, c) <= m
      BY <2>1, Counts DEF Spent, Past
    <2>5. Ways(v, Spent(v, c)) <= Ways(v, m)
      BY <2>1, <2>4, WaysRise
    <2>6. Paths[<<v, m>>] = Paths[<<j, m>>] + Ways(v, m)
      BY <2>1, WaysAdd
    <2>7. Ways(v, m) \in Nat /\ Ways(v, Spent(v, c)) \in Nat /\ Paths[<<j, m>>] \in Nat
      BY <2>1, <2>4, WaysAdd, PathsFacts
    <2>8. s[j] \in Nat /\ s[v] \in Nat
      BY <2>1
    <2> HIDE DEF v
    <2>9. s[v] < Paths[<<v, m>>]
      <3>1. ASSUME NEW a \in Nat, NEW b \in Nat, NEW p \in Nat, NEW x \in Nat, NEW y \in Nat,
                   b <= a + x, a < p, x <= y
            PROVE  b < p + y
        BY <3>1
      <3>. QED
        BY <2>2, <2>3, <2>5, <2>6, <2>7, <2>8, <3>1
    <2>. QED
      BY <2>9 DEF v
  <1>3. Nat \subseteq S
    BY <1>1, <1>2, AllNumbers
  <1>4. w \in Nat /\ w <= w
    OBVIOUS
  <1>5. w \in S
    BY <1>3, <1>4
  <1>. QED
    BY <1>4, <1>5

(* When no request loses its place, the ledger of c stands.                   *)
LEMMA LedgerKeeps ==
    ASSUME NEW c \in Codes, Charged(c), guesses'[c] = guesses[c],
           \A n \in 0..MaxAttempts - 1 : Past(n, c) \subseteq Past(n, c)'
    PROVE  Charged(c)'
  <1>1. PICK s \in [0..MaxAttempts -> Nat] : Ledger(s, c) /\ guesses[c] = s[MaxAttempts]
    BY DEF Charged
  <1>2. ASSUME NEW v \in 1..MaxAttempts PROVE s[v] <= s[v - 1] + Ways(v, Spent(v, c))'
    <2>1. MaxAttempts - v \in 0..MaxAttempts - 1 /\ v - 1 \in 0..MaxAttempts /\ v \in 0..MaxAttempts
      BY SMT
    <2>2. Past(MaxAttempts - v, c) \subseteq Past(MaxAttempts - v, c)' /\ Past(MaxAttempts - v, c)' \subseteq Reqs
      BY <2>1 DEF Past
    <2>3. Spent(v, c) \in 0..K /\ Spent(v, c)' \in 0..K /\ Spent(v, c) <= Spent(v, c)'
      BY <2>2, Counts DEF Spent
    <2>4. Ways(v, Spent(v, c)) <= Ways(v, Spent(v, c)')
      BY <2>3, WaysRise
    <2>5. Ways(v, Spent(v, c)) \in Nat /\ Ways(v, Spent(v, c)') \in Nat
      BY <2>3, WaysAdd
    <2>6. s[v] <= s[v - 1] + Ways(v, Spent(v, c))
      BY <1>1 DEF Ledger
    <2>7. s[v] \in Nat /\ s[v - 1] \in Nat
      BY <2>1
    <2>8. s[v] <= s[v - 1] + Ways(v, Spent(v, c)')
      BY <2>4, <2>5, <2>6, <2>7
    <2>. QED
      BY <2>8 DEF Ways
  <1>3. Ledger(s, c)'
    BY <1>1, <1>2 DEF Ledger
  <1>. QED
    BY <1>1, <1>3 DEF Charged

(* A request that ends, or reads the counter as it is, loses no place.        *)
LEMMA PastKeeps ==
    ASSUME TypeInv, NEW r \in Reqs, ReqMove(r), NEW c \in Codes, attempts'[c] = attempts[c],
           req'[r].pc # "count" \/ req'[r].code # c \/ req'[r].read = attempts[c]
    PROVE  \A n \in 0..MaxAttempts - 1 : Past(n, c) \subseteq Past(n, c)'
  <1>1. \A q \in Reqs \ {r} : req'[q] = req[q]
    BY DEF ReqMove, TypeInv, TypeOK
  <1> SUFFICES ASSUME NEW n \in 0..MaxAttempts - 1, NEW q \in Past(n, c) PROVE q \in Past(n, c)'
    OBVIOUS
  <1>2. q \in Reqs /\ attempts'[c] > n
    BY DEF Past
  <1>3. CASE q = r
    BY <1>2, <1>3 DEF Past, At
  <1>4. CASE q # r
    BY <1>1, <1>2, <1>4 DEF Past, At
  <1>. QED
    BY <1>3, <1>4

(* A comparison is charged to the attempt that its request had left, and      *)
(* whatever was charged to later ones is charged to it as well: of all that   *)
(* were past it none is lost, and this request is past it now.                *)
LEMMA LedgerCounts ==
    ASSUME TypeInv, NEW r \in Reqs, ReqMove(r), req'[r].pc # "count", At(r, "count"),
           NEW c \in Codes, c = req[r].code, Charged(c), req[r].read < MaxAttempts,
           attempts' = [attempts EXCEPT ![c] = req[r].read + 1],
           guesses' = [guesses EXCEPT ![c] = @ + 1]
    PROVE  Charged(c)'
  <1>a. PICK m \in 0..MaxAttempts - 1 : m = req[r].read
    <2>1. req[r] \in Requests
      BY DEF TypeInv, TypeOK
    <2>. QED
      BY <2>1 DEF Requests
  <1>b. PICK h \in 1..MaxAttempts : h = MaxAttempts - m /\ MaxAttempts - h = m
    BY SMT
  <1>0. MaxAttempts \in Nat /\ attempts'[c] = m + 1 /\ guesses'[c] = guesses[c] + 1
    <2>1. req[r] \in Requests /\ guesses[c] \in Nat /\ attempts \in [Codes -> 0..MaxAttempts + 1]
          /\ guesses \in [Codes -> Nat]
      BY DEF TypeInv, TypeOK
    <2>. QED
      BY <1>a, <2>1 DEF Requests
  <1>1. \A q \in Reqs \ {r} : req'[q] = req[q]
    BY DEF ReqMove, TypeInv, TypeOK
  <1>2. PICK s \in [0..MaxAttempts -> Nat] : Ledger(s, c) /\ guesses[c] = s[MaxAttempts]
    BY DEF Charged
  <1>3. ASSUME NEW n \in 0..m PROVE Past(n, c) \subseteq Past(n, c)'
    <2> SUFFICES ASSUME NEW q \in Past(n, c) PROVE q \in Past(n, c)'
      OBVIOUS
    <2>1. q \in Reqs /\ (At(q, "count") /\ req[q].code = c => req[q].read > n)
      BY DEF Past
    <2>2. attempts'[c] > n
      BY <1>0
    <2>3. At(q, "count")' /\ req'[q].code = c => req'[q].read > n
      BY <1>1, <2>1 DEF At
    <2>. QED
      BY <2>1, <2>2, <2>3 DEF Past
  <1>4. r \notin Past(m, c) /\ r \in Past(m, c)'
    <2>1. m + 1 > m /\ ~(m > m)
      OBVIOUS
    <2>. QED
      BY <1>0, <1>a, <2>1 DEF Past, At
  <1>5. Spent(h, c) \in 0..K /\ Spent(h, c)' \in 0..K /\ Spent(h, c) + 1 <= Spent(h, c)'
    <2>1. m \in 0..m
      OBVIOUS
    <2>2. Past(m, c) \subseteq Past(m, c)' /\ Past(m, c) # Past(m, c)'
      BY <1>3, <1>4, <2>1
    <2>3. Past(m, c)' \subseteq Reqs
      BY DEF Past
    <2>4. Spent(h, c) = Cardinality(Past(m, c)) /\ Spent(h, c)' = Cardinality(Past(m, c)')
      BY <1>b DEF Spent
    <2>. QED
      BY <2>2, <2>3, <2>4, Counts
  <1>6. ASSUME NEW v \in 1..MaxAttempts, v > h
        PROVE  /\ Spent(v, c) \in 0..K /\ Spent(v, c)' \in 0..K /\ Spent(v, c) <= Spent(v, c)'
    <2>1. MaxAttempts - v \in 0..m
      BY <1>0, <1>b, <1>6
    <2>2. Past(MaxAttempts - v, c) \subseteq Past(MaxAttempts - v, c)' /\ Past(MaxAttempts - v, c)' \subseteq Reqs
      BY <1>3, <2>1 DEF Past
    <2>. QED
      BY <2>2, Counts DEF Spent
  <1>7. \A v \in 1..h - 1 : Spent(v, c) <= Spent(h, c)
    <2> SUFFICES ASSUME NEW v \in 1..h - 1 PROVE Spent(v, c) <= Spent(h, c)
      OBVIOUS
    <2>1. req \in [Reqs -> Requests] /\ attempts[c] \in Nat
      BY DEF TypeInv, TypeOK
    <2>2. MaxAttempts - v \in Nat /\ MaxAttempts - h \in Nat /\ MaxAttempts - v > MaxAttempts - h
      BY <1>0, <1>b
    <2>3. \A q \in Reqs : req[q].read \in Nat
      BY <2>1 DEF Requests
    <2>4. Past(MaxAttempts - v, c) \subseteq Past(MaxAttempts - h, c)
      BY <2>1, <2>2, <2>3 DEF Past
    <2>5. Past(MaxAttempts - h, c) \subseteq Reqs
      BY DEF Past
    <2>. QED
      BY <2>4, <2>5, Counts DEF Spent
  <1>8. s[h - 1] < Paths[<<h - 1, Spent(h, c)>>]
    <2>1. h - 1 \in 0..MaxAttempts
      BY <1>0
    <2>. QED
      BY <1>2, <1>5, <1>7, <2>1, LedgerBound
  <1>c. PICK t : t = [v \in 0..MaxAttempts |-> IF v < h THEN 0 ELSE s[v] + 1]
    OBVIOUS
  <1>9. t \in [0..MaxAttempts -> Nat] /\ t[0] = 0 /\ t[MaxAttempts] = guesses'[c]
    BY <1>0, <1>2, <1>c
  <1>10. ASSUME NEW v \in 1..MaxAttempts PROVE t[v] <= t[v - 1] + Ways(v, Spent(v, c))'
    <2>0. v \in 0..MaxAttempts /\ v - 1 \in 0..MaxAttempts /\ v \in Nat /\ h \in Nat
      BY <1>0
    <2>1. s[v] <= s[v - 1] + Ways(v, Spent(v, c)) /\ s[v] \in Nat /\ s[v - 1] \in Nat
      BY <1>2, <2>0 DEF Ledger
    <2>2. CASE v < h
      <3>1. t[v] = 0 /\ t[v - 1] = 0
        BY <1>c, <2>0, <2>2
      <3>2. Spent(v, c)' \in 0..K
        BY Counts DEF Spent, Past
      <3>3. Ways(v, Spent(v, c)') \in Nat
        BY <3>2, WaysAdd
      <3>4. t[v] <= t[v - 1] + Ways(v, Spent(v, c)')
        BY <3>1, <3>3
      <3>. QED
        BY <3>4 DEF Ways
    <2>3. CASE v = h
      <3>1. t[v] = s[v] + 1 /\ t[v - 1] = 0
        BY <1>c, <2>0, <2>3
      <3>2. Spent(v, c) < K /\ Spent(v, c) + 1 \in 0..K
        BY <1>5, <2>3, KIsANumber
      <3>3. Ways(v, Spent(v, c) + 1) = Paths[<<v - 1, Spent(v, c)>>] + Ways(v, Spent(v, c))
        BY <1>5, <2>3, <3>2, WaysNext
      <3>4. Ways(v, Spent(v, c) + 1) <= Ways(v, Spent(v, c)')
        BY <1>5, <2>3, <3>2, WaysRise
      <3>5. Ways(v, Spent(v, c)) \in Nat /\ Ways(v, Spent(v, c) + 1) \in Nat /\ Ways(v, Spent(v, c)') \in Nat
        BY <1>5, <2>3, <3>2, WaysAdd
      <3>6. s[v - 1] < Paths[<<v - 1, Spent(v, c)>>] /\ Paths[<<v - 1, Spent(v, c)>>] \in Nat
        BY <1>5, <1>8, <2>0, <2>3, PathsFacts
      <3>7. t[v] <= t[v - 1] + Ways(v, Spent(v, c)')
        <4>1. ASSUME NEW a \in Nat, NEW b \in Nat, NEW p \in Nat, NEW x \in Nat, NEW y \in Nat, NEW z \in Nat,
                     b <= a + x, a < p, y = p + x, y <= z
              PROVE  b + 1 <= z
          BY <4>1
        <4>2. s[v] + 1 <= Ways(v, Spent(v, c)')
          BY <2>1, <3>3, <3>4, <3>5, <3>6, <4>1
        <4>. QED
          BY <3>1, <3>5, <4>2
      <3>. QED
        BY <3>7 DEF Ways
    <2>4. CASE v > h
      <3>1. t[v] = s[v] + 1 /\ t[v - 1] = s[v - 1] + 1
        BY <1>c, <2>0, <2>4
      <3>2. Ways(v, Spent(v, c)) <= Ways(v, Spent(v, c)')
        BY <1>6, <2>4, WaysRise
      <3>3. Ways(v, Spent(v, c)) \in Nat /\ Ways(v, Spent(v, c)') \in Nat
        BY <1>6, <2>4, WaysAdd
      <3>4. t[v] <= t[v - 1] + Ways(v, Spent(v, c)')
        BY <2>1, <3>1, <3>2, <3>3
      <3>. QED
        BY <3>4 DEF Ways
    <2>. QED
      BY <2>0, <2>2, <2>3, <2>4
  <1>11. Ledger(t, c)'
    BY <1>9, <1>10 DEF Ledger
  <1>. QED
    BY <1>9, <1>11 DEF Charged

(* Every step keeps the ledger.                                               *)
LEMMA LedgerStep == TypeInv /\ LedgerInv /\ [Next]_vars => LedgerInv'
  <1> SUFFICES ASSUME TypeInv, LedgerInv, [Next]_vars, NEW c \in Codes PROVE Charged(c)'
    BY DEF LedgerInv
  <1>0. Charged(c)
    BY DEF LedgerInv
  <1>1. ASSUME NEW r \in Reqs, Handle(r) PROVE Charged(c)'
    <2>0. ReqMove(r) /\ req \in [Reqs -> Requests]
      BY <1>1, ReqMoves DEF TypeInv, TypeOK
    <2>1. ASSUME req'[r].pc # "count" \/ (\E d \in Codes : req'[r].code = d /\ req'[r].read = attempts[d]),
                 attempts' = attempts, guesses' = guesses
          PROVE  Charged(c)'
      <3>1. req'[r].pc # "count" \/ req'[r].code # c \/ req'[r].read = attempts[c]
        BY <2>1
      <3>2. \A n \in 0..MaxAttempts - 1 : Past(n, c) \subseteq Past(n, c)'
        BY <2>0, <2>1, <3>1, PastKeeps
      <3>. QED
        BY <1>0, <2>1, <3>2, LedgerKeeps
    <2>2. CASE IssueDelete(r) \/ IssueStamp(r)
      <3>1. req'[r].pc \in {"delete", "commit"}
        BY <2>0, <2>2 DEF IssueDelete, Start, IssueStamp, Requests
      <3>. QED
        BY <2>1, <2>2, <3>1 DEF IssueDelete, IssueStamp, history
    <2>3. CASE IssueCommit(r) \/ VerifyBurn(r) \/ VerifySpend(r) \/ Abort(r)
      <3>1. req'[r].pc = "idle"
        BY <2>3, FinishMoves DEF IssueCommit, VerifyBurn, VerifySpend, Abort, Idle
      <3>. QED
        BY <2>1, <2>3, <3>1 DEF IssueCommit, VerifyBurn, VerifySpend, Abort, history
    <2>4. ASSUME NEW d \in Codes, NEW right \in BOOLEAN, VerifySelect(r, d, right) PROVE Charged(c)'
      <3>1. req'[r].code = d /\ req'[r].read = attempts[d]
        BY <2>0, <2>4 DEF VerifySelect, Start
      <3>. QED
        BY <2>1, <2>4, <3>1 DEF VerifySelect
    <2>5. CASE VerifyCount(r)
      <3> DEFINE d == req[r].code
                 m == req[r].read
      <3>0. /\ d \in Codes /\ m \in 0..MaxAttempts + 1 /\ At(r, "count")
            /\ attempts \in [Codes -> 0..MaxAttempts + 1] /\ guesses \in [Codes -> Nat]
        BY <2>5 DEF VerifyCount, At, TypeInv, TypeOK, ReqOK, WellFormed, Verifying, Requests
      <3>1. req'[r].pc # "count"
        BY <2>5, FinishMoves, GoMoves DEF VerifyCount, Idle
      <3>2. CASE d \notin stored
        <4>1. attempts' = attempts /\ guesses' = guesses
          BY <2>5, <3>2 DEF VerifyCount
        <4>. QED
          BY <2>1, <3>1, <4>1
      <3>3. CASE d \in stored /\ Counted(m) > MaxAttempts
        <4>1. attempts' = [attempts EXCEPT ![d] = Counted(m)] /\ guesses' = guesses
          BY <2>5, <3>3 DEF VerifyCount
        <4>2. CASE c # d
          <5>1. attempts'[c] = attempts[c]
            BY <3>0, <4>1, <4>2
          <5>. QED
            BY <1>0, <2>0, <3>1, <4>1, <5>1, PastKeeps, LedgerKeeps
        <4>3. CASE c = d
          <5>1. attempts'[c] > MaxAttempts /\ attempts'[c] \in Nat
            BY <3>0, <3>3, <4>1, <4>3 DEF Counted
          <5>2. \A q \in Reqs \ {r} : req'[q] = req[q]
            BY <2>0 DEF ReqMove
          <5>3. \A n \in 0..MaxAttempts - 1 : attempts'[c] > n
            BY <5>1
          <5>4. \A n \in 0..MaxAttempts - 1 : Past(n, c) \subseteq Past(n, c)'
            BY <3>1, <5>2, <5>3 DEF Past, At
          <5>. QED
            BY <1>0, <4>1, <5>4, LedgerKeeps
        <4>. QED
          BY <4>2, <4>3
      <3>4. CASE d \in stored /\ ~(Counted(m) > MaxAttempts)
        <4>1. m < MaxAttempts /\ Counted(m) = m + 1
          BY <3>0, <3>4 DEF Counted
        <4>2. attempts' = [attempts EXCEPT ![d] = m + 1] /\ guesses' = [guesses EXCEPT ![d] = @ + 1]
          BY <2>5, <3>4, <4>1 DEF VerifyCount
        <4>3. CASE c # d
          <5>1. attempts'[c] = attempts[c] /\ guesses'[c] = guesses[c]
            BY <3>0, <4>2, <4>3
          <5>. QED
            BY <1>0, <2>0, <3>1, <5>1, PastKeeps, LedgerKeeps
        <4>4. CASE c = d
          BY <1>0, <2>0, <3>0, <3>1, <4>1, <4>2, <4>4, LedgerCounts
        <4>. QED
          BY <4>3, <4>4
      <3>. QED
        BY <3>2, <3>3, <3>4
    <2>. QED
      BY <1>1, <2>2, <2>3, <2>4, <2>5 DEF Handle
  <1>2. CASE (\E d \in Codes : Lapse(d)) \/ UNCHANGED vars
    <2>1. attempts' = attempts /\ req' = req /\ guesses' = guesses
      BY <1>2 DEF Lapse, vars, history
    <2>2. \A n \in 0..MaxAttempts - 1 : Past(n, c) \subseteq Past(n, c)'
      BY <2>1 DEF Past, At
    <2>. QED
      BY <1>0, <2>1, <2>2, LedgerKeeps
  <1>. QED
    BY <1>1, <1>2 DEF Next

(* The value of a code is compared less often than there are lattice paths,   *)
(* for any number of requests and any limit.                                  *)
THEOREM GuessesAreBoundedHolds == Spec => []GuessesAreBounded
  <1>1. Init => LedgerInv
    <2> SUFFICES ASSUME Init, NEW c \in Codes PROVE Charged(c)
      BY DEF LedgerInv
    <2> DEFINE s == [v \in 0..MaxAttempts |-> 0]
    <2>1. s \in [0..MaxAttempts -> Nat] /\ s[0] = 0 /\ guesses[c] = s[MaxAttempts]
      BY DEF Init
    <2>2. ASSUME NEW v \in 1..MaxAttempts PROVE s[v] <= s[v - 1] + Ways(v, Spent(v, c))
      <3>1. s[v] = 0 /\ s[v - 1] = 0
        OBVIOUS
      <3>2. Spent(v, c) \in 0..K
        BY Counts DEF Spent, Past
      <3>3. Ways(v, Spent(v, c)) \in Nat
        BY <3>2, WaysAdd
      <3> HIDE DEF s
      <3>. QED
        BY <3>1, <3>3
    <2> HIDE DEF s
    <2>. QED
      BY <2>1, <2>2 DEF Charged, Ledger
  <1>2. TypeInv /\ LedgerInv => GuessesAreBounded
    <2> SUFFICES ASSUME TypeInv, LedgerInv, NEW c \in Codes PROVE guesses[c] < Paths[<<MaxAttempts, K>>]
      BY DEF GuessesAreBounded, K
    <2>1. PICK s \in [0..MaxAttempts -> Nat] : Ledger(s, c) /\ guesses[c] = s[MaxAttempts]
      BY DEF LedgerInv, Charged
    <2>2. \A v \in 1..MaxAttempts : Spent(v, c) <= K
      <3>1. \A v \in 1..MaxAttempts : Spent(v, c) \in 0..K
        BY Counts DEF Spent, Past
      <3>. QED
        BY <3>1, KIsANumber
    <2>3. MaxAttempts \in 0..MaxAttempts /\ K \in 0..K
      BY KIsANumber
    <2>. QED
      BY <2>1, <2>2, <2>3, LedgerBound
  <1>. QED
    BY <1>1, <1>2, LedgerStep, TypeInvariance, PTL DEF Spec
=============================================================================
