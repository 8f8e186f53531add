--------------------------------- MODULE Otp ---------------------------------
(* One-time codes of one identifier (a purpose and an e-mail address): the    *)
(* user_verification rows, issue_otp that replaces them and verify_otp that   *)
(* counts the attempts and spends them.  Codes are numbered by created_at,    *)
(* the column verify_otp orders by.  Every request runs in a transaction of   *)
(* its own; the counter is read in one statement and written in another.      *)
EXTENDS Naturals, FiniteSets

CONSTANTS
    Reqs,         \* requests the server can have in flight at once
    MaxAttempts,  \* _MAX_ATTEMPTS = 5
    MaxCodes      \* bound: codes issued in one behaviour

ASSUME AttemptsAssumption == MaxAttempts \in Nat \ {0} /\ MaxCodes \in Nat
ASSUME FinitenessAssumption == IsFiniteSet(Reqs)

VARIABLES
    last,        \* the latest created_at, as a number of codes
    stored,      \* codes whose row is in the table
    attempts,    \* attempts column of a code
    lapsed,      \* codes whose expires_at has passed
    req,         \* what each request is doing
    guesses,     \* history: times the value of a code was compared
    wins,        \* history: times a code was answered as verified
    locked,      \* history: codes deleted for too many failed attempts
    overlapped,  \* history: two issues have been in flight at one time
    contested    \* history: codes two requests have been verifying at one time

history == <<guesses, wins, locked, overlapped, contested>>
vars == <<last, stored, attempts, lapsed, req, history>>

Codes == 1..MaxCodes
Steps == {"idle", "delete", "commit", "count", "burn", "spend"}
Requests == [pc : Steps, code : Codes \cup {0}, seen : SUBSET Codes,
             read : 0..MaxAttempts + 1, right : BOOLEAN]
Idle == [pc |-> "idle", code |-> 0, seen |-> {}, read |-> 0, right |-> FALSE]

At(r, p) == req[r].pc = p
Start(r, task) == At(r, "idle") /\ req' = [req EXCEPT ![r] = task]
Go(r, p) == req' = [req EXCEPT ![r].pc = p]
Finish(r) == req' = [req EXCEPT ![r] = Idle]

(* No transaction has deleted the row of c without having committed yet: an   *)
(* update or a delete of a row waits for that.                                *)
Free(c) == \A q \in Reqs : At(q, "commit") => c \notin req[q].seen

Init ==
    /\ last = 0 /\ stored = {} /\ lapsed = {} /\ locked = {} /\ contested = {}
    /\ attempts = [c \in Codes |-> 0]
    /\ req = [r \in Reqs |-> Idle]
    /\ guesses = [c \in Codes |-> 0] /\ wins = [c \in Codes |-> 0]
    /\ overlapped = FALSE

------------------------------------------------------------------------------
(* issue_otp. *)

(* The delete takes its snapshot: rows committed later are not in it.        *)
IssueDelete(r) ==
    /\ Start(r, [pc |-> "delete", code |-> 0, seen |-> stored, read |-> 0, right |-> FALSE])
    /\ overlapped' = (overlapped \/ \E q \in Reqs : At(q, "delete") \/ At(q, "commit"))
    /\ UNCHANGED <<last, stored, attempts, lapsed, guesses, wins, locked, contested>>

(* Mutant: the new row gets no created_at.                                   *)
IssueUnstamped(r) ==
    /\ At(r, "delete")
    /\ \A c \in req[r].seen \cap stored : Free(c)
    /\ Go(r, "commit")
    /\ UNCHANGED <<last, stored, attempts, lapsed, history>>

(* When it returns, the new row gets its created_at.                         *)
IssueStamp(r) ==
    /\ At(r, "delete")
    /\ last < MaxCodes
    /\ \A c \in req[r].seen \cap stored : Free(c)
    /\ last' = last + 1
    /\ req' = [req EXCEPT ![r].pc = "commit", ![r].code = last + 1]
    /\ UNCHANGED <<stored, attempts, lapsed, history>>

(* Mutant: leaves the codes before it in place.                              *)
IssueBeside(r) ==
    /\ At(r, "commit")
    /\ stored' = stored \cup {req[r].code}
    /\ Finish(r)
    /\ UNCHANGED <<last, attempts, lapsed, history>>

IssueCommit(r) ==
    /\ At(r, "commit")
    /\ stored' = (stored \ req[r].seen) \cup {req[r].code}
    /\ Finish(r)
    /\ UNCHANGED <<last, attempts, lapsed, history>>

------------------------------------------------------------------------------
(* verify_otp. *)

(* The newest row that has not expired.  Without one the answer is "OTP       *)
(* expired or not found".                                                     *)
Newest(c) == c \in stored \ lapsed /\ \A d \in stored \ lapsed : d <= c

VerifySelect(r, c, right) ==
    /\ Newest(c)
    /\ Start(r, [pc |-> "count", code |-> c, seen |-> {}, read |-> attempts[c], right |-> right])
    /\ contested' = IF \E q \in Reqs : req[q].pc \in {"count", "burn", "spend"} /\ req[q].code = c
                    THEN contested \cup {c} ELSE contested
    /\ UNCHANGED <<last, stored, attempts, lapsed, guesses, wins, locked, overlapped>>

(* The counter stops one past the limit, where all values mean the same.     *)
Counted(n) == IF n > MaxAttempts THEN n ELSE n + 1

(* Mutant: the attempt is not committed.                                     *)
CountUnsaved(r) ==
    /\ At(r, "count") /\ Free(req[r].code)
    /\ LET c == req[r].code IN
         IF c \notin stored THEN Finish(r) /\ UNCHANGED guesses
         ELSE IF req[r].read >= MaxAttempts THEN Go(r, "burn") /\ UNCHANGED guesses
         ELSE /\ guesses' = [guesses EXCEPT ![c] = @ + 1]
              /\ IF req[r].right THEN Go(r, "spend") ELSE Finish(r)
    /\ UNCHANGED <<last, stored, attempts, lapsed, wins, locked, overlapped, contested>>

(* Mutant: locks a code at the last attempt it allows.                       *)
CountStrict(r) ==
    /\ At(r, "count") /\ Free(req[r].code)
    /\ LET c == req[r].code
           n == Counted(req[r].read)
       IN IF c \in stored
          THEN /\ attempts' = [attempts EXCEPT ![c] = n]
               /\ IF n >= MaxAttempts
                  THEN Go(r, "burn") /\ UNCHANGED guesses
                  ELSE /\ guesses' = [guesses EXCEPT ![c] = @ + 1]
                       /\ IF req[r].right THEN Go(r, "spend") ELSE Finish(r)
          ELSE Finish(r) /\ UNCHANGED <<attempts, guesses>>
    /\ UNCHANGED <<last, stored, lapsed, wins, locked, overlapped, contested>>

(* The attempt is committed as one more than was read, whatever others have   *)
(* written since; an update of a row that has gone raises StaleDataError.     *)
(* Only then is the limit tested, and the value compared.                     *)
VerifyCount(r) ==
    /\ At(r, "count") /\ Free(req[r].code)
    /\ LET c == req[r].code
           n == Counted(req[r].read)
       IN IF c \in stored
          THEN /\ attempts' = [attempts EXCEPT ![c] = n]
               /\ IF n > MaxAttempts
                  THEN Go(r, "burn") /\ UNCHANGED guesses
                  ELSE /\ guesses' = [guesses EXCEPT ![c] = @ + 1]
                       /\ IF req[r].right THEN Go(r, "spend") ELSE Finish(r)
          ELSE Finish(r) /\ UNCHANGED <<attempts, guesses>>
    /\ UNCHANGED <<last, stored, lapsed, wins, locked, overlapped, contested>>

(* "Too many failed attempts"                                                *)
VerifyBurn(r) ==
    /\ At(r, "burn") /\ Free(req[r].code)
    /\ stored' = stored \ {req[r].code}
    /\ locked' = locked \cup {req[r].code}
    /\ Finish(r)
    /\ UNCHANGED <<last, attempts, lapsed, guesses, wins, overlapped, contested>>

(* Mutant: the code is left in the table when it has been used.              *)
SpendNothing(r) ==
    /\ At(r, "spend") /\ Free(req[r].code)
    /\ wins' = [wins EXCEPT ![req[r].code] = @ + 1]
    /\ Finish(r)
    /\ UNCHANGED <<last, stored, attempts, lapsed, guesses, locked, overlapped, contested>>

(* A delete by id that matches no row is no error.                           *)
VerifySpend(r) ==
    /\ At(r, "spend") /\ Free(req[r].code)
    /\ stored' = stored \ {req[r].code}
    /\ wins' = [wins EXCEPT ![req[r].code] = @ + 1]
    /\ Finish(r)
    /\ UNCHANGED <<last, attempts, lapsed, guesses, locked, overlapped, contested>>

------------------------------------------------------------------------------
(* otp_expire_sec have passed.                                               *)
Lapse(c) ==
    /\ c \in stored \ lapsed
    /\ lapsed' = lapsed \cup {c}
    /\ UNCHANGED <<last, stored, attempts, req, history>>

(* An error, or a restart, ends a request between two of its steps.          *)
Abort(r) ==
    /\ ~At(r, "idle")
    /\ Finish(r)
    /\ UNCHANGED <<last, stored, attempts, lapsed, history>>

Handle(r) ==
    \/ IssueDelete(r) \/ IssueStamp(r) \/ IssueCommit(r)
    \/ (\E c \in Codes, right \in BOOLEAN : VerifySelect(r, c, right))
    \/ VerifyCount(r) \/ VerifyBurn(r) \/ VerifySpend(r) \/ Abort(r)

Next == (\E c \in Codes : Lapse(c)) \/ \E r \in Reqs : Handle(r)

Spec == Init /\ [][Next]_vars

------------------------------------------------------------------------------
TypeOK ==
    /\ last \in 0..MaxCodes
    /\ stored \in SUBSET Codes /\ lapsed \in SUBSET Codes
    /\ locked \in SUBSET Codes /\ contested \in SUBSET Codes
    /\ attempts \in [Codes -> 0..MaxAttempts + 1]
    /\ req \in [Reqs -> Requests]
    /\ guesses \in [Codes -> Nat] /\ wins \in [Codes -> Nat]
    /\ overlapped \in BOOLEAN

(* A code is verified once, unless two requests were verifying it together.  *)
CodeIsUsedOnce == \A c \in Codes \ contested : wins[c] <= 1

(* While no two issues overlap, an identifier has one code, so that the use   *)
(* of a code leaves no other one behind.                                      *)
OneCodeAtATime == ~overlapped => Cardinality(stored) <= 1

(* Attempts lost to concurrent writes never lock a code too early.           *)
NoEarlyLockout == \A c \in locked : guesses[c] >= MaxAttempts

(* How often a value can be compared although attempts get lost: every        *)
(* request in flight can put the counter back to what it once read, and so    *)
(* on within what is left.  With one request it is MaxAttempts.               *)
Paths[x \in (0..MaxAttempts) \X (0..Cardinality(Reqs))] ==
    IF x[1] = 0 \/ x[2] = 0 THEN 1 ELSE Paths[<<x[1] - 1, x[2]>>] + Paths[<<x[1], x[2] - 1>>]
GuessesAreBounded == \A c \in Codes : guesses[c] < Paths[<<MaxAttempts, Cardinality(Reqs)>>]
=============================================================================
