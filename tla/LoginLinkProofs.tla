--------------------------- MODULE LoginLinkProofs ---------------------------
(* Proofs about LoginLink for every number of links, challenges and requests. *)
EXTENDS LoginLink, FiniteSetTheorems, TLAPS

USE NoneAssumption, FinitenessAssumption

(* The steps that answer a challenge with a code, and those that need one.   *)
Coded == {"answer", "delete", "login"}
Bound == {"insert", "peek", "drop"} \cup Coded

(* A request that is not idle works on a link or answers with a code; while   *)
(* it inserts a link or consumes a challenge it has a challenge; a decision   *)
(* has a verdict.                                                             *)
WellFormed(x) ==
    /\ x.pc \notin Coded \cup {"idle"} => x.link \in Links
    /\ x.pc \in Coded => x.link = None
    /\ x.pc \in Bound => x.handle \in Handles
    /\ x.pc = "decide" => x.wants \in {"approved", "rejected"}
ReqOK == \A r \in Reqs : WellFormed(req[r])
TypeInv == TypeOK /\ ReqOK

(* What a step of request r does to req.                                      *)
ReqMove(r) ==
    /\ req' = [req EXCEPT ![r] = req'[r]]
    /\ req'[r] \in Requests
    /\ WellFormed(req'[r])

(* A request that ends becomes idle.                                         *)
LEMMA FinishMoves ==
    ASSUME TypeInv, NEW r \in Reqs, Finish(r)
    PROVE  ReqMove(r) /\ req'[r] = Idle
  BY DEF Finish, ReqMove, TypeInv, TypeOK, Idle, Requests, Steps, WellFormed, Coded, Bound

(* A request that goes on keeps its link and its handle.                     *)
LEMMA GoMoves ==
    ASSUME TypeInv, NEW r \in Reqs, NEW p \in Steps, Go(r, p),
           req[r].pc # "idle", p \notin {"idle", "decide", "insert"},
           p \in Coded <=> req[r].pc \in Coded, p \in Bound => req[r].handle # None
    PROVE  /\ ReqMove(r)
           /\ req'[r].pc = p /\ req'[r].link = req[r].link /\ req'[r].handle = req[r].handle
  <1>1. req \in [Reqs -> Requests] /\ WellFormed(req[r])
    BY DEF TypeInv, TypeOK, ReqOK
  <1>2. req' = [req EXCEPT ![r] = [req[r] EXCEPT !.pc = p]]
    BY DEF Go
  <1>. QED
    BY <1>1, <1>2 DEF ReqMove, Requests, WellFormed, Coded, Bound

(* A request that starts was idle.                                           *)
LEMMA StartMoves ==
    ASSUME TypeInv, NEW r \in Reqs, NEW p \in Steps \ {"idle"}, NEW l \in Links \cup {None}, NEW h \in Handles \cup {None},
           NEW w \in {"approved", "rejected", "trust", "nothing"}, Start(r, p, l, h, w),
           p \in Coded <=> l = None, p \in Bound => h # None, p = "decide" => w \in {"approved", "rejected"}
    PROVE  /\ ReqMove(r)
           /\ req'[r].pc = p /\ req'[r].link = l /\ req'[r].handle = h /\ req[r].pc = "idle"
  BY DEF Start, At, TypeInv, TypeOK, ReqMove, Requests, WellFormed, Coded, Bound

(* Every step of a request moves only that request.                          *)
LEMMA ReqMoves ==
    ASSUME TypeInv, NEW r \in Reqs, Handle(r)
    PROVE  ReqMove(r)
  <1>0. req \in [Reqs -> Requests] /\ WellFormed(req[r]) /\ via \in [Links -> Handles \cup {None}]
    BY DEF TypeInv, TypeOK, ReqOK
  <1> USE DEF Coded, Bound
  <1>1. CASE InsertLink(r)
    BY <1>1, FinishMoves, GoMoves DEF InsertLink, At, Steps
  <1>2. CASE StashTrust(r) \/ WriteDecision(r) \/ WriteExpired(r) \/ IssueSession(r) \/ CodeLogin(r) \/ Abort(r)
    BY <1>2, FinishMoves DEF StashTrust, WriteDecision, WriteExpired, IssueSession, CodeLogin, Abort
  <1>3. CASE Claim(r)
    BY <1>3, FinishMoves, GoMoves DEF Claim, At, Steps
  <1>4. CASE Reread(r)
    BY <1>0, <1>4, FinishMoves, GoMoves DEF Reread, At, Steps
  <1>5. CASE ConsumePeek(r)
    BY <1>0, <1>5, FinishMoves, GoMoves DEF ConsumePeek, At, Steps, WellFormed
  <1>6. CASE ConsumeDrop(r) \/ DropTrust(r)
    BY <1>6, GoMoves DEF ConsumeDrop, DropTrust, At, Steps
  <1>7. CASE ReadOwner(r) \/ TrustDevice(r)
    BY <1>7, FinishMoves, GoMoves DEF ReadOwner, TrustDevice, At, Steps
  <1>8. CASE ReadTrust(r)
    BY <1>8, GoMoves DEF ReadTrust, At, Steps
  <1>9. ASSUME NEW l \in Links, PollLapsed(r, l) \/ PollApproved(r, l) PROVE ReqMove(r)
    BY <1>0, <1>9, StartMoves DEF PollLapsed, PollApproved, Steps
  <1>10. ASSUME NEW l \in Links, NEW v \in {"approved", "rejected"}, RespondRead(r, l, v) PROVE ReqMove(r)
    BY <1>10, StartMoves DEF RespondRead, Steps
  <1>11. ASSUME NEW l \in Links, NEW h \in Handles, NEW w \in {"trust", "nothing"}, CreateTfa(r, l, h, w)
         PROVE ReqMove(r)
    BY <1>11, StartMoves DEF CreateTfa, Steps
  <1>12. ASSUME NEW h \in Handles, CodePeek(r, h) PROVE ReqMove(r)
    BY <1>12, StartMoves DEF CodePeek, Steps
  <1>13. CASE CodeLook(r) \/ CodeDelete(r)
    BY <1>0, <1>13, GoMoves DEF CodeLook, CodeDelete, At, Steps, WellFormed
  <1>. QED
    BY <1>1, <1>2, <1>3, <1>4, <1>5, <1>6, <1>7, <1>8, <1>9, <1>10, <1>11, <1>12, <1>13
       DEF Handle, Finalize

(* The number of requests that answer a challenge is a number.               *)
LEMMA AnswererTypes ==
    ASSUME NEW h
    PROVE  IsFiniteSet(Answerers(h)) /\ Cardinality(Answerers(h)) \in Nat
  <1>1. IsFiniteSet(Answerers(h))
    BY FS_Subset DEF Answerers
  <1>. QED
    BY <1>1, FS_CardinalityType

(* The rest of the state, its history apart, changes as the types say.       *)
LEMMA TypeStep == TypeInv /\ [Next]_vars => TypeInv'
  <1> SUFFICES ASSUME TypeInv, [Next]_vars PROVE TypeInv'
    OBVIOUS
  <1> USE DEF TypeInv, TypeOK, rowVars, cacheVars, counts, overlaps, Coded, Bound
  <1>1. ASSUME NEW r \in Reqs, Handle(r) PROVE TypeInv'
    <2>1. req' \in [Reqs -> Requests] /\ ReqOK'
      BY <1>1, ReqMoves DEF ReqMove, ReqOK
    <2>2. req[r] \in Requests /\ WellFormed(req[r])
      BY DEF ReqOK
    <2>3. CASE InsertLink(r)
      BY <2>1, <2>2, <2>3 DEF InsertLink, At, WellFormed, Statuses
    <2>4. CASE StashTrust(r)
      BY <2>1, <2>2, <2>4 DEF StashTrust, At, WellFormed
    <2>5. CASE WriteDecision(r)
      BY <2>1, <2>2, <2>5 DEF WriteDecision, At, WellFormed, Statuses, Plus1
    <2>6. CASE WriteExpired(r)
      BY <2>1, <2>2, <2>6 DEF WriteExpired, Statuses
    <2>7. CASE Claim(r)
      BY <2>1, <2>2, <2>7 DEF Claim, Statuses, Plus1
    <2>8. CASE IssueSession(r)
      BY <2>1, <2>2, <2>8 DEF IssueSession, Plus1, Requests
    <2>9. CASE Reread(r) \/ ReadOwner(r) \/ ReadTrust(r) \/ Abort(r)
      BY <2>1, <2>9 DEF Reread, ReadOwner, ReadTrust, Abort
    <2>10. CASE ConsumePeek(r)
      BY <2>1, <2>2, <2>10, AnswererTypes DEF ConsumePeek, At, WellFormed, Joins
    <2>11. CASE TrustDevice(r) \/ DropTrust(r)
      BY <2>1, <2>11 DEF TrustDevice, DropTrust
    <2>12. ASSUME NEW l \in Links, PollLapsed(r, l) \/ PollApproved(r, l) PROVE TypeInv'
      BY <2>1, <2>12 DEF PollLapsed, PollApproved
    <2>13. ASSUME NEW l \in Links, NEW v, RespondRead(r, l, v) PROVE TypeInv'
      BY <2>1, <2>13 DEF RespondRead
    <2>14. ASSUME NEW l, NEW h, NEW w, CreateTfa(r, l, h, w) PROVE TypeInv'
      BY <2>1, <2>14 DEF CreateTfa
    <2>15. ASSUME NEW h \in Handles, CodePeek(r, h) PROVE TypeInv'
      BY <2>1, <2>15, AnswererTypes DEF CodePeek, Joins
    <2>16. CASE CodeLook(r) \/ CodeDelete(r) \/ ConsumeDrop(r)
      BY <2>1, <2>2, <2>16 DEF CodeLook, CodeDelete, ConsumeDrop, At, WellFormed
    <2>17. CASE CodeLogin(r)
      BY <2>1, <2>2, <2>17 DEF CodeLogin, Plus1, At, WellFormed
    <2>. QED
      BY <1>1, <2>3, <2>4, <2>5, <2>6, <2>7, <2>8, <2>9, <2>10, <2>11, <2>12, <2>13, <2>14, <2>15, <2>16, <2>17
         DEF Handle, Finalize
  <1>2. ASSUME NEW l \in Links, CreateSignin(l) \/ Lapse(l) \/ ForgetTrust(l) PROVE TypeInv'
    BY <1>2 DEF CreateSignin, Lapse, ForgetTrust, Statuses, ReqOK
  <1>3. ASSUME NEW h \in Handles, OpenChallenge(h) \/ EndChallenge(h) PROVE TypeInv'
    BY <1>3 DEF OpenChallenge, EndChallenge, ReqOK
  <1>4. CASE DeleteUser
    BY <1>4 DEF DeleteUser, ReqOK
  <1>5. CASE UNCHANGED vars
    BY <1>5 DEF vars, ReqOK
  <1>. QED
    BY <1>1, <1>2, <1>3, <1>4, <1>5 DEF Next, Around

(* Types and well-formed requests are an invariant.                          *)
THEOREM TypeInvariance == Spec => []TypeInv
  <1>1. Init => TypeInv
    <2>1. Idle \in Requests /\ WellFormed(Idle)
      BY DEF Idle, Requests, Steps, WellFormed, Coded, Bound
    <2>2. Init => ReqOK
      BY <2>1 DEF Init, ReqOK
    <2>3. Init => TypeOK
      <3> SUFFICES ASSUME Init PROVE TypeOK
        OBVIOUS
      <3>1. req \in [Reqs -> Requests]
        BY <2>1 DEF Init
      <3>. QED
        BY <3>1 DEF Init, TypeOK
    <2>. QED
      BY <2>2, <2>3 DEF TypeInv
  <1>. QED
    BY <1>1, TypeStep, PTL DEF Spec

------------------------------------------------------------------------------
(* The polls that have claimed a link and not yet issued its session.        *)
Finalizing == {"reread", "peek", "drop", "owner", "ask", "grant", "forget", "issue"}
Finalizers(l) == {r \in Reqs : req[r].link = l /\ req[r].pc \in Finalizing}
InFlight(l) == Cardinality(Finalizers(l))

(* The number of finalizing polls changes by the request that steps.         *)
LEMMA InFlightMoves ==
    ASSUME TypeInv, NEW r \in Reqs, ReqMove(r), NEW l \in Links
    PROVE  /\ InFlight(l) \in Nat /\ InFlight(l)' \in Nat
           /\ r \in Finalizers(l) => InFlight(l) > 0
           /\ (r \in Finalizers(l) <=> r \in Finalizers(l)') => InFlight(l)' = InFlight(l)
           /\ r \in Finalizers(l) /\ r \notin Finalizers(l)' => InFlight(l)' = InFlight(l) - 1
           /\ r \notin Finalizers(l) /\ r \in Finalizers(l)' => InFlight(l)' = InFlight(l) + 1
  <1> DEFINE F == Finalizers(l)
             G == Finalizers(l)'
             m == Cardinality(F)
             n == Cardinality(G)
             k == Cardinality(F \ {r})
  <1>1. F \in SUBSET Reqs /\ G \in SUBSET Reqs /\ F \ {r} = G \ {r}
    BY DEF Finalizers, ReqMove, TypeInv, TypeOK
  <1>2. IsFiniteSet(F) /\ IsFiniteSet(G) /\ IsFiniteSet(F \ {r})
    BY <1>1, FS_Subset
  <1>3. InFlight(l) = m /\ InFlight(l)' = n
    BY DEF InFlight
  <1>4. m \in Nat /\ n \in Nat /\ k \in Nat
    BY <1>2, FS_CardinalityType
  <1>5. k = IF r \in F THEN m - 1 ELSE m
    BY <1>2, FS_RemoveElement
  <1>6. k = IF r \in G THEN n - 1 ELSE n
    BY <1>1, <1>2, FS_RemoveElement
  <1> HIDE DEF m, n, k
  <1>. QED
    BY <1>3, <1>4, <1>5, <1>6

(* Every login stands on a claim and every claim on an approval; a status of  *)
(* approved is an approval not yet claimed.                                   *)
Counted(l) ==
    /\ logins[l] + InFlight(l) <= claims[l]
    /\ claims[l] + (IF row[l] = "approved" THEN 1 ELSE 0) <= approvals[l]

(* Without overlaps a decision in flight is the only one there ever was.     *)
Undecided(l) == approvals[l] = 0 /\ rejections[l] = 0
Single(l) ==
    /\ row[l] \in {"none", "pending"} => Undecided(l)
    /\ l \notin overlapped =>
          /\ approvals[l] + rejections[l] <= 1
          /\ \A r \in Reqs : On(r, "decide", l) =>
                Undecided(l) /\ \A q \in Reqs : On(q, "decide", l) => q = r

(* A link is inserted once, and only worked on after that.                   *)
Fresh(l) ==
    /\ \A r \in Reqs : On(r, "insert", l) =>
          row[l] = "none" /\ \A q \in Reqs : On(q, "insert", l) => q = r
    /\ \A r \in Reqs : req[r].link = l /\ req[r].pc \notin {"idle", "insert"} => row[l] # "none"

LinkInv == \A l \in Links : Counted(l) /\ Single(l) /\ Fresh(l)

(* Most steps leave the row of l and its history alone, and start nothing    *)
(* that inserts, decides or finalizes l.                                      *)
Calm(r, l) ==
    /\ row'[l] = row[l] /\ approvals'[l] = approvals[l] /\ rejections'[l] = rejections[l]
    /\ claims'[l] = claims[l] /\ logins'[l] = logins[l] /\ (l \in overlapped' <=> l \in overlapped)
    /\ req'[r].link = l /\ req'[r].pc # "idle" =>
          /\ row[l] # "none" /\ req'[r].pc \notin {"insert", "decide"}
          /\ req'[r].pc \in Finalizing => r \in Finalizers(l)

(* The counters of a link are natural numbers.                               *)
LEMMA LinkTypes ==
    ASSUME TypeInv, NEW l \in Links
    PROVE  /\ approvals[l] \in Nat /\ rejections[l] \in Nat /\ claims[l] \in Nat /\ logins[l] \in Nat
           /\ row[l] \in Statuses \cup {"none", "gone"}
  BY DEF TypeInv, TypeOK

(* A calm step keeps the invariant of l.                                     *)
LEMMA CalmStep ==
    ASSUME TypeInv, LinkInv, NEW r \in Reqs, ReqMove(r), NEW l \in Links, Calm(r, l)
    PROVE  (Counted(l) /\ Single(l) /\ Fresh(l))'
  <1>1. \A q \in Reqs \ {r} : req'[q] = req[q]
    BY DEF ReqMove, TypeInv, TypeOK
  <1>2. InFlight(l) \in Nat /\ InFlight(l)' \in Nat /\ InFlight(l)' <= InFlight(l)
    <2>1. r \in Finalizers(l)' => r \in Finalizers(l)
      BY DEF Calm, Finalizers, Finalizing
    <2>. QED
      BY <2>1, InFlightMoves
  <1>3. Counted(l)'
    BY <1>2, LinkTypes DEF LinkInv, Counted, Calm
  <1>4. Single(l)'
    BY <1>1 DEF LinkInv, Single, Undecided, Calm, On, At
  <1>5. Fresh(l)'
    BY <1>1 DEF LinkInv, Fresh, Calm, On, At
  <1>. QED
    BY <1>3, <1>4, <1>5

(* The steps that neither insert, decide, claim nor issue are calm.          *)
LEMMA CalmSteps ==
    ASSUME TypeInv, LinkInv, NEW r \in Reqs, NEW l \in Links,
           \/ StashTrust(r) \/ Reread(r) \/ ConsumePeek(r) \/ ConsumeDrop(r) \/ ReadOwner(r)
           \/ ReadTrust(r) \/ TrustDevice(r) \/ DropTrust(r) \/ Abort(r)
           \/ CodeLook(r) \/ CodeDelete(r) \/ CodeLogin(r) \/ \E h \in Handles : CodePeek(r, h)
           \/ \E k \in Links : PollLapsed(r, k) \/ PollApproved(r, k)
    PROVE  Calm(r, l)
  <1>0. req \in [Reqs -> Requests] /\ req[r] \in Requests
    BY DEF TypeInv, TypeOK
  <1>1. req[r].link = l /\ req[r].pc \notin {"idle", "insert"} => row[l] # "none"
    BY DEF LinkInv, Fresh
  <1> USE <1>0, <1>1 DEF Calm, rowVars, cacheVars, counts, overlaps
  <1>2. CASE StashTrust(r) \/ Abort(r)
    BY <1>2 DEF StashTrust, Abort, Finish, Idle
  <1>3. ASSUME NEW p, Go(r, p), p \in Finalizing, req[r].pc \in Finalizing,
               row' = row, counts' = counts, overlapped' = overlapped
        PROVE  Calm(r, l)
    BY <1>3 DEF Go, Requests, Finalizing, Finalizers
  <1>4. ASSUME Finish(r), row' = row, counts' = counts, overlapped' = overlapped
        PROVE  Calm(r, l)
    BY <1>4 DEF Finish, Idle
  <1>5. CASE Reread(r) \/ ConsumePeek(r) \/ ConsumeDrop(r)
    BY <1>3, <1>4, <1>5 DEF Reread, ConsumePeek, ConsumeDrop, At, Finalizing
  <1>6. CASE ReadOwner(r) \/ ReadTrust(r) \/ TrustDevice(r) \/ DropTrust(r)
    BY <1>3, <1>4, <1>6 DEF ReadOwner, ReadTrust, TrustDevice, DropTrust, At, Finalizing
  <1>7. ASSUME NEW k \in Links, PollLapsed(r, k) \/ PollApproved(r, k) PROVE Calm(r, l)
    BY <1>7 DEF PollLapsed, PollApproved, Start, Finalizing
  <1>8. CASE CodeLook(r) \/ CodeDelete(r)
    <2>1. req'[r].link = None /\ None # l
      BY <1>8 DEF CodeLook, CodeDelete, At, Go, TypeInv, ReqOK, WellFormed, Coded, Requests
    <2>. QED
      BY <1>8, <2>1 DEF CodeLook, CodeDelete
  <1>9. CASE CodeLogin(r)
    BY <1>9 DEF CodeLogin, Finish, Idle
  <1>10. ASSUME NEW h \in Handles, CodePeek(r, h) PROVE Calm(r, l)
    <2>1. req'[r].link = None /\ None # l
      BY <1>10 DEF CodePeek, Start
    <2>. QED
      BY <1>10, <2>1 DEF CodePeek
  <1>. QED
    BY <1>2, <1>5, <1>6, <1>7, <1>8, <1>9, <1>10

(* The one insert of a link finds no row, and leaves a link undecided.       *)
LEMMA InsertLinkStep ==
    ASSUME TypeInv, LinkInv, NEW r \in Reqs, InsertLink(r), NEW l \in Links
    PROVE  (Counted(l) /\ Single(l) /\ Fresh(l))'
  <1>0. ReqMove(r) /\ req \in [Reqs -> Requests] /\ row \in [Links -> Statuses \cup {"none", "gone"}]
    BY ReqMoves DEF Handle, TypeInv, TypeOK
  <1>1. \A q \in Reqs \ {r} : req'[q] = req[q]
    BY <1>0 DEF ReqMove
  <1>2. req[r].pc = "insert" /\ req[r].link \in Links
    BY DEF InsertLink, At, TypeInv, ReqOK, WellFormed, Coded, Bound
  <1>3. req'[r] = Idle \/ (user /\ req'[r].pc = "stash" /\ req'[r].link = req[r].link)
    BY <1>0 DEF InsertLink, Go, Finish, Requests
  <1>4. /\ \A k \in Links : approvals'[k] = approvals[k] /\ rejections'[k] = rejections[k]
                            /\ claims'[k] = claims[k] /\ logins'[k] = logins[k]
        /\ overlapped' = overlapped
    BY DEF InsertLink, counts, overlaps
  <1>5. \A k \in Links : row'[k] = row[k] \/ (user /\ k = req[r].link /\ row'[k] = "pending")
    BY <1>0 DEF InsertLink, rowVars
  <1>6. user => row'[req[r].link] = "pending"
    BY <1>0, <1>2 DEF InsertLink
  <1>7. InFlight(l) \in Nat /\ InFlight(l)' = InFlight(l)
    <2>1. r \notin Finalizers(l) /\ r \notin Finalizers(l)'
      BY <1>2, <1>3 DEF Finalizers, Finalizing, Idle
    <2>. QED
      BY <1>0, <2>1, InFlightMoves
  <1>8. l = req[r].link => row[l] = "none" /\ \A q \in Reqs : On(q, "insert", l) => q = r
    BY <1>2 DEF LinkInv, Fresh, On, At
  <1>9. Counted(l)'
    BY <1>4, <1>5, <1>7, <1>8, LinkTypes DEF LinkInv, Counted
  <1>10. Single(l)'
    BY <1>1, <1>3, <1>4, <1>5, <1>8 DEF LinkInv, Single, Undecided, On, At, Idle
  <1>11. Fresh(l)'
    <2>1. l = req[r].link => ~\E q \in Reqs : On(q, "insert", l)'
      BY <1>1, <1>3, <1>8 DEF On, At, Idle
    <2>2. l # req[r].link => row'[l] = row[l] /\ (req'[r].link = l => req'[r].pc = "idle")
      BY <1>3, <1>5 DEF Idle
    <2>3. l # req[r].link => Fresh(l)'
      BY <1>1, <2>2 DEF LinkInv, Fresh, On, At
    <2>4. CASE l = req[r].link /\ user
      BY <1>6, <2>1, <2>4 DEF Fresh
    <2>5. CASE l = req[r].link /\ ~user
      <3>1. req'[r] = Idle /\ row'[l] = row[l]
        BY <1>3, <1>5, <2>5
      <3>. QED
        BY <1>1, <2>1, <2>5, <3>1 DEF LinkInv, Fresh, On, At, Idle
    <2>. QED
      BY <2>3, <2>4, <2>5
  <1>. QED
    BY <1>9, <1>10, <1>11

(* No other insert of the link is in flight when one starts.                 *)
LEMMA CreateTfaStep ==
    ASSUME TypeInv, LinkInv, NEW r \in Reqs, NEW k \in Links, NEW h \in Handles, NEW w \in {"trust", "nothing"},
           CreateTfa(r, k, h, w), NEW l \in Links
    PROVE  (Counted(l) /\ Single(l) /\ Fresh(l))'
  <1>0. ReqMove(r)
    BY ReqMoves DEF Handle
  <1>1. \A q \in Reqs \ {r} : req'[q] = req[q]
    BY <1>0 DEF ReqMove, TypeInv, TypeOK
  <1>2. req'[r].pc = "insert" /\ req'[r].link = k /\ req[r].pc = "idle"
    BY StartMoves DEF CreateTfa, Steps, Coded, Bound
  <1>3. row[k] = "none" /\ \A q \in Reqs : ~On(q, "insert", k)
    BY DEF CreateTfa
  <1>4. row' = row /\ counts' = counts /\ overlapped' = overlapped
    BY DEF CreateTfa, rowVars, counts, overlaps
  <1>5. InFlight(l) \in Nat /\ InFlight(l)' = InFlight(l)
    <2>1. r \notin Finalizers(l) /\ r \notin Finalizers(l)'
      BY <1>2 DEF Finalizers, Finalizing
    <2>. QED
      BY <1>0, <2>1, InFlightMoves
  <1>6. Counted(l)'
    BY <1>4, <1>5 DEF LinkInv, Counted, counts
  <1>7. Single(l)'
    BY <1>1, <1>2, <1>4 DEF LinkInv, Single, Undecided, On, At, counts
  <1>8. Fresh(l)'
    BY <1>1, <1>2, <1>3, <1>4 DEF LinkInv, Fresh, On, At
  <1>. QED
    BY <1>6, <1>7, <1>8

(* A second decision about the link in flight makes it overlapped.           *)
LEMMA RespondStep ==
    ASSUME TypeInv, LinkInv, NEW r \in Reqs, NEW k \in Links, NEW v \in {"approved", "rejected"},
           RespondRead(r, k, v), NEW l \in Links
    PROVE  (Counted(l) /\ Single(l) /\ Fresh(l))'
  <1>0. ReqMove(r)
    BY ReqMoves DEF Handle
  <1>1. \A q \in Reqs \ {r} : req'[q] = req[q]
    BY <1>0 DEF ReqMove, TypeInv, TypeOK
  <1>2. req'[r].pc = "decide" /\ req'[r].link = k /\ req[r].pc = "idle"
    BY StartMoves DEF RespondRead, Steps, Coded, Bound
  <1>3. row[k] = "pending" /\ row' = row /\ counts' = counts
    BY DEF RespondRead, rowVars
  <1>4. overlapped' = IF \E q \in Reqs : On(q, "decide", k) THEN overlapped \cup {k} ELSE overlapped
    BY DEF RespondRead
  <1>5. InFlight(l) \in Nat /\ InFlight(l)' = InFlight(l)
    <2>1. r \notin Finalizers(l) /\ r \notin Finalizers(l)'
      BY <1>2 DEF Finalizers, Finalizing
    <2>. QED
      BY <1>0, <2>1, InFlightMoves
  <1>6. Counted(l)'
    BY <1>3, <1>5 DEF LinkInv, Counted, counts
  <1>7. Single(l)'
    BY <1>1, <1>2, <1>3, <1>4 DEF LinkInv, Single, Undecided, On, At, counts
  <1>8. Fresh(l)'
    BY <1>1, <1>2, <1>3 DEF LinkInv, Fresh, On, At
  <1>. QED
    BY <1>6, <1>7, <1>8

(* The decision is counted with the status it writes.                        *)
LEMMA WriteDecisionStep ==
    ASSUME TypeInv, LinkInv, NEW r \in Reqs, WriteDecision(r), NEW l \in Links
    PROVE  (Counted(l) /\ Single(l) /\ Fresh(l))'
  <1>0. ReqMove(r) /\ req'[r] = Idle
    BY FinishMoves DEF WriteDecision
  <1>1. \A q \in Reqs \ {r} : req'[q] = req[q]
    BY <1>0 DEF ReqMove, TypeInv, TypeOK
  <1>2. /\ req[r].pc = "decide" /\ req[r].link \in Links
        /\ req[r].wants \in {"approved", "rejected"}
    BY DEF WriteDecision, At, TypeInv, ReqOK, WellFormed, Coded, Bound
  <1>3. InFlight(l) \in Nat /\ InFlight(l)' = InFlight(l)
    <2>1. r \notin Finalizers(l) /\ r \notin Finalizers(l)'
      BY <1>0, <1>2 DEF Finalizers, Finalizing, Idle
    <2>. QED
      BY <1>0, <2>1, InFlightMoves
  <1>4. claims' = claims /\ logins' = logins /\ overlapped' = overlapped
    BY DEF WriteDecision, overlaps
  <1>5. CASE l # req[r].link \/ row[l] = "gone"
    <2>1. row'[l] = row[l] /\ approvals'[l] = approvals[l] /\ rejections'[l] = rejections[l]
      BY <1>5, LinkTypes DEF WriteDecision, Plus1, TypeInv, TypeOK
    <2>2. Calm(r, l)
      BY <1>0, <1>4, <2>1 DEF Calm, Idle
    <2>. QED
      BY <1>0, <2>2, CalmStep
  <1>6. CASE l = req[r].link /\ row[l] # "gone"
    <2>1. /\ row'[l] = req[r].wants
          /\ req[r].wants = "approved" => approvals'[l] = approvals[l] + 1 /\ rejections'[l] = rejections[l]
          /\ req[r].wants = "rejected" => rejections'[l] = rejections[l] + 1 /\ approvals'[l] = approvals[l]
      BY <1>2, <1>6 DEF WriteDecision, Plus1, TypeInv, TypeOK
    <2>2. Counted(l)'
      BY <1>2, <1>3, <1>4, <2>1, LinkTypes DEF LinkInv, Counted
    <2>3. l \notin overlapped => Undecided(l) /\ \A q \in Reqs : On(q, "decide", l) => q = r
      BY <1>2, <1>6 DEF LinkInv, Single, On, At
    <2>4. Single(l)'
      BY <1>0, <1>1, <1>2, <1>4, <2>1, <2>3, LinkTypes DEF Single, Undecided, On, At, Idle
    <2>5. Fresh(l)'
      BY <1>0, <1>1, <1>2, <1>6, <2>1 DEF LinkInv, Fresh, On, At, Idle
    <2>. QED
      BY <2>2, <2>4, <2>5
  <1>. QED
    BY <1>5, <1>6

(* An expiry may hide an approval from the polls, never add one.             *)
LEMMA WriteExpiredStep ==
    ASSUME TypeInv, LinkInv, NEW r \in Reqs, WriteExpired(r), NEW l \in Links
    PROVE  (Counted(l) /\ Single(l) /\ Fresh(l))'
  <1>0. ReqMove(r) /\ req'[r] = Idle
    BY FinishMoves DEF WriteExpired
  <1>1. \A q \in Reqs \ {r} : req'[q] = req[q]
    BY <1>0 DEF ReqMove, TypeInv, TypeOK
  <1>2. req[r].pc = "expire" /\ req[r].link \in Links
    BY DEF WriteExpired, At, TypeInv, ReqOK, WellFormed, Coded, Bound
  <1>3. InFlight(l) \in Nat /\ InFlight(l)' = InFlight(l)
    <2>1. r \notin Finalizers(l) /\ r \notin Finalizers(l)'
      BY <1>0, <1>2 DEF Finalizers, Finalizing, Idle
    <2>. QED
      BY <1>0, <2>1, InFlightMoves
  <1>4. counts' = counts /\ overlapped' = overlapped
    BY DEF WriteExpired, overlaps
  <1>5. row'[l] = row[l] \/ row'[l] = "expired"
    BY DEF WriteExpired, TypeInv, TypeOK
  <1>6. Counted(l)'
    BY <1>3, <1>4, <1>5, LinkTypes DEF LinkInv, Counted, counts
  <1>7. Single(l)'
    BY <1>0, <1>1, <1>4, <1>5 DEF LinkInv, Single, Undecided, On, At, counts, Idle
  <1>8. Fresh(l)'
    <2>1. row'[l] # row[l] => row[l] # "none"
      <3>1. req[r].link = l => row[l] # "none"
        BY <1>2 DEF LinkInv, Fresh
      <3>. QED
        BY <3>1 DEF WriteExpired, TypeInv, TypeOK
    <2>. QED
      BY <1>0, <1>1, <1>5, <2>1 DEF LinkInv, Fresh, On, At, Idle
  <1>. QED
    BY <1>6, <1>7, <1>8

(* A claim takes the place of the approval that it found.                    *)
LEMMA ClaimStep ==
    ASSUME TypeInv, LinkInv, NEW r \in Reqs, Claim(r), NEW l \in Links
    PROVE  (Counted(l) /\ Single(l) /\ Fresh(l))'
  <1>0. ReqMove(r)
    BY ReqMoves DEF Handle
  <1>1. \A q \in Reqs \ {r} : req'[q] = req[q]
    BY <1>0 DEF ReqMove, TypeInv, TypeOK
  <1>2. req[r].pc = "claim" /\ req[r].link \in Links
    BY DEF Claim, At, TypeInv, ReqOK, WellFormed, Coded, Bound
  <1>3. /\ approvals' = approvals /\ rejections' = rejections /\ logins' = logins
        /\ overlapped' = overlapped
    BY DEF Claim, overlaps
  <1>4. CASE l # req[r].link \/ row[l] # "approved"
    <2>1. row'[l] = row[l] /\ claims'[l] = claims[l]
      BY <1>4 DEF Claim, Plus1, TypeInv, TypeOK
    <2>2. req'[r].link = l /\ req'[r].pc # "idle" => FALSE
      <3>1. CASE row[req[r].link] = "approved"
        BY <1>2, <1>4, <3>1, GoMoves DEF Claim, Steps, Coded, Bound
      <3>2. CASE row[req[r].link] # "approved"
        BY <3>2, FinishMoves DEF Claim, Idle
      <3>. QED
        BY <3>1, <3>2
    <2>3. Calm(r, l)
      BY <1>3, <2>1, <2>2 DEF Calm
    <2>. QED
      BY <1>0, <2>3, CalmStep
  <1>5. CASE l = req[r].link /\ row[l] = "approved"
    <2>1. row'[l] = "claimed" /\ claims'[l] = claims[l] + 1
      BY <1>5 DEF Claim, Plus1, TypeInv, TypeOK
    <2>2. req'[r].pc = "reread" /\ req'[r].link = l
      BY <1>2, <1>5, GoMoves DEF Claim, Steps, Coded, Bound
    <2>3. InFlight(l) \in Nat /\ InFlight(l)' = InFlight(l) + 1
      <3>1. r \notin Finalizers(l) /\ r \in Finalizers(l)'
        BY <1>2, <2>2 DEF Finalizers, Finalizing
      <3>. QED
        BY <1>0, <3>1, InFlightMoves
    <2>4. Counted(l)'
      BY <1>3, <1>5, <2>1, <2>3, LinkTypes DEF LinkInv, Counted
    <2>5. Single(l)'
      BY <1>1, <1>3, <1>5, <2>1, <2>2 DEF LinkInv, Single, Undecided, On, At
    <2>6. Fresh(l)'
      BY <1>1, <1>5, <2>1, <2>2 DEF LinkInv, Fresh, On, At
    <2>. QED
      BY <2>4, <2>5, <2>6
  <1>. QED
    BY <1>4, <1>5

(* A session takes the place of the claim in flight.                         *)
LEMMA IssueSessionStep ==
    ASSUME TypeInv, LinkInv, NEW r \in Reqs, IssueSession(r), NEW l \in Links
    PROVE  (Counted(l) /\ Single(l) /\ Fresh(l))'
  <1>0. ReqMove(r) /\ req'[r] = Idle
    BY FinishMoves DEF IssueSession
  <1>1. \A q \in Reqs \ {r} : req'[q] = req[q]
    BY <1>0 DEF ReqMove, TypeInv, TypeOK
  <1>2. req[r].pc = "issue" /\ req[r].link \in Links
    BY DEF IssueSession, At, TypeInv, ReqOK, WellFormed, Coded, Bound
  <1>3. /\ approvals' = approvals /\ rejections' = rejections /\ claims' = claims /\ row' = row
        /\ overlapped' = overlapped
    BY DEF IssueSession, overlaps, rowVars
  <1>4. CASE l # req[r].link \/ ~user
    <2>1. logins'[l] = logins[l]
      BY <1>4 DEF IssueSession, Plus1, TypeInv, TypeOK
    <2>2. Calm(r, l)
      BY <1>0, <1>3, <2>1 DEF Calm, Idle
    <2>. QED
      BY <1>0, <2>2, CalmStep
  <1>5. CASE l = req[r].link /\ user
    <2>1. logins'[l] = logins[l] + 1
      BY <1>5 DEF IssueSession, Plus1, TypeInv, TypeOK
    <2>2. InFlight(l) \in Nat /\ InFlight(l)' = InFlight(l) - 1
      <3>1. r \in Finalizers(l) /\ r \notin Finalizers(l)'
        BY <1>0, <1>2, <1>5 DEF Finalizers, Finalizing, Idle
      <3>. QED
        BY <1>0, <3>1, InFlightMoves
    <2>3. Counted(l)'
      BY <1>3, <2>1, <2>2, LinkTypes DEF LinkInv, Counted
    <2>4. Single(l)'
      BY <1>0, <1>1, <1>3 DEF LinkInv, Single, Undecided, On, At, Idle
    <2>5. Fresh(l)'
      BY <1>0, <1>1, <1>3 DEF LinkInv, Fresh, On, At, Idle
    <2>. QED
      BY <2>3, <2>4, <2>5
  <1>. QED
    BY <1>4, <1>5

(* The steps around the handlers move no request.                            *)
LEMMA AroundStep ==
    ASSUME TypeInv, LinkInv, Around, NEW l \in Links
    PROVE  (Counted(l) /\ Single(l) /\ Fresh(l))'
  <1>1. req' = req /\ counts' = counts /\ overlapped' = overlapped
    BY DEF Around, CreateSignin, Lapse, ForgetTrust, OpenChallenge, EndChallenge, DeleteUser, overlaps
  <1>2. InFlight(l)' = InFlight(l)
    BY <1>1 DEF InFlight, Finalizers
  <1>3. \/ row'[l] = row[l]
        \/ row'[l] = "pending" /\ row[l] = "none" /\ \A r \in Reqs : ~On(r, "insert", l)
        \/ row'[l] = "gone" /\ row[l] \in Statuses
    BY DEF Around, CreateSignin, Lapse, ForgetTrust, OpenChallenge, EndChallenge, DeleteUser, rowVars,
           TypeInv, TypeOK
  <1>4. Counted(l)'
    <2>1. row'[l] = "approved" => row[l] = "approved"
      BY <1>3
    <2>2. /\ approvals'[l] = approvals[l] /\ claims'[l] = claims[l] /\ logins'[l] = logins[l]
          /\ Counted(l)
      BY <1>1 DEF counts, LinkInv
    <2>. QED
      BY <1>2, <2>1, <2>2, LinkTypes DEF Counted
  <1>5. Single(l)'
    BY <1>1, <1>3 DEF LinkInv, Single, Undecided, On, At, counts
  <1>6. Fresh(l)'
    BY <1>1, <1>3 DEF LinkInv, Fresh, On, At, Statuses
  <1>. QED
    BY <1>4, <1>5, <1>6

(* Every login stands on an approval of its own, and a link without           *)
(* overlapping decisions has had one decision at most.                        *)
THEOREM LinkInvariance == Spec => []LinkInv
  <1>1. Init => LinkInv
    <2> SUFFICES ASSUME Init, NEW l \in Links PROVE Counted(l) /\ Single(l) /\ Fresh(l)
      BY DEF LinkInv
    <2>1. Finalizers(l) = {}
      BY DEF Init, Finalizers, Finalizing, Idle
    <2>2. InFlight(l) = 0
      BY <2>1, FS_EmptySet DEF InFlight
    <2>. QED
      BY <2>2 DEF Init, Counted, Single, Undecided, Fresh, On, At, Idle
  <1>2. ASSUME TypeInv, LinkInv, [Next]_vars PROVE LinkInv'
    <2> SUFFICES ASSUME NEW l \in Links PROVE (Counted(l) /\ Single(l) /\ Fresh(l))'
      BY DEF LinkInv
    <2>1. CASE UNCHANGED vars
      <3>1. row' = row /\ req' = req /\ overlapped' = overlapped /\ counts' = counts
        BY <2>1 DEF vars, rowVars, overlaps
      <3>2. Counted(l) /\ Single(l) /\ Fresh(l)
        BY <1>2 DEF LinkInv
      <3>3. InFlight(l)' = InFlight(l)
        BY <3>1 DEF InFlight, Finalizers
      <3>4. Counted(l)'
        BY <3>1, <3>2, <3>3 DEF Counted, counts
      <3>5. Single(l)'
        BY <3>1, <3>2 DEF Single, Undecided, On, At, counts
      <3>6. Fresh(l)'
        BY <3>1, <3>2 DEF Fresh, On, At
      <3>. QED
        BY <3>4, <3>5, <3>6
    <2>2. ASSUME NEW r \in Reqs, Handle(r) PROVE (Counted(l) /\ Single(l) /\ Fresh(l))'
      <3>1. ReqMove(r)
        BY <1>2, <2>2, ReqMoves
      <3>. QED
        BY <1>2, <2>2, <3>1, CalmSteps, CalmStep, InsertLinkStep, CreateTfaStep, RespondStep,
           WriteDecisionStep, WriteExpiredStep, ClaimStep, IssueSessionStep DEF Handle, Finalize
    <2>. QED
      BY <1>2, <2>1, <2>2, AroundStep DEF Next
  <1>. QED
    BY <1>1, <1>2, TypeInvariance, PTL DEF Spec

(* The number of finalizing polls is a number, positive if there is one.     *)
LEMMA InFlightNat ==
    ASSUME NEW l \in Links
    PROVE  /\ InFlight(l) \in Nat
           /\ \A r \in Finalizers(l) : InFlight(l) > 0
  <1>1. IsFiniteSet(Finalizers(l))
    BY FS_Subset DEF Finalizers
  <1>2. Cardinality(Finalizers(l)) \in Nat
    BY <1>1, FS_CardinalityType
  <1>3. Finalizers(l) # {} => Cardinality(Finalizers(l)) # 0
    BY <1>1, FS_EmptySet
  <1>. QED
    BY <1>2, <1>3 DEF InFlight

(* Every variable keeps its type, for any number of links and requests.      *)
THEOREM TypeCorrect == Spec => []TypeOK
  <1>1. TypeInv => TypeOK
    BY DEF TypeInv
  <1>. QED
    BY <1>1, TypeInvariance, PTL

(* Every session issued through a link stands on an approval of its own.     *)
THEOREM LoginsAreApprovedHolds == Spec => []LoginsAreApproved
  <1>1. ASSUME TypeInv, LinkInv, NEW l \in Links PROVE logins[l] <= approvals[l]
    <2>1. claims[l] <= approvals[l] /\ logins[l] <= claims[l]
      BY <1>1, LinkTypes, InFlightNat DEF LinkInv, Counted
    <2>. QED
      BY <1>1, <2>1, LinkTypes
  <1>2. TypeInv /\ LinkInv => LoginsAreApproved
    BY <1>1 DEF LoginsAreApproved
  <1>. QED
    BY <1>2, TypeInvariance, LinkInvariance, PTL

(* Without overlapping decisions a link logs in once at most, and not at all  *)
(* after a rejection.                                                         *)
THEOREM VerdictIsFinalHolds == Spec => []VerdictIsFinal
  <1>1. ASSUME TypeInv, LinkInv, NEW l \in Links \ overlapped
        PROVE  logins[l] <= 1 /\ (rejections[l] > 0 => logins[l] = 0)
    <2>1. claims[l] <= approvals[l] /\ logins[l] <= claims[l]
      BY <1>1, LinkTypes, InFlightNat DEF LinkInv, Counted
    <2>2. approvals[l] + rejections[l] <= 1
      BY <1>1 DEF LinkInv, Single
    <2>. QED
      BY <1>1, <2>1, <2>2, LinkTypes
  <1>2. TypeInv /\ LinkInv => VerdictIsFinal
    BY <1>1 DEF VerdictIsFinal
  <1>. QED
    BY <1>2, TypeInvariance, LinkInvariance, PTL

------------------------------------------------------------------------------
(* The number of requests that answer h changes by the request that steps.   *)
LEMMA AnswerersMove ==
    ASSUME TypeInv, NEW r \in Reqs, ReqMove(r), NEW h \in Handles
    PROVE  /\ \A q \in Reqs \ {r} : q \in Answerers(h)' <=> q \in Answerers(h)
           /\ Cardinality(Answerers(h)) \in Nat /\ Cardinality(Answerers(h)') \in Nat
           /\ r \in Answerers(h) => Cardinality(Answerers(h)) > 0
           /\ (r \in Answerers(h) <=> r \in Answerers(h)')
              => Cardinality(Answerers(h)') = Cardinality(Answerers(h))
           /\ r \in Answerers(h) /\ r \notin Answerers(h)'
              => Cardinality(Answerers(h)') = Cardinality(Answerers(h)) - 1
           /\ r \notin Answerers(h) /\ r \in Answerers(h)'
              => Cardinality(Answerers(h)') = Cardinality(Answerers(h)) + 1
  <1> DEFINE F == Answerers(h)
             G == Answerers(h)'
             m == Cardinality(F)
             n == Cardinality(G)
             k == Cardinality(F \ {r})
  <1>1. F \in SUBSET Reqs /\ G \in SUBSET Reqs /\ F \ {r} = G \ {r}
    BY DEF Answerers, ReqMove, TypeInv, TypeOK
  <1>2. IsFiniteSet(F) /\ IsFiniteSet(G) /\ IsFiniteSet(F \ {r})
    BY <1>1, FS_Subset
  <1>3. \A q \in Reqs \ {r} : q \in G <=> q \in F
    BY <1>1
  <1>4. m \in Nat /\ n \in Nat /\ k \in Nat
    BY <1>2, FS_CardinalityType
  <1>5. k = IF r \in F THEN m - 1 ELSE m
    BY <1>2, FS_RemoveElement
  <1>6. k = IF r \in G THEN n - 1 ELSE n
    BY <1>1, <1>2, FS_RemoveElement
  <1> HIDE DEF m, n, k
  <1>7. r \in F => m > 0
    BY <1>4, <1>5
  <1>8. (r \in F <=> r \in G) => n = m
    BY <1>4, <1>5, <1>6
  <1>9. r \in F /\ r \notin G => n = m - 1
    BY <1>4, <1>5, <1>6
  <1>10. r \notin F /\ r \in G => n = m + 1
    BY <1>4, <1>5, <1>6
  <1>. QED
    BY <1>3, <1>4, <1>7, <1>8, <1>9, <1>10 DEF m, n

(* The logins through a challenge, and the answers that may still log in, are *)
(* no more than the crowd; before the challenge is gone nobody is past its    *)
(* deletion.                                                                  *)
Before == {"drop", "answer", "delete"}
Counts(h) == spent[h] + Cardinality(Answerers(h)) <= crowd[h]
Waits(h) ==
    challenge[h] # "gone" =>
       /\ spent[h] = 0
       /\ \A r \in Answerers(h) : challenge[h] = "alive" /\ req[r].pc \in Before
Once(h) == Counts(h) /\ Waits(h)
ChallengeInv == \A h \in Handles : Once(h)

(* Most steps start no answer to h, and none that was given up comes back;    *)
(* one that gets past the deletion finds, or leaves, the challenge gone.      *)
Quiet(r, h) ==
    /\ spent'[h] = spent[h] /\ crowd'[h] = crowd[h]
    /\ challenge'[h] = challenge[h] \/ challenge'[h] = "gone"
    /\ r \in Answerers(h)' =>
          /\ r \in Answerers(h)
          /\ req'[r].pc \in Before => req[r].pc \in Before
          /\ challenge'[h] # "gone" /\ req[r].pc \in Before /\ challenge[h] = "alive" => req'[r].pc \in Before

(* A quiet step keeps the invariant of h.                                    *)
LEMMA QuietStep ==
    ASSUME TypeInv, ChallengeInv, NEW r \in Reqs, ReqMove(r), NEW h \in Handles, Quiet(r, h)
    PROVE  Once(h)'
  <1>1. \A q \in Reqs \ {r} : req'[q] = req[q]
    BY DEF ReqMove, TypeInv, TypeOK
  <1>2. Counts(h) /\ Waits(h) /\ spent[h] \in Nat /\ crowd[h] \in Nat
    BY DEF ChallengeInv, Once, TypeInv, TypeOK
  <1>3. Counts(h)'
    <2>1. r \in Answerers(h)' => r \in Answerers(h)
      BY DEF Quiet
    <2>2. /\ Cardinality(Answerers(h)) \in Nat /\ Cardinality(Answerers(h)') \in Nat
          /\ Cardinality(Answerers(h)') <= Cardinality(Answerers(h))
      BY <2>1, AnswerersMove
    <2>. QED
      BY <1>2, <2>2 DEF Counts, Quiet
  <1>4. Waits(h)'
    BY <1>1, <1>2 DEF Waits, Quiet, Answerers
  <1>. QED
    BY <1>3, <1>4 DEF Once

(* The steps that neither begin an answer nor end it in a session are quiet. *)
LEMMA QuietSteps ==
    ASSUME TypeInv, NEW r \in Reqs, NEW h \in Handles,
           \/ InsertLink(r) \/ StashTrust(r) \/ WriteDecision(r) \/ WriteExpired(r) \/ Claim(r)
           \/ Reread(r) \/ ConsumeDrop(r) \/ ReadOwner(r) \/ ReadTrust(r) \/ TrustDevice(r) \/ DropTrust(r)
           \/ CodeLook(r) \/ CodeDelete(r) \/ Abort(r)
           \/ \E l \in Links :
                 \/ PollLapsed(r, l) \/ PollApproved(r, l)
                 \/ \E v \in {"approved", "rejected"} : RespondRead(r, l, v)
                 \/ \E k \in Handles, w \in {"trust", "nothing"} : CreateTfa(r, l, k, w)
    PROVE  Quiet(r, h)
  <1>0. req \in [Reqs -> Requests] /\ req[r] \in Requests /\ h # None /\ challenge \in [Handles -> {"none", "alive", "gone"}]
    BY DEF TypeInv, TypeOK
  <1> USE <1>0 DEF Quiet, Answerers, AnswerSteps, Before, At, cacheVars, counts, overlaps
  <1>1. ASSUME NEW p, Go(r, p), p \in AnswerSteps => req[r].handle = None \/ req[r].pc \in AnswerSteps,
               p \notin Before, req[r].pc \notin Before,
               spent' = spent, challenge' = challenge, crowd' = crowd
        PROVE  Quiet(r, h)
    BY <1>1 DEF Go, Requests
  <1>2. ASSUME Finish(r), spent' = spent, challenge' = challenge, crowd' = crowd
        PROVE  Quiet(r, h)
    BY <1>2 DEF Finish, Idle
  <1>3. CASE InsertLink(r) \/ StashTrust(r) \/ WriteExpired(r) \/ Claim(r) \/ Abort(r)
    BY <1>1, <1>2, <1>3 DEF InsertLink, StashTrust, WriteExpired, Claim, Abort
  <1>4. CASE WriteDecision(r)
    BY <1>2, <1>4 DEF WriteDecision
  <1>5. CASE Reread(r)
    BY <1>1, <1>2, <1>5 DEF Reread
  <1>6. CASE ReadOwner(r) \/ ReadTrust(r) \/ TrustDevice(r) \/ DropTrust(r)
    BY <1>1, <1>2, <1>6 DEF ReadOwner, ReadTrust, TrustDevice, DropTrust
  <1>7. ASSUME NEW l \in Links, PollLapsed(r, l) \/ PollApproved(r, l) PROVE Quiet(r, h)
    BY <1>7 DEF PollLapsed, PollApproved, Start
  <1>8. ASSUME NEW l \in Links, NEW v \in {"approved", "rejected"}, RespondRead(r, l, v) PROVE Quiet(r, h)
    BY <1>8 DEF RespondRead, Start
  <1>9. ASSUME NEW l \in Links, NEW k \in Handles, NEW w \in {"trust", "nothing"}, CreateTfa(r, l, k, w)
        PROVE  Quiet(r, h)
    BY <1>9 DEF CreateTfa, Start
  <1>10. CASE ConsumeDrop(r) \/ CodeDelete(r)
    BY <1>10 DEF ConsumeDrop, CodeDelete, Go, Requests
  <1>11. CASE CodeLook(r)
    BY <1>11 DEF CodeLook, Go, Requests
  <1>. QED
    BY <1>3, <1>4, <1>5, <1>6, <1>7, <1>8, <1>9, <1>10, <1>11

(* Whoever finds the challenge alive, with a link or with a code, joins the   *)
(* crowd that answers it; no session has come of it yet.                      *)
LEMMA JoinStep ==
    ASSUME TypeInv, ChallengeInv, NEW r \in Reqs, ReqMove(r), NEW h \in Handles, NEW k \in Handles,
           challenge[k] = "alive", r \notin Answerers(h), req'[r].handle = k, req'[r].pc \in Before,
           Joins(k), UNCHANGED <<challenge, spent>>
    PROVE  Once(h)'
  <1>1. \A q \in Reqs \ {r} : req'[q] = req[q]
    BY DEF ReqMove, TypeInv, TypeOK
  <1>2. Counts(h) /\ Waits(h) /\ spent[h] \in Nat /\ crowd[h] \in Nat /\ crowd \in [Handles -> Nat]
    BY DEF ChallengeInv, Once, TypeInv, TypeOK
  <1>3. Counts(h)'
    <2>1. CASE k = h
      <3>1. r \in Answerers(h)'
        BY <2>1 DEF Answerers, AnswerSteps, Before
      <3>2. /\ Cardinality(Answerers(h)) \in Nat
            /\ Cardinality(Answerers(h)') = Cardinality(Answerers(h)) + 1
        BY <3>1, AnswerersMove
      <3>3. spent'[h] = 0
        BY <1>2, <2>1 DEF Waits
      <3>4. crowd'[h] >= Cardinality(Answerers(h)) + 1
        <4>1. PICK n : n = Cardinality(Answerers(h)) + 1
          OBVIOUS
        <4>2. crowd' = [crowd EXCEPT ![h] = IF n > @ THEN n ELSE @]
          BY <2>1, <4>1 DEF Joins
        <4>3. crowd'[h] = IF n > crowd[h] THEN n ELSE crowd[h]
          BY <1>2, <4>2
        <4>4. n \in Nat
          BY <3>2, <4>1
        <4>. QED
          BY <1>2, <4>1, <4>3, <4>4
      <3>. QED
        BY <3>2, <3>3, <3>4 DEF Counts
    <2>2. CASE k # h
      <3>1. r \notin Answerers(h)'
        BY <2>2 DEF Answerers
      <3>2. Cardinality(Answerers(h)') = Cardinality(Answerers(h))
        BY <3>1, AnswerersMove
      <3>3. crowd'[h] = crowd[h]
        BY <1>2, <2>2 DEF Joins
      <3>. QED
        BY <1>2, <3>2, <3>3 DEF Counts
    <2>. QED
      BY <2>1, <2>2
  <1>4. Waits(h)'
    <2>1. \A q \in Reqs : q \in Answerers(h)' => q \in Answerers(h) \/ (q = r /\ k = h)
      BY <1>1 DEF Answerers
    <2>. QED
      BY <1>1, <1>2, <2>1 DEF Waits, Answerers
  <1>. QED
    BY <1>3, <1>4 DEF Once

(* A poll that finds the challenge alive joins, any other ends.              *)
LEMMA ConsumePeekStep ==
    ASSUME TypeInv, ChallengeInv, NEW r \in Reqs, ConsumePeek(r), NEW h \in Handles
    PROVE  Once(h)'
  <1>1. ReqMove(r)
    BY ReqMoves DEF Handle, Finalize
  <1>2. req[r].pc = "peek" /\ req[r].handle \in Handles
    BY DEF ConsumePeek, At, TypeInv, ReqOK, WellFormed, Coded, Bound
  <1>3. challenge' = challenge /\ spent' = spent
    BY DEF ConsumePeek, cacheVars, counts
  <1>4. r \notin Answerers(h)
    BY <1>2 DEF Answerers, AnswerSteps
  <1>5. CASE challenge[req[r].handle] = "alive"
    <2>1. req'[r].pc = "drop" /\ req'[r].handle = req[r].handle
      BY <1>2, <1>5, GoMoves DEF ConsumePeek, Steps, Coded, Bound
    <2>2. Joins(req[r].handle)
      BY <1>5 DEF ConsumePeek
    <2>. QED
      BY <1>1, <1>2, <1>3, <1>4, <1>5, <2>1, <2>2, JoinStep DEF Before
  <1>6. CASE challenge[req[r].handle] # "alive"
    <2>1. crowd' = crowd /\ req'[r] = Idle
      BY <1>6, FinishMoves DEF ConsumePeek
    <2>2. Quiet(r, h)
      BY <1>3, <2>1 DEF Quiet, Answerers, AnswerSteps, Idle
    <2>. QED
      BY <1>1, <2>2, QuietStep
  <1>. QED
    BY <1>5, <1>6

(* A code is compared while the challenge is alive.                          *)
LEMMA CodePeekStep ==
    ASSUME TypeInv, ChallengeInv, NEW r \in Reqs, NEW k \in Handles, CodePeek(r, k), NEW h \in Handles
    PROVE  Once(h)'
  <1>1. ReqMove(r)
    BY ReqMoves DEF Handle
  <1>2. req'[r].pc = "answer" /\ req'[r].handle = k /\ req[r].pc = "idle"
    BY StartMoves DEF CodePeek, Steps, Coded, Bound
  <1>3. challenge' = challenge /\ spent' = spent /\ challenge[k] = "alive" /\ Joins(k)
    BY DEF CodePeek, cacheVars, counts
  <1>4. r \notin Answerers(h)
    BY <1>2 DEF Answerers, AnswerSteps
  <1>. QED
    BY <1>1, <1>2, <1>3, <1>4, JoinStep DEF Before

(* The session takes the place of one that answered.                         *)
LEMMA SpendStep ==
    ASSUME TypeInv, ChallengeInv, NEW r \in Reqs, IssueSession(r) \/ CodeLogin(r), NEW h \in Handles
    PROVE  Once(h)'
  <1>1. ReqMove(r) /\ req'[r] = Idle
    BY FinishMoves DEF IssueSession, CodeLogin
  <1>2. \A q \in Reqs \ {r} : req'[q] = req[q]
    BY <1>1 DEF ReqMove, TypeInv, TypeOK
  <1>3. challenge' = challenge /\ crowd' = crowd /\ req[r].pc \in {"issue", "login"}
    BY DEF IssueSession, CodeLogin, At, cacheVars, overlaps
  <1>4. Counts(h) /\ Waits(h) /\ spent[h] \in Nat /\ crowd[h] \in Nat /\ h # None /\ spent \in [Handles -> Nat]
    BY DEF ChallengeInv, Once, TypeInv, TypeOK
  <1>5. r \notin Answerers(h)'
    BY <1>1 DEF Answerers, Idle
  <1>6. CASE req[r].handle = h /\ user
    <2>1. r \in Answerers(h)
      BY <1>3, <1>6 DEF Answerers, AnswerSteps
    <2>2. spent'[h] = spent[h] + 1
      BY <1>4, <1>6 DEF IssueSession, CodeLogin, Plus1
    <2>3. challenge[h] = "gone"
      BY <1>3, <1>4, <2>1 DEF Waits, Before
    <2>4. /\ Cardinality(Answerers(h)) \in Nat
          /\ Cardinality(Answerers(h)') = Cardinality(Answerers(h)) - 1
      BY <1>1, <1>5, <2>1, AnswerersMove
    <2>5. Counts(h)'
      BY <1>3, <1>4, <2>2, <2>4 DEF Counts
    <2>. QED
      BY <1>3, <2>3, <2>5 DEF Once, Waits
  <1>7. CASE ~(req[r].handle = h /\ user)
    <2>1. spent'[h] = spent[h]
      BY <1>4, <1>7 DEF IssueSession, CodeLogin, Plus1
    <2>2. Quiet(r, h)
      BY <1>3, <1>5, <2>1 DEF Quiet
    <2>. QED
      BY <1>1, <2>2, QuietStep
  <1>. QED
    BY <1>6, <1>7

(* The steps around the handlers end a challenge, or open a new one.         *)
LEMMA AroundChallenge ==
    ASSUME TypeInv, ChallengeInv, Around, NEW h \in Handles
    PROVE  Once(h)'
  <1>1. req' = req /\ spent' = spent /\ crowd' = crowd
    BY DEF Around, CreateSignin, Lapse, ForgetTrust, OpenChallenge, EndChallenge, DeleteUser, counts, overlaps
  <1>2. \/ challenge'[h] = challenge[h]
        \/ challenge[h] = "none"
        \/ challenge'[h] = "gone"
    BY DEF Around, CreateSignin, Lapse, ForgetTrust, OpenChallenge, EndChallenge, DeleteUser, cacheVars,
           TypeInv, TypeOK
  <1>3. Counts(h) /\ Waits(h) /\ Answerers(h)' = Answerers(h)
    BY <1>1 DEF ChallengeInv, Once, Answerers
  <1>4. Counts(h)'
    BY <1>1, <1>3 DEF Counts
  <1>5. Waits(h)'
    BY <1>1, <1>2, <1>3 DEF Waits
  <1>. QED
    BY <1>4, <1>5 DEF Once

(* A challenge counts its answers and its sessions together.                 *)
THEOREM ChallengeInvariance == Spec => []ChallengeInv
  <1>1. Init => ChallengeInv
    <2> SUFFICES ASSUME Init, NEW h \in Handles PROVE Once(h)
      BY DEF ChallengeInv
    <2>1. Answerers(h) = {}
      BY DEF Init, Answerers, AnswerSteps, Idle
    <2>2. Cardinality(Answerers(h)) = 0
      BY <2>1, FS_EmptySet
    <2>. QED
      BY <2>1, <2>2 DEF Init, Once, Counts, Waits
  <1>2. ASSUME TypeInv, ChallengeInv, [Next]_vars PROVE ChallengeInv'
    <2> SUFFICES ASSUME NEW h \in Handles PROVE Once(h)'
      BY DEF ChallengeInv
    <2>1. CASE UNCHANGED vars
      <3>1. req' = req /\ challenge' = challenge /\ spent' = spent /\ crowd' = crowd
        BY <2>1 DEF vars, cacheVars, counts, overlaps
      <3>2. Answerers(h)' = Answerers(h) /\ Counts(h) /\ Waits(h)
        BY <1>2, <3>1 DEF Answerers, ChallengeInv, Once
      <3>3. Counts(h)'
        BY <3>1, <3>2 DEF Counts
      <3>4. Waits(h)'
        BY <3>1, <3>2 DEF Waits
      <3>. QED
        BY <3>3, <3>4 DEF Once
    <2>2. ASSUME NEW r \in Reqs, Handle(r) PROVE Once(h)'
      <3>1. ReqMove(r)
        BY <1>2, <2>2, ReqMoves
      <3>. QED
        BY <1>2, <2>2, <3>1, QuietSteps, QuietStep, ConsumePeekStep, CodePeekStep, SpendStep
           DEF Handle, Finalize
    <2>. QED
      BY <1>2, <2>1, <2>2, AroundChallenge DEF Next
  <1>. QED
    BY <1>1, <1>2, TypeInvariance, PTL DEF Spec

(* A TFA challenge lets no more logins through, by links and by codes, than   *)
(* there were requests answering it at one time.                              *)
THEOREM ChallengeLoginsAreBoundedHolds == Spec => []ChallengeLoginsAreBounded
  <1>1. ASSUME TypeInv, ChallengeInv, NEW h \in Handles PROVE spent[h] <= crowd[h]
    <2>1. Counts(h) /\ spent[h] \in Nat /\ crowd[h] \in Nat
      BY <1>1 DEF ChallengeInv, Once, TypeInv, TypeOK
    <2>. QED
      BY <2>1, AnswererTypes DEF Counts
  <1>2. TypeInv /\ ChallengeInv => ChallengeLoginsAreBounded
    BY <1>1 DEF ChallengeLoginsAreBounded
  <1>. QED
    BY <1>2, TypeInvariance, ChallengeInvariance, PTL

------------------------------------------------------------------------------
(* LoginLink implements LoginLinkPromise while no two decisions overlap.     *)

(* A step that moves no row between none and the rest, and writes no decision *)
(* and no login, is a stutter of the promise.                                 *)
LEMMA Stutter ==
    ASSUME approvals' = approvals, rejections' = rejections, logins' = logins,
           \A l \in Links : row'[l] = "none" <=> row[l] = "none"
    PROVE  Phase' = Phase /\ logins' = logins
  BY DEF Phase

(* A row that appears has no verdict yet.                                    *)
LEMMA AskStep ==
    ASSUME LinkInv, NEW l \in Links, row[l] = "none", row' = [row EXCEPT ![l] = "pending"],
           row \in [Links -> Statuses \cup {"none", "gone"}],
           approvals' = approvals, rejections' = rejections, logins' = logins
    PROVE  Promise!Ask(l)
  <1>1. approvals[l] = 0 /\ rejections[l] = 0
    BY DEF LinkInv, Single, Undecided
  <1>2. Phase[l] = "none" /\ \A k \in Links : Phase'[k] = IF k = l THEN "open" ELSE Phase[k]
    BY <1>1 DEF Phase
  <1>3. Phase' = [Phase EXCEPT ![l] = "open"]
    BY <1>2 DEF Phase
  <1>. QED
    BY <1>2, <1>3 DEF Promise!Ask

(* The only decision in flight decides a link that is open.                  *)
LEMMA DecideStep ==
    ASSUME TypeInv, LinkInv, overlapped = {}, NEW r \in Reqs, WriteDecision(r), NEW l \in Links,
           l = req[r].link, row[l] # "gone"
    PROVE  Promise!Decide(l, "approved") \/ Promise!Decide(l, "rejected")
  <1>1. req[r].pc = "decide" /\ req[r].wants \in {"approved", "rejected"}
    BY DEF WriteDecision, At, TypeInv, ReqOK, WellFormed, Coded, Bound
  <1>2. approvals[l] = 0 /\ rejections[l] = 0 /\ row[l] # "none"
    BY <1>1 DEF LinkInv, Single, Fresh, Undecided, On, At
  <1>3. row' = [row EXCEPT ![l] = req[r].wants] /\ logins' = logins
    BY DEF WriteDecision
  <1>4. IF req[r].wants = "approved" THEN approvals' = [approvals EXCEPT ![l] = 1] /\ rejections' = rejections
                                     ELSE rejections' = [rejections EXCEPT ![l] = 1] /\ approvals' = approvals
    BY <1>2 DEF WriteDecision, Plus1, TypeInv, TypeOK
  <1>5. row \in [Links -> Statuses \cup {"none", "gone"}] /\ approvals \in [Links -> Nat] /\ rejections \in [Links -> Nat]
    BY DEF TypeInv, TypeOK
  <1>6. Phase[l] = "open" /\ \A k \in Links : Phase'[k] = IF k = l THEN req[r].wants ELSE Phase[k]
    BY <1>1, <1>2, <1>3, <1>4, <1>5 DEF Phase
  <1>7. Phase' = [Phase EXCEPT ![l] = req[r].wants]
    BY <1>6 DEF Phase
  <1>. QED
    BY <1>1, <1>3, <1>6, <1>7 DEF Promise!Decide

(* A session is issued for an approved link that had none.                   *)
LEMMA LoginStep ==
    ASSUME TypeInv, LinkInv, overlapped = {}, NEW r \in Reqs, IssueSession(r), user, NEW l \in Links,
           l = req[r].link
    PROVE  Promise!Login(l)
  <1>1. r \in Finalizers(l) /\ row[l] # "none"
    BY DEF IssueSession, At, Finalizers, Finalizing, LinkInv, Fresh
  <1>2. InFlight(l) \in Nat /\ InFlight(l) > 0
    BY <1>1, InFlightNat
  <1>3. logins[l] + InFlight(l) <= claims[l] /\ claims[l] <= approvals[l] /\ approvals[l] + rejections[l] <= 1
    BY LinkTypes DEF LinkInv, Counted, Single
  <1>4. approvals[l] > 0 /\ logins[l] = 0
    BY <1>2, <1>3, LinkTypes
  <1>5. Phase[l] = "approved"
    BY <1>1, <1>4 DEF Phase
  <1>6. Phase' = Phase
    BY DEF IssueSession, rowVars, Phase
  <1>7. logins' = [logins EXCEPT ![l] = 1]
    BY <1>4 DEF IssueSession, Plus1, TypeInv, TypeOK
  <1>. QED
    BY <1>4, <1>5, <1>6, <1>7 DEF Promise!Login

(* Every step of the handlers is a step of the promise, or a stutter.        *)
LEMMA PromiseStep ==
    ASSUME TypeInv, LinkInv, overlapped = {}, [Next]_vars
    PROVE  [Promise!Next]_<<Phase, logins>>
  <1>0. row \in [Links -> Statuses \cup {"none", "gone"}]
    BY DEF TypeInv, TypeOK
  <1> USE DEF rowVars, counts
  <1>1. CASE UNCHANGED vars
    BY <1>1, Stutter DEF vars
  <1>2. ASSUME NEW l \in Links, CreateSignin(l) PROVE Promise!Next
    BY <1>0, <1>2, AskStep DEF CreateSignin, Promise!Next
  <1>3. CASE DeleteUser
    <2>1. \A l \in Links : row'[l] = "none" <=> row[l] = "none"
      BY <1>3 DEF DeleteUser, Statuses
    <2>. QED
      BY <1>3, <2>1, Stutter DEF DeleteUser
  <1>4. ASSUME NEW l \in Links, Lapse(l) \/ ForgetTrust(l) PROVE UNCHANGED <<Phase, logins>>
    BY <1>4, Stutter DEF Lapse, ForgetTrust
  <1>5. ASSUME NEW h \in Handles, OpenChallenge(h) \/ EndChallenge(h) PROVE UNCHANGED <<Phase, logins>>
    BY <1>5, Stutter DEF OpenChallenge, EndChallenge
  <1>6. ASSUME NEW r \in Reqs, Handle(r) PROVE [Promise!Next]_<<Phase, logins>>
    <2> USE DEF Coded
    <2>1. req[r].pc \notin Coded \cup {"idle"} => req[r].link \in Links
      BY DEF TypeInv, ReqOK, WellFormed
    <2>2. req[r].pc \notin Coded \cup {"idle", "insert"} => row[req[r].link] # "none"
      BY <2>1 DEF LinkInv, Fresh
    <2>3. CASE InsertLink(r)
      <3>1. row[req[r].link] = "none" /\ req[r].link \in Links
        BY <2>1, <2>3 DEF InsertLink, LinkInv, Fresh, On, At
      <3>2. CASE user
        BY <1>0, <2>3, <3>1, <3>2, AskStep DEF InsertLink, Promise!Next
      <3>3. CASE ~user
        BY <2>3, <3>3, Stutter DEF InsertLink
      <3>. QED
        BY <3>2, <3>3
    <2>4. CASE WriteDecision(r)
      <3>1. req[r].link \in Links
        BY <2>1, <2>4 DEF WriteDecision, At
      <3>2. CASE row[req[r].link] = "gone"
        BY <2>4, <3>2, Stutter DEF WriteDecision
      <3>3. CASE row[req[r].link] # "gone"
        BY <2>4, <3>1, <3>3, DecideStep DEF Promise!Next
      <3>. QED
        BY <3>2, <3>3
    <2>5. CASE WriteExpired(r)
      <3>1. \A l \in Links : row'[l] = "none" <=> row[l] = "none"
        BY <1>0, <2>1, <2>2, <2>5 DEF WriteExpired, At
      <3>. QED
        BY <2>5, <3>1, Stutter DEF WriteExpired
    <2>6. CASE Claim(r)
      <3>1. \A l \in Links : row'[l] = "none" <=> row[l] = "none"
        BY <1>0, <2>1, <2>2, <2>6 DEF Claim, At
      <3>. QED
        BY <2>6, <3>1, Stutter DEF Claim
    <2>7. CASE IssueSession(r)
      <3>1. req[r].link \in Links
        BY <2>1, <2>7 DEF IssueSession, At
      <3>2. CASE user
        BY <2>7, <3>1, <3>2, LoginStep DEF Promise!Next
      <3>3. CASE ~user
        BY <2>7, <3>3, Stutter DEF IssueSession
      <3>. QED
        BY <3>2, <3>3
    <2>8. CASE StashTrust(r) \/ Reread(r) \/ ConsumePeek(r) \/ ConsumeDrop(r) \/ ReadOwner(r)
      BY <2>8, Stutter DEF StashTrust, Reread, ConsumePeek, ConsumeDrop, ReadOwner
    <2>9. CASE ReadTrust(r) \/ TrustDevice(r) \/ DropTrust(r) \/ Abort(r)
      BY <2>9, Stutter DEF ReadTrust, TrustDevice, DropTrust, Abort
    <2>10. ASSUME NEW l \in Links, PollLapsed(r, l) \/ PollApproved(r, l) PROVE UNCHANGED <<Phase, logins>>
      BY <2>10, Stutter DEF PollLapsed, PollApproved
    <2>11. ASSUME NEW l \in Links, NEW v, RespondRead(r, l, v) PROVE UNCHANGED <<Phase, logins>>
      BY <2>11, Stutter DEF RespondRead
    <2>12. ASSUME NEW l, NEW h, NEW w, CreateTfa(r, l, h, w) PROVE UNCHANGED <<Phase, logins>>
      BY <2>12, Stutter DEF CreateTfa
    <2>13. CASE CodeLook(r) \/ CodeDelete(r) \/ CodeLogin(r)
      BY <2>13, Stutter DEF CodeLook, CodeDelete, CodeLogin
    <2>14. ASSUME NEW h, CodePeek(r, h) PROVE UNCHANGED <<Phase, logins>>
      BY <2>14, Stutter DEF CodePeek
    <2>. QED
      BY <1>6, <2>3, <2>4, <2>5, <2>6, <2>7, <2>8, <2>9, <2>10, <2>11, <2>12, <2>13, <2>14
         DEF Handle, Finalize
  <1>. QED
    BY <1>1, <1>2, <1>3, <1>4, <1>5, <1>6 DEF Next, Around

(* The handlers keep the promise of a link: one verdict, and one login at     *)
(* most after an approval, while no two decisions about a link overlap.       *)
THEOREM PromiseKeptHolds == SerialSpec => PromiseKept
  <1>1. Init => Promise!Init
    BY DEF Init, Promise!Init, Phase
  <1>2. SerialSpec => Spec
    <2>1. [Next /\ overlapped' = {}]_vars => [Next]_vars
      OBVIOUS
    <2>. QED
      BY <2>1, PTL DEF SerialSpec, Spec
  <1>3. SerialSpec => [](overlapped = {})
    <2>1. Init => overlapped = {}
      BY DEF Init
    <2>2. overlapped = {} /\ [Next /\ overlapped' = {}]_vars => (overlapped = {})'
      BY DEF vars, overlaps
    <2>. QED
      BY <2>1, <2>2, PTL DEF SerialSpec
  <1>4. TypeInv /\ LinkInv /\ overlapped = {} /\ [Next]_vars => [Promise!Next]_<<Phase, logins>>
    BY PromiseStep
  <1>. QED
    BY <1>1, <1>2, <1>3, <1>4, TypeInvariance, LinkInvariance, PTL DEF Spec, SerialSpec, PromiseKept, Promise!Spec
=============================================================================
