-------------------------- MODULE SecondFactorProofs --------------------------
(* Proofs about the second factor: TwoFactor, then Challenge, then the two    *)
(* under one specification; for every number of requests, codes, batches,     *)
(* challenges and attempts.                                                   *)
EXTENDS MCSecondFactor, FiniteSetTheorems, TLAPS

USE BatchesAssumption, AttemptsAssumption

(* The codes stored so far, of whatever row.                                 *)
Stored(n) == (1..n) \X Slots

(* What a request holds was stored before.                                   *)
WellFormed(x, n) ==
    /\ x.pc \in {"rewrite", "renew", "unverify", "prove", "enable", "spend"} => x.row \in 1..n
    /\ x.pc = "tell" => x.batch \in 1..n
    /\ x.pc \in {"prove", "enable"} => x.saw \in Batches /\ x.method \in {"totp", "otp"}
    /\ x.pc \in {"auth", "prove", "disable"} => x.held \in SUBSET BOOLEAN
    /\ x.pc = "spend" => x.code \in Stored(n) /\ x.left \subseteq Stored(n)
    /\ x.pc \in {"disable", "erase"} => x.rows \subseteq 1..n

TypeInv ==
    /\ TwoFactorTypeOK
    /\ rows \subseteq 1..batch /\ verified \subseteq rows /\ shown \in 0..batch
    /\ \A i \in Batches : codes[i] \subseteq Stored(batch)
    /\ used \subseteq Stored(batch)
    /\ \A r \in Reqs : WellFormed(req[r], batch)

(* What a step of request r does to req.                                     *)
ReqMove(r) ==
    /\ req' = [req EXCEPT ![r] = req'[r]]
    /\ req'[r] \in TwoFactorTasks \cup {Idle}
    /\ WellFormed(req'[r], batch')

------------------------------------------------------------------------------
(* Batches of codes: the next one is new.                                    *)
LEMMA Grows ==
    ASSUME NEW n \in Nat
    PROVE  /\ Stored(n) \subseteq Stored(n + 1) /\ Batch(n + 1) \subseteq Stored(n + 1)
           /\ Stored(n) \cap Batch(n + 1) = {}
           /\ 1..n \subseteq 1..(n + 1) /\ n + 1 \in 1..(n + 1) /\ n + 1 \notin 1..n
  BY DEF Stored, Batch

LEMMA StoredTypes ==
    ASSUME NEW n \in 0..MaxBatches
    PROVE  Stored(n) \subseteq AllCodes /\ 1..n \subseteq Batches
  BY DEF Stored, AllCodes, Batches

(* A request that ends becomes idle.                                         *)
LEMMA IdleWellFormed == \A n : WellFormed(Idle, n)
  BY DEF Idle, WellFormed

LEMMA FinishMoves ==
    ASSUME TypeInv, NEW r \in Reqs, Finish(r)
    PROVE  ReqMove(r) /\ req'[r] = Idle
  BY IdleWellFormed DEF Finish, ReqMove, TypeInv, TwoFactorTypeOK

(* A batch that is stored is the next one.                                   *)
LEMMA StoreStores ==
    ASSUME TypeInv, NEW i \in Batches, Store(i)
    PROVE  /\ batch \in Nat /\ batch' = batch + 1 /\ batch' \in 0..MaxBatches /\ batch' \in Batches
           /\ codes' = [codes EXCEPT ![i] = Batch(batch')]
           /\ codes' \in [Batches -> SUBSET AllCodes]
           /\ \A j \in Batches : codes'[j] \subseteq Stored(batch')
           /\ used \subseteq Stored(batch') /\ 0..batch \subseteq 0..batch'
           /\ \A q \in Reqs : WellFormed(req[q], batch')
  <1>1. /\ batch \in Nat /\ batch' = batch + 1 /\ batch' \in 0..MaxBatches /\ batch' \in Batches
        /\ codes' = [codes EXCEPT ![i] = Batch(batch')]
    BY DEF Store, TypeInv, TwoFactorTypeOK, Batches
  <1>2. Stored(batch) \subseteq Stored(batch') /\ Batch(batch') \subseteq Stored(batch') /\ 1..batch \subseteq 1..batch'
    BY <1>1, Grows
  <1>3. Stored(batch') \subseteq AllCodes
    BY <1>1, StoredTypes
  <1>4. codes \in [Batches -> SUBSET AllCodes] /\ \A j \in Batches : codes[j] \subseteq Stored(batch)
    BY DEF TypeInv, TwoFactorTypeOK
  <1>5. codes' \in [Batches -> SUBSET AllCodes] /\ \A j \in Batches : codes'[j] \subseteq Stored(batch')
    BY <1>1, <1>2, <1>3, <1>4
  <1>6. ASSUME NEW q \in Reqs PROVE WellFormed(req[q], batch')
    <2>1. WellFormed(req[q], batch)
      BY DEF TypeInv
    <2>. QED
      BY <1>2, <2>1 DEF WellFormed
  <1>7. 0..batch \subseteq 0..batch'
    BY <1>1
  <1>. QED
    BY <1>1, <1>2, <1>5, <1>6, <1>7 DEF TypeInv

(* The tasks a handler starts with, or goes on with.                         *)
LEMMA TaskMoves ==
    ASSUME TypeInv, NEW r \in Reqs, NEW x \in TwoFactorTasks, WellFormed(x, batch'),
           Enter(r, x) \/ Hold(r, x) \/ Become(r, x)
    PROVE  ReqMove(r) /\ req'[r] = x
  BY DEF Enter, Hold, Become, ReqMove, TypeInv, TwoFactorTypeOK

(* What a request knows of the flag.                                         *)
LEMMA FlagTypes ==
    ASSUME TypeInv, NEW r \in Reqs
    PROVE  Held(r) \in SUBSET BOOLEAN /\ (At(r, "prove") \/ At(r, "disable") => Selected(r) \in SUBSET BOOLEAN)
  <1>1. WellFormed(req[r], batch) /\ enabled \in BOOLEAN
    BY DEF TypeInv, TwoFactorTypeOK
  <1>. QED
    BY <1>1 DEF WellFormed, Held, Selected, At

(* Every step of a request moves only that request.                          *)
LEMMA ReqMoves ==
    ASSUME TypeInv, NEW r \in Reqs, TwoFactorStep(r)
    PROVE  ReqMove(r)
  <1>0. /\ rows \subseteq 1..batch /\ 1..batch \subseteq Batches /\ verified \subseteq rows
        /\ batch \in 0..MaxBatches /\ secret \in [Batches -> Batches]
        /\ codes \in [Batches -> SUBSET AllCodes] /\ enabled \in BOOLEAN
        /\ \A i \in Batches : codes[i] \subseteq Stored(batch)
        /\ WellFormed(req[r], batch) /\ Held(r) \in SUBSET BOOLEAN
    BY StoredTypes, FlagTypes DEF TypeInv, TwoFactorTypeOK
  <1>1. CASE SetupRead(r)
    <2>1. CASE Enter(r, [pc |-> "create"])
      <3>1. [pc |-> "create"] \in TwoFactorTasks /\ WellFormed([pc |-> "create"], batch')
        BY DEF TwoFactorTasks, WellFormed
      <3>. QED
        BY <2>1, <3>1, TaskMoves
    <2>2. ASSUME NEW i \in rows, Enter(r, [pc |-> "rewrite", row |-> i]) PROVE ReqMove(r)
      <3>1. [pc |-> "rewrite", row |-> i] \in TwoFactorTasks /\ WellFormed([pc |-> "rewrite", row |-> i], batch')
        BY <1>0, <1>1 DEF TwoFactorTasks, WellFormed, SetupRead
      <3>. QED
        BY <2>2, <3>1, TaskMoves
    <2>. QED
      BY <1>1, <2>1, <2>2 DEF SetupRead
  <1>2. ASSUME NEW m \in {"totp", "otp"}, VerifyRead(r, m) PROVE ReqMove(r)
    <2>1. PICK i \in rows : Hold(r, [pc |-> "prove", row |-> i, saw |-> secret[i], method |-> m, held |-> Held(r)])
      BY <1>2 DEF VerifyRead
    <2>. DEFINE x == [pc |-> "prove", row |-> i, saw |-> secret[i], method |-> m, held |-> Held(r)]
    <2>2. x \in TwoFactorTasks /\ WellFormed(x, batch')
      BY <1>0, <1>2 DEF TwoFactorTasks, WellFormed, VerifyRead
    <2>. QED
      BY <2>1, <2>2, TaskMoves
  <1>3. CASE VerifyCode(r)
    <2>1. PICK on \in Selected(r) : Become(r, [pc |-> "enable", row |-> req[r].row, saw |-> req[r].saw,
                                              method |-> req[r].method, on |-> on])
      BY <1>3 DEF VerifyCode
    <2>. DEFINE x == [pc |-> "enable", row |-> req[r].row, saw |-> req[r].saw, method |-> req[r].method, on |-> on]
    <2>2. on \in BOOLEAN /\ batch' = batch /\ At(r, "prove")
      BY <1>3, FlagTypes DEF VerifyCode
    <2>3. x \in TwoFactorTasks /\ WellFormed(x, batch')
      BY <1>0, <2>2 DEF TwoFactorTasks, WellFormed, At
    <2>. QED
      BY <2>1, <2>3, TaskMoves
  <1>4. CASE DisableRead(r)
    <2>. DEFINE x == [pc |-> "disable", rows |-> rows, held |-> Held(r)]
    <2>1. x \in TwoFactorTasks /\ WellFormed(x, batch')
      BY <1>0, <1>4 DEF TwoFactorTasks, WellFormed, DisableRead
    <2>. QED
      BY <1>4, <2>1, TaskMoves DEF DisableRead
  <1>5. CASE DisableUser(r)
    <2>1. PICK on \in Selected(r) : Become(r, [pc |-> "erase", rows |-> req[r].rows, on |-> on])
      BY <1>5 DEF DisableUser
    <2>. DEFINE x == [pc |-> "erase", rows |-> req[r].rows, on |-> on]
    <2>2. on \in BOOLEAN /\ batch' = batch /\ At(r, "disable")
      BY <1>5, FlagTypes DEF DisableUser, twoFactorVars
    <2>3. x \in TwoFactorTasks /\ WellFormed(x, batch')
      BY <1>0, <2>2 DEF TwoFactorTasks, WellFormed, At
    <2>. QED
      BY <2>1, <2>3, TaskMoves
  <1>6. CASE RemoveRead(r)
    <2>1. PICK i \in rows : Enter(r, [pc |-> "unverify", row |-> i])
      BY <1>6 DEF RemoveRead
    <2>2. [pc |-> "unverify", row |-> i] \in TwoFactorTasks /\ WellFormed([pc |-> "unverify", row |-> i], batch')
      BY <1>0, <1>6 DEF TwoFactorTasks, WellFormed, RemoveRead
    <2>. QED
      BY <2>1, <2>2, TaskMoves
  <1>7. CASE RenewRead(r)
    <2>1. PICK i \in rows : Enter(r, [pc |-> "renew", row |-> i])
      BY <1>7 DEF RenewRead
    <2>2. [pc |-> "renew", row |-> i] \in TwoFactorTasks /\ WellFormed([pc |-> "renew", row |-> i], batch')
      BY <1>0, <1>7 DEF TwoFactorTasks, WellFormed, RenewRead
    <2>. QED
      BY <2>1, <2>2, TaskMoves
  <1>8. ASSUME NEW c \in AllCodes, BackupRead(r, c) PROVE ReqMove(r)
    <2>1. PICK i \in rows : c \in codes[i] /\ Enter(r, [pc |-> "spend", row |-> i, code |-> c, left |-> codes[i] \ {c}])
      BY <1>8 DEF BackupRead
    <2>. DEFINE x == [pc |-> "spend", row |-> i, code |-> c, left |-> codes[i] \ {c}]
    <2>2. codes[i] \in SUBSET AllCodes /\ codes[i] \subseteq Stored(batch)
      BY <1>0
    <2>3. x \in TwoFactorTasks /\ WellFormed(x, batch')
      BY <1>0, <1>8, <2>1, <2>2 DEF TwoFactorTasks, WellFormed, BackupRead
    <2>. QED
      BY <2>1, <2>3, TaskMoves
  <1>9. CASE Authenticate(r)
    <2>. DEFINE x == [pc |-> "auth", held |-> {enabled}]
    <2>1. x \in TwoFactorTasks /\ WellFormed(x, batch')
      BY <1>0 DEF TwoFactorTasks, WellFormed
    <2>. QED
      BY <1>9, <2>1, TaskMoves DEF Authenticate
  <1>10. CASE RenewWrite(r)
    <2>. DEFINE x == [pc |-> "tell", batch |-> batch + 1]
    <2>1. req[r].row \in Batches /\ Store(req[r].row) /\ Become(r, x)
      BY <1>0, <1>10 DEF RenewWrite, At, WellFormed
    <2>2. batch \in Nat /\ batch' = batch + 1 /\ batch' \in Batches
      BY <2>1, StoreStores
    <2>3. x \in TwoFactorTasks /\ WellFormed(x, batch')
      BY <2>2 DEF TwoFactorTasks, WellFormed
    <2>. QED
      BY <2>1, <2>3, TaskMoves
  <1>11. CASE Finish(r)
    BY <1>11, FinishMoves
  <1>. QED
    BY <1>1, <1>2, <1>3, <1>4, <1>5, <1>6, <1>7, <1>8, <1>9, <1>10, <1>11
    DEF TwoFactorStep, SetupCreate, SetupRewrite, SetupAnswer, VerifyEnable, DisableErase, RemoveWrite, RenewTell,
        BackupSpend, TwoFactorAbort

(* Every step keeps the types.                                               *)
LEMMA FactorTypeStep == TypeInv /\ [TwoFactorNext]_<<req, twoFactorVars>> => TypeInv'
  <1> SUFFICES ASSUME TypeInv, [TwoFactorNext]_<<req, twoFactorVars>> PROVE TypeInv'
    OBVIOUS
  <1>1. ASSUME NEW r \in Reqs, TwoFactorStep(r) PROVE TypeInv'
    <2>1. req' \in [Reqs -> TwoFactorTasks \cup {Idle}] /\ \A q \in Reqs \ {r} : req'[q] = req[q]
      BY <1>1, ReqMoves DEF ReqMove, TypeInv, TwoFactorTypeOK
    <2>a. WellFormed(req'[r], batch')
      BY <1>1, ReqMoves DEF ReqMove
    <2>b. ASSUME batch' = batch PROVE \A q \in Reqs : WellFormed(req'[q], batch')
      BY <2>1, <2>a, <2>b DEF TypeInv
    <2>c. ASSUME NEW i \in Batches, Store(i) PROVE \A q \in Reqs : WellFormed(req'[q], batch')
      BY <2>1, <2>a, <2>c, StoreStores
    <2>2. WellFormed(req[r], batch) /\ 1..batch \subseteq Batches /\ batch \in 0..MaxBatches
      BY StoredTypes DEF TypeInv, TwoFactorTypeOK
    <2>3. ASSUME NEW x, Enter(r, x) \/ Hold(r, x) PROVE raced' \in SUBSET Contents
      BY <2>3 DEF Enter, Hold, TypeInv, TwoFactorTypeOK
    <2>4. CASE SetupRead(r) \/ DisableRead(r) \/ RemoveRead(r) \/ RenewRead(r) \/ Authenticate(r)
               \/ (\E m \in {"totp", "otp"} : VerifyRead(r, m)) \/ (\E c \in AllCodes : BackupRead(r, c))
      <3>1. raced' \in SUBSET Contents /\ UNCHANGED <<batch, rows, columns, enabled, shown, proven, spending>>
        BY <2>3, <2>4 DEF SetupRead, DisableRead, RemoveRead, RenewRead, Authenticate, VerifyRead,
                             BackupRead
      <3>. QED
        BY <2>1, <2>b, <3>1 DEF TypeInv, TwoFactorTypeOK, columns, spending
    <2>5. CASE SetupCreate(r)
      <3>1. Store(batch + 1) /\ batch + 1 \in Batches
        BY <2>2, <2>5 DEF SetupCreate, Store, Batches
      <3>2. /\ batch \in Nat /\ batch' = batch + 1 /\ batch' \in Batches /\ batch' \in 0..MaxBatches
            /\ 0..batch \subseteq 0..batch'
        BY <3>1, StoreStores
      <3>3. 1..batch \subseteq 1..batch' /\ batch' \in 1..batch' /\ 1..batch' \subseteq Batches
        BY <2>2, <3>2, Grows, StoredTypes
      <3>4. rows' \subseteq 1..batch' /\ verified' \subseteq rows' /\ secret' \in [Batches -> Batches]
        BY <2>5, <3>2, <3>3 DEF SetupCreate, TypeInv, TwoFactorTypeOK
      <3>5. shown' \in 0..batch' /\ shown' \in 0..MaxBatches
        BY <2>5, <3>2 DEF SetupCreate, SetupAnswer, TypeInv
      <3>. QED
        BY <2>1, <2>5, <2>c, <3>1, <3>2, <3>4, <3>5, StoreStores DEF SetupCreate, TypeInv, TwoFactorTypeOK, spending
    <2>6. CASE SetupRewrite(r) \/ RenewWrite(r)
      <3>1. req[r].row \in Batches /\ Store(req[r].row)
        BY <2>2, <2>6 DEF SetupRewrite, RenewWrite, At, WellFormed
      <3>2. /\ batch \in Nat /\ batch' = batch + 1 /\ batch' \in Batches /\ 1..batch \subseteq 1..batch'
            /\ 0..batch \subseteq 0..batch' /\ batch' \in 0..MaxBatches
        BY <2>2, <3>1, StoreStores, Grows
      <3>3. rows \subseteq 1..batch' /\ secret' \in [Batches -> Batches]
        BY <2>6, <3>1, <3>2 DEF SetupRewrite, RenewWrite, TypeInv, TwoFactorTypeOK
      <3>4. shown' \in 0..batch' /\ shown' \in 0..MaxBatches
        BY <2>6, <3>2 DEF SetupRewrite, SetupAnswer, RenewWrite, TypeInv
      <3>. QED
        BY <2>1, <2>6, <2>c, <3>1, <3>2, <3>3, <3>4, StoreStores
        DEF SetupRewrite, RenewWrite, TypeInv, TwoFactorTypeOK, spending
    <2>7. CASE VerifyCode(r)
      BY <2>1, <2>b, <2>2, <2>7 DEF VerifyCode, At, WellFormed, TypeInv, TwoFactorTypeOK, columns, spending
    <2>8. CASE VerifyEnable(r)
      BY <2>1, <2>b, <2>2, <2>8 DEF VerifyEnable, At, WellFormed, TypeInv, TwoFactorTypeOK, spending
    <2>9. CASE DisableErase(r) \/ RemoveWrite(r)
      BY <2>1, <2>b, <2>2, <2>9 DEF DisableErase, RemoveWrite, At, WellFormed, TypeInv, TwoFactorTypeOK, spending
    <2>10. CASE BackupSpend(r)
      <3>1. req[r].row \in Batches /\ req[r].code \in Stored(batch) /\ req[r].left \subseteq Stored(batch)
            /\ Stored(batch) \subseteq AllCodes
        BY <2>2, <2>10, StoredTypes DEF BackupSpend, At, WellFormed
      <3>. QED
        BY <2>1, <2>b, <2>2, <2>10, <3>1 DEF BackupSpend, TypeInv, TwoFactorTypeOK
    <2>11. CASE DisableUser(r) \/ TwoFactorAbort(r)
      BY <2>1, <2>b, <2>11 DEF DisableUser, TwoFactorAbort, twoFactorVars, TypeInv, TwoFactorTypeOK, columns, spending
    <2>12. CASE RenewTell(r)
      <3>1. req[r].batch \in 1..batch
        BY <2>2, <2>12 DEF RenewTell, At, WellFormed
      <3>2. shown' \in 0..batch /\ shown' \in 0..MaxBatches
        BY <2>2, <2>12, <3>1 DEF RenewTell
      <3>. QED
        BY <2>1, <2>b, <2>12, <3>2 DEF RenewTell, TypeInv, TwoFactorTypeOK, columns, spending
    <2>. QED
      BY <1>1, <2>4, <2>5, <2>6, <2>7, <2>8, <2>9, <2>10, <2>11, <2>12 DEF TwoFactorStep
  <1>2. CASE UNCHANGED <<req, twoFactorVars>>
    BY <1>2 DEF twoFactorVars, columns, spending, TypeInv, TwoFactorTypeOK
  <1>. QED
    BY <1>1, <1>2 DEF TwoFactorNext

LEMMA FactorTypeBegins == HandlersInit /\ TwoFactorInit => TypeInv
  <1> SUFFICES ASSUME HandlersInit, TwoFactorInit PROVE TypeInv
    OBVIOUS
  <1>1. TwoFactorTypeOK
    <2>1. req \in [Reqs -> TwoFactorTasks \cup {Idle}]
      BY DEF HandlersInit
    <2>2. secret \in [Batches -> Batches] /\ codes \in [Batches -> SUBSET AllCodes]
      BY DEF TwoFactorInit
    <2>3. batch \in 0..MaxBatches /\ shown \in 0..MaxBatches
      BY DEF TwoFactorInit
    <2>4. enabled \in BOOLEAN
      BY DEF TwoFactorInit
    <2>. QED
      BY <2>1, <2>2, <2>3, <2>4 DEF TwoFactorInit, TwoFactorTypeOK
  <1>. QED
    BY <1>1, IdleWellFormed DEF HandlersInit, TwoFactorInit, TypeInv

THEOREM TypeInvariance == TwoFactorSpec => []TypeInv
  BY FactorTypeBegins, FactorTypeStep, PTL DEF TwoFactorSpec

(* Every variable keeps its type.                                            *)
THEOREM TwoFactorTypeCorrect == TwoFactorSpec => []TwoFactorTypeOK
  <1>1. TypeInv => TwoFactorTypeOK
    BY DEF TypeInv
  <1>. QED
    BY <1>1, TypeInvariance, PTL

------------------------------------------------------------------------------
(* What is not in raced is written by one handler at a time.                 *)
AloneInv == \A w \in Contents \ raced : \A r, q \in Reqs :
                req[r].pc \in Writers(w) /\ req[q].pc \in Writers(w) => r = q

LEMMA WritersAre ==
    /\ Writers("rows") = {"create"} /\ Writers("codes") = {"rewrite", "renew", "spend"}
    /\ Writers("secret") = {"rewrite", "prove", "enable"}
    /\ Writers("flag") = {"auth", "prove", "enable", "disable", "erase"}
    /\ Contents = {"rows", "codes", "secret", "flag"}
  BY DEF Writers, Contents

(* A handler that was not writing w before a step and does not start then is  *)
(* not writing it after.                                                      *)
LEMMA AloneStep == TypeInv /\ AloneInv /\ [TwoFactorNext]_<<req, twoFactorVars>> => AloneInv'
  <1> SUFFICES ASSUME TypeInv, AloneInv, [TwoFactorNext]_<<req, twoFactorVars>> PROVE AloneInv'
    OBVIOUS
  <1>1. ASSUME NEW r \in Reqs, TwoFactorStep(r) PROVE AloneInv'
    <2>0. req' = [req EXCEPT ![r] = req'[r]] /\ req \in [Reqs -> TwoFactorTasks \cup {Idle}]
      BY <1>1, ReqMoves DEF ReqMove, TypeInv, TwoFactorTypeOK
    <2>1. ASSUME NEW x, Enter(r, x) \/ Hold(r, x) PROVE AloneInv'
      BY <2>0, <2>1 DEF Enter, Hold, Become, Beside, AloneInv
    <2>2. ASSUME raced' = raced, \A w \in Contents : req'[r].pc \in Writers(w) => req[r].pc \in Writers(w)
          PROVE AloneInv'
      BY <2>0, <2>2 DEF AloneInv
    <2>3. \A w \in Contents : Idle.pc \notin Writers(w)
      BY WritersAre DEF Idle
    <2>4. ASSUME raced' = raced, Finish(r) PROVE AloneInv'
      BY <2>0, <2>2, <2>3, <2>4 DEF Finish
    <2>5. CASE VerifyCode(r)
      <3>1. req'[r].pc = "enable" /\ req[r].pc = "prove" /\ raced' = raced
        BY <2>0, <2>5 DEF VerifyCode, Become, At
      <3>. QED
        BY <2>2, <3>1, WritersAre
    <2>6. CASE DisableUser(r)
      <3>1. req'[r].pc = "erase" /\ req[r].pc = "disable" /\ raced' = raced
        BY <2>0, <2>6 DEF DisableUser, Become, At, twoFactorVars
      <3>. QED
        BY <2>2, <3>1, WritersAre
    <2>7. CASE RenewWrite(r)
      <3>1. req'[r].pc = "tell" /\ raced' = raced
        BY <2>0, <2>7 DEF RenewWrite, Become
      <3>. QED
        BY <2>2, <3>1, WritersAre
    <2>. QED
      BY <1>1, <2>1, <2>4, <2>5, <2>6, <2>7
      DEF TwoFactorStep, SetupRead, SetupCreate, SetupRewrite, VerifyRead, VerifyEnable, DisableRead, DisableErase,
          RemoveRead, RemoveWrite, RenewRead, RenewTell, BackupRead, BackupSpend, TwoFactorAbort, SetupAnswer,
          Authenticate, twoFactorVars
  <1>2. CASE UNCHANGED <<req, twoFactorVars>>
    BY <1>2 DEF twoFactorVars, AloneInv
  <1>. QED
    BY <1>1, <1>2 DEF TwoFactorNext

LEMMA AloneBegins == HandlersInit /\ TwoFactorInit => AloneInv
  BY WritersAre DEF HandlersInit, TwoFactorInit, AloneInv, Idle

------------------------------------------------------------------------------
(* The handlers of a user's one row. *)

(* A row is inserted only where there is none.                               *)
RowsInv == "rows" \notin raced =>
    /\ \A i, j \in rows : i = j
    /\ \A r \in Reqs : At(r, "create") => rows = {}

LEMMA RowsStep ==
    TypeInv /\ AloneInv /\ RowsInv /\ [TwoFactorNext]_<<req, twoFactorVars>> => RowsInv'
  <1> SUFFICES ASSUME TypeInv, AloneInv, RowsInv, [TwoFactorNext]_<<req, twoFactorVars>> PROVE RowsInv'
    OBVIOUS
  <1>1. ASSUME NEW r \in Reqs, TwoFactorStep(r) PROVE RowsInv'
    <2>0. req' = [req EXCEPT ![r] = req'[r]] /\ req \in [Reqs -> TwoFactorTasks \cup {Idle}]
      BY <1>1, ReqMoves DEF ReqMove, TypeInv, TwoFactorTypeOK
    <2>1. ASSUME rows' \subseteq rows, raced \subseteq raced', At(r, "create")' => rows' = {} PROVE RowsInv'
      BY <2>0, <2>1 DEF RowsInv, At
    <2>2. CASE SetupRead(r)
      <3>1. rows' = rows /\ raced \subseteq raced'
        BY <2>2 DEF SetupRead, Enter, Hold
      <3>2. CASE rows = {}
        BY <2>1, <3>1, <3>2
      <3>3. CASE rows # {}
        <4>1. req'[r].pc = "rewrite"
          BY <2>0, <2>2, <3>3 DEF SetupRead, Enter, Hold, Become
        <4>. QED
          BY <2>1, <3>1, <4>1 DEF At
      <3>. QED
        BY <3>2, <3>3
    <2>3. CASE SetupCreate(r)
      <3>1. /\ At(r, "create") /\ req'[r] = Idle /\ rows' = rows \cup {batch + 1} /\ raced' = raced
        BY <2>0, <2>3 DEF SetupCreate, SetupAnswer, Finish
      <3>2. ASSUME "rows" \notin raced, NEW q \in Reqs PROVE ~At(q, "create")'
        BY <2>0, <3>1, <3>2, WritersAre DEF AloneInv, At, Idle
      <3>. QED
        BY <3>1, <3>2 DEF RowsInv
    <2>4. ASSUME req'[r].pc # "create", rows' \subseteq rows, raced \subseteq raced' PROVE RowsInv'
      BY <2>1, <2>4 DEF At
    <2>5. CASE DisableRead(r) \/ RemoveRead(r) \/ RenewRead(r) \/ Authenticate(r)
               \/ (\E m \in {"totp", "otp"} : VerifyRead(r, m)) \/ (\E c \in AllCodes : BackupRead(r, c))
      <3>1. req'[r].pc # "create"
        BY <2>0, <2>5 DEF DisableRead, RemoveRead, RenewRead, Authenticate, VerifyRead, BackupRead, Enter, Hold,
                             Become
      <3>. QED
        BY <2>4, <2>5, <3>1 DEF DisableRead, RemoveRead, RenewRead, Authenticate, VerifyRead, BackupRead,
                                   Enter, Hold
    <2>6. CASE VerifyCode(r) \/ DisableUser(r) \/ RenewWrite(r)
      <3>1. req'[r].pc # "create"
        BY <2>0, <2>6 DEF VerifyCode, DisableUser, RenewWrite, Become
      <3>. QED
        BY <2>4, <2>6, <3>1 DEF VerifyCode, DisableUser, RenewWrite, twoFactorVars
    <2>7. ASSUME Finish(r), rows' \subseteq rows, raced' = raced PROVE RowsInv'
      BY <2>0, <2>4, <2>7 DEF Finish, Idle
    <2>. QED
      BY <1>1, <2>2, <2>3, <2>5, <2>6, <2>7
      DEF TwoFactorStep, SetupRewrite, VerifyEnable, DisableErase, RemoveWrite, RenewTell, BackupSpend,
          TwoFactorAbort, SetupAnswer, columns, twoFactorVars
  <1>2. CASE UNCHANGED <<req, twoFactorVars>>
    BY <1>2 DEF twoFactorVars, RowsInv, At
  <1>. QED
    BY <1>1, <1>2 DEF TwoFactorNext

LEMMA RowsBegin == HandlersInit /\ TwoFactorInit => RowsInv
  BY DEF HandlersInit, TwoFactorInit, RowsInv

LEMMA RowsMean == TypeInv /\ RowsInv => OneRecord
  <1>. SUFFICES ASSUME TypeInv, RowsInv, "rows" \notin raced PROVE Cardinality(rows) <= 1
    BY DEF OneRecord
  <1>1. CASE rows = {}
    BY <1>1, FS_EmptySet
  <1>2. CASE rows # {}
    <2>1. PICK i : rows = {i}
      BY <1>2 DEF RowsInv
    <2>2. Cardinality({i}) = 1
      BY FS_Singleton
    <2>. QED
      BY <2>1, <2>2
  <1>. QED
    BY <1>1, <1>2

(* A user has one row while no two enrolments overlap, whatever else does.   *)
THEOREM OneRecordHolds == TwoFactorSpec => []OneRecord
  BY RowsMean, TypeInvariance, AloneBegins, RowsBegin, AloneStep, RowsStep, PTL DEF TwoFactorSpec

------------------------------------------------------------------------------
(* The flag.  A handler that is to write it has read it, and while it is the  *)
(* only one the rows it enables stay and those it erases are all there are.   *)
FlagInv == "flag" \notin raced =>
    /\ enabled => rows # {}
    /\ rows \cap verified # {} => enabled
    /\ \A r \in Reqs :
          /\ req[r].pc \in {"prove", "enable"} => req[r].row \in rows
          /\ req[r].pc \in {"auth", "prove", "disable"} => req[r].held \subseteq {enabled}
          /\ req[r].pc \in {"enable", "erase"} => req[r].on = enabled
          /\ req[r].pc \in {"disable", "erase"} => rows \cap verified \subseteq req[r].rows

(* A step that writes neither the flag nor rows that count keeps FlagInv.    *)
LEMMA FlagKept ==
    ASSUME TypeInv, FlagInv, NEW r \in Reqs, req' = [req EXCEPT ![r] = req'[r]],
           rows \subseteq rows', rows' \cap verified' \subseteq rows \cap verified, enabled' = enabled,
           raced \subseteq raced', req'[r].pc \notin Writers("flag")
    PROVE  FlagInv'
  <1> SUFFICES ASSUME "flag" \notin raced' PROVE FlagInv'
    BY DEF FlagInv
  <1>1. enabled' => rows' # {}
    BY DEF FlagInv
  <1>2. rows' \cap verified' # {} => enabled'
    BY DEF FlagInv
  <1>3. ASSUME NEW q \in Reqs, q # r
        PROVE  /\ req'[q].pc \in {"prove", "enable"} => req'[q].row \in rows'
               /\ req'[q].pc \in {"auth", "prove", "disable"} => req'[q].held \subseteq {enabled'}
               /\ req'[q].pc \in {"enable", "erase"} => req'[q].on = enabled'
               /\ req'[q].pc \in {"disable", "erase"} => rows' \cap verified' \subseteq req'[q].rows
    BY <1>3 DEF FlagInv, TypeInv, TwoFactorTypeOK
  <1>. QED
    BY <1>1, <1>2, <1>3, WritersAre DEF FlagInv

(* A step that leaves the flag and the rows alone, and whose handler holds of  *)
(* them what they are, keeps it too.                                          *)
LEMMA FlagRead ==
    ASSUME TypeInv, FlagInv, NEW r \in Reqs, req' = [req EXCEPT ![r] = req'[r]],
           UNCHANGED <<rows, verified, enabled>>, raced \subseteq raced',
           "flag" \notin raced =>
             /\ req'[r].pc \in {"prove", "enable"} => req'[r].row \in rows
             /\ req'[r].pc \in {"auth", "prove", "disable"} => req'[r].held \subseteq {enabled}
             /\ req'[r].pc \in {"enable", "erase"} => req'[r].on = enabled
             /\ req'[r].pc \in {"disable", "erase"} => rows \cap verified \subseteq req'[r].rows
    PROVE  FlagInv'
  <1>1. ASSUME NEW q \in Reqs, q # r PROVE req'[q] = req[q]
    BY <1>1 DEF TypeInv, TwoFactorTypeOK
  <1>. QED
    BY <1>1 DEF FlagInv

(* Whether a handler selects its copy or the column, it has the flag.        *)
LEMMA FlagIsRead ==
    ASSUME FlagInv, "flag" \notin raced, NEW r \in Reqs
    PROVE  /\ Held(r) \subseteq {enabled}
           /\ At(r, "prove") \/ At(r, "disable") => Selected(r) = {enabled}
  <1>1. req[r].pc \in {"auth", "prove", "disable"} => req[r].held \subseteq {enabled}
    BY DEF FlagInv
  <1>2. Held(r) \subseteq {enabled}
    BY <1>1 DEF Held, At
  <1>3. ASSUME At(r, "prove") \/ At(r, "disable") PROVE Selected(r) = {enabled}
    <2>1. req[r].held = {} \/ req[r].held = {enabled}
      BY <1>1, <1>3 DEF At
    <2>. QED
      BY <2>1 DEF Selected
  <1>. QED
    BY <1>2, <1>3

LEMMA FlagStep ==
    TypeInv /\ AloneInv /\ FlagInv /\ [TwoFactorNext]_<<req, twoFactorVars>> => FlagInv'
  <1> SUFFICES ASSUME TypeInv, AloneInv, FlagInv, [TwoFactorNext]_<<req, twoFactorVars>> PROVE FlagInv'
    OBVIOUS
  <1>1. ASSUME NEW r \in Reqs, TwoFactorStep(r) PROVE FlagInv'
    <2>0. /\ req' = [req EXCEPT ![r] = req'[r]] /\ req \in [Reqs -> TwoFactorTasks \cup {Idle}]
          /\ rows \subseteq 1..batch /\ batch + 1 \notin 1..batch /\ verified \subseteq rows
      BY <1>1, ReqMoves, Grows DEF ReqMove, TypeInv, TwoFactorTypeOK
    <2>1. CASE SetupRead(r) \/ RemoveRead(r) \/ RenewRead(r) \/ \E c \in AllCodes : BackupRead(r, c)
      <3>1. /\ UNCHANGED <<rows, verified, enabled>> /\ raced \subseteq raced'
            /\ req'[r].pc \in {"create", "rewrite", "unverify", "renew", "spend"}
        BY <2>0, <2>1 DEF SetupRead, RemoveRead, RenewRead, BackupRead, Enter, Hold, Become, columns
      <3>. QED
        BY <2>0, <3>1, WritersAre, FlagKept DEF FlagInv
    <2>2. CASE SetupCreate(r)
      <3>1. /\ rows' = rows \cup {batch + 1} /\ UNCHANGED <<verified, enabled, raced>> /\ req'[r] = Idle
        BY <2>0, <2>2 DEF SetupCreate, SetupAnswer, Finish
      <3>2. rows' \cap verified' \subseteq rows \cap verified
        BY <2>0, <3>1
      <3>. QED
        BY <2>0, <3>1, <3>2, WritersAre, FlagKept DEF FlagInv, Idle
    <2>3. CASE SetupRewrite(r) \/ RemoveWrite(r) \/ RenewTell(r) \/ BackupSpend(r)
      <3>1. /\ UNCHANGED <<rows, enabled, raced>> /\ verified' \subseteq verified /\ req'[r] = Idle
        BY <2>0, <2>3 DEF SetupRewrite, SetupAnswer, RemoveWrite, RenewTell, BackupSpend, Finish, columns
      <3>. QED
        BY <2>0, <3>1, WritersAre, FlagKept DEF FlagInv, Idle
    <2>4. CASE TwoFactorAbort(r)
      <3>1. UNCHANGED <<rows, verified, enabled, raced>> /\ req'[r] = Idle
        BY <2>0, <2>4 DEF TwoFactorAbort, Finish, twoFactorVars, columns
      <3>. QED
        BY <2>0, <3>1, WritersAre, FlagKept DEF FlagInv, Idle
    <2>12. CASE RenewWrite(r)
      <3>1. UNCHANGED <<rows, verified, enabled, raced>> /\ req'[r].pc = "tell"
        BY <2>0, <2>12 DEF RenewWrite, Become
      <3>. QED
        BY <2>0, <3>1, WritersAre, FlagKept DEF FlagInv
    <2>13. CASE Authenticate(r)
      <3>1. /\ UNCHANGED <<rows, verified, enabled>> /\ raced \subseteq raced'
            /\ req'[r].pc = "auth" /\ req'[r].held = {enabled}
        BY <2>0, <2>13 DEF Authenticate, Enter, Hold, Become, columns
      <3>. QED
        BY <2>0, <3>1 DEF FlagInv
    <2>14. ASSUME "flag" \notin raced PROVE \A x : x = Held(r) => x \subseteq {enabled}
      BY <2>14, FlagIsRead
    <2>15. ASSUME "flag" \notin raced, At(r, "prove") \/ At(r, "disable") PROVE Selected(r) = {enabled}
      BY <2>15, FlagIsRead
    <2>5. ASSUME NEW m \in {"totp", "otp"}, VerifyRead(r, m) PROVE FlagInv'
      <3>1. PICK i \in rows : Hold(r, [pc |-> "prove", row |-> i, saw |-> secret[i], method |-> m,
                                     held |-> Held(r)])
        BY <2>5 DEF VerifyRead
      <3>2. /\ UNCHANGED <<rows, verified, enabled>> /\ raced \subseteq raced'
            /\ req'[r].pc = "prove" /\ req'[r].row \in rows /\ req'[r].held = Held(r)
        BY <2>0, <2>5, <3>1 DEF VerifyRead, Hold, Become, columns
      <3>3. "flag" \notin raced => req'[r].held \subseteq {enabled}
        BY <2>14, <3>2
      <3>. QED
        BY <2>0, <3>2, <3>3, FlagRead
    <2>6. CASE VerifyCode(r)
      <3>1. /\ UNCHANGED <<rows, verified, enabled, raced>> /\ At(r, "prove") /\ req'[r].pc = "enable"
            /\ req'[r].row = req[r].row /\ req'[r].on \in Selected(r)
        BY <2>0, <2>6 DEF VerifyCode, Become, At, columns
      <3>2. "flag" \notin raced => req'[r].on = enabled
        BY <2>15, <3>1
      <3>3. "flag" \notin raced => req[r].row \in rows
        BY <3>1 DEF FlagInv, At
      <3>. QED
        BY <2>0, <3>1, <3>2, <3>3, FlagRead
    <2>7. CASE DisableRead(r)
      <3>1. /\ UNCHANGED <<rows, verified, enabled>> /\ raced \subseteq raced'
            /\ req'[r].pc = "disable" /\ req'[r].rows = rows /\ req'[r].held = Held(r)
        BY <2>0, <2>7 DEF DisableRead, Hold, Become, columns
      <3>2. "flag" \notin raced => req'[r].held \subseteq {enabled}
        BY <2>14, <3>1
      <3>. QED
        BY <2>0, <3>1, <3>2, FlagRead
    <2>8. CASE DisableUser(r)
      <3>1. /\ UNCHANGED <<rows, verified, enabled, raced>> /\ At(r, "disable") /\ req'[r].pc = "erase"
            /\ req'[r].rows = req[r].rows /\ req'[r].on \in Selected(r)
        BY <2>0, <2>8 DEF DisableUser, Become, At, twoFactorVars, columns
      <3>2. "flag" \notin raced => req'[r].on = enabled
        BY <2>15, <3>1
      <3>3. "flag" \notin raced => rows \cap verified \subseteq req[r].rows
        BY <3>1 DEF FlagInv, At
      <3>. QED
        BY <2>0, <3>1, <3>2, <3>3, FlagRead
    <2>9. ASSUME "flag" \notin raced', raced' = raced, req[r].pc \in {"enable", "erase"}, req'[r] = Idle
          PROVE  \A q \in Reqs : req'[q].pc \notin {"auth", "prove", "enable", "disable", "erase"}
      BY <2>0, <2>9, WritersAre DEF AloneInv, Idle
    <2>10. CASE VerifyEnable(r)
      <3>1. /\ req[r].pc = "enable" /\ req'[r] = Idle /\ raced' = raced /\ rows' = rows
            /\ enabled' = (enabled \/ ~req[r].on)
        BY <2>0, <2>10 DEF VerifyEnable, At, Finish
      <3>. QED
        BY <2>9, <3>1 DEF FlagInv
    <2>11. CASE DisableErase(r)
      <3>1. /\ req[r].pc = "erase" /\ req'[r] = Idle /\ raced' = raced
            /\ rows' = rows \ req[r].rows /\ verified' = verified \ req[r].rows
            /\ enabled' = (enabled /\ ~req[r].on)
        BY <2>0, <2>11 DEF DisableErase, At, Finish
      <3>. QED
        BY <2>9, <3>1 DEF FlagInv
    <2>. QED
      BY <1>1, <2>1, <2>2, <2>3, <2>4, <2>5, <2>6, <2>7, <2>8, <2>10, <2>11, <2>12, <2>13
      DEF TwoFactorStep
  <1>2. CASE UNCHANGED <<req, twoFactorVars>>
    BY <1>2 DEF twoFactorVars, columns, FlagInv
  <1>. QED
    BY <1>1, <1>2 DEF TwoFactorNext

LEMMA FlagBegins == HandlersInit /\ TwoFactorInit => FlagInv
  BY DEF HandlersInit, TwoFactorInit, FlagInv, Idle

(* The flag and the row come and go together while no two handlers write it. *)
THEOREM FlagFollowsRecordHolds == TwoFactorSpec => []FlagFollowsRecord
  <1>1. FlagInv => FlagFollowsRecord
    BY DEF FlagInv, FlagFollowsRecord
  <1>. QED
    BY <1>1, TypeInvariance, AloneBegins, FlagBegins, AloneStep, FlagStep, PTL DEF TwoFactorSpec

------------------------------------------------------------------------------
(* Backup codes.  No two rows share a code, no code that is left was used,    *)
(* and a handler that spends one has read the list as it still is.            *)
Spending(x) == x.code \in codes[x.row] /\ x.left = codes[x.row] \ {x.code}
CodesInv == "codes" \notin raced =>
    /\ reused = {}
    /\ \A i \in Batches : codes[i] \cap used = {}
    /\ \A i, j \in Batches : i # j => codes[i] \cap codes[j] = {}
    /\ \A r \in Reqs : At(r, "spend") => Spending(req[r])

(* A step that touches no code keeps CodesInv.                               *)
LEMMA CodesKept ==
    ASSUME CodesInv, UNCHANGED <<codes, used, reused>>, raced \subseteq raced', NEW r \in Reqs,
           TypeInv, req' = [req EXCEPT ![r] = req'[r]], At(r, "spend")' => Spending(req'[r])
    PROVE  CodesInv'
  <1>1. ASSUME NEW q \in Reqs, q # r PROVE req'[q] = req[q]
    BY <1>1 DEF TypeInv, TwoFactorTypeOK
  <1>. QED
    BY <1>1 DEF CodesInv, At, Spending

(* A batch that is stored is new, and replaces a list nobody else is writing.  *)
LEMMA CodesStored ==
    ASSUME TypeInv, AloneInv, CodesInv, NEW r \in Reqs, NEW i \in Batches, Store(i),
           req' = [req EXCEPT ![r] = req'[r]], req'[r].pc # "spend",
           UNCHANGED <<used, reused, raced>>, i \notin 1..batch \/ req[r].pc \in Writers("codes")
    PROVE  CodesInv'
  <1>1. /\ batch \in Nat /\ codes' = [codes EXCEPT ![i] = Batch(batch + 1)]
        /\ req \in [Reqs -> TwoFactorTasks \cup {Idle}] /\ codes \in [Batches -> SUBSET AllCodes]
        /\ \A j \in Batches : codes[j] \subseteq Stored(batch)
        /\ used \subseteq Stored(batch)
        /\ \A q \in Reqs : WellFormed(req[q], batch)
    BY StoreStores DEF TypeInv, TwoFactorTypeOK
  <1>2. Stored(batch) \cap Batch(batch + 1) = {}
    BY <1>1, Grows
  <1>. SUFFICES ASSUME "codes" \notin raced PROVE CodesInv'
    BY DEF CodesInv
  <1>3. \A j \in Batches : codes'[j] \cap used = {}
    BY <1>1, <1>2 DEF CodesInv
  <1>4. \A j, k \in Batches : j # k => codes'[j] \cap codes'[k] = {}
    BY <1>1, <1>2 DEF CodesInv
  <1>5. ASSUME NEW q \in Reqs, At(q, "spend")' PROVE Spending(req[q])' /\ q # r
    <2>1. q # r /\ req'[q] = req[q] /\ At(q, "spend")
      BY <1>1, <1>5 DEF At
    <2>2. req[q].row \in 1..batch /\ Spending(req[q])
      BY <1>1, <2>1 DEF WellFormed, At, CodesInv
    <2>3. req[r].pc \notin Writers("codes")
      BY <2>1, WritersAre DEF AloneInv, At
    <2>4. req[q].row # i /\ req[q].row \in Batches
      BY <2>2, <2>3, StoredTypes DEF TypeInv, TwoFactorTypeOK
    <2>. QED
      BY <1>1, <2>1, <2>2, <2>4 DEF Spending
  <1>. QED
    BY <1>3, <1>4, <1>5 DEF CodesInv

LEMMA CodesStep ==
    TypeInv /\ AloneInv /\ CodesInv /\ [TwoFactorNext]_<<req, twoFactorVars>> => CodesInv'
  <1> SUFFICES ASSUME TypeInv, AloneInv, CodesInv, [TwoFactorNext]_<<req, twoFactorVars>> PROVE CodesInv'
    OBVIOUS
  <1>1. ASSUME NEW r \in Reqs, TwoFactorStep(r) PROVE CodesInv'
    <2>0. /\ req' = [req EXCEPT ![r] = req'[r]] /\ req \in [Reqs -> TwoFactorTasks \cup {Idle}]
          /\ 1..batch \subseteq Batches /\ batch \in 0..MaxBatches /\ batch + 1 \notin 1..batch
          /\ codes \in [Batches -> SUBSET AllCodes] /\ WellFormed(req[r], batch) /\ rows \subseteq Batches
      BY <1>1, ReqMoves, StoredTypes, Grows DEF ReqMove, TypeInv, TwoFactorTypeOK
    <2>1. ASSUME UNCHANGED <<codes, used, reused>>, raced \subseteq raced', req'[r].pc # "spend" PROVE CodesInv'
      BY <2>0, <2>1, CodesKept DEF At
    <2>2. CASE SetupRead(r) \/ DisableRead(r) \/ RemoveRead(r) \/ RenewRead(r)
               \/ Authenticate(r) \/ \E m \in {"totp", "otp"} : VerifyRead(r, m)
      <3>1. req'[r].pc # "spend" /\ UNCHANGED <<codes, used, reused>> /\ raced \subseteq raced'
        BY <2>0, <2>2 DEF SetupRead, DisableRead, RemoveRead, RenewRead, Authenticate, VerifyRead, Enter, Hold,
                             Become, columns, spending
      <3>. QED
        BY <2>1, <3>1
    <2>3. CASE VerifyCode(r) \/ DisableUser(r)
      <3>1. req'[r].pc # "spend" /\ UNCHANGED <<codes, used, reused>> /\ raced \subseteq raced'
        BY <2>0, <2>3 DEF VerifyCode, DisableUser, Become, columns, spending, twoFactorVars
      <3>. QED
        BY <2>1, <3>1
    <2>4. CASE VerifyEnable(r) \/ DisableErase(r) \/ RemoveWrite(r) \/ RenewTell(r) \/ TwoFactorAbort(r)
      <3>1. req'[r].pc # "spend" /\ UNCHANGED <<codes, used, reused>> /\ raced \subseteq raced'
        BY <2>0, <2>4
        DEF VerifyEnable, DisableErase, RemoveWrite, RenewTell, TwoFactorAbort, Finish, Idle, columns, spending,
            twoFactorVars
      <3>. QED
        BY <2>1, <3>1
    <2>5. CASE SetupCreate(r)
      <3>1. Store(batch + 1) /\ batch + 1 \in Batches /\ UNCHANGED <<used, reused, raced>> /\ req'[r] = Idle
        BY <2>0, <2>5 DEF SetupCreate, SetupAnswer, Store, Finish, Batches, spending
      <3>. QED
        BY <2>0, <3>1, CodesStored DEF Idle
    <2>6. CASE SetupRewrite(r) \/ RenewWrite(r)
      <3>1. /\ Store(req[r].row) /\ req[r].row \in Batches /\ UNCHANGED <<used, reused, raced>>
            /\ req[r].pc \in Writers("codes")
        BY <2>0, <2>6, WritersAre DEF SetupRewrite, RenewWrite, spending, At
      <3>2. req'[r].pc # "spend"
        BY <2>0, <2>6 DEF SetupRewrite, SetupAnswer, RenewWrite, Finish, Become, Idle
      <3>. QED
        BY <2>0, <3>1, <3>2, CodesStored
    <2>7. ASSUME NEW c \in AllCodes, BackupRead(r, c) PROVE CodesInv'
      <3>1. PICK i \in rows : c \in codes[i] /\ Enter(r, [pc |-> "spend", row |-> i, code |-> c, left |-> codes[i] \ {c}])
        BY <2>7 DEF BackupRead
      <3>2. UNCHANGED <<codes, used, reused>> /\ raced \subseteq raced' /\ Spending(req'[r])
        BY <2>0, <2>7, <3>1 DEF BackupRead, Enter, Hold, Become, columns, spending, Spending
      <3>. QED
        BY <2>0, <3>2, CodesKept
    <2>8. CASE BackupSpend(r)
      <3>. SUFFICES ASSUME "codes" \notin raced' PROVE CodesInv'
        BY DEF CodesInv
      <3>. DEFINE i == req[r].row  c == req[r].code
      <3>1. /\ req[r].pc = "spend" /\ req' = [req EXCEPT ![r] = Idle] /\ "codes" \notin raced
            /\ codes' = [codes EXCEPT ![i] = req[r].left]
            /\ used' = used \cup {c} /\ reused' = reused \cup (used \cap {c})
        BY <2>8 DEF BackupSpend, At, Finish
      <3>2. i \in Batches /\ c \in codes[i] /\ req[r].left = codes[i] \ {c}
        BY <2>0, <3>1 DEF CodesInv, Spending, At, WellFormed
      <3>3. /\ reused = {} /\ \A j \in Batches : codes[j] \cap used = {}
            /\ \A j, k \in Batches : j # k => codes[j] \cap codes[k] = {}
        BY <3>1 DEF CodesInv
      <3>4. codes' = [codes EXCEPT ![i] = codes[i] \ {c}]
        BY <3>1, <3>2
      <3>5. \A j \in Batches : codes'[j] \cap used' = {}
        BY <2>0, <3>1, <3>2, <3>3, <3>4
      <3>6. \A j, k \in Batches : j # k => codes'[j] \cap codes'[k] = {}
        BY <2>0, <3>3, <3>4
      <3>7. ASSUME NEW q \in Reqs PROVE ~At(q, "spend")'
        BY <2>0, <3>1, WritersAre DEF AloneInv, At, Idle
      <3>8. reused' = {}
        BY <3>1, <3>2, <3>3
      <3>. QED
        BY <3>5, <3>6, <3>7, <3>8 DEF CodesInv
    <2>. QED
      BY <1>1, <2>2, <2>3, <2>4, <2>5, <2>6, <2>7, <2>8 DEF TwoFactorStep
  <1>2. CASE UNCHANGED <<req, twoFactorVars>>
    BY <1>2 DEF twoFactorVars, columns, spending, CodesInv, At, Spending
  <1>. QED
    BY <1>1, <1>2 DEF TwoFactorNext

LEMMA CodesBegin == HandlersInit /\ TwoFactorInit => CodesInv
  BY DEF HandlersInit, TwoFactorInit, CodesInv, At, Idle

(* A backup code lets one login through while one handler writes the list.   *)
THEOREM BackupCodeIsUsedOnceHolds == TwoFactorSpec => []BackupCodeIsUsedOnce
  <1>1. CodesInv => BackupCodeIsUsedOnce
    BY DEF CodesInv, BackupCodeIsUsedOnce
  <1>. QED
    BY <1>1, TypeInvariance, AloneBegins, CodesBegin, AloneStep, CodesStep, PTL DEF TwoFactorSpec

------------------------------------------------------------------------------
(* The codes of the one row are those stored last, but for the ones used,     *)
(* whether or not the user was shown them.                                    *)
NewestInv == raced \cap {"rows", "codes"} = {} => \A i \in rows : codes[i] = Batch(batch) \ used

LEMMA NewestStep ==
    TypeInv /\ RowsInv /\ CodesInv /\ NewestInv /\ [TwoFactorNext]_<<req, twoFactorVars>>
        => NewestInv'
  <1> SUFFICES ASSUME TypeInv, RowsInv, CodesInv, NewestInv, [TwoFactorNext]_<<req, twoFactorVars>>,
                      raced' \cap {"rows", "codes"} = {}, NEW k \in rows'
               PROVE  codes'[k] = Batch(batch') \ used'
    BY DEF NewestInv
  <1>1. ASSUME NEW r \in Reqs, TwoFactorStep(r) PROVE codes'[k] = Batch(batch') \ used'
    <2>0. /\ rows \subseteq Batches /\ codes \in [Batches -> SUBSET AllCodes] /\ batch \in Nat
          /\ WellFormed(req[r], batch) /\ 1..batch \subseteq Batches /\ used \subseteq Stored(batch)
      BY StoredTypes DEF TypeInv, TwoFactorTypeOK
    <2>1. raced \subseteq raced'
      BY <1>1 DEF TwoFactorStep, SetupRead, SetupCreate, SetupRewrite, VerifyRead, VerifyCode, VerifyEnable,
          DisableRead, DisableUser, DisableErase, RemoveRead, RemoveWrite, RenewRead, RenewWrite, RenewTell,
          BackupRead, BackupSpend, TwoFactorAbort, Authenticate, Enter, Hold, twoFactorVars
    <2>2. /\ \A i \in rows : codes[i] = Batch(batch) \ used
          /\ \A i, j \in rows : i = j
          /\ \A q \in Reqs : At(q, "create") => rows = {}
          /\ \A q \in Reqs : At(q, "spend") => Spending(req[q])
      BY <2>1 DEF NewestInv, RowsInv, CodesInv
    <2>3. ASSUME rows' \subseteq rows, UNCHANGED <<codes, batch, used>> PROVE codes'[k] = Batch(batch') \ used'
      BY <2>2, <2>3
    <2>4. ASSUME NEW i \in Batches, Store(i), used' = used, rows' \subseteq {i}
          PROVE  codes'[k] = Batch(batch') \ used'
      <3>1. batch' = batch + 1 /\ codes' = [codes EXCEPT ![i] = Batch(batch + 1)] /\ k = i
        BY <2>4 DEF Store
      <3>2. Batch(batch + 1) \cap used = {}
        BY <2>0, Grows
      <3>. QED
        BY <2>0, <2>4, <3>1, <3>2
    <2>5. CASE SetupCreate(r)
      <3>1. rows' \subseteq {batch + 1} /\ Store(batch + 1) /\ used' = used /\ batch + 1 \in Batches
        BY <2>0, <2>2, <2>5 DEF SetupCreate, Store, spending, Batches
      <3>. QED
        BY <2>4, <3>1
    <2>6. CASE SetupRewrite(r) \/ RenewWrite(r)
      <3>1. /\ req[r].row \in rows /\ rows' = rows /\ Store(req[r].row) /\ used' = used
        BY <2>6 DEF SetupRewrite, RenewWrite, spending
      <3>. QED
        BY <2>0, <2>2, <2>4, <3>1
    <2>7. CASE BackupSpend(r)
      <3>. DEFINE i == req[r].row  c == req[r].code
      <3>1. /\ i \in rows /\ Spending(req[r]) /\ rows' = rows /\ batch' = batch
            /\ codes' = [codes EXCEPT ![i] = req[r].left] /\ used' = used \cup {c}
        BY <2>2, <2>7 DEF BackupSpend
      <3>2. k = i /\ codes'[k] = codes[i] \ {c}
        BY <2>0, <2>2, <3>1 DEF Spending
      <3>. QED
        BY <2>2, <3>1, <3>2
    <2>8. CASE ~(SetupCreate(r) \/ SetupRewrite(r) \/ RenewWrite(r) \/ BackupSpend(r))
      <3>1. rows' \subseteq rows /\ UNCHANGED <<codes, batch, used>>
        BY <1>1, <2>8 DEF TwoFactorStep, SetupRead, VerifyRead, VerifyCode, VerifyEnable, DisableRead, DisableUser,
            DisableErase, RemoveRead, RemoveWrite, RenewRead, RenewTell, BackupRead,
            Authenticate, TwoFactorAbort, columns, spending, twoFactorVars
      <3>. QED
        BY <2>3, <3>1
    <2>. QED
      BY <2>5, <2>6, <2>7, <2>8
  <1>2. CASE UNCHANGED <<req, twoFactorVars>>
    BY <1>2 DEF twoFactorVars, columns, spending, NewestInv
  <1>. QED
    BY <1>1, <1>2 DEF TwoFactorNext

LEMMA NewestBegins == HandlersInit /\ TwoFactorInit => NewestInv
  BY DEF TwoFactorInit, NewestInv

(* Batches share no code, so of an older batch none is left.                 *)
LEMMA NewestMeans == TypeInv /\ NewestInv => ShownCodesWork
  <1>. SUFFICES ASSUME TypeInv, NewestInv, raced \cap {"rows", "codes"} = {}, NEW i \in rows
                PROVE  codes[i] \cap Batch(shown) = IF shown = batch THEN Batch(shown) \ used ELSE {}
    BY DEF ShownCodesWork
  <1>1. codes[i] = Batch(batch) \ used
    BY DEF NewestInv
  <1>2. shown # batch => Batch(batch) \cap Batch(shown) = {}
    BY DEF Batch
  <1>. QED
    BY <1>1, <1>2

(* The codes shown last work until they are used, and none of them does once  *)
(* others are stored, whether or not the user was shown those.                *)
THEOREM ShownCodesWorkHolds == TwoFactorSpec => []ShownCodesWork
  BY TypeInvariance, AloneBegins, RowsBegin, CodesBegin, NewestBegins, AloneStep, RowsStep, CodesStep, NewestStep,
     NewestMeans, PTL
  DEF TwoFactorSpec

------------------------------------------------------------------------------
(* Secrets.  A secret about to be replaced is not verified, and one about to  *)
(* be verified is still the one that was read.                                *)
SecretInv == "secret" \notin raced =>
    /\ \A i \in verified : secret[i] \in proven
    /\ \A r \in Reqs :
          /\ At(r, "rewrite") => req[r].row \notin verified
          /\ req[r].pc \in {"prove", "enable"} => req[r].saw = secret[req[r].row]
          /\ At(r, "enable") /\ req[r].method = "totp" => req[r].saw \in proven

(* A step that leaves the secrets alone keeps SecretInv.                     *)
LEMMA SecretKept ==
    ASSUME SecretInv, TypeInv, NEW r \in Reqs, req' = [req EXCEPT ![r] = req'[r]],
           UNCHANGED <<secret, proven>>, verified' \subseteq verified, raced \subseteq raced',
           req'[r].pc \notin Writers("secret")
    PROVE  SecretInv'
  <1>1. ASSUME NEW q \in Reqs, q # r PROVE req'[q] = req[q]
    BY <1>1 DEF TypeInv, TwoFactorTypeOK
  <1>. QED
    BY <1>1, WritersAre DEF SecretInv, At

LEMMA SecretStep ==
    TypeInv /\ AloneInv /\ SecretInv /\ [TwoFactorNext]_<<req, twoFactorVars>> => SecretInv'
  <1> SUFFICES ASSUME TypeInv, AloneInv, SecretInv, [TwoFactorNext]_<<req, twoFactorVars>> PROVE SecretInv'
    OBVIOUS
  <1>1. ASSUME NEW r \in Reqs, TwoFactorStep(r) PROVE SecretInv'
    <2>0. /\ req' = [req EXCEPT ![r] = req'[r]] /\ req \in [Reqs -> TwoFactorTasks \cup {Idle}]
          /\ 1..batch \subseteq Batches /\ batch \in 0..MaxBatches /\ batch + 1 \notin 1..batch
          /\ secret \in [Batches -> Batches] /\ \A q \in Reqs : WellFormed(req[q], batch)
          /\ verified \subseteq rows /\ rows \subseteq 1..batch
      BY <1>1, ReqMoves, StoredTypes, Grows DEF ReqMove, TypeInv, TwoFactorTypeOK
    <2>1. CASE DisableRead(r) \/ RemoveRead(r) \/ RenewRead(r) \/ Authenticate(r)
               \/ \E c \in AllCodes : BackupRead(r, c)
      <3>1. /\ UNCHANGED <<secret, proven, verified>> /\ raced \subseteq raced'
            /\ req'[r].pc \in {"disable", "unverify", "renew", "auth", "spend"}
        BY <2>0, <2>1 DEF DisableRead, RemoveRead, RenewRead, Authenticate, BackupRead, Enter, Hold, Become, columns
      <3>. QED
        BY <2>0, <3>1, SecretKept, WritersAre
    <2>2. CASE DisableUser(r) \/ RenewWrite(r)
      <3>1. UNCHANGED <<secret, proven, verified, raced>> /\ req'[r].pc \in {"erase", "tell"}
        BY <2>0, <2>2 DEF DisableUser, RenewWrite, Become, columns, twoFactorVars
      <3>. QED
        BY <2>0, <3>1, SecretKept, WritersAre
    <2>3. CASE DisableErase(r) \/ RemoveWrite(r) \/ RenewTell(r) \/ BackupSpend(r) \/ TwoFactorAbort(r)
      <3>1. UNCHANGED <<secret, proven, raced>> /\ verified' \subseteq verified /\ req'[r] = Idle
        BY <2>0, <2>3
        DEF DisableErase, RemoveWrite, RenewTell, BackupSpend, TwoFactorAbort, Finish, columns, twoFactorVars
      <3>. QED
        BY <2>0, <3>1, SecretKept, WritersAre DEF Idle
    <2>4. CASE SetupRead(r)
      <3>1. UNCHANGED <<secret, proven, verified>> /\ raced \subseteq raced'
        BY <2>4 DEF SetupRead, Enter, Hold, columns
      <3>2. req'[r].pc = "create" \/ (req'[r].pc = "rewrite" /\ req'[r].row \notin verified)
        BY <2>0, <2>4 DEF SetupRead, Enter, Hold, Become
      <3>. QED
        BY <2>0, <3>1, <3>2 DEF SecretInv, At
    <2>5. CASE SetupCreate(r)
      <3>1. /\ req'[r] = Idle /\ UNCHANGED <<proven, verified, raced>>
            /\ secret' = [secret EXCEPT ![batch + 1] = batch + 1]
        BY <2>0, <2>5 DEF SetupCreate, SetupAnswer, Finish
      <3>2. \A i \in 1..batch : secret'[i] = secret[i]
        BY <2>0, <3>1
      <3>3. ASSUME NEW q \in Reqs, req'[q].pc # "idle" PROVE req'[q] = req[q]
        BY <2>0, <3>1, <3>3 DEF Idle
      <3>. QED
        BY <2>0, <3>1, <3>2, <3>3 DEF SecretInv, At, WellFormed
    <2>6. CASE SetupRewrite(r)
      <3>. SUFFICES ASSUME "secret" \notin raced' PROVE SecretInv'
        BY DEF SecretInv
      <3>1. /\ req'[r] = Idle /\ UNCHANGED <<proven, verified, raced>> /\ At(r, "rewrite")
            /\ secret' = [secret EXCEPT ![req[r].row] = batch + 1]
        BY <2>0, <2>6 DEF SetupRewrite, SetupAnswer, Finish
      <3>2. req[r].row \notin verified
        BY <3>1 DEF SecretInv
      <3>3. \A i \in verified : secret'[i] = secret[i]
        BY <2>0, <3>1, <3>2
      <3>4. \A q \in Reqs : req'[q].pc \notin {"rewrite", "prove", "enable"}
        BY <2>0, <3>1, WritersAre DEF AloneInv, Idle, At
      <3>. QED
        BY <3>1, <3>3, <3>4 DEF SecretInv, At
    <2>7. ASSUME NEW m \in {"totp", "otp"}, VerifyRead(r, m) PROVE SecretInv'
      <3>1. PICK i \in rows : Hold(r, [pc |-> "prove", row |-> i, saw |-> secret[i], method |-> m,
                                     held |-> Held(r)])
        BY <2>7 DEF VerifyRead
      <3>2. /\ UNCHANGED <<secret, proven, verified>> /\ raced \subseteq raced'
            /\ req'[r].pc = "prove" /\ req'[r].saw = secret[req'[r].row]
        BY <2>0, <2>7, <3>1 DEF VerifyRead, Hold, Become, columns
      <3>. QED
        BY <2>0, <3>2 DEF SecretInv, At
    <2>8. CASE VerifyCode(r)
      <3>1. /\ UNCHANGED <<secret, verified, raced>> /\ req[r].pc = "prove" /\ req'[r].pc = "enable"
            /\ req'[r].row = req[r].row /\ req'[r].saw = req[r].saw /\ req'[r].method = req[r].method
            /\ proven' = IF req[r].method = "totp" THEN proven \cup {req[r].saw} ELSE proven
        BY <2>0, <2>8 DEF VerifyCode, Become, At, columns
      <3>. QED
        BY <2>0, <3>1 DEF SecretInv, At
    <2>9. CASE VerifyEnable(r)
      <3>. SUFFICES ASSUME "secret" \notin raced' PROVE SecretInv'
        BY DEF SecretInv
      <3>1. /\ req'[r] = Idle /\ UNCHANGED <<secret, proven, raced>> /\ At(r, "enable")
            /\ verified' = IF req[r].method = "totp" THEN verified \cup {req[r].row} ELSE verified
        BY <2>0, <2>9 DEF VerifyEnable, Finish
      <3>2. \A q \in Reqs : req'[q].pc \notin {"rewrite", "prove", "enable"}
        BY <2>0, <3>1, WritersAre DEF AloneInv, Idle, At
      <3>3. \A i \in verified' : secret'[i] \in proven'
        BY <3>1 DEF SecretInv, At
      <3>. QED
        BY <3>2, <3>3 DEF SecretInv, At
    <2>. QED
      BY <1>1, <2>1, <2>2, <2>3, <2>4, <2>5, <2>6, <2>7, <2>8, <2>9 DEF TwoFactorStep
  <1>2. CASE UNCHANGED <<req, twoFactorVars>>
    BY <1>2 DEF twoFactorVars, columns, SecretInv, At
  <1>. QED
    BY <1>1, <1>2 DEF TwoFactorNext

LEMMA SecretBegins == HandlersInit /\ TwoFactorInit => SecretInv
  BY DEF HandlersInit, TwoFactorInit, SecretInv, At, Idle

(* A verified row holds a secret the user has proven to have.                *)
THEOREM VerifiedSecretIsProvenHolds == TwoFactorSpec => []VerifiedSecretIsProven
  <1>1. SecretInv => VerifiedSecretIsProven
    BY DEF SecretInv, VerifiedSecretIsProven
  <1>. QED
    BY <1>1, TypeInvariance, AloneBegins, SecretBegins, AloneStep, SecretStep, PTL DEF TwoFactorSpec

------------------------------------------------------------------------------
(* What a step of request r does to req: it goes on with step p of the same   *)
(* answer, it ends, or it takes up task x.                                    *)
Goes(r, p) ==
    /\ req[r] \in AnswerTasks /\ req'[r] \in AnswerTasks
    /\ req' = [req EXCEPT ![r] = req'[r]]
    /\ req'[r].pc = p /\ req'[r].handle = req[r].handle /\ req'[r].trust = req[r].trust

Ends(r) == req' = [req EXCEPT ![r] = Idle] /\ req'[r] = Idle

Takes(r, x) == req' = [req EXCEPT ![r] = x] /\ req'[r] = x

------------------------------------------------------------------------------
(* Tasks are told apart by their step.                                       *)
LEMMA AnswerTask ==
    ASSUME ChallengeTypeOK, NEW r \in Reqs, NEW p \in AnswerSteps, At(r, p)
    PROVE  req[r] \in AnswerTasks /\ req[r].handle \in Handles /\ req[r].trust \in BOOLEAN /\ req[r].pc = p
  <1>1. req[r] \in ChallengeTasks \cup {Idle} /\ req[r].pc = p
    BY DEF ChallengeTypeOK, At
  <1>2. req[r] \in AnswerTasks
    BY <1>1 DEF ChallengeTasks, AnswerTasks, AnswerSteps, Idle
  <1>. QED
    BY <1>1, <1>2 DEF AnswerTasks

LEMMA OpenTask ==
    ASSUME ChallengeTypeOK, NEW r \in Reqs, At(r, "open")
    PROVE  req[r] \in [pc : {"open"}, handle : Handles] /\ req[r].handle \in Handles /\ req[r] \notin AnswerTasks
  BY DEF ChallengeTypeOK, ChallengeTasks, AnswerTasks, AnswerSteps, Idle, At

LEMMA IdleTask == Idle \notin ChallengeTasks /\ Idle \notin AnswerTasks /\ Idle.pc = "idle"
  BY DEF Idle, ChallengeTasks, AnswerTasks, AnswerSteps

LEMMA GoesOn ==
    ASSUME ChallengeTypeOK, NEW r \in Reqs, req[r] \in AnswerTasks, NEW p \in AnswerSteps, To(r, p)
    PROVE  Goes(r, p)
  BY DEF ChallengeTypeOK, To, Goes, AnswerTasks

LEMMA EndsThere ==
    ASSUME ChallengeTypeOK, NEW r \in Reqs, Finish(r)
    PROVE  Ends(r)
  BY DEF ChallengeTypeOK, Finish, Ends

LEMMA TakesUp ==
    ASSUME ChallengeTypeOK, NEW r \in Reqs, NEW x, Start(r, x) \/ Become(r, x)
    PROVE  Takes(r, x)
  BY DEF ChallengeTypeOK, Start, Become, Takes

(* What each step of a request does to req.                                  *)
LEMMA Moves ==
    ASSUME ChallengeTypeOK, NEW r \in Reqs
    PROVE  /\ SignInPassword(r) => Takes(r, [pc |-> "device"])
           /\ SignInDevice(r) => \/ Ends(r)
                                 \/ \E h \in Handles : /\ key[h] = "none" /\ ~Opening(h)
                                                       /\ Takes(r, [pc |-> "open", handle |-> h])
           /\ \A h \in Handles : SignInCode(r, h) => Takes(r, [pc |-> "open", handle |-> h])
           /\ \A h \in Handles, t \in BOOLEAN :
                Peek(r, h, t) => Takes(r, [pc |-> "answer", handle |-> h, trust |-> t])
           /\ Right(r) => Goes(r, "consume")
           /\ Wrong(r) => Goes(r, "fail")
           /\ CountFailure(r) => Ends(r) \/ Goes(r, "burn")
           /\ Burn(r) => Goes(r, "clear")
           /\ ConsumeLook(r) => \/ key[req[r].handle] = "alive" /\ Goes(r, "drop")
                                \/ key[req[r].handle] # "alive" /\ Goes(r, "ask")
           /\ ConsumeDelete(r) => Goes(r, "wipe")
           /\ ConsumeClear(r) => Goes(r, "ask")
           /\ TrustAsk(r) => Ends(r) \/ Goes(r, "insert") \/ Goes(r, "issue")
           /\ TrustInsert(r) => Goes(r, "issue")
           /\ DisableFactor(r) => Takes(r, [pc |-> "revoke"])
           /\ OpenChallenge(r) \/ Unanswerable(r) \/ BurnClear(r) \/ IssueLogin(r)
                \/ RevokeDevices(r) \/ ChallengeAbort(r) => Ends(r)
  <1>. USE DEF AnswerSteps
  <1>1. SignInPassword(r) => Takes(r, [pc |-> "device"])
    BY TakesUp DEF SignInPassword
  <1>2. SignInDevice(r) => \/ Ends(r)
                           \/ \E h \in Handles : /\ key[h] = "none" /\ ~Opening(h)
                                                 /\ Takes(r, [pc |-> "open", handle |-> h])
    BY TakesUp, EndsThere DEF SignInDevice
  <1>3. \A h \in Handles : SignInCode(r, h) => Takes(r, [pc |-> "open", handle |-> h])
    BY TakesUp DEF SignInCode
  <1>4. \A h \in Handles, t \in BOOLEAN :
          Peek(r, h, t) => Takes(r, [pc |-> "answer", handle |-> h, trust |-> t])
    BY TakesUp DEF Peek
  <1>5. Right(r) => Goes(r, "consume")
    BY AnswerTask, GoesOn DEF Right
  <1>6. Wrong(r) => Goes(r, "fail")
    BY AnswerTask, GoesOn DEF Wrong
  <1>7. CountFailure(r) => Ends(r) \/ Goes(r, "burn")
    BY AnswerTask, GoesOn, EndsThere DEF CountFailure
  <1>8. Burn(r) => Goes(r, "clear")
    BY AnswerTask, GoesOn DEF Burn
  <1>9. ConsumeLook(r) => \/ key[req[r].handle] = "alive" /\ Goes(r, "drop")
                          \/ key[req[r].handle] # "alive" /\ Goes(r, "ask")
    BY AnswerTask, GoesOn DEF ConsumeLook
  <1>10. ConsumeDelete(r) => Goes(r, "wipe")
    BY AnswerTask, GoesOn DEF ConsumeDelete
  <1>11. ConsumeClear(r) => Goes(r, "ask")
    BY AnswerTask, GoesOn DEF ConsumeClear
  <1>12. TrustAsk(r) => Ends(r) \/ Goes(r, "insert") \/ Goes(r, "issue")
    BY AnswerTask, GoesOn, EndsThere DEF TrustAsk
  <1>13. TrustInsert(r) => Goes(r, "issue")
    BY AnswerTask, GoesOn DEF TrustInsert
  <1>14. DisableFactor(r) => Takes(r, [pc |-> "revoke"])
    BY TakesUp DEF DisableFactor
  <1>15. OpenChallenge(r) \/ Unanswerable(r) \/ BurnClear(r) \/ IssueLogin(r)
           \/ RevokeDevices(r) \/ ChallengeAbort(r) => Ends(r)
    BY EndsThere DEF OpenChallenge, Unanswerable, BurnClear, IssueLogin, RevokeDevices, ChallengeAbort
  <1>. QED
    BY <1>1, <1>2, <1>3, <1>4, <1>5, <1>6, <1>7, <1>8, <1>9, <1>10, <1>11, <1>12, <1>13, <1>14, <1>15

(* The answers differ in what they need, and then are right or wrong.        *)
LEMMA AnswerIsRightOrWrong ==
    \A r \in Reqs : AnswerTotp(r) \/ AnswerOtp(r) \/ AnswerBackup(r) => Right(r) \/ Wrong(r)
  BY DEF AnswerTotp, AnswerOtp, AnswerBackup

(* req stays well typed.                                                     *)
LEMMA MovesAreTyped ==
    ASSUME ChallengeTypeOK, NEW r \in Reqs,
           \/ Ends(r)
           \/ \E p \in AnswerSteps : Goes(r, p)
           \/ \E x \in ChallengeTasks : Takes(r, x)
    PROVE  req' \in [Reqs -> ChallengeTasks \cup {Idle}]
  BY DEF ChallengeTypeOK, Ends, Goes, Takes, ChallengeTasks

LEMMA TasksAreTyped ==
    /\ [pc |-> "device"] \in ChallengeTasks /\ [pc |-> "revoke"] \in ChallengeTasks
    /\ \A h \in Handles : [pc |-> "open", handle |-> h] \in ChallengeTasks
    /\ \A h \in Handles, t \in BOOLEAN :
         /\ [pc |-> "answer", handle |-> h, trust |-> t] \in ChallengeTasks
         /\ [pc |-> "answer", handle |-> h, trust |-> t] \in AnswerTasks
  BY DEF ChallengeTasks, AnswerTasks, AnswerSteps

LEMMA StepsMoveOne ==
    ASSUME ChallengeTypeOK, NEW r \in Reqs, ChallengeStep(r)
    PROVE  req' \in [Reqs -> ChallengeTasks \cup {Idle}]
  <1>1. \/ Ends(r)
        \/ \E p \in AnswerSteps : Goes(r, p)
        \/ \E x \in ChallengeTasks : Takes(r, x)
    BY Moves, TasksAreTyped, AnswerIsRightOrWrong DEF ChallengeStep, Answer, AnswerSteps
  <1>. QED
    BY <1>1, MovesAreTyped

LEMMA ChallengeTypeStep ==
    ASSUME ChallengeTypeOK, [ChallengeNext]_<<req, challengeVars>>
    PROVE  ChallengeTypeOK'
  <1>. USE DEF challengeVars, challengeKeys, deviceRows, outcomes, excuses
  <1>1. ASSUME NEW r \in Reqs, ChallengeStep(r) PROVE ChallengeTypeOK'
    <2>. DEFINE h == req[r].handle
    <2>0. req' \in [Reqs -> ChallengeTasks \cup {Idle}]
      BY <1>1, StepsMoveOne
    <2>1. CASE SignInPassword(r)
      BY <2>0, <2>1 DEF SignInPassword, ChallengeTypeOK
    <2>2. CASE SignInDevice(r)
      BY <2>0, <2>2 DEF SignInDevice, ChallengeTypeOK
    <2>3. ASSUME NEW g \in Handles, SignInCode(r, g) PROVE ChallengeTypeOK'
      BY <2>0, <2>3 DEF SignInCode, ChallengeTypeOK
    <2>4. CASE OpenChallenge(r)
      BY <2>0, <2>4, OpenTask DEF OpenChallenge, ChallengeTypeOK
    <2>5. ASSUME NEW g \in Handles, NEW t \in BOOLEAN, Peek(r, g, t) PROVE ChallengeTypeOK'
      BY <2>0, <2>5 DEF Peek, ChallengeTypeOK
    <2>6. CASE Right(r)
      BY <2>0, <2>6 DEF Right, ChallengeTypeOK
    <2>7. CASE Wrong(r)
      <3>1. h \in Handles
        BY <2>7, AnswerTask DEF Wrong, AnswerSteps
      <3>. QED
        BY <2>0, <2>7, <3>1 DEF Wrong, ChallengeTypeOK
    <2>8. CASE Unanswerable(r)
      BY <2>0, <2>8 DEF Unanswerable, ChallengeTypeOK
    <2>9. CASE CountFailure(r)
      <3>1. h \in Handles
        BY <2>9, AnswerTask DEF CountFailure, AnswerSteps
      <3>. QED
        BY <2>0, <2>9, <3>1 DEF CountFailure, ChallengeTypeOK
    <2>10. CASE Burn(r)
      <3>1. h \in Handles
        BY <2>10, AnswerTask DEF Burn, AnswerSteps
      <3>. QED
        BY <2>0, <2>10, <3>1 DEF Burn, ChallengeTypeOK
    <2>11. CASE BurnClear(r)
      BY <2>0, <2>11 DEF BurnClear, ChallengeTypeOK
    <2>12. CASE ConsumeLook(r)
      BY <2>0, <2>12 DEF ConsumeLook, ChallengeTypeOK
    <2>13. CASE ConsumeDelete(r)
      BY <2>0, <2>13 DEF ConsumeDelete, ChallengeTypeOK
    <2>14. CASE ConsumeClear(r)
      BY <2>0, <2>14 DEF ConsumeClear, ChallengeTypeOK
    <2>15. CASE TrustAsk(r)
      <3>1. /\ devices' \in Nat /\ current' \in Nat /\ current' <= devices'
            /\ UNCHANGED <<factor, challengeKeys, outcomes, doubled, leftover>>
        BY <2>15 DEF TrustAsk, ChallengeTypeOK
      <3>2. twice' = twice \/ twice' = (twice \/ Beside(r, {"insert"}))
        BY <2>15 DEF TrustAsk
      <3>3. twice' \in BOOLEAN
        BY <3>2, Zenon DEF ChallengeTypeOK
      <3>. QED
        BY <2>0, <3>1, <3>3 DEF ChallengeTypeOK
    <2>16. CASE TrustInsert(r)
      BY <2>0, <2>16 DEF TrustInsert, ChallengeTypeOK
    <2>17. CASE IssueLogin(r)
      <3>1. h \in Handles
        BY <2>17, AnswerTask DEF IssueLogin, AnswerSteps
      <3>. QED
        BY <2>0, <2>17, <3>1 DEF IssueLogin, ChallengeTypeOK
    <2>18. CASE DisableFactor(r)
      <3>1. factor' \in {"off", "set", "on", "app"} /\ UNCHANGED <<challengeKeys, deviceRows, outcomes, doubled, twice>>
        BY <2>18 DEF DisableFactor
      <3>2. leftover' \in BOOLEAN
        BY <2>18, Zenon DEF DisableFactor, ChallengeTypeOK
      <3>. QED
        BY <2>0, <3>1, <3>2 DEF ChallengeTypeOK
    <2>19. CASE RevokeDevices(r)
      BY <2>0, <2>19 DEF RevokeDevices, ChallengeTypeOK
    <2>20. CASE ChallengeAbort(r)
      <3>1. cut' \in SUBSET Handles
        BY <2>20, AnswerTask DEF ChallengeAbort, ChallengeTypeOK, AnswerSteps
      <3>2. leftover' \in BOOLEAN
        BY <2>20, Zenon DEF ChallengeAbort, ChallengeTypeOK
      <3>. QED
        BY <2>0, <2>20, <3>1, <3>2 DEF ChallengeAbort, ChallengeTypeOK
    <2>. QED
      BY <1>1, <2>1, <2>2, <2>3, <2>4, <2>5, <2>6, <2>7, <2>8, <2>9, <2>10, <2>11, <2>12, <2>13,
         <2>14, <2>15, <2>16, <2>17, <2>18, <2>19, <2>20, AnswerIsRightOrWrong DEF ChallengeStep, Answer
  <1>2. ASSUME NEW h \in Handles, ExpireChallenge(h) PROVE ChallengeTypeOK'
    BY <1>2 DEF ExpireChallenge, ChallengeTypeOK
  <1>3. ASSUME NEW f \in {"set", "on", "app"}, Enrol(f) PROVE ChallengeTypeOK'
    BY <1>3 DEF Enrol, ChallengeTypeOK
  <1>4. CASE ExpireDevice
    BY <1>4 DEF ExpireDevice, ChallengeTypeOK
  <1>5. CASE UNCHANGED <<req, challengeVars>>
    BY <1>5 DEF ChallengeTypeOK
  <1>. QED
    BY <1>1, <1>2, <1>3, <1>4, <1>5 DEF ChallengeNext

LEMMA ChallengeTypeBegins == HandlersInit /\ ChallengeInit => ChallengeTypeOK
  <1>. SUFFICES ASSUME HandlersInit, ChallengeInit PROVE ChallengeTypeOK
    OBVIOUS
  <1>1. req \in [Reqs -> ChallengeTasks \cup {Idle}]
    BY DEF HandlersInit
  <1>2. /\ key \in [Handles -> {"none", "alive", "gone"}] /\ tries \in [Handles -> Nat]
        /\ guesses \in [Handles -> Nat] /\ logins \in [Handles -> Nat]
    BY DEF ChallengeInit
  <1>3. twice \in BOOLEAN /\ leftover \in BOOLEAN
    BY Zenon DEF ChallengeInit
  <1>. QED
    BY <1>1, <1>2, <1>3 DEF ChallengeInit, ChallengeTypeOK

(* Every state is well typed.                                                *)
THEOREM ChallengeTypeCorrect == ChallengeSpec => []ChallengeTypeOK
  BY ChallengeTypeBegins, ChallengeTypeStep, PTL DEF ChallengeSpec

------------------------------------------------------------------------------
(* One row per device.  Two insertions overlap only when the second started   *)
(* beside the first, and then twice says so.                                  *)
DeviceInv ==
    ~twice => /\ devices <= 1
              /\ \A r \in Reqs : At(r, "insert") => devices = 0
              /\ \A q, r \in Reqs : At(q, "insert") /\ At(r, "insert") => q = r

(* A step after which no more requests insert, and the rows are fewer.       *)
LEMMA DeviceKept ==
    ASSUME DeviceInv, twice' = twice, devices' = devices \/ devices' = 0,
           \A q \in Reqs : At(q, "insert")' => At(q, "insert")
    PROVE  DeviceInv'
  BY DEF DeviceInv

LEMMA DeviceStep ==
    ASSUME ChallengeTypeOK, DeviceInv, [ChallengeNext]_<<req, challengeVars>>
    PROVE  DeviceInv'
  <1>. USE DEF challengeVars, challengeKeys, deviceRows, outcomes, excuses
  <1>0. /\ req \in [Reqs -> ChallengeTasks \cup {Idle}] /\ devices \in Nat
        /\ \A q \in Reqs : At(q, "insert") => req[q] \in AnswerTasks
    BY AnswerTask DEF ChallengeTypeOK, AnswerSteps
  <1>1. ASSUME NEW r \in Reqs, ChallengeStep(r) PROVE DeviceInv'
    <2>1. CASE TrustAsk(r)
      <3>1. CASE ~At(r, "insert")'
        <4>1. Ends(r) \/ Goes(r, "insert") \/ Goes(r, "issue")
          BY <2>1, Moves
        <4>2. \A q \in Reqs : At(q, "insert")' => At(q, "insert")
          BY <1>0, <3>1, <4>1 DEF Ends, Goes, At
        <4>3. UNCHANGED <<devices, twice>>
          BY <1>0, <2>1, <3>1, <4>1, AnswerTask DEF TrustAsk, To, At, AnswerTasks, AnswerSteps
        <4>. QED
          BY <4>2, <4>3, DeviceKept
      <3>2. CASE At(r, "insert")'
        <4>1. Goes(r, "insert")
          BY <2>1, <3>2, Moves, IdleTask DEF Ends, Goes, At
        <4>2. devices = 0 /\ devices' = 0 /\ twice' = (twice \/ Beside(r, {"insert"}))
          BY <1>0, <2>1, <4>1 DEF TrustAsk, Goes, Finish, To, At, Idle, AnswerTasks
        <4>3. ASSUME ~twice' PROVE \A q \in Reqs : At(q, "insert")' => q = r
          BY <1>0, <4>1, <4>2, <4>3 DEF Beside, Goes, At
        <4>. QED
          BY <4>2, <4>3 DEF DeviceInv
      <3>. QED
        BY <3>1, <3>2
    <2>2. CASE TrustInsert(r)
      <3>1. Goes(r, "issue") /\ devices' = devices + 1 /\ twice' = twice /\ At(r, "insert")
        BY <2>2, Moves DEF TrustInsert
      <3>2. ASSUME ~twice PROVE devices' = 1 /\ \A q \in Reqs : ~At(q, "insert")'
        BY <1>0, <3>1, <3>2 DEF DeviceInv, Goes, At
      <3>. QED
        BY <3>1, <3>2 DEF DeviceInv
    <2>3. CASE ~TrustAsk(r) /\ ~TrustInsert(r)
      <3>1. twice' = twice /\ (devices' = devices \/ devices' = 0)
        BY <1>1, <2>3, AnswerIsRightOrWrong
           DEF ChallengeStep, Answer, SignInPassword, SignInDevice, SignInCode, OpenChallenge, Peek, Right, Wrong,
               Unanswerable, CountFailure, Burn, BurnClear, ConsumeLook, ConsumeDelete, ConsumeClear, IssueLogin,
               DisableFactor, RevokeDevices, ChallengeAbort
      <3>2. ASSUME NEW x, Takes(r, x), x.pc # "insert" PROVE \A q \in Reqs : At(q, "insert")' => At(q, "insert")
        BY <1>0, <3>2 DEF Takes, At
      <3>3. \A q \in Reqs : At(q, "insert")' => At(q, "insert")
        <4>1. ASSUME NEW h \in Handles, SignInCode(r, h) PROVE \A q \in Reqs : At(q, "insert")' => At(q, "insert")
          <5>1. Takes(r, [pc |-> "open", handle |-> h]) /\ [pc |-> "open", handle |-> h].pc # "insert"
            BY <4>1, Moves
          <5>. QED
            BY <3>2, <5>1
        <4>2. ASSUME NEW h \in Handles, NEW t \in BOOLEAN, Peek(r, h, t)
              PROVE  \A q \in Reqs : At(q, "insert")' => At(q, "insert")
          <5>. DEFINE x == [pc |-> "answer", handle |-> h, trust |-> t]
          <5>1. Takes(r, x) /\ x.pc # "insert"
            BY <4>2, Moves
          <5>. QED
            BY <3>2, <5>1
        <4>3. CASE SignInDevice(r)
          <5>1. ASSUME NEW h \in Handles, Takes(r, [pc |-> "open", handle |-> h])
                PROVE  \A q \in Reqs : At(q, "insert")' => At(q, "insert")
            BY <3>2, <5>1
          <5>2. CASE Ends(r)
            BY <1>0, <5>2, IdleTask DEF Ends, At
          <5>. QED
            BY <4>3, <5>1, <5>2, Moves
        <4>4. CASE SignInPassword(r)
          BY <3>2, <4>4, Moves
        <4>5. CASE DisableFactor(r)
          BY <3>2, <4>5, Moves
        <4>6. CASE Ends(r) \/ \E p \in AnswerSteps \ {"insert"} : Goes(r, p)
          BY <1>0, <4>6, IdleTask DEF Ends, Goes, At
        <4>. QED
          BY <1>1, <2>3, <4>1, <4>2, <4>3, <4>4, <4>5, <4>6, Moves, AnswerIsRightOrWrong
             DEF ChallengeStep, Answer, AnswerSteps
      <3>. QED
        BY <3>1, <3>3, DeviceKept
    <2>. QED
      BY <2>1, <2>2, <2>3
  <1>2. CASE \/ \E h \in Handles : ExpireChallenge(h)
             \/ \E f \in {"set", "on", "app"} : Enrol(f)
             \/ ExpireDevice
             \/ UNCHANGED <<req, challengeVars>>
    <2>1. UNCHANGED <<req, twice, devices>>
      BY <1>2 DEF ExpireChallenge, Enrol, ExpireDevice
    <2>. QED
      BY <2>1, DeviceKept DEF At
  <1>. QED
    BY <1>1, <1>2 DEF ChallengeNext

LEMMA DeviceBegins == HandlersInit /\ ChallengeInit => DeviceInv
  BY DEF HandlersInit, ChallengeInit, DeviceInv, At, Idle

(* A device has one row unless two requests inserted it together.            *)
THEOREM DeviceHasOneRowHolds == ChallengeSpec => []DeviceHasOneRow
  <1>1. DeviceInv => DeviceHasOneRow
    BY DEF DeviceInv, DeviceHasOneRow
  <1>. QED
    BY <1>1, ChallengeTypeBegins, DeviceBegins, ChallengeTypeStep, DeviceStep, PTL DEF ChallengeSpec

------------------------------------------------------------------------------
(* Trust ends with the second factor: once it is off, only the revocation of  *)
(* the devices is on its way, and no challenge is open.                       *)
OffInv ==
    ~Required /\ ~leftover =>
      /\ \A h \in Handles : key[h] # "alive"
      /\ \A r \in Reqs : req[r] = Idle \/ At(r, "revoke")
      /\ devices = 0 \/ \E r \in Reqs : At(r, "revoke")

LEMMA OffStep ==
    ASSUME ChallengeTypeOK, OffInv, [ChallengeNext]_<<req, challengeVars>>
    PROVE  OffInv'
  <1>. USE DEF challengeVars, challengeKeys, deviceRows, outcomes, excuses
  <1>0. req \in [Reqs -> ChallengeTasks \cup {Idle}] /\ key \in [Handles -> {"none", "alive", "gone"}]
    BY DEF ChallengeTypeOK
  <1>a. SUFFICES ASSUME ~Required', ~leftover' PROVE OffInv'
    BY DEF OffInv
  <1>1. ASSUME NEW r \in Reqs, ChallengeStep(r) PROVE OffInv'
    <2>1. CASE DisableFactor(r)
      <3>1. /\ \A h \in Handles : key'[h] # "alive"
            /\ \A q \in Reqs \ {r} : req[q] = Idle
            /\ Takes(r, [pc |-> "revoke"])
        <4>1. ~\E h \in Handles : key[h] = "alive"
          BY <1>a, <2>1, Zenon DEF DisableFactor
        <4>2. ~\E q \in Reqs \ {r} : req[q] # Idle
          BY <1>a, <2>1, Zenon DEF DisableFactor
        <4>3. key' = key
          BY <2>1 DEF DisableFactor
        <4>. QED
          BY <2>1, <4>1, <4>2, <4>3, Moves DEF DisableFactor
      <3>2. \A q \in Reqs : IF q = r THEN req'[q] = [pc |-> "revoke"] ELSE req'[q] = Idle
        BY <1>0, <3>1 DEF Takes
      <3>. QED
        BY <3>1, <3>2 DEF OffInv, At
    <2>2. CASE ~DisableFactor(r)
      <3>1. factor' = factor /\ ~leftover
        <4>1. CASE ChallengeAbort(r)
          <5>1. leftover' = (leftover \/ At(r, "revoke")) /\ factor' = factor
            BY <4>1 DEF ChallengeAbort
          <5>. QED
            BY <1>a, <5>1, Zenon
        <4>2. CASE ~ChallengeAbort(r)
          <5>1. ASSUME Answer(r) PROVE factor' = factor /\ leftover' = leftover
            BY <5>1, AnswerIsRightOrWrong
               DEF Answer, Peek, Right, Wrong, Unanswerable, CountFailure, Burn, BurnClear, ConsumeLook,
                   ConsumeDelete, ConsumeClear, TrustAsk, TrustInsert, IssueLogin
          <5>2. ASSUME ~Answer(r) PROVE factor' = factor /\ leftover' = leftover
            BY <1>1, <2>2, <4>2, <5>2
               DEF ChallengeStep, SignInPassword, SignInDevice, SignInCode, OpenChallenge, RevokeDevices
          <5>3. factor' = factor /\ leftover' = leftover
            BY <5>1, <5>2
          <5>. QED
            BY <1>a, <5>3, Zenon
        <4>. QED
          BY <4>1, <4>2
      <3>2. /\ ~Required /\ \A h \in Handles : key[h] # "alive"
            /\ \A q \in Reqs : req[q] = Idle \/ At(q, "revoke")
            /\ devices = 0 \/ \E q \in Reqs : At(q, "revoke")
        BY <1>a, <3>1 DEF OffInv, Required
      <3>3. \A p \in AnswerSteps \cup {"open", "device"} : ~At(r, p)
        BY <3>2 DEF At, Idle, AnswerSteps
      <3>4. RevokeDevices(r) \/ ChallengeAbort(r)
        BY <1>1, <2>2, <3>2, <3>3
           DEF ChallengeStep, Answer, SignInPassword, SignInDevice, SignInCode, OpenChallenge, Peek, Right, Wrong,
               AnswerTotp, AnswerOtp, AnswerBackup,
               Unanswerable, CountFailure, Burn, BurnClear, ConsumeLook, ConsumeDelete, ConsumeClear, TrustAsk,
               TrustInsert, IssueLogin, AnswerSteps
      <3>5. RevokeDevices(r)
        <4>1. ASSUME ChallengeAbort(r) PROVE At(r, "revoke")
          BY <3>2, <4>1, IdleTask DEF ChallengeAbort
        <4>2. ASSUME ChallengeAbort(r) PROVE ~At(r, "revoke")
          BY <1>a, <4>2, Zenon DEF ChallengeAbort
        <4>. QED
          BY <3>4, <4>1, <4>2
      <3>6. Ends(r) /\ devices' = 0 /\ key' = key
        BY <3>5, Moves DEF RevokeDevices
      <3>. QED
        BY <1>0, <3>2, <3>6 DEF OffInv, Ends, At
    <2>. QED
      BY <2>1, <2>2
  <1>2. ASSUME NEW h \in Handles, ExpireChallenge(h) PROVE OffInv'
    BY <1>a, <1>0, <1>2 DEF ExpireChallenge, OffInv, Required, At
  <1>3. ASSUME NEW f \in {"set", "on", "app"}, Enrol(f) PROVE OffInv'
    <2>1. UNCHANGED <<req, key, devices, leftover>> /\ ~Required
      BY <1>a, <1>3 DEF Enrol, Required, ChallengeTypeOK
    <2>. QED
      BY <1>a, <2>1 DEF OffInv, At
  <1>4. CASE ExpireDevice \/ UNCHANGED <<req, challengeVars>>
    BY <1>a, <1>4 DEF ExpireDevice, OffInv, Required, At
  <1>. QED
    BY <1>1, <1>2, <1>3, <1>4 DEF ChallengeNext

LEMMA OffBegins == HandlersInit /\ ChallengeInit => OffInv
  BY DEF HandlersInit, ChallengeInit, OffInv

(* When the second factor is off and nothing was cut short or left on its     *)
(* way, no device is trusted.                                                 *)
THEOREM TrustEndsWithFactorHolds == ChallengeSpec => []TrustEndsWithFactor
  <1>1. OffInv => TrustEndsWithFactor
    BY DEF OffInv, TrustEndsWithFactor
  <1>. QED
    BY <1>1, ChallengeTypeBegins, OffBegins, ChallengeTypeStep, OffStep, PTL DEF ChallengeSpec

------------------------------------------------------------------------------
(* A challenge is opened once, by one request, is answered only afterwards,   *)
(* and is gone by the time a right answer is acted upon or its count cleared. *)
Acting == {"clear", "wipe", "ask", "insert", "issue"}

KeyInv ==
    /\ \A q \in Reqs : At(q, "open") => key[req[q].handle] = "none"
    /\ \A q, r \in Reqs : At(q, "open") /\ At(r, "open") /\ req[q].handle = req[r].handle => q = r
    /\ \A q \in Reqs : req[q] \in AnswerTasks =>
         /\ key[req[q].handle] # "none"
         /\ req[q].pc \in Acting => key[req[q].handle] = "gone"
    /\ \A h \in Handles : logins[h] > 0 => key[h] = "gone"

(* What the requests that answer leave alone, or only end.                   *)
Narrows(r, p) ==
    /\ Ends(r) \/ Goes(r, p)
    /\ \/ key' = key
       \/ req[r] \in AnswerTasks /\ key' = [key EXCEPT ![req[r].handle] = "gone"]
    /\ p \in Acting => key'[req[r].handle] = "gone"

LEMMA KeyNarrows ==
    ASSUME ChallengeTypeOK, KeyInv, NEW r \in Reqs, NEW p, Narrows(r, p),
           \A h \in Handles : logins'[h] > 0 => key'[h] = "gone" \/ logins[h] > 0
    PROVE  KeyInv'
  <1>0. /\ req \in [Reqs -> ChallengeTasks \cup {Idle}] /\ key \in [Handles -> {"none", "alive", "gone"}]
        /\ \A q \in Reqs : req[q] \in AnswerTasks => req[q].handle \in Handles
        /\ \A q \in Reqs : At(q, "open") => req[q].handle \in Handles /\ req[q] \notin AnswerTasks
    BY OpenTask DEF ChallengeTypeOK, AnswerTasks
  <1>1. \A q \in Reqs : q # r => req'[q] = req[q]
    BY <1>0 DEF Narrows, Ends, Goes
  <1>2. req'[r] = Idle \/ Goes(r, p)
    BY DEF Narrows, Ends
  <1>3. \A h \in Handles : key'[h] = key[h] \/ (key[h] # "none" /\ key'[h] = "gone")
    <2>1. CASE key' = key
      BY <2>1
    <2>2. CASE req[r] \in AnswerTasks /\ key' = [key EXCEPT ![req[r].handle] = "gone"]
      BY <1>0, <2>2 DEF KeyInv
    <2>. QED
      BY <2>1, <2>2 DEF Narrows
  <1>4. ~At(r, "open")'
    BY <1>2, IdleTask DEF Goes, At, AnswerTasks, AnswerSteps
  <1>5. \A q \in Reqs : At(q, "open")' => q # r /\ At(q, "open") /\ req'[q] = req[q]
    BY <1>1, <1>4 DEF At
  <1>6. \A q \in Reqs : At(q, "open")' => key'[req'[q].handle] = "none"
    BY <1>0, <1>3, <1>5 DEF KeyInv
  <1>7. \A q, s \in Reqs : At(q, "open")' /\ At(s, "open")' /\ req'[q].handle = req'[s].handle => q = s
    BY <1>5 DEF KeyInv
  <1>8. ASSUME NEW q \in Reqs, req'[q] \in AnswerTasks
        PROVE  /\ key'[req'[q].handle] # "none"
               /\ req'[q].pc \in Acting => key'[req'[q].handle] = "gone"
    <2>1. CASE q # r
      BY <1>0, <1>1, <1>3, <1>8, <2>1 DEF KeyInv
    <2>2. CASE q = r
      <3>1. Goes(r, p)
        BY <1>2, <1>8, <2>2, IdleTask
      <3>. QED
        BY <1>0, <1>3, <2>2, <3>1 DEF KeyInv, Goes, Narrows
    <2>. QED
      BY <2>1, <2>2
  <1>9. \A h \in Handles : logins'[h] > 0 => key'[h] = "gone"
    BY <1>3 DEF KeyInv
  <1>. QED
    BY <1>6, <1>7, <1>8, <1>9 DEF KeyInv

(* A request that takes up a task, while the keys and the logins rest.       *)
LEMMA KeyTakes ==
    ASSUME ChallengeTypeOK, KeyInv, NEW r \in Reqs, NEW x, Takes(r, x), UNCHANGED <<key, logins>>,
           x.pc = "open" => key[x.handle] = "none" /\ ~Opening(x.handle),
           x \in AnswerTasks => x.pc \notin Acting /\ key[x.handle] # "none"
    PROVE  KeyInv'
  <1>1. /\ req \in [Reqs -> ChallengeTasks \cup {Idle}]
        /\ \A q \in Reqs : IF q = r THEN req'[q] = x ELSE req'[q] = req[q]
    BY DEF ChallengeTypeOK, Takes
  <1>2. \A q \in Reqs : At(q, "open")' => key'[req'[q].handle] = "none"
    BY <1>1 DEF KeyInv, At
  <1>3. \A q, s \in Reqs : At(q, "open")' /\ At(s, "open")' /\ req'[q].handle = req'[s].handle => q = s
    BY <1>1 DEF KeyInv, At, Opening
  <1>4. \A q \in Reqs : req'[q] \in AnswerTasks =>
          /\ key'[req'[q].handle] # "none"
          /\ req'[q].pc \in Acting => key'[req'[q].handle] = "gone"
    BY <1>1 DEF KeyInv
  <1>. QED
    BY <1>2, <1>3, <1>4 DEF KeyInv

(* Every step of a request that answers a challenge, but the first, narrows.  *)
LEMMA AnswersNarrow ==
    ASSUME ChallengeTypeOK, KeyInv, NEW r \in Reqs,
           \/ Right(r) \/ Wrong(r) \/ Unanswerable(r) \/ CountFailure(r) \/ Burn(r) \/ BurnClear(r)
           \/ ConsumeLook(r) \/ ConsumeDelete(r) \/ ConsumeClear(r) \/ TrustAsk(r) \/ TrustInsert(r)
           \/ IssueLogin(r) \/ RevokeDevices(r) \/ ChallengeAbort(r)
    PROVE  \E p \in AnswerSteps : Narrows(r, p)
  <1>. USE DEF challengeKeys, outcomes, AnswerSteps, Acting
  <1>0. key \in [Handles -> {"none", "alive", "gone"}]
        /\ \A p \in AnswerSteps : At(r, p) => req[r] \in AnswerTasks /\ req[r].handle \in Handles
    BY AnswerTask DEF ChallengeTypeOK
  <1>1. CASE Unanswerable(r) \/ CountFailure(r) \/ BurnClear(r) \/ IssueLogin(r) \/ RevokeDevices(r) \/ ChallengeAbort(r)
    <2>1. key' = key
      BY <1>1 DEF Unanswerable, CountFailure, BurnClear, IssueLogin, RevokeDevices, ChallengeAbort, challengeVars
    <2>2. Ends(r) \/ Goes(r, "burn")
      BY <1>1, Moves
    <2>. QED
      BY <2>1, <2>2 DEF Narrows
  <1>2. CASE Right(r)
    BY <1>2, Moves DEF Right, Narrows, challengeVars
  <1>3. CASE Wrong(r)
    BY <1>3, Moves DEF Wrong, Narrows
  <1>4. CASE Burn(r)
    BY <1>0, <1>4, Moves DEF Burn, Narrows
  <1>5. CASE ConsumeLook(r)
    <2>1. key' = key /\ key[req[r].handle] # "none" /\ req[r].handle \in Handles
      BY <1>0, <1>5 DEF ConsumeLook, challengeVars, KeyInv, At
    <2>. QED
      BY <1>0, <1>5, <2>1, Moves DEF Narrows
  <1>6. CASE ConsumeDelete(r)
    BY <1>0, <1>6, Moves DEF ConsumeDelete, Narrows
  <1>7. CASE ConsumeClear(r)
    <2>1. key' = key /\ key[req[r].handle] = "gone"
      BY <1>0, <1>7 DEF ConsumeClear, KeyInv, At
    <2>. QED
      BY <1>7, <2>1, Moves DEF Narrows
  <1>8. CASE TrustAsk(r) \/ TrustInsert(r)
    <2>1. key' = key /\ key[req[r].handle] = "gone"
      BY <1>0, <1>8 DEF TrustAsk, TrustInsert, KeyInv, At
    <2>. QED
      BY <1>8, <2>1, Moves DEF Narrows
  <1>. QED
    BY <1>1, <1>2, <1>3, <1>4, <1>5, <1>6, <1>7, <1>8

LEMMA KeyStep ==
    ASSUME ChallengeTypeOK, KeyInv, [ChallengeNext]_<<req, challengeVars>>
    PROVE  KeyInv'
  <1>. USE DEF challengeVars, challengeKeys, deviceRows, outcomes, excuses
  <1>0. /\ req \in [Reqs -> ChallengeTasks \cup {Idle}] /\ key \in [Handles -> {"none", "alive", "gone"}]
        /\ logins \in [Handles -> Nat]
    BY DEF ChallengeTypeOK
  <1>1. ASSUME NEW r \in Reqs, ChallengeStep(r) PROVE KeyInv'
    <2>1. CASE SignInPassword(r) \/ DisableFactor(r)
      <3>1. UNCHANGED <<key, logins>> /\ (Takes(r, [pc |-> "device"]) \/ Takes(r, [pc |-> "revoke"]))
        BY <2>1, Moves DEF SignInPassword, DisableFactor
      <3>2. [pc |-> "device"] \notin AnswerTasks /\ [pc |-> "revoke"] \notin AnswerTasks
        BY DEF AnswerTasks, AnswerSteps
      <3>. QED
        BY <3>1, <3>2, KeyTakes
    <2>2. ASSUME NEW h \in Handles, key[h] = "none", ~Opening(h), Takes(r, [pc |-> "open", handle |-> h]),
                 UNCHANGED <<key, logins>>
          PROVE  KeyInv'
      <3>1. [pc |-> "open", handle |-> h] \notin AnswerTasks
        BY DEF AnswerTasks, AnswerSteps
      <3>. QED
        BY <2>2, <3>1, KeyTakes
    <2>3. CASE SignInDevice(r)
      <3>1. UNCHANGED <<key, logins>>
        BY <2>3 DEF SignInDevice
      <3>2. CASE Ends(r)
        BY <3>1, <3>2, KeyNarrows DEF Narrows, Acting
      <3>. QED
        BY <2>2, <2>3, <3>1, <3>2, Moves
    <2>4. ASSUME NEW h \in Handles, SignInCode(r, h) PROVE KeyInv'
      BY <2>2, <2>4, Moves DEF SignInCode
    <2>5. CASE OpenChallenge(r)
      <3>. DEFINE h == req[r].handle
      <3>1. h \in Handles /\ key[h] = "none"
        BY <2>5, OpenTask DEF OpenChallenge, KeyInv
      <3>2. key' = [key EXCEPT ![h] = "alive"] /\ logins' = logins /\ Ends(r)
        BY <2>5, Moves DEF OpenChallenge
      <3>3. \A q \in Reqs : IF q = r THEN req'[q] = Idle ELSE req'[q] = req[q]
        BY <1>0, <3>2 DEF Ends
      <3>4. \A g \in Handles : IF g = h THEN key'[g] = "alive" ELSE key'[g] = key[g]
        BY <1>0, <3>2
      <3>5. /\ \A q \in Reqs : At(q, "open")' => q # r /\ At(q, "open") /\ req[q].handle \in Handles /\ req[q].handle # h
            /\ \A q \in Reqs : req'[q] \in AnswerTasks =>
                 q # r /\ req[q] \in AnswerTasks /\ req[q].handle \in Handles /\ req[q].handle # h
        BY <2>5, <3>1, <3>3, OpenTask, IdleTask DEF At, KeyInv, OpenChallenge, AnswerTasks
      <3>. QED
        BY <3>1, <3>2, <3>3, <3>4, <3>5 DEF KeyInv, At
    <2>6. ASSUME NEW h \in Handles, NEW t \in BOOLEAN, Peek(r, h, t) PROVE KeyInv'
      <3>. DEFINE x == [pc |-> "answer", handle |-> h, trust |-> t]
      <3>1. Takes(r, x) /\ UNCHANGED <<key, logins>> /\ key[h] = "alive"
        BY <2>6, Moves DEF Peek
      <3>2. x.pc \notin Acting /\ x.handle = h /\ x.pc # "open"
        BY DEF Acting
      <3>. HIDE DEF x
      <3>. QED
        BY <3>1, <3>2, KeyTakes
    <2>7. CASE IssueLogin(r)
      <3>1. /\ req[r] \in AnswerTasks /\ req[r].handle \in Handles /\ key[req[r].handle] = "gone"
            /\ key' = key /\ logins' = [logins EXCEPT ![req[r].handle] = @ + 1] /\ Ends(r)
        BY <2>7, Moves, AnswerTask DEF IssueLogin, KeyInv, At, Acting, AnswerSteps
      <3>2. \A g \in Handles : logins'[g] > 0 => key'[g] = "gone" \/ logins[g] > 0
        BY <1>0, <3>1
      <3>3. Narrows(r, "clear")
        BY <3>1 DEF Narrows, Acting
      <3>. QED
        BY <3>2, <3>3, KeyNarrows
    <2>8. CASE \/ Right(r) \/ Wrong(r) \/ Unanswerable(r) \/ CountFailure(r) \/ Burn(r) \/ BurnClear(r)
               \/ ConsumeLook(r) \/ ConsumeDelete(r) \/ ConsumeClear(r) \/ TrustAsk(r) \/ TrustInsert(r)
               \/ RevokeDevices(r) \/ ChallengeAbort(r)
      <3>1. logins' = logins
        BY <2>8 DEF Right, Wrong, Unanswerable, CountFailure, Burn, BurnClear, ConsumeLook, ConsumeDelete,
                    ConsumeClear, TrustAsk, TrustInsert, RevokeDevices, ChallengeAbort
      <3>2. PICK p \in AnswerSteps : Narrows(r, p)
        BY <2>8, AnswersNarrow
      <3>. QED
        BY <3>1, <3>2, KeyNarrows
    <2>. QED
      BY <1>1, <2>1, <2>3, <2>4, <2>5, <2>6, <2>7, <2>8, AnswerIsRightOrWrong DEF ChallengeStep, Answer
  <1>2. ASSUME NEW h \in Handles, ExpireChallenge(h) PROVE KeyInv'
    <2>1. /\ UNCHANGED <<req, logins>> /\ key[h] = "alive"
          /\ \A g \in Handles : IF g = h THEN key'[g] = "gone" ELSE key'[g] = key[g]
      BY <1>0, <1>2 DEF ExpireChallenge
    <2>2. \A q \in Reqs : /\ At(q, "open") => req[q].handle \in Handles
                          /\ req[q] \in AnswerTasks => req[q].handle \in Handles
      BY OpenTask DEF AnswerTasks
    <2>. QED
      BY <2>1, <2>2 DEF KeyInv, At
  <1>3. CASE \/ \E f \in {"set", "on", "app"} : Enrol(f)
             \/ ExpireDevice
             \/ UNCHANGED <<req, challengeVars>>
    <2>1. UNCHANGED <<req, key, logins>>
      BY <1>3 DEF Enrol, ExpireDevice
    <2>. QED
      BY <2>1 DEF KeyInv, At
  <1>. QED
    BY <1>1, <1>2, <1>3 DEF ChallengeNext

LEMMA KeyBegins == HandlersInit /\ ChallengeInit => KeyInv
  BY DEF HandlersInit, ChallengeInit, KeyInv, At, Idle, AnswerTasks, AnswerSteps

(* A challenge that two requests never answered together has one that does,   *)
(* and none once it has led to a login or, but for the one that clears its    *)
(* count, has been destroyed for its failures.                                *)
OnceInv ==
    \A h \in Handles \ doubled :
      /\ \A q, r \in Reqs : Answering(q, h) /\ Answering(r, h) => q = r
      /\ logins[h] <= 1
      /\ logins[h] > 0 => \A q \in Reqs : ~Answering(q, h)
      /\ h \in burned => /\ logins[h] = 0 /\ key[h] = "gone"
                         /\ \A q \in Reqs : Answering(q, h) => At(q, "clear")

(* A step after which the same requests, or fewer, answer.                   *)
LEMMA OnceKept ==
    ASSUME OnceInv, UNCHANGED <<doubled, logins, burned>>,
           \A h \in Handles : key[h] = "gone" => key'[h] = "gone",
           \A q \in Reqs, h \in Handles : Answering(q, h)' => Answering(q, h) /\ (At(q, "clear") => At(q, "clear")')
    PROVE  OnceInv'
  BY DEF OnceInv

LEMMA OnceStep ==
    ASSUME ChallengeTypeOK, KeyInv, OnceInv, [ChallengeNext]_<<req, challengeVars>>
    PROVE  OnceInv'
  <1>. USE DEF challengeVars, challengeKeys, deviceRows, outcomes, excuses
  <1>0. /\ req \in [Reqs -> ChallengeTasks \cup {Idle}] /\ key \in [Handles -> {"none", "alive", "gone"}]
        /\ logins \in [Handles -> Nat] /\ burned \in SUBSET Handles /\ doubled \in SUBSET Handles
    BY DEF ChallengeTypeOK
  <1>1. ASSUME NEW r \in Reqs, ChallengeStep(r) PROVE OnceInv'
    <2>1. ASSUME NEW x, x \notin AnswerTasks, Takes(r, x) \/ Ends(r), UNCHANGED <<doubled, logins, burned>>,
                 \A h \in Handles : key[h] = "gone" => key'[h] = "gone"
          PROVE  OnceInv'
      <3>1. \A q \in Reqs, h \in Handles : Answering(q, h)' => Answering(q, h) /\ req'[q] = req[q]
        BY <1>0, <2>1, IdleTask DEF Takes, Ends, Answering
      <3>. QED
        BY <2>1, <3>1, OnceKept DEF At
    <2>2. CASE SignInPassword(r) \/ DisableFactor(r)
      <3>1. [pc |-> "device"] \notin AnswerTasks /\ [pc |-> "revoke"] \notin AnswerTasks
        BY DEF AnswerTasks, AnswerSteps
      <3>2. UNCHANGED <<doubled, logins, burned, key>>
        BY <2>2 DEF SignInPassword, DisableFactor
      <3>. QED
        BY <2>1, <2>2, <3>1, <3>2, Moves
    <2>3. \A h : [pc |-> "open", handle |-> h] \notin AnswerTasks
      BY DEF AnswerTasks, AnswerSteps
    <2>4. CASE SignInDevice(r)
      <3>1. UNCHANGED <<doubled, logins, burned, key>>
        BY <2>4 DEF SignInDevice
      <3>2. ASSUME NEW h \in Handles, Takes(r, [pc |-> "open", handle |-> h]) PROVE OnceInv'
        BY <2>1, <2>3, <3>1, <3>2
      <3>3. CASE Ends(r)
        BY <2>1, <3>1, <3>3, IdleTask
      <3>. QED
        BY <2>4, <3>2, <3>3, Moves
    <2>5. ASSUME NEW h \in Handles, SignInCode(r, h) PROVE OnceInv'
      <3>1. UNCHANGED <<doubled, logins, burned, key>> /\ Takes(r, [pc |-> "open", handle |-> h])
        BY <2>5, Moves DEF SignInCode
      <3>. QED
        BY <2>1, <2>3, <3>1
    <2>6. CASE OpenChallenge(r)
      <3>1. req[r].handle \in Handles /\ key[req[r].handle] = "none"
        BY <2>6, OpenTask DEF OpenChallenge, KeyInv
      <3>2. \A h \in Handles : key[h] = "gone" => key'[h] = "gone"
        BY <1>0, <2>6, <3>1 DEF OpenChallenge
      <3>. QED
        BY <2>1, <2>6, <3>2, IdleTask, Moves DEF OpenChallenge
    <2>7. ASSUME NEW h \in Handles, NEW t \in BOOLEAN, Peek(r, h, t) PROVE OnceInv'
      <3>. DEFINE x == [pc |-> "answer", handle |-> h, trust |-> t]
      <3>1. /\ UNCHANGED <<key, logins, burned>> /\ key[h] = "alive" /\ req[r] = Idle
            /\ doubled' = IF \E q \in Reqs : Answering(q, h) THEN doubled \cup {h} ELSE doubled
        BY <2>7 DEF Peek, Start
      <3>2. \A q \in Reqs : IF q = r THEN req'[q] = x ELSE req'[q] = req[q]
        BY <1>0, <2>7, Moves DEF Takes
      <3>3. \A q \in Reqs, g \in Handles : Answering(q, g)' =>
              IF q = r THEN g = h ELSE Answering(q, g) /\ (At(q, "clear") => At(q, "clear")')
        BY <3>2 DEF Answering, At
      <3>4. ASSUME NEW g \in Handles, g \notin doubled', g # h
            PROVE  /\ \A q, s \in Reqs : Answering(q, g)' /\ Answering(s, g)' => q = s
                   /\ logins'[g] <= 1
                   /\ logins'[g] > 0 => \A q \in Reqs : ~Answering(q, g)'
                   /\ g \in burned' => /\ logins'[g] = 0 /\ key'[g] = "gone"
                                       /\ \A q \in Reqs : Answering(q, g)' => At(q, "clear")'
        BY <3>1, <3>3, <3>4 DEF OnceInv
      <3>5. ASSUME h \notin doubled'
            PROVE  /\ \A q, s \in Reqs : Answering(q, h)' /\ Answering(s, h)' => q = s
                   /\ logins'[h] = 0 /\ h \notin burned'
        <4>1. h \notin doubled /\ \A q \in Reqs : ~Answering(q, h)
          BY <3>1, <3>5
        <4>2. \A q, s \in Reqs : Answering(q, h)' /\ Answering(s, h)' => q = s
          BY <3>3, <4>1
        <4>3. logins'[h] = 0 /\ h \notin burned'
          BY <1>0, <3>1, <4>1 DEF OnceInv, KeyInv
        <4>. QED
          BY <4>2, <4>3
      <3>. QED
        BY <3>4, <3>5 DEF OnceInv
    <2>8. CASE IssueLogin(r)
      <3>0. PICK g \in Handles : g = req[r].handle
        BY <2>8, AnswerTask DEF IssueLogin, AnswerSteps
      <3>1. /\ req[r] \in AnswerTasks /\ key' = key /\ Ends(r) /\ req[r].pc = "issue"
            /\ UNCHANGED <<doubled, burned>> /\ logins' = [logins EXCEPT ![g] = @ + 1]
        BY <2>8, <3>0, Moves, AnswerTask DEF IssueLogin, At, AnswerSteps
      <3>2. \A q \in Reqs, h \in Handles : Answering(q, h)' => Answering(q, h) /\ q # r /\ req'[q] = req[q]
        BY <1>0, <3>1, IdleTask DEF Ends, Answering
      <3>3. Answering(r, g) /\ ~At(r, "clear")
        BY <3>0, <3>1 DEF Answering, At
      <3>4. ASSUME g \notin doubled
            PROVE  logins'[g] = 1 /\ g \notin burned /\ \A q \in Reqs : ~Answering(q, g)'
        <4>1. logins[g] = 0 /\ g \notin burned
          BY <1>0, <3>1, <3>3, <3>4 DEF OnceInv
        <4>2. \A q \in Reqs : ~Answering(q, g)'
          BY <3>1, <3>2, <3>3, <3>4 DEF OnceInv
        <4>. QED
          BY <1>0, <3>1, <4>1, <4>2
      <3>5. \A h \in Handles : h # g => logins'[h] = logins[h]
        BY <1>0, <3>1
      <3>. QED
        BY <3>1, <3>2, <3>4, <3>5 DEF OnceInv, At
    <2>9. CASE Burn(r)
      <3>0. PICK g \in Handles : g = req[r].handle
        BY <2>9, AnswerTask DEF Burn, AnswerSteps
      <3>1. /\ req[r] \in AnswerTasks /\ Goes(r, "clear") /\ req[r].pc = "burn"
            /\ UNCHANGED <<doubled, logins>> /\ burned' = burned \cup {g}
            /\ key' = [key EXCEPT ![g] = "gone"]
        BY <2>9, <3>0, Moves, AnswerTask DEF Burn, At, AnswerSteps
      <3>2. \A q \in Reqs, h \in Handles : Answering(q, h)' =>
              IF q = r THEN h = g /\ At(q, "clear")' ELSE Answering(q, h) /\ req'[q] = req[q]
        BY <1>0, <3>0, <3>1 DEF Goes, Answering, At
      <3>3. Answering(r, g)
        BY <3>0, <3>1 DEF Answering
      <3>4. ASSUME g \notin doubled
            PROVE  /\ logins[g] = 0
                   /\ \A q \in Reqs : Answering(q, g)' => q = r
        <4>1. logins[g] = 0
          BY <1>0, <3>1, <3>3, <3>4 DEF OnceInv
        <4>2. \A q \in Reqs : Answering(q, g)' => q = r
          BY <3>1, <3>2, <3>3, <3>4 DEF OnceInv
        <4>. QED
          BY <4>1, <4>2
      <3>5. key'[g] = "gone" /\ \A h \in Handles : h # g => key'[h] = key[h]
        BY <1>0, <3>1
      <3>6. ASSUME NEW h \in Handles, h \notin doubled, h # g
            PROVE  /\ \A q, s \in Reqs : Answering(q, h)' /\ Answering(s, h)' => q = s
                   /\ logins'[h] <= 1
                   /\ logins'[h] > 0 => \A q \in Reqs : ~Answering(q, h)'
                   /\ h \in burned' => /\ logins'[h] = 0 /\ key'[h] = "gone"
                                       /\ \A q \in Reqs : Answering(q, h)' => At(q, "clear")'
        BY <3>1, <3>2, <3>5, <3>6 DEF OnceInv, At
      <3>7. ASSUME g \notin doubled
            PROVE  /\ \A q, s \in Reqs : Answering(q, g)' /\ Answering(s, g)' => q = s
                   /\ logins'[g] = 0 /\ key'[g] = "gone"
                   /\ \A q \in Reqs : Answering(q, g)' => At(q, "clear")'
        BY <3>1, <3>2, <3>4, <3>5, <3>7
      <3>. QED
        BY <3>1, <3>6, <3>7 DEF OnceInv
    <2>10. CASE \/ Right(r) \/ Wrong(r) \/ Unanswerable(r) \/ CountFailure(r) \/ BurnClear(r)
                \/ ConsumeLook(r) \/ ConsumeDelete(r) \/ ConsumeClear(r) \/ TrustAsk(r) \/ TrustInsert(r)
                \/ RevokeDevices(r) \/ ChallengeAbort(r)
      <3>1. UNCHANGED <<doubled, logins, burned>>
        BY <2>10 DEF Right, Wrong, Unanswerable, CountFailure, BurnClear, ConsumeLook, ConsumeDelete,
                     ConsumeClear, TrustAsk, TrustInsert, RevokeDevices, ChallengeAbort
      <3>2. PICK p \in AnswerSteps : Narrows(r, p)
        BY <2>10, AnswersNarrow
      <3>3. \A h \in Handles : key[h] = "gone" => key'[h] = "gone"
        BY <1>0, <3>2 DEF Narrows
      <3>4. Ends(r) \/ (Goes(r, p) /\ ~At(r, "clear"))
        BY <2>10, <3>2, Moves DEF Narrows, At, Right, Wrong, CountFailure, ConsumeLook, ConsumeDelete,
                                  ConsumeClear, TrustAsk, TrustInsert
      <3>5. \A q \in Reqs, h \in Handles : Answering(q, h)' => Answering(q, h) /\ (At(q, "clear") => At(q, "clear")')
        BY <1>0, <3>4, IdleTask DEF Ends, Goes, Answering, At
      <3>. QED
        BY <3>1, <3>3, <3>5, OnceKept
    <2>. QED
      BY <1>1, <2>2, <2>4, <2>5, <2>6, <2>7, <2>8, <2>9, <2>10, AnswerIsRightOrWrong DEF ChallengeStep, Answer
  <1>2. ASSUME NEW h \in Handles, ExpireChallenge(h) PROVE OnceInv'
    <2>1. UNCHANGED <<req, doubled, logins, burned>> /\ \A g \in Handles : key[g] = "gone" => key'[g] = "gone"
      BY <1>0, <1>2 DEF ExpireChallenge
    <2>. QED
      BY <2>1, OnceKept DEF Answering, At
  <1>3. CASE \/ \E f \in {"set", "on", "app"} : Enrol(f)
             \/ ExpireDevice
             \/ UNCHANGED <<req, challengeVars>>
    <2>1. UNCHANGED <<req, key, doubled, logins, burned>>
      BY <1>3 DEF Enrol, ExpireDevice
    <2>. QED
      BY <2>1, OnceKept DEF Answering, At
  <1>. QED
    BY <1>1, <1>2, <1>3 DEF ChallengeNext

LEMMA OnceBegins == HandlersInit /\ ChallengeInit => OnceInv
  BY DEF HandlersInit, ChallengeInit, OnceInv, Answering, Idle, AnswerTasks, AnswerSteps

(* A challenge leads to one login, unless two requests answered it together.  *)
THEOREM ChallengeLogsInOnceHolds == ChallengeSpec => []ChallengeLogsInOnce
  <1>1. OnceInv => ChallengeLogsInOnce
    BY DEF OnceInv, ChallengeLogsInOnce
  <1>. QED
    BY <1>1, ChallengeTypeBegins, KeyBegins, OnceBegins, ChallengeTypeStep, KeyStep, OnceStep, PTL DEF ChallengeSpec

(* A challenge destroyed for its failures leads to no login, unless two       *)
(* requests answered it together.                                             *)
THEOREM LockoutIsFinalHolds == ChallengeSpec => []LockoutIsFinal
  <1>1. ChallengeTypeOK /\ OnceInv => LockoutIsFinal
    BY DEF ChallengeTypeOK, OnceInv, LockoutIsFinal
  <1>. QED
    BY <1>1, ChallengeTypeBegins, KeyBegins, OnceBegins, ChallengeTypeStep, KeyStep, OnceStep, PTL DEF ChallengeSpec

------------------------------------------------------------------------------
(* The guesses of a challenge, counted with the requests on their way.       *)
Doing(p, h) == {q \in Reqs : req[q] \in AnswerTasks /\ req[q].handle = h /\ req[q].pc = p}
Number(p, h) == Cardinality(Doing(p, h))

(* While a challenge can still be looked at, its wrong answers are the ones   *)
(* counted and the ones about to be, and the count exceeds the limit only by  *)
(* the requests about to destroy it.                                          *)
Counted(h) ==
    /\ guesses[h] = tries[h] + Number("fail", h)
    /\ tries[h] < MaxAttempts + Number("burn", h)

GuessesOf(h) ==
    /\ guesses[h] + Number("answer", h) < MaxAttempts + Cardinality(Reqs)
    /\ key[h] # "gone" => Counted(h)

GuessInv == \A h \in Handles \ cut : GuessesOf(h)

LEMMA NumberType ==
    ASSUME NEW p, NEW h
    PROVE  IsFiniteSet(Doing(p, h)) /\ Number(p, h) \in Nat /\ IsFiniteSet(Doing(p, h))' /\ Number(p, h)' \in Nat
  <1>1. Doing(p, h) \subseteq Reqs /\ Doing(p, h)' \subseteq Reqs
    BY DEF Doing
  <1>2. IsFiniteSet(Doing(p, h)) /\ IsFiniteSet(Doing(p, h)')
    BY <1>1, RequestsAssumption, FS_Subset
  <1>. QED
    BY <1>2, FS_CardinalityType DEF Number

(* Requests of three kinds are no more than there are requests.              *)
LEMMA ThreeKinds ==
    ASSUME NEW A \in SUBSET Reqs, NEW F \in SUBSET Reqs, NEW B \in SUBSET Reqs,
           A \cap F = {}, A \cap B = {}, F \cap B = {}
    PROVE  Cardinality(A) + Cardinality(F) + Cardinality(B) <= Cardinality(Reqs)
  <1>1. IsFiniteSet(A) /\ IsFiniteSet(F) /\ IsFiniteSet(B) /\ IsFiniteSet(Reqs)
    BY RequestsAssumption, FS_Subset
  <1>. DEFINE U == A \cup F
  <1>2. U \cap B = {} /\ U \cup B \in SUBSET Reqs
    OBVIOUS
  <1>3. IsFiniteSet(U) /\ Cardinality(U) = Cardinality(A) + Cardinality(F) - Cardinality({})
    BY <1>1, FS_Union
  <1>. HIDE DEF U
  <1>4. Cardinality(U \cup B) = Cardinality(U) + Cardinality(B) - Cardinality({})
    BY <1>1, <1>2, <1>3, FS_Union
  <1>5. Cardinality(U \cup B) <= Cardinality(Reqs)
    BY <1>1, <1>2, FS_Subset
  <1>6. Cardinality({}) = 0
    BY FS_EmptySet
  <1>7. Cardinality(A) \in Nat /\ Cardinality(F) \in Nat /\ Cardinality(B) \in Nat /\ Cardinality(Reqs) \in Nat
    BY <1>1, FS_CardinalityType
  <1>. QED
    BY <1>3, <1>4, <1>5, <1>6, <1>7

(* The number at a step changes by the request that moves.                   *)
LEMMA NumberMoves ==
    ASSUME ChallengeTypeOK, NEW r \in Reqs, req' = [req EXCEPT ![r] = req'[r]], NEW p, NEW h
    PROVE  /\ r \in Doing(p, h) /\ r \notin Doing(p, h)' => Number(p, h)' = Number(p, h) - 1
           /\ r \notin Doing(p, h) /\ r \in Doing(p, h)' => Number(p, h)' = Number(p, h) + 1
           /\ (r \in Doing(p, h) <=> r \in Doing(p, h)') => Number(p, h)' = Number(p, h)
  <1>0. req \in [Reqs -> ChallengeTasks \cup {Idle}] /\ \A q \in Reqs : q # r => req'[q] = req[q]
    BY DEF ChallengeTypeOK
  <1>. DEFINE D == Doing(p, h)  E == Doing(p, h)'
  <1>1. \A q : q # r => (q \in D <=> q \in E)
    BY <1>0 DEF Doing
  <1>2. IsFiniteSet(D) /\ IsFiniteSet(E) /\ Cardinality(D) \in Nat /\ Cardinality(E) \in Nat
    BY NumberType, FS_CardinalityType
  <1>3. Number(p, h) = Cardinality(D) /\ Number(p, h)' = Cardinality(E)
    BY DEF Number
  <1>. HIDE DEF D, E
  <1>4. ASSUME r \in D, r \notin E PROVE Cardinality(E) = Cardinality(D) - 1
    <2>1. E = D \ {r}
      BY <1>1, <1>4
    <2>. QED
      BY <1>2, <1>4, <2>1, FS_RemoveElement
  <1>5. ASSUME r \notin D, r \in E PROVE Cardinality(E) = Cardinality(D) + 1
    <2>1. E = D \cup {r}
      BY <1>1, <1>5
    <2>. QED
      BY <1>2, <1>5, <2>1, FS_AddElement
  <1>6. ASSUME r \in D <=> r \in E PROVE D = E
    BY <1>1, <1>6
  <1>7. (r \in D <=> r \in E) => Number(p, h)' = Number(p, h)
    BY <1>3, <1>6
  <1>. QED
    BY <1>3, <1>4, <1>5, <1>7 DEF D, E

(* A challenge that can be looked at after a step needs only its count.      *)
LEMMA CountedIsEnough ==
    ASSUME ChallengeTypeOK', NEW h \in Handles, Counted(h)'
    PROVE  GuessesOf(h)'
  <1>1. Number("answer", h)' + Number("fail", h)' + Number("burn", h)' <= Cardinality(Reqs)
    <2>1. /\ Doing("answer", h)' \in SUBSET Reqs /\ Doing("fail", h)' \in SUBSET Reqs
          /\ Doing("burn", h)' \in SUBSET Reqs
          /\ Doing("answer", h)' \cap Doing("fail", h)' = {}
          /\ Doing("answer", h)' \cap Doing("burn", h)' = {}
          /\ Doing("fail", h)' \cap Doing("burn", h)' = {}
      BY DEF Doing
    <2>. QED
      BY <2>1, ThreeKinds DEF Number
  <1>2. /\ Number("answer", h)' \in Nat /\ Number("fail", h)' \in Nat /\ Number("burn", h)' \in Nat
        /\ guesses'[h] \in Nat /\ tries'[h] \in Nat /\ Cardinality(Reqs) \in Nat
    BY NumberType, RequestsAssumption, FS_CardinalityType DEF ChallengeTypeOK
  <1>. QED
    BY <1>1, <1>2 DEF GuessesOf, Counted

(* A step that adds neither answers nor guesses.                             *)
LEMMA GuessesKept ==
    ASSUME ChallengeTypeOK, NEW h \in Handles, GuessesOf(h),
           guesses'[h] + Number("answer", h)' <= guesses[h] + Number("answer", h),
           guesses'[h] \in Nat,
           \/ key'[h] = "gone"
           \/ /\ key[h] # "gone" /\ guesses'[h] = guesses[h] /\ tries'[h] = tries[h]
              /\ Number("fail", h)' = Number("fail", h) /\ Number("burn", h)' = Number("burn", h)
    PROVE  GuessesOf(h)'
  <1>1. /\ Number("answer", h) \in Nat /\ Number("answer", h)' \in Nat
        /\ guesses[h] \in Nat /\ Cardinality(Reqs) \in Nat
    BY NumberType, RequestsAssumption, FS_CardinalityType DEF ChallengeTypeOK
  <1>2. guesses'[h] + Number("answer", h)' < MaxAttempts + Cardinality(Reqs)
    BY <1>1 DEF GuessesOf
  <1>3. key'[h] # "gone" => Counted(h)'
    BY DEF GuessesOf, Counted
  <1>. QED
    BY <1>2, <1>3 DEF GuessesOf

(* A request that moves neither to nor from a step that is counted.          *)
LEMMA GuessesPass ==
    ASSUME ChallengeTypeOK, NEW r \in Reqs, NEW h \in Handles, GuessesOf(h),
           req' = [req EXCEPT ![r] = req'[r]],
           guesses'[h] = guesses[h], r \notin Doing("answer", h)',
           \/ key'[h] = "gone"
           \/ /\ key[h] # "gone" /\ tries'[h] = tries[h]
              /\ r \notin Doing("fail", h) /\ r \notin Doing("fail", h)'
              /\ r \notin Doing("burn", h) /\ r \notin Doing("burn", h)'
    PROVE  GuessesOf(h)'
  <1>1. guesses'[h] \in Nat /\ \A p : Number(p, h) \in Nat /\ Number(p, h)' \in Nat
    BY NumberType DEF ChallengeTypeOK
  <1>2. Number("answer", h)' = Number("answer", h) \/ Number("answer", h)' = Number("answer", h) - 1
    BY NumberMoves
  <1>3. guesses'[h] + Number("answer", h)' <= guesses[h] + Number("answer", h)
    BY <1>1, <1>2
  <1>4. \/ key'[h] = "gone"
        \/ /\ key[h] # "gone" /\ tries'[h] = tries[h]
           /\ Number("fail", h)' = Number("fail", h) /\ Number("burn", h)' = Number("burn", h)
    BY NumberMoves
  <1>. QED
    BY <1>1, <1>3, <1>4, GuessesKept

LEMMA GuessStep ==
    ASSUME ChallengeTypeOK, ChallengeTypeOK', KeyInv, GuessInv, [ChallengeNext]_<<req, challengeVars>>
    PROVE  GuessInv'
  <1>. USE DEF challengeVars, challengeKeys, deviceRows, outcomes, excuses
  <1>0. /\ req \in [Reqs -> ChallengeTasks \cup {Idle}] /\ key \in [Handles -> {"none", "alive", "gone"}]
        /\ tries \in [Handles -> Nat] /\ guesses \in [Handles -> Nat] /\ guesses' \in [Handles -> Nat]
        /\ tries' \in [Handles -> Nat] /\ key' \in [Handles -> {"none", "alive", "gone"}]
    BY DEF ChallengeTypeOK
  <1>a. cut \subseteq cut'
    BY DEF ChallengeNext, ChallengeStep, Answer, SignInPassword, SignInDevice, SignInCode, OpenChallenge, Peek,
           AnswerTotp, AnswerOtp, AnswerBackup, Right, Wrong, Unanswerable, CountFailure, Burn, BurnClear,
           ConsumeLook, ConsumeDelete, ConsumeClear, TrustAsk, TrustInsert, IssueLogin, DisableFactor,
           RevokeDevices, ChallengeAbort, ExpireChallenge, Enrol, ExpireDevice
  <1>. SUFFICES ASSUME NEW h \in Handles, h \notin cut' PROVE GuessesOf(h)'
    BY DEF GuessInv
  <1>b. /\ h \notin cut /\ GuessesOf(h)
        /\ \A p : Number(p, h) \in Nat /\ Number(p, h)' \in Nat
        /\ \A p : Doing(p, h)' = Doing(p, h) => Number(p, h)' = Number(p, h)
    BY <1>a, NumberType DEF GuessInv, Number
  <1>1. ASSUME NEW r \in Reqs, ChallengeStep(r) PROVE GuessesOf(h)'
    <2>0. /\ \A p : r \in Doing(p, h) <=> Answering(r, h) /\ req[r].pc = p
          /\ \A p : r \in Doing(p, h)' <=> Answering(r, h)' /\ req'[r].pc = p
          /\ Number("answer", h) \in Nat /\ Number("fail", h) \in Nat /\ Number("burn", h) \in Nat
          /\ guesses[h] \in Nat /\ tries[h] \in Nat
      BY <1>0, NumberType DEF Doing, Answering
    <2>a. \A p : /\ Ends(r) \/ Goes(r, p) => req' = [req EXCEPT ![r] = req'[r]]
                 /\ Ends(r) => ~Answering(r, h)'
                 /\ Goes(r, p) => (Answering(r, h) <=> Answering(r, h)') /\ req'[r].pc = p
      BY IdleTask DEF Ends, Goes, Answering
    (* A request that does not answer h before or after its step.             *)
    <2>b. ASSUME req' = [req EXCEPT ![r] = req'[r]], ~Answering(r, h), ~Answering(r, h)', guesses'[h] = guesses[h],
                 \/ key'[h] = "gone"
                 \/ key[h] # "gone" /\ tries'[h] = tries[h]
          PROVE  GuessesOf(h)'
      BY <1>b, <2>0, <2>b, GuessesPass
    <2>1. ASSUME NEW g \in Handles, NEW t \in BOOLEAN, Peek(r, g, t) PROVE GuessesOf(h)'
      <3>. DEFINE x == [pc |-> "answer", handle |-> g, trust |-> t]
      <3>1. /\ UNCHANGED <<key, tries, guesses>> /\ key[g] = "alive" /\ req[r] = Idle
            /\ req' = [req EXCEPT ![r] = req'[r]] /\ req'[r] = x
        <4>1. Takes(r, x)
          BY <2>1, Moves
        <4>2. UNCHANGED <<key, tries, guesses>> /\ key[g] = "alive" /\ req[r] = Idle
          BY <2>1 DEF Peek, Start
        <4>. QED
          BY <4>1, <4>2 DEF Takes
      <3>2. ~Answering(r, h) /\ req'[r].pc = "answer" /\ req'[r].handle = g
        BY <3>1, IdleTask DEF Answering
      <3>3. CASE g = h
        <4>1. Number("fail", h)' = Number("fail", h) /\ Number("burn", h)' = Number("burn", h)
          BY <2>0, <3>1, <3>2, NumberMoves
        <4>2. Counted(h)'
          BY <1>b, <3>1, <3>3, <4>1 DEF GuessesOf, Counted
        <4>. QED
          BY <4>2, CountedIsEnough
      <3>4. CASE g # h
        BY <1>0, <1>b, <2>0, <3>1, <3>2, <3>4, GuessesPass DEF Answering
      <3>. QED
        BY <3>3, <3>4
    <2>2. CASE Wrong(r)
      <3>1. /\ Goes(r, "fail") /\ req[r].pc = "answer" /\ req[r].handle \in Handles /\ UNCHANGED <<key, tries>>
            /\ guesses' = [guesses EXCEPT ![req[r].handle] = @ + 1]
        BY <2>2, Moves, AnswerTask DEF Wrong, At, AnswerSteps
      <3>2. CASE req[r].handle = h
        <4>1. Answering(r, h) /\ Answering(r, h)'
          BY <3>1, <3>2 DEF Answering, Goes
        <4>2. /\ Number("answer", h)' = Number("answer", h) - 1 /\ Number("fail", h)' = Number("fail", h) + 1
              /\ Number("burn", h)' = Number("burn", h)
          BY <2>0, <2>a, <3>1, <4>1, NumberMoves
        <4>3. guesses'[h] = guesses[h] + 1
          BY <1>0, <3>1, <3>2
        <4>4. guesses'[h] + Number("answer", h)' = guesses[h] + Number("answer", h)
          BY <2>0, <4>2, <4>3
        <4>5. key'[h] # "gone" => Counted(h)'
          BY <1>b, <2>0, <3>1, <4>2, <4>3 DEF GuessesOf, Counted
        <4>. QED
          BY <1>b, <4>4, <4>5 DEF GuessesOf
      <3>3. CASE req[r].handle # h
        BY <1>0, <1>b, <2>0, <2>a, <3>1, <3>3, GuessesPass DEF Answering
      <3>. QED
        BY <3>2, <3>3
    <2>3. CASE CountFailure(r)
      <3>1. /\ req[r].pc = "fail" /\ req[r] \in AnswerTasks /\ req[r].handle \in Handles /\ UNCHANGED <<key, guesses>>
            /\ tries' = [tries EXCEPT ![req[r].handle] = @ + 1]
        BY <2>3, AnswerTask DEF CountFailure, At, AnswerSteps
      <3>2. IF tries[req[r].handle] + 1 >= MaxAttempts THEN Goes(r, "burn") ELSE Ends(r)
        BY <2>3, <3>1, GoesOn, EndsThere DEF CountFailure, AnswerSteps
      <3>3. CASE req[r].handle = h
        <4>1. Answering(r, h) /\ tries'[h] = tries[h] + 1
          BY <1>0, <3>1, <3>3 DEF Answering
        <4>2. /\ Number("answer", h)' = Number("answer", h) /\ Number("fail", h)' = Number("fail", h) - 1
              /\ Number("burn", h)' = IF tries[h] + 1 >= MaxAttempts THEN Number("burn", h) + 1 ELSE Number("burn", h)
          <5>1. CASE tries[h] + 1 >= MaxAttempts
            <6>1. /\ req' = [req EXCEPT ![r] = req'[r]]
                  /\ r \in Doing("burn", h)' /\ r \notin Doing("fail", h)' /\ r \notin Doing("answer", h)'
              BY <2>0, <2>a, <3>2, <3>3, <4>1, <5>1
            <6>2. r \in Doing("fail", h) /\ r \notin Doing("burn", h) /\ r \notin Doing("answer", h)
              BY <2>0, <3>1, <4>1
            <6>. QED
              BY <5>1, <6>1, <6>2, NumberMoves
          <5>2. CASE ~(tries[h] + 1 >= MaxAttempts)
            <6>1. Ends(r) /\ req' = [req EXCEPT ![r] = req'[r]] /\ \A p : r \notin Doing(p, h)'
              BY <2>0, <2>a, <3>2, <3>3, <5>2
            <6>2. r \in Doing("fail", h) /\ r \notin Doing("burn", h) /\ r \notin Doing("answer", h)
              BY <2>0, <3>1, <4>1
            <6>. QED
              BY <5>2, <6>1, <6>2, NumberMoves
          <5>. QED
            BY <5>1, <5>2
        <4>3. guesses'[h] + Number("answer", h)' = guesses[h] + Number("answer", h)
          BY <3>1, <4>2
        <4>4. key'[h] # "gone" => Counted(h)'
          BY <1>b, <2>0, <3>1, <4>1, <4>2 DEF GuessesOf, Counted
        <4>. QED
          BY <1>b, <4>3, <4>4 DEF GuessesOf
      <3>4. CASE req[r].handle # h
        <4>1. ~Answering(r, h) /\ ~Answering(r, h)' /\ req' = [req EXCEPT ![r] = req'[r]]
          BY <2>a, <3>1, <3>2, <3>4 DEF Answering
        <4>. QED
          BY <1>0, <2>b, <3>1, <3>4, <4>1
      <3>. QED
        BY <3>3, <3>4
    <2>4. CASE SignInPassword(r) \/ SignInDevice(r) \/ (\E g \in Handles : SignInCode(r, g)) \/ DisableFactor(r)
      <3>1. /\ UNCHANGED <<key, guesses, tries>>
            /\ req[r] = Idle \/ At(r, "device")
        BY <2>4 DEF SignInPassword, SignInDevice, SignInCode, DisableFactor, Start
      <3>2. req' = [req EXCEPT ![r] = req'[r]] /\ ~Answering(r, h)'
        <4>1. \A x : Takes(r, x) /\ x.pc \notin AnswerSteps => req' = [req EXCEPT ![r] = req'[r]] /\ ~Answering(r, h)'
          BY DEF Takes, Answering, AnswerTasks
        <4>2. Ends(r) => req' = [req EXCEPT ![r] = req'[r]] /\ ~Answering(r, h)'
          BY <2>a
        <4>3. SignInPassword(r) \/ DisableFactor(r) => req' = [req EXCEPT ![r] = req'[r]] /\ ~Answering(r, h)'
          BY <4>1, Moves DEF AnswerSteps
        <4>4. SignInDevice(r) => req' = [req EXCEPT ![r] = req'[r]] /\ ~Answering(r, h)'
          BY <4>1, <4>2, Moves DEF AnswerSteps
        <4>5. (\E g \in Handles : SignInCode(r, g)) => req' = [req EXCEPT ![r] = req'[r]] /\ ~Answering(r, h)'
          BY <4>1, Moves DEF AnswerSteps
        <4>. QED
          BY <2>4, <4>3, <4>4, <4>5
      <3>3. ~Answering(r, h)
        BY <3>1, IdleTask DEF Answering, At, AnswerTasks, AnswerSteps
      <3>. QED
        BY <2>b, <3>1, <3>2, <3>3
    <2>5. CASE OpenChallenge(r)
      <3>1. /\ Ends(r) /\ UNCHANGED <<tries, guesses>> /\ ~Answering(r, h)
            /\ req[r].handle \in Handles /\ key[req[r].handle] = "none"
            /\ key' = [key EXCEPT ![req[r].handle] = "alive"]
        BY <2>5, Moves, OpenTask DEF OpenChallenge, Answering, KeyInv
      <3>2. key'[h] = "gone" \/ key[h] # "gone"
        BY <1>0, <3>1
      <3>. QED
        BY <2>a, <2>b, <3>1, <3>2
    <2>6. CASE \/ Right(r) \/ Unanswerable(r) \/ Burn(r) \/ BurnClear(r)
               \/ ConsumeLook(r) \/ ConsumeDelete(r) \/ ConsumeClear(r) \/ TrustAsk(r) \/ TrustInsert(r)
               \/ IssueLogin(r) \/ RevokeDevices(r) \/ ChallengeAbort(r)
      <3>1. guesses' = guesses
        BY <2>6 DEF Right, Unanswerable, Burn, BurnClear, ConsumeLook, ConsumeDelete,
                    ConsumeClear, TrustAsk, TrustInsert, IssueLogin, RevokeDevices, ChallengeAbort
      <3>2. Ends(r) \/ \E p \in {"clear", "consume", "drop", "wipe", "ask", "insert", "issue"} : Goes(r, p)
        BY <2>6, Moves
      <3>3. req' = [req EXCEPT ![r] = req'[r]] /\ (Answering(r, h)' => Answering(r, h) /\ req'[r].pc \notin {"answer", "fail", "burn"})
        BY <2>a, <3>2
      <3>4. PICK p \in AnswerSteps : Narrows(r, p)
        BY <2>6, AnswersNarrow
      <3>5. key[h] = "gone" => key'[h] = "gone"
        BY <1>0, <3>4 DEF Narrows
      <3>6. ASSUME Answering(r, h)
            PROVE  key'[h] = "gone" \/ (tries'[h] = tries[h] /\ req[r].pc \notin {"fail", "burn"})
        <4>1. req[r] \in AnswerTasks /\ req[r].handle = h
          BY <3>6 DEF Answering
        <4>2. CASE Burn(r)
          BY <1>0, <4>1, <4>2 DEF Burn
        <4>3. CASE BurnClear(r) \/ ConsumeClear(r)
          BY <4>1, <4>3 DEF BurnClear, ConsumeClear, KeyInv, Acting, At
        <4>4. CASE ChallengeAbort(r)
          <5>1. tries' = tries /\ (At(r, "burn") \/ At(r, "fail") => cut' = cut \cup {h})
            BY <4>1, <4>4 DEF ChallengeAbort
          <5>. QED
            BY <5>1 DEF At
        <4>5. CASE \/ Right(r) \/ Unanswerable(r) \/ ConsumeLook(r) \/ ConsumeDelete(r) \/ TrustAsk(r)
                   \/ TrustInsert(r) \/ IssueLogin(r) \/ RevokeDevices(r)
          BY <4>5 DEF Right, Unanswerable, ConsumeLook, ConsumeDelete, TrustAsk, TrustInsert, IssueLogin,
                      RevokeDevices, At
        <4>. QED
          BY <2>6, <4>2, <4>3, <4>4, <4>5
      <3>7. ASSUME ~Answering(r, h)
            PROVE  key'[h] = "gone" \/ tries'[h] = tries[h]
        BY <1>0, <2>6, <3>7, AnswerTask
           DEF Right, Unanswerable, Burn, BurnClear, ConsumeLook, ConsumeDelete, ConsumeClear, TrustAsk,
               TrustInsert, IssueLogin, RevokeDevices, ChallengeAbort, Answering, AnswerSteps
      <3>8. \/ key'[h] = "gone"
            \/ /\ key[h] # "gone" /\ tries'[h] = tries[h]
               /\ r \notin Doing("fail", h) /\ r \notin Doing("fail", h)'
               /\ r \notin Doing("burn", h) /\ r \notin Doing("burn", h)'
        BY <2>0, <3>3, <3>5, <3>6, <3>7
      <3>9. r \notin Doing("answer", h)'
        BY <2>0, <3>3
      <3>. QED
        BY <1>b, <3>1, <3>3, <3>8, <3>9, GuessesPass
    <2>. QED
      BY <1>1, <2>1, <2>2, <2>3, <2>4, <2>5, <2>6, AnswerIsRightOrWrong DEF ChallengeStep, Answer
  <1>2. ASSUME NEW g \in Handles, ExpireChallenge(g) PROVE GuessesOf(h)'
    <2>1. UNCHANGED <<req, guesses, tries>> /\ (key'[h] = "gone" \/ key'[h] = key[h])
      BY <1>0, <1>2 DEF ExpireChallenge
    <2>2. \A p : Number(p, h)' = Number(p, h)
      BY <2>1, <1>b DEF Doing
    <2>. QED
      BY <1>0, <1>b, <2>1, <2>2, GuessesKept
  <1>3. CASE \/ \E f \in {"set", "on", "app"} : Enrol(f)
             \/ ExpireDevice
             \/ UNCHANGED <<req, challengeVars>>
    <2>1. UNCHANGED <<req, key, guesses, tries>>
      BY <1>3 DEF Enrol, ExpireDevice
    <2>2. \A p : Number(p, h)' = Number(p, h)
      BY <2>1, <1>b DEF Doing
    <2>. QED
      BY <1>0, <1>b, <2>1, <2>2, GuessesKept
  <1>. QED
    BY <1>1, <1>2, <1>3 DEF ChallengeNext

LEMMA GuessBegins == HandlersInit /\ ChallengeInit => GuessInv
  <1>. SUFFICES ASSUME HandlersInit, ChallengeInit, NEW h \in Handles PROVE GuessesOf(h)
    BY DEF GuessInv
  <1>1. \A p \in {"answer", "fail", "burn"} : Doing(p, h) = {}
    BY DEF HandlersInit, Doing, Idle
  <1>2. \A p \in {"answer", "fail", "burn"} : Number(p, h) = 0
    BY <1>1, FS_EmptySet DEF Number
  <1>3. guesses[h] = 0 /\ tries[h] = 0 /\ key[h] = "none" /\ Cardinality(Reqs) \in Nat
    BY RequestsAssumption, FS_CardinalityType DEF ChallengeInit
  <1>. QED
    BY <1>2, <1>3 DEF GuessesOf, Counted

LEMMA GuessMeans == ChallengeTypeOK /\ GuessInv => GuessesAreFew
  <1>. SUFFICES ASSUME ChallengeTypeOK, GuessInv, NEW h \in Handles \ cut
                PROVE  guesses[h] < MaxAttempts + Cardinality(Reqs)
    BY DEF GuessesAreFew
  <1>1. guesses[h] + Number("answer", h) < MaxAttempts + Cardinality(Reqs) /\ guesses[h] \in Nat
    BY DEF ChallengeTypeOK, GuessInv, GuessesOf
  <1>. QED
    BY <1>1, NumberType, RequestsAssumption, FS_CardinalityType

(* A challenge is guessed at MaxAttempts times, and by every other request    *)
(* that looked at it before it was destroyed, unless an abort kept a failure  *)
(* from being counted or acted upon.                                          *)
THEOREM GuessesAreFewHolds == ChallengeSpec => []GuessesAreFew
  <1>1. ChallengeTypeOK /\ ChallengeTypeOK' /\ KeyInv /\ GuessInv /\ [ChallengeNext]_<<req, challengeVars>> => GuessInv'
    BY GuessStep
  <1>. QED
    BY <1>1, GuessMeans, ChallengeTypeBegins, KeyBegins, GuessBegins, ChallengeTypeStep, KeyStep, PTL DEF ChallengeSpec

------------------------------------------------------------------------------
(* One specification for both: while one part moves, the variables of the     *)
(* other rest where they began.                                               *)
TwoFactorHolds == TypeInv /\ AloneInv /\ RowsInv /\ FlagInv /\ CodesInv /\ NewestInv /\ SecretInv
ChallengeHolds == ChallengeTypeOK /\ DeviceInv /\ OffInv /\ KeyInv /\ OnceInv /\ GuessInv
SecondFactorInv ==
    \/ part \in {"Codes", "Enrolment"} /\ TwoFactorHolds /\ ChallengeInit
    \/ part = "Challenge" /\ ChallengeHolds /\ TwoFactorInit

LEMMA SecondFactorBegins == SecondFactorInit => SecondFactorInv
  <1>. SUFFICES ASSUME SecondFactorInit PROVE TwoFactorHolds /\ ChallengeHolds
    BY DEF SecondFactorInit, SecondFactorInv
  <1>1. HandlersInit /\ TwoFactorInit /\ ChallengeInit
    BY DEF SecondFactorInit
  <1>2. TwoFactorHolds
    BY <1>1, FactorTypeBegins, AloneBegins, RowsBegin, FlagBegins, CodesBegin, NewestBegins, SecretBegins
    DEF TwoFactorHolds
  <1>3. ChallengeHolds
    BY <1>1, ChallengeTypeBegins, DeviceBegins, OffBegins, KeyBegins, OnceBegins, GuessBegins DEF ChallengeHolds
  <1>. QED
    BY <1>2, <1>3

LEMMA SecondFactorStep ==
    SecondFactorInv /\ [SecondFactorNext]_<<req, part, twoFactorVars, challengeVars>> => SecondFactorInv'
  <1>. SUFFICES ASSUME SecondFactorInv, [SecondFactorNext]_<<req, part, twoFactorVars, challengeVars>>
                PROVE  SecondFactorInv'
    OBVIOUS
  <1>0. part' = part
    BY DEF SecondFactorNext
  <1>1. CASE part \in {"Codes", "Enrolment"}
    <2>1. TwoFactorHolds /\ ChallengeInit
      BY <1>1 DEF SecondFactorInv
    <2>2. [TwoFactorNext]_<<req, twoFactorVars>> /\ UNCHANGED challengeVars
      BY <1>1 DEF SecondFactorNext
    <2>3. TypeInv /\ AloneInv /\ RowsInv /\ FlagInv /\ CodesInv /\ NewestInv /\ SecretInv
      BY <2>1 DEF TwoFactorHolds
    <2>4. TypeInv' /\ AloneInv' /\ RowsInv' /\ FlagInv' /\ CodesInv' /\ NewestInv' /\ SecretInv'
      BY <2>2, <2>3, FactorTypeStep, AloneStep, RowsStep, FlagStep, CodesStep, NewestStep, SecretStep
    <2>5. ChallengeInit'
      BY <2>1, <2>2 DEF ChallengeInit, challengeVars, challengeKeys, deviceRows, outcomes, excuses
    <2>. QED
      BY <1>0, <1>1, <2>4, <2>5 DEF SecondFactorInv, TwoFactorHolds
  <1>2. CASE part = "Challenge"
    <2>1. ChallengeHolds /\ TwoFactorInit
      BY <1>2 DEF SecondFactorInv
    <2>2. [ChallengeNext]_<<req, challengeVars>> /\ UNCHANGED twoFactorVars
      BY <1>2 DEF SecondFactorNext
    <2>3. ChallengeTypeOK /\ DeviceInv /\ OffInv /\ KeyInv /\ OnceInv /\ GuessInv
      BY <2>1 DEF ChallengeHolds
    <2>4. ChallengeTypeOK'
      BY <2>2, <2>3, ChallengeTypeStep
    <2>5. DeviceInv' /\ OffInv' /\ KeyInv' /\ OnceInv' /\ GuessInv'
      BY <2>2, <2>3, <2>4, DeviceStep, OffStep, KeyStep, OnceStep, GuessStep
    <2>6. TwoFactorInit'
      BY <2>1, <2>2 DEF TwoFactorInit, twoFactorVars, columns, spending
    <2>. QED
      BY <1>0, <1>2, <2>4, <2>5, <2>6 DEF SecondFactorInv, ChallengeHolds
  <1>. QED
    BY <1>1, <1>2 DEF SecondFactorInv

FactorPromises ==
    OneRecord /\ BackupCodeIsUsedOnce /\ ShownCodesWork /\ VerifiedSecretIsProven /\ FlagFollowsRecord
ChallengePromises ==
    GuessesAreFew /\ ChallengeLogsInOnce /\ LockoutIsFinal /\ DeviceHasOneRow /\ TrustEndsWithFactor

LEMMA SecondFactorMeans == SecondFactorInv => TypesOK /\ FactorPromises /\ ChallengePromises
  <1>1. TwoFactorHolds => TwoFactorTypeOK /\ FactorPromises
    <2>. SUFFICES ASSUME TwoFactorHolds PROVE TwoFactorTypeOK /\ FactorPromises
      OBVIOUS
    <2>1. TypeInv /\ RowsInv /\ FlagInv /\ CodesInv /\ NewestInv /\ SecretInv
      BY DEF TwoFactorHolds
    <2>. QED
      BY <2>1, RowsMean, NewestMeans DEF FactorPromises, TypeInv, CodesInv, BackupCodeIsUsedOnce, SecretInv,
           VerifiedSecretIsProven, FlagInv, FlagFollowsRecord
  <1>2. ChallengeHolds => ChallengeTypeOK /\ ChallengePromises
    <2>. SUFFICES ASSUME ChallengeHolds PROVE ChallengeTypeOK /\ ChallengePromises
      OBVIOUS
    <2>1. ChallengeTypeOK /\ DeviceInv /\ OffInv /\ OnceInv /\ GuessInv
      BY DEF ChallengeHolds
    <2>2. GuessesAreFew
      BY <2>1, GuessMeans
    <2>3. ChallengeLogsInOnce /\ LockoutIsFinal
      BY <2>1 DEF OnceInv, ChallengeLogsInOnce, LockoutIsFinal, ChallengeTypeOK
    <2>4. DeviceHasOneRow /\ TrustEndsWithFactor
      BY <2>1 DEF DeviceInv, DeviceHasOneRow, OffInv, TrustEndsWithFactor
    <2>. QED
      BY <2>1, <2>2, <2>3, <2>4 DEF ChallengePromises
  (* A part that has not moved keeps its promises.                           *)
  <1>3. TwoFactorInit => FactorPromises
    <2>. SUFFICES ASSUME TwoFactorInit PROVE FactorPromises
      OBVIOUS
    <2>1. Cardinality(rows) <= 1
      BY FS_EmptySet DEF TwoFactorInit
    <2>. QED
      BY <2>1 DEF TwoFactorInit, FactorPromises, OneRecord, BackupCodeIsUsedOnce, ShownCodesWork,
           VerifiedSecretIsProven, FlagFollowsRecord
  <1>4. ChallengeInit => ChallengePromises
    <2>. SUFFICES ASSUME ChallengeInit PROVE ChallengePromises
      OBVIOUS
    <2>1. GuessesAreFew
      BY RequestsAssumption, FS_CardinalityType DEF ChallengeInit, GuessesAreFew
    <2>. QED
      BY <2>1 DEF ChallengeInit, ChallengePromises, ChallengeLogsInOnce, LockoutIsFinal, DeviceHasOneRow,
           TrustEndsWithFactor
  <1>. QED
    BY <1>1, <1>2, <1>3, <1>4 DEF SecondFactorInv, TypesOK

(* The types of whichever part moves, in every behaviour that is explored.    *)
THEOREM SecondFactorTypesCorrect == SecondFactorSpec => []TypesOK
  BY SecondFactorBegins, SecondFactorStep, SecondFactorMeans, PTL DEF SecondFactorSpec

(* The promises of both parts hold under the specification the run explores:  *)
(* that one takes requests from the pool of the other breaks none.            *)
THEOREM SecondFactorKeepsPromises == SecondFactorSpec => [](FactorPromises /\ ChallengePromises)
  BY SecondFactorBegins, SecondFactorStep, SecondFactorMeans, PTL DEF SecondFactorSpec
=============================================================================
