----------------------------- MODULE RecordsProofs -----------------------------
(* Proofs about Passkeys, then Content, then both and Accounts under one       *)
(* specification; for every number of requests, ceremonies, rows, users and    *)
(* passwords, and every order of the lists.                                    *)
EXTENDS MCRecords, AccountsProofs, FiniteSetTheorems, TLAPS

USE PasskeysAssumption, ContentAssumption

(* What a step of request r does to req.                                     *)
Turn(r) == req' = [req EXCEPT ![r] = req'[r]] /\ req'[r] \in PasskeysTasks \cup {Idle}

------------------------------------------------------------------------------
(* PasskeyFields are told apart by their step.                                       *)
LEMMA PasskeyFields ==
    ASSUME PasskeysTypeOK, NEW r \in Reqs
    PROVE  /\ req[r].pc \in {"forget", "store", "find", "verify"} => req[r].resp \in Responses
           /\ req[r].pc = "verify" => req[r].row \in RowIds /\ req[r].read \in Counts
           /\ req[r].pc = "bump" => req[r].row \in RowIds /\ req[r].read \in Counts /\ req[r].n \in Counts
           /\ req[r].pc = "drop" => req[r].row \in RowIds
  BY DEF PasskeysTypeOK, PasskeysTasks, Idle

LEMMA PasskeyTasksAreTyped ==
    /\ \A p \in {"forget", "store", "find"}, a \in Responses : [pc |-> p, resp |-> a] \in PasskeysTasks
    /\ \A a \in Responses, i \in RowIds, n \in Counts :
         [pc |-> "verify", resp |-> a, row |-> i, read |-> n] \in PasskeysTasks
    /\ \A i \in RowIds, m, n \in Counts : [pc |-> "bump", row |-> i, read |-> m, n |-> n] \in PasskeysTasks
    /\ \A i \in RowIds : [pc |-> "drop", row |-> i] \in PasskeysTasks
  BY DEF PasskeysTasks

LEMMA Turns ==
    ASSUME PasskeysTypeOK, NEW r \in Reqs
    PROVE  /\ \A x : Start(r, x) \/ Become(r, x) => req' = [req EXCEPT ![r] = req'[r]] /\ req'[r] = x
           /\ Finish(r) => Turn(r) /\ req'[r] = Idle
           /\ Turn(r) => req' \in [Reqs -> PasskeysTasks \cup {Idle}]
  BY DEF PasskeysTypeOK, Start, Become, Finish, Turn

LEMMA PasskeysTypeBegins == HandlersInit /\ PasskeysInit => PasskeysTypeOK
  <1>. SUFFICES ASSUME HandlersInit, PasskeysInit PROVE PasskeysTypeOK
    OBVIOUS
  <1>1. DOMAIN passkeys = {}
    BY DEF PasskeysInit
  <1>2. counting \in BOOLEAN /\ inserted \in 0..MaxRows /\ req \in [Reqs -> PasskeysTasks \cup {Idle}]
    BY DEF HandlersInit, PasskeysInit
  <1>. QED
    BY <1>1, <1>2 DEF PasskeysInit, PasskeysTypeOK, Counts

LEMMA PasskeysTypeStep ==
    ASSUME PasskeysTypeOK, [PasskeysNext]_<<req, passkeysVars>>
    PROVE  PasskeysTypeOK'
  <1>. USE DEF passkeysVars, Counts
  <1>0. /\ challenge \in [Ceremonies -> {"unused", "open", "gone"}] /\ served \in [Ceremonies -> Nat]
        /\ DOMAIN passkeys \subseteq RowIds /\ inserted \in Nat
        /\ \A i \in DOMAIN passkeys : passkeys[i] \in Nat
        /\ counting \in BOOLEAN
        /\ \A a \in Responses : a.c \in Ceremonies /\ a.n \in Nat
    BY DEF PasskeysTypeOK, RowIds, Responses
  <1>1. ASSUME NEW c \in Ceremonies, Offer(c) \/ ExpireOffer(c) PROVE PasskeysTypeOK'
    <2>1. challenge' \in [Ceremonies -> {"unused", "open", "gone"}]
      BY <1>0, <1>1 DEF Offer, ExpireOffer
    <2>. QED
      BY <1>1, <2>1 DEF Offer, ExpireOffer, PasskeysTypeOK
  <1>2. ASSUME NEW c \in Ceremonies, Sign(c) PROVE PasskeysTypeOK'
    <2>1. signatures' \in Nat
      BY <1>2 DEF Sign, PasskeysTypeOK
    <2>2. responses' \subseteq Responses
      BY <1>2, <2>1 DEF Sign, PasskeysTypeOK, Responses
    <2>. QED
      BY <1>2, <2>1, <2>2 DEF Sign, PasskeysTypeOK
  <1>3. ASSUME NEW r \in Reqs, Consume(r) PROVE PasskeysTypeOK'
    <2>1. PICK a \in responses : /\ Start(r, [pc |-> "forget", resp |-> a])
                                 /\ overlapped' = IF \E q \in Reqs \ {r} : At(q, "forget") /\ req[q].resp.c = a.c
                                                  THEN overlapped \cup {a.c} ELSE overlapped
      BY <1>3 DEF Consume
    <2>2. a \in Responses
      BY DEF PasskeysTypeOK
    <2>3. overlapped' \subseteq Ceremonies
      BY <1>0, <2>1, <2>2 DEF PasskeysTypeOK
    <2>4. req' \in [Reqs -> PasskeysTasks \cup {Idle}]
      BY <2>1, <2>2, Turns, PasskeyTasksAreTyped DEF Turn
    <2>. QED
      BY <1>3, <2>3, <2>4 DEF Consume, PasskeysTypeOK
  <1>4. ASSUME NEW r \in Reqs, Forget(r) PROVE PasskeysTypeOK'
    <2>1. req[r].resp \in Responses
      BY <1>4, PasskeyFields DEF Forget, At
    <2>2. req' \in [Reqs -> PasskeysTasks \cup {Idle}]
      BY <1>4, <2>1, Turns, PasskeyTasksAreTyped DEF Turn, Forget, NextStep
    <2>. QED
      BY <1>0, <1>4, <2>1, <2>2 DEF Forget, PasskeysTypeOK
  <1>5. ASSUME NEW r \in Reqs, StorePasskey(r) PROVE PasskeysTypeOK'
    <2>1. req[r].resp \in Responses
      BY <1>5, PasskeyFields DEF StorePasskey, At
    <2>2. req' \in [Reqs -> PasskeysTasks \cup {Idle}]
      BY <1>5, Turns DEF StorePasskey
    <2>3. inserted' \in 0..MaxRows /\ inserted' = inserted + 1 /\ served' \in [Ceremonies -> Nat]
      BY <1>0, <1>5, <2>1 DEF StorePasskey, Serve, PasskeysTypeOK
    <2>4. DOMAIN passkeys' \subseteq 1..inserted' /\ \A i \in DOMAIN passkeys' : passkeys'[i] \in Nat
      BY <1>0, <1>5, <2>1, <2>3 DEF StorePasskey, PasskeysTypeOK
    <2>. QED
      BY <1>5, <2>2, <2>3, <2>4 DEF StorePasskey, PasskeysTypeOK
  <1>6. ASSUME NEW r \in Reqs, FindPasskey(r) PROVE PasskeysTypeOK'
    <2>1. req[r].resp \in Responses
      BY <1>6, PasskeyFields DEF FindPasskey, At
    <2>2. CASE Finish(r)
      BY <1>6, <2>2, Turns DEF FindPasskey, PasskeysTypeOK
    <2>3. ASSUME NEW i \in DOMAIN passkeys,
                 Become(r, [pc |-> "verify", resp |-> req[r].resp, row |-> i, read |-> passkeys[i]])
          PROVE  PasskeysTypeOK'
      <3>1. [pc |-> "verify", resp |-> req[r].resp, row |-> i, read |-> passkeys[i]] \in PasskeysTasks
        BY <1>0, <2>1, PasskeyTasksAreTyped
      <3>2. req' \in [Reqs -> PasskeysTasks \cup {Idle}]
        BY <2>3, <3>1, Turns DEF Turn
      <3>. QED
        BY <1>6, <3>2 DEF FindPasskey, PasskeysTypeOK
    <2>. QED
      BY <1>6, <2>2, <2>3 DEF FindPasskey
  <1>7. ASSUME NEW r \in Reqs, VerifyPasskey(r) PROVE PasskeysTypeOK'
    <2>1. req[r].resp \in Responses /\ req[r].row \in RowIds /\ req[r].read \in Nat
      BY <1>7, PasskeyFields DEF VerifyPasskey, At
    <2>2. [pc |-> "bump", row |-> req[r].row, read |-> req[r].read, n |-> req[r].resp.n] \in PasskeysTasks
      BY <1>0, <2>1, PasskeyTasksAreTyped
    <2>3. req' \in [Reqs -> PasskeysTasks \cup {Idle}]
      BY <1>7, <2>2, Turns DEF VerifyPasskey, Turn
    <2>4. served' \in [Ceremonies -> Nat]
      BY <1>0, <1>7, <2>1 DEF VerifyPasskey, Serve
    <2>. QED
      BY <1>7, <2>3, <2>4 DEF VerifyPasskey, PasskeysTypeOK
  <1>8. ASSUME NEW r \in Reqs, BumpCounter(r) PROVE PasskeysTypeOK'
    <2>1. req[r].n \in Nat
      BY <1>8, PasskeyFields DEF BumpCounter, At
    <2>2. DOMAIN passkeys' = DOMAIN passkeys /\ \A i \in DOMAIN passkeys' : passkeys'[i] \in Nat
      BY <1>0, <1>8, <2>1 DEF BumpCounter
    <2>. QED
      BY <1>8, <2>2, Turns DEF BumpCounter, PasskeysTypeOK
  <1>9. ASSUME NEW r \in Reqs, LookPasskey(r) PROVE PasskeysTypeOK'
    <2>1. req' \in [Reqs -> PasskeysTasks \cup {Idle}]
      BY <1>0, <1>9, Turns, PasskeyTasksAreTyped DEF LookPasskey, Turn
    <2>. QED
      BY <1>9, <2>1 DEF LookPasskey, PasskeysTypeOK
  <1>10. ASSUME NEW r \in Reqs, DropPasskey(r) PROVE PasskeysTypeOK'
    <2>1. DOMAIN passkeys' \subseteq DOMAIN passkeys /\ \A i \in DOMAIN passkeys' : passkeys'[i] \in Nat
      BY <1>0, <1>10 DEF DropPasskey
    <2>. QED
      BY <1>10, <2>1, Turns DEF DropPasskey, PasskeysTypeOK
  <1>11. ASSUME NEW r \in Reqs, PasskeysAbort(r) PROVE PasskeysTypeOK'
    BY <1>11, Turns DEF PasskeysAbort, PasskeysTypeOK
  <1>12. CASE UNCHANGED <<req, passkeysVars>>
    BY <1>12 DEF PasskeysTypeOK
  <1>. QED
    BY <1>1, <1>2, <1>3, <1>4, <1>5, <1>6, <1>7, <1>8, <1>9, <1>10, <1>11, <1>12
       DEF PasskeysNext, RegisterOptions, LoginOptions

(* Every state is well typed.                                                *)
THEOREM PasskeysTypeCorrect == PasskeysSpec => []PasskeysTypeOK
  BY PasskeysTypeBegins, PasskeysTypeStep, PTL DEF PasskeysSpec

------------------------------------------------------------------------------
(* The requests that hold the response of ceremony c, whose challenge they    *)
(* have read.                                                                 *)
Holding == {"forget", "store", "find", "verify"}
Carrying(q, c) == req[q].pc \in Holding /\ req[q].resp.c = c

(* What a request holds was signed; the credential was made once; and a       *)
(* challenge is gone by the time a response to it is acted upon.              *)
HeldInv ==
    /\ \A q \in Reqs : /\ req[q].pc \in Holding => req[q].resp \in responses
                       /\ req[q].pc = "store" => req[q].resp.kind = "create"
                       /\ req[q].pc \in Holding \ {"forget"} => challenge[req[q].resp.c] = "gone"
    /\ \A a, b \in responses : a.kind = "create" /\ b.kind = "create" => a = b
    /\ \A c \in Ceremonies : served[c] > 0 => challenge[c] = "gone"

(* A challenge that no two requests read together is held by one request, and *)
(* by none once it has been accepted.                                         *)
ServedInv ==
    \A c \in Ceremonies \ overlapped :
      /\ \A q, r \in Reqs : Carrying(q, c) /\ Carrying(r, c) => q = r
      /\ served[c] <= 1
      /\ served[c] > 0 => \A q \in Reqs : ~Carrying(q, c)

(* The row there is came from the one registration.                          *)
RowInv ==
    overlapped = {} =>
      \/ DOMAIN passkeys = {}
      \/ /\ \E i : DOMAIN passkeys = {i}
         /\ \E a \in responses : a.kind = "create" /\ served[a.c] > 0

(* A counter about to be written is fresh against the one that was read.     *)
FreshInv == \A q \in Reqs : At(q, "bump") => Fresh(req[q].n, req[q].read)

(* What each step does to the requests that hold a response.                 *)
LEMMA Holders ==
    ASSUME PasskeysTypeOK, NEW r \in Reqs,
           \/ Forget(r) \/ StorePasskey(r) \/ FindPasskey(r) \/ VerifyPasskey(r)
           \/ BumpCounter(r) \/ LookPasskey(r) \/ DropPasskey(r) \/ PasskeysAbort(r)
    PROVE  /\ req' = [req EXCEPT ![r] = req'[r]]
           /\ req'[r].pc \in Holding => /\ req[r].pc \in Holding /\ req'[r].resp = req[r].resp
                                        /\ req'[r].pc # "forget"
                                        /\ req'[r].pc = "store" => Forget(r) /\ req[r].resp.kind = "create"
           /\ StorePasskey(r) \/ VerifyPasskey(r) => req'[r].pc \notin Holding
           /\ req'[r].pc \in Holding => Forget(r) \/ FindPasskey(r)
  <1>. USE DEF Holding
  <1>0. Idle.pc = "idle"
    BY DEF Idle
  <1>1. CASE Forget(r)
    <2>1. req' = [req EXCEPT ![r] = req'[r]] /\ req'[r] = [pc |-> NextStep(req[r].resp.kind), resp |-> req[r].resp]
      BY <1>1, Turns DEF Forget
    <2>2. req[r].resp.kind \in {"create", "get"} /\ req[r].pc = "forget"
      BY <1>1, PasskeyFields DEF Forget, At, Responses
    <2>3. ~StorePasskey(r) /\ ~BumpCounter(r) /\ ~DropPasskey(r) /\ ~VerifyPasskey(r)
      BY <2>2 DEF StorePasskey, BumpCounter, DropPasskey, VerifyPasskey, At
    <2>4. ~LookPasskey(r) /\ (PasskeysAbort(r) => req'[r].pc \notin Holding)
      BY <1>0, <2>2, Turns DEF LookPasskey, PasskeysAbort, Start
    <2>. QED
      BY <1>1, <2>1, <2>2, <2>3, <2>4 DEF NextStep
  <1>2. CASE FindPasskey(r)
    <2>1. /\ req' = [req EXCEPT ![r] = req'[r]]
          /\ \/ req'[r] = Idle
             \/ \E i \in DOMAIN passkeys :
                  req'[r] = [pc |-> "verify", resp |-> req[r].resp, row |-> i, read |-> passkeys[i]]
      BY <1>2, Turns DEF FindPasskey, Turn
    <2>2. req[r].pc = "find"
      BY <1>2 DEF FindPasskey, At
    <2>3. ~StorePasskey(r) /\ ~BumpCounter(r) /\ ~DropPasskey(r) /\ ~VerifyPasskey(r)
      BY <2>2 DEF StorePasskey, BumpCounter, DropPasskey, VerifyPasskey, At
    <2>4. ~LookPasskey(r) /\ (PasskeysAbort(r) => req'[r].pc \notin Holding)
      BY <1>0, <2>2, Turns DEF LookPasskey, PasskeysAbort, Start
    <2>5. CASE req'[r] = Idle
      BY <1>0, <2>1, <2>5
    <2>6. ASSUME NEW i \in DOMAIN passkeys,
                 req'[r] = [pc |-> "verify", resp |-> req[r].resp, row |-> i, read |-> passkeys[i]]
          PROVE  req'[r].pc = "verify" /\ req'[r].resp = req[r].resp
      BY <2>6
    <2>. QED
      BY <1>0, <1>2, <2>1, <2>2, <2>3, <2>4, <2>5, <2>6
  <1>3. CASE VerifyPasskey(r)
    <2>1. req' = [req EXCEPT ![r] = req'[r]] /\ req'[r].pc \in {"bump", "idle"}
      BY <1>0, <1>3, Turns DEF VerifyPasskey, Turn
    <2>. QED
      BY <2>1
  <1>4. CASE LookPasskey(r)
    <2>1. req' = [req EXCEPT ![r] = req'[r]] /\ req'[r].pc = "drop"
      BY <1>4, Turns DEF LookPasskey
    <2>. QED
      BY <2>1
  <1>5. CASE StorePasskey(r) \/ BumpCounter(r) \/ DropPasskey(r) \/ PasskeysAbort(r)
    <2>1. req' = [req EXCEPT ![r] = req'[r]] /\ req'[r] = Idle
      BY <1>5, Turns DEF StorePasskey, BumpCounter, DropPasskey, PasskeysAbort, Turn
    <2>. QED
      BY <1>0, <2>1
  <1>. QED
    BY <1>1, <1>2, <1>3, <1>4, <1>5

(* So no request gets hold of a response but by reading its challenge.       *)
LEMMA NoNewHolders ==
    ASSUME PasskeysTypeOK, NEW r \in Reqs,
           \/ Forget(r) \/ StorePasskey(r) \/ FindPasskey(r) \/ VerifyPasskey(r)
           \/ BumpCounter(r) \/ LookPasskey(r) \/ DropPasskey(r) \/ PasskeysAbort(r)
    PROVE  \A q \in Reqs, c \in Ceremonies : Carrying(q, c)' => Carrying(q, c)
  <1>1. \A q \in Reqs : q # r => req'[q] = req[q]
    BY Holders DEF PasskeysTypeOK
  <1>2. req'[r].pc \in Holding => req[r].pc \in Holding /\ req'[r].resp = req[r].resp
    BY Holders
  <1>. QED
    BY <1>1, <1>2 DEF Carrying

LEMMA HeldStep ==
    ASSUME PasskeysTypeOK, HeldInv, [PasskeysNext]_<<req, passkeysVars>>
    PROVE  HeldInv'
  <1>. USE DEF passkeysVars, Counts
  <1>0. /\ challenge \in [Ceremonies -> {"unused", "open", "gone"}] /\ served \in [Ceremonies -> Nat]
        /\ req \in [Reqs -> PasskeysTasks \cup {Idle}]
        /\ \A a \in responses : a.c \in Ceremonies /\ a \in Responses
        /\ \A q \in Reqs : req[q].pc \in Holding => req[q].resp.c \in Ceremonies
    BY PasskeyFields DEF PasskeysTypeOK, Responses, Holding
  <1>1. ASSUME NEW c \in Ceremonies, Offer(c) \/ ExpireOffer(c) PROVE HeldInv'
    <2>1. /\ UNCHANGED <<req, responses, served>>
          /\ \A d \in Ceremonies : challenge[d] = "gone" => challenge'[d] = "gone"
      BY <1>0, <1>1 DEF Offer, ExpireOffer
    <2>. QED
      BY <1>0, <2>1 DEF HeldInv
  <1>2. ASSUME NEW c \in Ceremonies, Sign(c) PROVE HeldInv'
    <2>1. UNCHANGED <<req, challenge, served>> /\ responses \subseteq responses'
      BY <1>2 DEF Sign
    <2>2. \A a, b \in responses' : a.kind = "create" /\ b.kind = "create" => a = b
      <3>1. CASE responses = {}
        BY <1>2, <3>1 DEF Sign
      <3>2. CASE responses # {}
        BY <1>2, <3>2 DEF Sign, HeldInv
      <3>. QED
        BY <3>1, <3>2
    <2>. QED
      BY <2>1, <2>2 DEF HeldInv
  <1>3. ASSUME NEW r \in Reqs, Consume(r) PROVE HeldInv'
    <2>1. PICK a \in responses : challenge[a.c] = "open" /\ Start(r, [pc |-> "forget", resp |-> a])
      BY <1>3 DEF Consume
    <2>2. UNCHANGED <<challenge, responses, served>>
      BY <1>3 DEF Consume
    <2>3. \A q \in Reqs : IF q = r THEN req'[q] = [pc |-> "forget", resp |-> a] ELSE req'[q] = req[q]
      BY <1>0, <2>1 DEF Start
    <2>. QED
      BY <2>1, <2>2, <2>3 DEF HeldInv, Holding
  <1>4. ASSUME NEW r \in Reqs,
               \/ Forget(r) \/ StorePasskey(r) \/ FindPasskey(r) \/ VerifyPasskey(r)
               \/ BumpCounter(r) \/ LookPasskey(r) \/ DropPasskey(r) \/ PasskeysAbort(r)
        PROVE  HeldInv'
    <2>1. \A q \in Reqs : q # r => req'[q] = req[q]
      BY <1>0, <1>4, Holders
    <2>2. responses' = responses /\ \A d \in Ceremonies : challenge[d] = "gone" => challenge'[d] = "gone"
      <3>1. ASSUME Forget(r)
            PROVE  responses' = responses /\ \A d \in Ceremonies : challenge[d] = "gone" => challenge'[d] = "gone"
        BY <1>0, <3>1 DEF Forget
      <3>2. ASSUME ~Forget(r) PROVE responses' = responses /\ challenge' = challenge
        BY <1>4, <3>2 DEF StorePasskey, FindPasskey, VerifyPasskey, BumpCounter, LookPasskey, DropPasskey, PasskeysAbort
      <3>. QED
        BY <3>1, <3>2
    <2>3. req'[r].pc \in Holding => /\ req'[r].resp \in responses'
                                    /\ req'[r].pc = "store" => req'[r].resp.kind = "create"
                                    /\ challenge'[req'[r].resp.c] = "gone"
      <3>. SUFFICES ASSUME req'[r].pc \in Holding
                    PROVE  /\ req'[r].resp \in responses'
                           /\ req'[r].pc = "store" => req'[r].resp.kind = "create"
                           /\ challenge'[req'[r].resp.c] = "gone"
        OBVIOUS
      <3>1. Forget(r) \/ FindPasskey(r)
        BY <1>4, Holders
      <3>2. req[r].pc \in Holding /\ req'[r].resp = req[r].resp /\ (req'[r].pc = "store" => req[r].resp.kind = "create")
        BY <1>4, Holders
      <3>3. challenge'[req[r].resp.c] = "gone"
        <4>1. CASE Forget(r)
          BY <1>0, <3>2, <4>1 DEF Forget
        <4>2. CASE FindPasskey(r)
          BY <4>2 DEF FindPasskey, HeldInv, At, Holding
        <4>. QED
          BY <3>1, <4>1, <4>2
      <3>. QED
        BY <2>2, <3>2, <3>3 DEF HeldInv
    <2>4. ASSUME NEW c \in Ceremonies, served'[c] > 0 PROVE challenge'[c] = "gone"
      <3>1. CASE StorePasskey(r) \/ VerifyPasskey(r)
        <4>1. challenge[req[r].resp.c] = "gone" /\ req[r].resp.c \in Ceremonies
          BY <1>0, <3>1 DEF StorePasskey, VerifyPasskey, HeldInv, At, Holding
        <4>2. served'[c] = served[c] \/ c = req[r].resp.c
          BY <1>0, <3>1, <4>1 DEF StorePasskey, VerifyPasskey, Serve
        <4>. QED
          BY <2>2, <2>4, <4>1, <4>2 DEF HeldInv
      <3>2. CASE ~(StorePasskey(r) \/ VerifyPasskey(r))
        <4>1. served' = served
          BY <1>4, <3>2 DEF Forget, FindPasskey, BumpCounter, LookPasskey, DropPasskey, PasskeysAbort
        <4>. QED
          BY <2>2, <2>4, <4>1 DEF HeldInv
      <3>. QED
        BY <3>1, <3>2
    <2>5. ASSUME NEW q \in Reqs, q # r
          PROVE  /\ req'[q].pc \in Holding => req'[q].resp \in responses'
                 /\ req'[q].pc = "store" => req'[q].resp.kind = "create"
                 /\ req'[q].pc \in Holding \ {"forget"} => challenge'[req'[q].resp.c] = "gone"
      BY <1>0, <2>1, <2>2, <2>5 DEF HeldInv
    <2>6. req'[r].pc = "store" => req'[r].pc \in Holding
      BY DEF Holding
    <2>7. ASSUME NEW q \in Reqs
          PROVE  /\ req'[q].pc \in Holding => req'[q].resp \in responses'
                 /\ req'[q].pc = "store" => req'[q].resp.kind = "create"
                 /\ req'[q].pc \in Holding \ {"forget"} => challenge'[req'[q].resp.c] = "gone"
      BY <2>3, <2>5, <2>6
    <2>8. \A a, b \in responses' : a.kind = "create" /\ b.kind = "create" => a = b
      BY <2>2 DEF HeldInv
    <2>. QED
      BY <2>4, <2>7, <2>8 DEF HeldInv
  <1>5. CASE UNCHANGED <<req, passkeysVars>>
    BY <1>5 DEF HeldInv
  <1>. QED
    BY <1>1, <1>2, <1>3, <1>4, <1>5 DEF PasskeysNext, RegisterOptions, LoginOptions

LEMMA HeldBegins == HandlersInit /\ PasskeysInit => HeldInv
  BY DEF HandlersInit, PasskeysInit, HeldInv, Idle, Holding

------------------------------------------------------------------------------
(* What the steps that accept nothing leave alone.                           *)
LEMMA ServedKept ==
    ASSUME ServedInv, UNCHANGED <<served, overlapped>>,
           \A q \in Reqs, c \in Ceremonies : Carrying(q, c)' => Carrying(q, c)
    PROVE  ServedInv'
  BY DEF ServedInv

LEMMA ServedStep ==
    ASSUME PasskeysTypeOK, HeldInv, ServedInv, [PasskeysNext]_<<req, passkeysVars>>
    PROVE  ServedInv'
  <1>. USE DEF passkeysVars
  <1>0. /\ served \in [Ceremonies -> Nat] /\ req \in [Reqs -> PasskeysTasks \cup {Idle}]
        /\ \A a \in responses : a.c \in Ceremonies /\ a \in Responses
    BY DEF PasskeysTypeOK, Responses
  <1>1. CASE \/ \E c \in Ceremonies : Offer(c) \/ ExpireOffer(c) \/ Sign(c)
             \/ UNCHANGED <<req, passkeysVars>>
    <2>1. UNCHANGED <<req, served, overlapped>>
      BY <1>1 DEF Offer, ExpireOffer, Sign
    <2>. QED
      BY <2>1, ServedKept DEF Carrying
  <1>2. ASSUME NEW r \in Reqs, Consume(r) PROVE ServedInv'
    <2>1. PICK a \in responses :
            /\ challenge[a.c] = "open" /\ Start(r, [pc |-> "forget", resp |-> a])
            /\ overlapped' = IF \E q \in Reqs \ {r} : At(q, "forget") /\ req[q].resp.c = a.c
                             THEN overlapped \cup {a.c} ELSE overlapped
      BY <1>2 DEF Consume
    <2>2. /\ UNCHANGED served /\ req[r] = Idle
          /\ \A q \in Reqs : IF q = r THEN req'[q] = [pc |-> "forget", resp |-> a] ELSE req'[q] = req[q]
      BY <1>0, <1>2, <2>1 DEF Consume, Start
    <2>3. \A q \in Reqs, c \in Ceremonies : Carrying(q, c)' => Carrying(q, c) \/ (q = r /\ c = a.c)
      BY <2>2 DEF Carrying
    <2>4. ASSUME a.c \notin overlapped' PROVE a.c \notin overlapped /\ \A q \in Reqs : ~Carrying(q, a.c)
      <3>1. a.c \notin overlapped /\ \A q \in Reqs \ {r} : ~(At(q, "forget") /\ req[q].resp.c = a.c)
        BY <2>1, <2>4
      <3>2. \A q \in Reqs : Carrying(q, a.c) => req[q].pc = "forget"
        BY <2>1 DEF HeldInv, Carrying
      <3>3. ~Carrying(r, a.c)
        BY <2>2 DEF Carrying, Holding, Idle
      <3>. QED
        BY <3>1, <3>2, <3>3 DEF At, Carrying
    <2>5. served[a.c] = 0
      BY <1>0, <2>1 DEF HeldInv
    <2>6. overlapped \subseteq overlapped'
      BY <2>1
    <2>. QED
      BY <1>0, <2>2, <2>3, <2>4, <2>5, <2>6 DEF ServedInv
  <1>3. ASSUME NEW r \in Reqs,
               \/ Forget(r) \/ StorePasskey(r) \/ FindPasskey(r) \/ VerifyPasskey(r)
               \/ BumpCounter(r) \/ LookPasskey(r) \/ DropPasskey(r) \/ PasskeysAbort(r)
        PROVE  ServedInv'
    <2>1. \A q \in Reqs, c \in Ceremonies : Carrying(q, c)' => Carrying(q, c)
      BY <1>3, NoNewHolders
    <2>2. overlapped' = overlapped
      BY <1>3 DEF Forget, StorePasskey, FindPasskey, VerifyPasskey, BumpCounter, LookPasskey, DropPasskey, PasskeysAbort
    <2>3. CASE served' = served
      BY <2>1, <2>2, <2>3, ServedKept
    <2>4. CASE served' # served
      <3>1. StorePasskey(r) \/ VerifyPasskey(r)
        BY <1>3, <2>4 DEF Forget, FindPasskey, BumpCounter, LookPasskey, DropPasskey, PasskeysAbort
      <3>2. PICK c \in Ceremonies : c = req[r].resp.c /\ Carrying(r, c) /\ c = req[r].resp.c
        BY <3>1, PasskeyFields DEF StorePasskey, VerifyPasskey, At, Carrying, Holding, Responses
      <3>3. /\ served'[c] = served[c] + 1
            /\ \A d \in Ceremonies : d # c => served'[d] = served[d]
        BY <1>0, <2>4, <3>1, <3>2 DEF StorePasskey, VerifyPasskey, Serve
      <3>4. ASSUME c \notin overlapped PROVE served'[c] = 1 /\ \A q \in Reqs : ~Carrying(q, c)'
        <4>1. served[c] = 0 /\ \A q \in Reqs : Carrying(q, c) => q = r
          BY <1>0, <3>2, <3>4 DEF ServedInv
        <4>2. ~Carrying(r, c)'
          BY <1>3, <3>1, Holders DEF Carrying
        <4>. QED
          BY <2>1, <3>3, <4>1, <4>2
      <3>. QED
        BY <2>1, <2>2, <3>3, <3>4 DEF ServedInv
    <2>. QED
      BY <2>3, <2>4
  <1>. QED
    BY <1>1, <1>2, <1>3 DEF PasskeysNext, RegisterOptions, LoginOptions

LEMMA ServedBegins == HandlersInit /\ PasskeysInit => ServedInv
  BY DEF HandlersInit, PasskeysInit, ServedInv, Carrying, Holding, Idle

(* A challenge is accepted once, unless two requests read it together.       *)
THEOREM CeremonyIsServedOnceHolds == PasskeysSpec => []CeremonyIsServedOnce
  <1>1. ServedInv => CeremonyIsServedOnce
    BY DEF ServedInv, CeremonyIsServedOnce
  <1>. QED
    BY <1>1, PasskeysTypeBegins, HeldBegins, ServedBegins, PasskeysTypeStep, HeldStep, ServedStep, PTL DEF PasskeysSpec

------------------------------------------------------------------------------
LEMMA RowStep ==
    ASSUME PasskeysTypeOK, HeldInv, ServedInv, RowInv, [PasskeysNext]_<<req, passkeysVars>>
    PROVE  RowInv'
  <1>. USE DEF passkeysVars
  <1>0. /\ served \in [Ceremonies -> Nat] /\ req \in [Reqs -> PasskeysTasks \cup {Idle}]
        /\ \A a \in responses : a.c \in Ceremonies
    BY DEF PasskeysTypeOK, Responses
  (* Rows only go, and what was accepted stays accepted.                     *)
  <1>1. ASSUME DOMAIN passkeys' \subseteq DOMAIN passkeys, responses \subseteq responses',
               \A c \in Ceremonies : served[c] > 0 => served'[c] > 0, overlapped \subseteq overlapped'
        PROVE  RowInv'
    <2>. SUFFICES ASSUME overlapped' = {}, DOMAIN passkeys' # {}
                  PROVE  /\ \E i : DOMAIN passkeys' = {i}
                         /\ \E a \in responses' : a.kind = "create" /\ served'[a.c] > 0
      BY DEF RowInv
    <2>1. PICK i : DOMAIN passkeys = {i}
      BY <1>1 DEF RowInv
    <2>2. DOMAIN passkeys' = {i}
      BY <1>1, <2>1
    <2>3. PICK a \in responses : a.kind = "create" /\ served[a.c] > 0
      BY <1>1 DEF RowInv
    <2>4. a \in responses' /\ served'[a.c] > 0
      BY <1>0, <1>1, <2>3
    <2>. QED
      BY <2>2, <2>3, <2>4
  <1>2. CASE \/ \E c \in Ceremonies : Offer(c) \/ ExpireOffer(c) \/ Sign(c)
             \/ UNCHANGED <<req, passkeysVars>>
    <2>1. UNCHANGED <<served, overlapped, passkeys>> /\ responses \subseteq responses'
      BY <1>2 DEF Offer, ExpireOffer, Sign
    <2>. QED
      BY <1>0, <1>1, <2>1
  <1>3. ASSUME NEW r \in Reqs,
               \/ Consume(r) \/ Forget(r) \/ FindPasskey(r) \/ BumpCounter(r) \/ LookPasskey(r)
               \/ DropPasskey(r) \/ PasskeysAbort(r)
        PROVE  RowInv'
    <2>1. UNCHANGED <<served, responses>> /\ overlapped \subseteq overlapped'
      BY <1>3 DEF Consume, Forget, FindPasskey, BumpCounter, LookPasskey, DropPasskey, PasskeysAbort
    <2>2. DOMAIN passkeys' \subseteq DOMAIN passkeys
      <3>1. ASSUME BumpCounter(r) PROVE DOMAIN passkeys' = DOMAIN passkeys
        BY <3>1 DEF BumpCounter
      <3>2. ASSUME DropPasskey(r) PROVE DOMAIN passkeys' \subseteq DOMAIN passkeys
        BY <3>2 DEF DropPasskey
      <3>3. ASSUME Consume(r) \/ Forget(r) \/ FindPasskey(r) \/ LookPasskey(r) \/ PasskeysAbort(r)
            PROVE  passkeys' = passkeys
        BY <3>3 DEF Consume, Forget, FindPasskey, LookPasskey, PasskeysAbort
      <3>. QED
        BY <1>3, <3>1, <3>2, <3>3
    <2>. QED
      BY <1>0, <1>1, <2>1, <2>2
  <1>4. ASSUME NEW r \in Reqs, VerifyPasskey(r) PROVE RowInv'
    <2>1. UNCHANGED <<responses, overlapped, passkeys>>
      BY <1>4 DEF VerifyPasskey
    <2>2. req[r].resp.c \in Ceremonies
      BY <1>4, PasskeyFields DEF VerifyPasskey, At, Responses
    <2>3. \A c \in Ceremonies : served[c] > 0 => served'[c] > 0
      BY <1>0, <1>4, <2>2 DEF VerifyPasskey, Serve
    <2>. QED
      BY <1>1, <2>1, <2>3
  <1>5. ASSUME NEW r \in Reqs, StorePasskey(r) PROVE RowInv'
    <2>. DEFINE a == req[r].resp
    <2>1. /\ a \in responses /\ a.kind = "create" /\ a.c \in Ceremonies /\ Carrying(r, a.c)
      BY <1>0, <1>5 DEF StorePasskey, At, HeldInv, Holding, Carrying
    <2>2. served' = [served EXCEPT ![a.c] = @ + 1] /\ UNCHANGED <<responses, overlapped>>
      BY <1>5 DEF StorePasskey, Serve
    <2>3. ASSUME overlapped = {} PROVE DOMAIN passkeys = {}
      <3>1. served[a.c] = 0
        BY <1>0, <2>1, <2>3 DEF ServedInv
      <3>2. \A b \in responses : b.kind = "create" => b = a
        BY <2>1 DEF HeldInv
      <3>. QED
        BY <2>3, <3>1, <3>2 DEF RowInv
    <2>4. DOMAIN passkeys' = DOMAIN passkeys \cup {inserted'}
      BY <1>5 DEF StorePasskey
    <2>5. served'[a.c] > 0
      BY <1>0, <2>1, <2>2
    <2>. HIDE DEF a
    <2>6. ASSUME overlapped' = {}
          PROVE  /\ \E i : DOMAIN passkeys' = {i}
                 /\ \E b \in responses' : b.kind = "create" /\ served'[b.c] > 0
      BY <2>1, <2>2, <2>3, <2>4, <2>5, <2>6
    <2>. QED
      BY <2>6 DEF RowInv
  <1>. QED
    BY <1>2, <1>3, <1>4, <1>5 DEF PasskeysNext, RegisterOptions, LoginOptions

LEMMA RowBegins == HandlersInit /\ PasskeysInit => RowInv
  <1>1. PasskeysInit => DOMAIN passkeys = {}
    BY DEF PasskeysInit
  <1>. QED
    BY <1>1 DEF RowInv

LEMMA RowMeans == RowInv => OneRowPerCredential
  <1>. SUFFICES ASSUME RowInv, overlapped = {} PROVE Cardinality(DOMAIN passkeys) <= 1
    BY DEF OneRowPerCredential
  <1>1. CASE DOMAIN passkeys = {}
    BY <1>1, FS_EmptySet
  <1>2. ASSUME NEW i, DOMAIN passkeys = {i} PROVE Cardinality(DOMAIN passkeys) <= 1
    BY <1>2, FS_Singleton
  <1>. QED
    BY <1>1, <1>2 DEF RowInv

(* The credential has one row, unless a challenge was read twice.            *)
THEOREM OneRowPerCredentialHolds == PasskeysSpec => []OneRowPerCredential
  BY RowMeans, PasskeysTypeBegins, HeldBegins, ServedBegins, RowBegins, PasskeysTypeStep, HeldStep, ServedStep,
     RowStep, PTL DEF PasskeysSpec

------------------------------------------------------------------------------
LEMMA FreshStep ==
    ASSUME PasskeysTypeOK, FreshInv, [PasskeysNext]_<<req, passkeysVars>>
    PROVE  FreshInv'
  <1>0. req \in [Reqs -> PasskeysTasks \cup {Idle}]
    BY DEF PasskeysTypeOK
  <1>1. CASE \/ \E c \in Ceremonies : Offer(c) \/ ExpireOffer(c) \/ Sign(c)
             \/ UNCHANGED <<req, passkeysVars>>
    <2>1. req' = req
      BY <1>1 DEF Offer, ExpireOffer, Sign
    <2>. QED
      BY <2>1 DEF FreshInv, At
  <1>2. ASSUME NEW r \in Reqs, NEW x, req' = [req EXCEPT ![r] = x], x.pc # "bump" \/ Fresh(x.n, x.read)
        PROVE  FreshInv'
    <2>1. \A q \in Reqs : IF q = r THEN req'[q] = x ELSE req'[q] = req[q]
      BY <1>0, <1>2
    <2>. QED
      BY <1>2, <2>1 DEF FreshInv, At
  <1>3. ASSUME NEW r \in Reqs, VerifyPasskey(r) PROVE FreshInv'
    <2>1. CASE Finish(r)
      BY <1>2, <2>1 DEF Finish, Idle
    <2>2. CASE /\ Fresh(req[r].resp.n, req[r].read)
               /\ Become(r, [pc |-> "bump", row |-> req[r].row, read |-> req[r].read, n |-> req[r].resp.n])
      BY <1>2, <2>2 DEF Become
    <2>. QED
      BY <1>3, <2>1, <2>2 DEF VerifyPasskey
  <1>4. ASSUME NEW r \in Reqs, Consume(r) PROVE FreshInv'
    <2>1. PICK a \in responses : req' = [req EXCEPT ![r] = [pc |-> "forget", resp |-> a]]
      BY <1>4 DEF Consume, Start
    <2>. QED
      BY <1>2, <2>1
  <1>5. ASSUME NEW r \in Reqs, Forget(r) PROVE FreshInv'
    <2>1. req' = [req EXCEPT ![r] = [pc |-> NextStep(req[r].resp.kind), resp |-> req[r].resp]]
      BY <1>5 DEF Forget, Become
    <2>2. NextStep(req[r].resp.kind) # "bump"
      BY DEF NextStep
    <2>. QED
      BY <1>2, <2>1, <2>2
  <1>6. ASSUME NEW r \in Reqs, FindPasskey(r) PROVE FreshInv'
    <2>1. CASE Finish(r)
      BY <1>2, <2>1 DEF Finish, Idle
    <2>2. ASSUME NEW i \in DOMAIN passkeys,
                 Become(r, [pc |-> "verify", resp |-> req[r].resp, row |-> i, read |-> passkeys[i]])
          PROVE  FreshInv'
      BY <1>2, <2>2 DEF Become
    <2>. QED
      BY <1>6, <2>1, <2>2 DEF FindPasskey
  <1>7. ASSUME NEW r \in Reqs, LookPasskey(r) PROVE FreshInv'
    <2>1. PICK i \in DOMAIN passkeys : req' = [req EXCEPT ![r] = [pc |-> "drop", row |-> i]]
      BY <1>7 DEF LookPasskey, Start
    <2>. QED
      BY <1>2, <2>1
  <1>8. ASSUME NEW r \in Reqs, StorePasskey(r) \/ BumpCounter(r) \/ DropPasskey(r) \/ PasskeysAbort(r)
        PROVE  FreshInv'
    <2>1. req' = [req EXCEPT ![r] = Idle] /\ Idle.pc # "bump"
      BY <1>8 DEF StorePasskey, BumpCounter, DropPasskey, PasskeysAbort, Finish, Idle
    <2>. QED
      BY <1>2, <2>1
  <1>. QED
    BY <1>1, <1>3, <1>4, <1>5, <1>6, <1>7, <1>8 DEF PasskeysNext, RegisterOptions, LoginOptions

LEMMA FreshBegins == HandlersInit /\ PasskeysInit => FreshInv
  BY DEF HandlersInit, FreshInv, At, Idle

(* A step that lowers a counter is a write of one read before another write. *)
Outrun(i) == \E r \in Reqs : At(r, "bump") /\ req[r].row = i /\ req[r].read # passkeys[i]

LEMMA FallsAreExcused ==
    ASSUME PasskeysTypeOK, FreshInv, [PasskeysNext]_<<req, passkeysVars>>, NEW i \in RowIds, CounterFalls(i)
    PROVE  Outrun(i)
  <1>. USE DEF passkeysVars
  <1>0. /\ i \in DOMAIN passkeys /\ i \in DOMAIN passkeys' /\ passkeys'[i] < passkeys[i] /\ passkeys[i] \in Nat
        /\ passkeys'[i] # passkeys[i] /\ i \in 1..inserted /\ inserted \in Nat
    BY DEF CounterFalls, PasskeysTypeOK, Counts
  <1>1. PICK r \in Reqs : StorePasskey(r) \/ BumpCounter(r) \/ DropPasskey(r)
    BY <1>0 DEF PasskeysNext, RegisterOptions, LoginOptions, Offer, ExpireOffer, Sign, Consume, Forget, FindPasskey,
                VerifyPasskey, LookPasskey, PasskeysAbort
  <1>2. CASE StorePasskey(r)
    <2>1. inserted' = inserted + 1 /\ i # inserted' /\ passkeys'[i] = passkeys[i]
      BY <1>0, <1>2 DEF StorePasskey
    <2>. QED
      BY <1>0, <2>1
  <1>3. CASE DropPasskey(r)
    BY <1>0, <1>3 DEF DropPasskey
  <1>4. CASE BumpCounter(r)
    <2>1. At(r, "bump") /\ req[r].row = i /\ req[r].n # req[r].read /\ passkeys'[i] = req[r].n
      BY <1>0, <1>4 DEF BumpCounter
    <2>2. req[r].n \in Nat /\ req[r].read \in Nat
      BY <2>1, PasskeyFields DEF At, Counts
    <2>3. req[r].n > req[r].read
      BY <2>1, <2>2 DEF FreshInv, Fresh
    <2>4. req[r].read # passkeys[i]
      BY <1>0, <2>1, <2>2, <2>3
    <2>. QED
      BY <2>1, <2>4 DEF Outrun
  <1>. QED
    BY <1>1, <1>2, <1>3, <1>4

(* A stored counter falls only by a sign-in that read it before another one   *)
(* raised it.                                                                 *)
THEOREM CounterNeverFallsBackHolds == PasskeysSpec => CounterNeverFallsBack
  <1>1. PasskeysTypeOK /\ FreshInv /\ [PasskeysNext]_<<req, passkeysVars>> =>
          [\A i \in RowIds : CounterFalls(i) =>
             \E r \in Reqs : At(r, "bump") /\ req[r].row = i /\ req[r].read # passkeys[i]]_passkeys
    BY FallsAreExcused DEF Outrun
  <1>. QED
    BY <1>1, PasskeysTypeBegins, FreshBegins, PasskeysTypeStep, FreshStep, PTL DEF PasskeysSpec, CounterNeverFallsBack

------------------------------------------------------------------------------
(* Content.  What is in the tables, and where the walk is.                   *)
Leafing == {"count", "page", "done"}
Asked == [limit : 0..LimitCap + 1, by : {"page", "offset"}, at : Nat]
Walks == [stage : {"none", "lost"}]
         \cup [stage : Leafing, true : BOOLEAN, shown : [Ids -> Nat], total : 0..MaxIds, in : Asked]

ContentInv ==
    /\ ContentTypeOK
    /\ rows = [i \in DOMAIN rows |-> rows[i]]
    /\ walk \in Walks

Place(i) == Cardinality({j \in DOMAIN rows : rows[j] <= rows[i]})
Length == Cardinality(DOMAIN rows)
Page == LimitOf(walk.in)
Passed == OffsetOf(walk.in)

WalkInv ==
    walk.stage \in Leafing /\ IsInjective(rows) =>
        /\ walk.true
        /\ walk.stage = "page" => walk.total = Length
        /\ walk.stage = "done" => \A i \in Ids : walk.shown[i] = IF i \in DOMAIN rows THEN 1 ELSE 0
        /\ walk.stage # "done" =>
              /\ \E k \in Nat : Passed = k * Page /\ (k = 0 \/ Passed < Length)
              /\ \A i \in Ids : walk.shown[i] = IF i \in DOMAIN rows /\ Place(i) <= Passed THEN 1 ELSE 0

------------------------------------------------------------------------------
(* What the variables are known to be, and what may happen next.             *)
LEMMA ContentFacts ==
    ASSUME ContentInv
    PROVE  /\ table \in Kept \cup Listed /\ ids \in 0..MaxIds /\ walk \in Walks
           /\ DOMAIN rows \subseteq 1..ids /\ DOMAIN rows \subseteq Ids /\ rows = [i \in DOMAIN rows |-> rows[i]]
           /\ \A i \in DOMAIN rows : rows[i] \in Ranks /\ rows[i] \in Int
           /\ req \in [Reqs -> ContentTasks \cup {Idle}]
           /\ IsFiniteSet(DOMAIN rows) /\ Length \in 0..MaxIds /\ Length \in Nat
  <1>1. /\ table \in Kept \cup Listed /\ ids \in 0..MaxIds /\ walk \in Walks
        /\ DOMAIN rows \subseteq 1..ids /\ rows = [i \in DOMAIN rows |-> rows[i]]
        /\ req \in [Reqs -> ContentTasks \cup {Idle}] /\ Range(rows) \subseteq Ranks
    BY DEF ContentInv, ContentTypeOK
  <1>2. \A i \in DOMAIN rows : rows[i] \in Ranks /\ rows[i] \in Int
    BY <1>1 DEF Range
  <1>3. DOMAIN rows \subseteq Ids
    BY <1>1 DEF Ids
  <1>4. IsFiniteSet(Ids) /\ Cardinality(Ids) = MaxIds
    BY FS_Interval DEF Ids
  <1>5. IsFiniteSet(DOMAIN rows) /\ Cardinality(DOMAIN rows) <= MaxIds /\ Cardinality(DOMAIN rows) \in Nat
    BY <1>3, <1>4, FS_Subset, FS_CardinalityType
  <1>. QED
    BY <1>1, <1>2, <1>3, <1>5 DEF Length

LEMMA Followed ==
    ASSUME NEW w \in Walks
    PROVE  /\ w.stage \in Leafing \cup {"none", "lost"}
           /\ w.stage \in Leafing =>
                 /\ w \in [stage : Leafing, true : BOOLEAN, shown : [Ids -> Nat], total : 0..MaxIds, in : Asked]
                 /\ w.true \in BOOLEAN /\ w.shown \in [Ids -> Nat] /\ w.total \in 0..MaxIds /\ w.in \in Asked
                 /\ w.in.limit \in 0..LimitCap + 1 /\ w.in.by \in {"page", "offset"} /\ w.in.at \in Nat
  BY DEF Walks, Leafing, Asked

Works(r) ==
    \/ table \in Kept /\ InsertRow(r)
    \/ table \in Kept /\ \E p \in {"update", "read", "delete"} : Begin(r, p)
    \/ UpdateRow(r) \/ ReadRow(r) \/ DeleteRow(r)

LEMMA Handled ==
    ASSUME [ContentNext]_<<req, contentVars>>
    PROVE  \/ UNCHANGED <<req, contentVars>>
           \/ \E t \in Kept \cup Listed : WalkStart(t)
           \/ CountRows \/ ReadPage \/ CreateUser \/ DeleteUser
           \/ \E r \in Reqs : Works(r)
  <1>1. ListAccounts \/ ListActivities \/ ListSessions \/ ListBlogs \/ ListPages \/ ListSeos \/ ListTemplates
          => \E t \in Kept \cup Listed : WalkStart(t)
    BY DEF Kept, Listed, ListAccounts, ListActivities, ListSessions, ListBlogs, ListPages, ListSeos, ListTemplates
  <1>2. ASSUME NEW r \in Reqs
        PROVE  /\ CreateBlog(r) \/ CreateSeo(r) => table \in Kept /\ InsertRow(r)
               /\ UpdateBlog(r) \/ UpdatePage(r) \/ UpdateSeo(r) \/ UpdateTemplate(r) \/ DeleteBlog(r) \/ DeleteSeo(r)
                    => table \in Kept /\ \E p \in {"update", "read", "delete"} : Begin(r, p)
    BY DEF Kept, CreateBlog, CreateSeo, UpdateBlog, UpdatePage, UpdateSeo, UpdateTemplate, DeleteBlog, DeleteSeo
  <1>3. CASE \E r \in Reqs :
             \/ CreateBlog(r) \/ CreateSeo(r)
             \/ UpdateBlog(r) \/ UpdatePage(r) \/ UpdateSeo(r) \/ UpdateTemplate(r)
             \/ UpdateRow(r) \/ ReadRow(r) \/ DeleteBlog(r) \/ DeleteSeo(r) \/ DeleteRow(r)
    <2>1. PICK r \in Reqs :
             \/ CreateBlog(r) \/ CreateSeo(r)
             \/ UpdateBlog(r) \/ UpdatePage(r) \/ UpdateSeo(r) \/ UpdateTemplate(r)
             \/ UpdateRow(r) \/ ReadRow(r) \/ DeleteBlog(r) \/ DeleteSeo(r) \/ DeleteRow(r)
      BY <1>3
    <2>2. Works(r)
      BY <1>2, <2>1 DEF Works
    <2>. QED
      BY <2>2
  <1>4. CASE \/ ListAccounts \/ ListActivities \/ ListSessions
             \/ ListBlogs \/ ListPages \/ ListSeos \/ ListTemplates
    BY <1>1, <1>4
  <1>. QED
    BY <1>3, <1>4 DEF ContentNext

LEMMA DisturbedIs ==
    ASSUME ContentInv
    PROVE  Disturbed \in Walks /\ Disturbed.stage \notin Leafing
  BY ContentFacts, Followed DEF Disturbed, Walks, Leafing

(* A page asked for, and how far it brings the walk.                         *)
LEMMA PageIs ==
    ASSUME NEW in \in Asked
    PROVE  LimitOf(in) \in Nat \ {0} /\ OffsetOf(in) \in Nat
  <1>1. in.limit \in Nat /\ in.at \in Nat
    BY DEF Asked
  <1>2. LimitOf(in) \in Nat \ {0}
    BY <1>1 DEF LimitOf, Most, Least
  <1>3. Most(in.at, 1) - 1 \in Nat /\ Most(in.at, 0) \in Nat
    BY <1>1 DEF Most
  <1>4. (Most(in.at, 1) - 1) * LimitOf(in) \in Nat
    BY <1>2, <1>3
  <1>. QED
    BY <1>2, <1>3, <1>4 DEF OffsetOf

LEMMA Dividing ==
    ASSUME NEW a \in Nat, NEW m \in Nat \ {0}
    PROVE  /\ (a \div m) \in Nat /\ (a \div m) * m <= a /\ a < (a \div m) * m + m
           /\ (a * m) \div m = a
  OBVIOUS

LEMMA RowsLand ==
    ASSUME ContentInv, NEW k \in Ranks, ids < MaxIds, ids' = ids + 1,
           rows' = [i \in DOMAIN rows \cup {ids'} |-> IF i = ids' THEN k ELSE rows[i]]
    PROVE  /\ ids' \in 0..MaxIds /\ ids' \in Ids /\ ids' \in DOMAIN rows' /\ DOMAIN rows \subseteq DOMAIN rows'
           /\ DOMAIN rows' \subseteq 1..ids' /\ rows' = [i \in DOMAIN rows' |-> rows'[i]]
           /\ \A i \in DOMAIN rows' : rows'[i] \in Ranks
  BY ContentFacts DEF Ids

LEMMA ContentBegins == HandlersInit /\ ContentInit => ContentInv
  <1>. SUFFICES ASSUME HandlersInit, ContentInit PROVE ContentInv
    OBVIOUS
  <1>1. ids \in 0..MaxIds /\ DOMAIN rows = 1..ids /\ rows = [i \in DOMAIN rows |-> rows[i]] /\ Range(rows) \subseteq Ranks
    BY DEF ContentInit, Range
  <1>2. walk \in Walks /\ walk.stage = "none"
    BY DEF ContentInit, Walks
  <1>3. req \in [Reqs -> ContentTasks \cup {Idle}]
    BY DEF HandlersInit
  <1>. QED
    BY <1>1, <1>2, <1>3 DEF ContentInv, ContentTypeOK, ContentInit

LEMMA Requests ==
    ASSUME ContentInv, NEW r \in Reqs
    PROVE  /\ \A x \in ContentTasks : Start(r, x) => req[r] = Idle /\ req' \in [Reqs -> ContentTasks \cup {Idle}]
                                        /\ req'[r] = x /\ \A q \in Reqs : q # r => req'[q] = req[q]
           /\ Finish(r) => /\ req' \in [Reqs -> ContentTasks \cup {Idle}]
                           /\ req'[r] = Idle /\ \A q \in Reqs : q # r => req'[q] = req[q]
           /\ req[r].pc # "idle" => /\ req[r] \in ContentTasks /\ req[r] # Idle /\ req[r].i \in Ids
  BY ContentFacts DEF Start, Finish, ContentTasks, Idle

LEMMA GoesOnReading ==
    ASSUME ContentInv, NEW r \in Reqs, At(r, "update"), Become(r, [req[r] EXCEPT !.pc = "read"])
    PROVE  /\ req' \in [Reqs -> ContentTasks \cup {Idle}] /\ req'[r].i = req[r].i
           /\ req'[r] # Idle /\ \A q \in Reqs : q # r => req'[q] = req[q]
  <1>1. req[r] \in ContentTasks
    BY Requests DEF At
  <1>2. [req[r] EXCEPT !.pc = "read"] \in ContentTasks
    BY <1>1 DEF ContentTasks
  <1>3. [req[r] EXCEPT !.pc = "read"].i = req[r].i
        /\ [req[r] EXCEPT !.pc = "read"] # Idle
    BY <1>1, <1>2 DEF ContentTasks, Idle
  <1>. QED
    BY <1>2, <1>3, ContentFacts DEF Become

(* What one page does to the walk: the client is shown what it lists.        *)
OnPage(s) == {s[a] : a \in {b \in DOMAIN s : Passed < b /\ b <= Passed + Page}}
Last == (Passed \div Page) + 1 >= PagesOf(walk.total, Page)
PageReads(s) ==
    walk' = [walk EXCEPT
               !.shown = [i \in Ids |-> IF i \in OnPage(s) THEN walk.shown[i] + 1 ELSE walk.shown[i]],
               !.true = walk.true /\ Cardinality(OnPage(s)) = Least(Passed + Page, walk.total) - Passed,
               !.stage = IF Last THEN "done" ELSE "count",
               !.in.at = IF walk.in.by = "offset" THEN Passed + Page ELSE (Passed \div Page) + 1 + 1]

LEMMA PageEnds ==
    ASSUME ContentInv, ReadPage
    PROVE  /\ walk.stage = "page" /\ walk.stage \in Leafing /\ walk.in \in Asked
           /\ Page \in Nat \ {0} /\ Passed \in Nat /\ (Passed \div Page) \in Nat
           /\ \E s \in Orders : PageReads(s)
           /\ \E shown \in [Ids -> Nat], true \in BOOLEAN, stage \in Leafing, at \in Nat :
                 walk' = [walk EXCEPT !.shown = shown, !.true = true, !.stage = stage, !.in.at = at]
  <1>1. walk.stage = "page" /\ walk.stage \in Leafing
    BY DEF ReadPage, Leafing
  <1>2. walk.in \in Asked /\ walk.shown \in [Ids -> Nat] /\ walk.true \in BOOLEAN
    BY <1>1, ContentFacts, Followed
  <1>3. Page \in Nat \ {0} /\ Passed \in Nat /\ (Passed \div Page) \in Nat
    BY <1>2, PageIs, Dividing DEF Page, Passed
  <1>4. PICK s \in Orders : PageReads(s)
    BY DEF ReadPage, PageReads, OnPage, Last, Passed, Page
  <1>5. [i \in Ids |-> IF i \in OnPage(s) THEN walk.shown[i] + 1 ELSE walk.shown[i]] \in [Ids -> Nat]
    BY <1>2
  <1>6. (walk.true /\ Cardinality(OnPage(s)) = Least(Passed + Page, walk.total) - Passed) \in BOOLEAN
    BY <1>2
  <1>7. (IF Last THEN "done" ELSE "count") \in Leafing
    BY DEF Leafing
  <1>8. (IF walk.in.by = "offset" THEN Passed + Page ELSE (Passed \div Page) + 1 + 1) \in Nat
    BY <1>3
  <1>. QED
    BY <1>1, <1>2, <1>3, <1>4, <1>5, <1>6, <1>7, <1>8 DEF PageReads

LEMMA ContentStep ==
    ASSUME ContentInv, [ContentNext]_<<req, contentVars>>
    PROVE  ContentInv'
  <1>. USE DEF contentVars
  <1>0. /\ table \in Kept \cup Listed /\ ids \in 0..MaxIds /\ walk \in Walks
        /\ DOMAIN rows \subseteq 1..ids /\ rows = [i \in DOMAIN rows |-> rows[i]]
        /\ \A i \in DOMAIN rows : rows[i] \in Ranks
        /\ req \in [Reqs -> ContentTasks \cup {Idle}]
    BY ContentFacts
  <1>z. ASSUME table' = table, ids' \in 0..MaxIds, walk' \in Walks,
               DOMAIN rows' \subseteq 1..ids', rows' = [i \in DOMAIN rows' |-> rows'[i]],
               \A i \in DOMAIN rows' : rows'[i] \in Ranks,
               req' \in [Reqs -> ContentTasks \cup {Idle}]
        PROVE  ContentInv'
    <2>1. Range(rows') \subseteq Ranks
      BY <1>z DEF Range
    <2>2. walk'.stage \in {"none", "count", "page", "done", "lost"}
      BY <1>z, Followed DEF Leafing
    <2>3. walk'.stage \in {"count", "page", "done"} =>
            walk'.total \in 0..MaxIds /\ walk'.shown \in [Ids -> Nat] /\ walk'.in.at \in Nat
      BY <1>z, Followed DEF Leafing
    <2>. QED
      BY <1>0, <1>z, <2>1, <2>2, <2>3 DEF ContentInv, ContentTypeOK
  <1>1. ASSUME NEW t \in Kept \cup Listed, WalkStart(t) PROVE ContentInv'
    <2>1. PICK l \in 0..LimitCap + 1, by \in {"page", "offset"} :
            walk' = [stage |-> "count", true |-> TRUE, shown |-> NoRows, total |-> 0,
                     in |-> [limit |-> l, by |-> by, at |-> 0]]
      BY <1>1 DEF WalkStart
    <2>2. [limit |-> l, by |-> by, at |-> 0] \in Asked /\ NoRows \in [Ids -> Nat]
      BY DEF Asked, NoRows
    <2>3. walk' \in Walks
      BY <2>1, <2>2 DEF Walks, Leafing
    <2>. QED
      BY <1>0, <1>1, <1>z, <2>3 DEF WalkStart
  <1>2. CASE CountRows
    <2>1. walk \in [stage : Leafing, true : BOOLEAN, shown : [Ids -> Nat], total : 0..MaxIds, in : Asked]
      BY <1>2, Followed, <1>0 DEF CountRows, Leafing
    <2>2. walk' = [walk EXCEPT !.stage = "page", !.total = Length] /\ Length \in 0..MaxIds
      BY <1>2, ContentFacts DEF CountRows, Length
    <2>3. walk' \in Walks
      BY <2>1, <2>2 DEF Walks, Leafing
    <2>. QED
      BY <1>0, <1>2, <1>z, <2>3 DEF CountRows
  <1>3. CASE ReadPage
    <2>1. walk \in [stage : Leafing, true : BOOLEAN, shown : [Ids -> Nat], total : 0..MaxIds, in : Asked]
      BY <1>3, Followed, <1>0 DEF ReadPage, Leafing
    <2>2. PICK shown \in [Ids -> Nat], true \in BOOLEAN, stage \in Leafing, at \in Nat :
            walk' = [walk EXCEPT !.shown = shown, !.true = true, !.stage = stage, !.in.at = at]
      BY <1>3, PageEnds
    <2>3. walk' = [stage |-> stage, true |-> true, shown |-> shown, total |-> walk.total,
                   in |-> [walk.in EXCEPT !.at = at]]
      BY <2>1, <2>2
    <2>4. [walk.in EXCEPT !.at = at] \in Asked /\ walk.total \in 0..MaxIds
      BY <2>1 DEF Asked
    <2>5. walk' \in Walks
      BY <2>3, <2>4 DEF Walks
    <2>. QED
      BY <1>0, <1>3, <1>z, <2>5 DEF ReadPage
  <1>4. CASE CreateUser
    <2>1. PICK k \in Ranks : rows' = [i \in DOMAIN rows \cup {ids'} |-> IF i = ids' THEN k ELSE rows[i]]
      BY <1>4 DEF CreateUser
    <2>. QED
      BY <1>0, <1>4, <1>z, <2>1, RowsLand, DisturbedIs DEF CreateUser
  <1>5. CASE DeleteUser
    BY <1>0, <1>5, <1>z, DisturbedIs DEF DeleteUser
  <1>6. ASSUME NEW r \in Reqs, InsertRow(r) PROVE ContentInv'
    <2>1. PICK k \in Ranks : rows' = [i \in DOMAIN rows \cup {ids'} |-> IF i = ids' THEN k ELSE rows[i]]
      BY <1>6 DEF InsertRow
    <2>2. ids' \in 0..MaxIds /\ ids' \in Ids /\ DOMAIN rows' \subseteq 1..ids' /\ rows' = [i \in DOMAIN rows' |-> rows'[i]]
          /\ \A i \in DOMAIN rows' : rows'[i] \in Ranks
      <3>1. ids < MaxIds /\ ids' = ids + 1
        BY <1>6 DEF InsertRow
      <3>2. DOMAIN rows' = DOMAIN rows \cup {ids'}
        BY <2>1
      <3>3. rows' = [i \in DOMAIN rows' |-> rows'[i]]
        BY <2>1
      <3>4. \A i \in DOMAIN rows' : rows'[i] = (IF i = ids' THEN k ELSE rows[i])
        BY <2>1
      <3>5. ids' \in 0..MaxIds /\ ids' \in Ids /\ DOMAIN rows' \subseteq 1..ids'
        BY <1>0, <3>1, <3>2 DEF Ids
      <3>6. \A i \in DOMAIN rows' : rows'[i] \in Ranks
        BY <1>0, <3>2, <3>4
      <3>. QED
        BY <3>3, <3>5, <3>6
    <2>3. [pc |-> "read", i |-> ids'] \in ContentTasks
      BY <2>2 DEF ContentTasks
    <2>4. req' \in [Reqs -> ContentTasks \cup {Idle}]
      BY <1>6, <2>3, Requests DEF InsertRow
    <2>. QED
      BY <1>0, <1>6, <1>z, <2>2, <2>4, DisturbedIs DEF InsertRow
  <1>7. ASSUME NEW r \in Reqs, NEW p \in {"update", "read", "delete"}, Begin(r, p) PROVE ContentInv'
    <2>1. PICK i \in 1..ids : Start(r, [pc |-> p, i |-> i])
      BY <1>7 DEF Begin
    <2>2. [pc |-> p, i |-> i] \in ContentTasks
      BY <1>0, <2>1 DEF ContentTasks, Ids
    <2>3. req' \in [Reqs -> ContentTasks \cup {Idle}]
      BY <2>1, <2>2, Requests
    <2>. QED
      BY <1>0, <1>7, <1>z, <2>3 DEF Begin
  <1>8. ASSUME NEW r \in Reqs, UpdateRow(r) PROVE ContentInv'
    <2>2. req' \in [Reqs -> ContentTasks \cup {Idle}]
      BY <1>0, <1>8, Requests, GoesOnReading DEF UpdateRow
    <2>3. rows' = rows \/ \E k \in Ranks : rows' = [rows EXCEPT ![req[r].i] = k]
      BY <1>8 DEF UpdateRow
    <2>4. DOMAIN rows' = DOMAIN rows /\ rows' = [i \in DOMAIN rows' |-> rows'[i]] /\ \A i \in DOMAIN rows' : rows'[i] \in Ranks
      BY <1>0, <2>3
    <2>5. walk' = walk \/ walk' = Disturbed
      BY <1>8 DEF UpdateRow
    <2>. QED
      BY <1>0, <1>8, <1>z, <2>2, <2>4, <2>5, DisturbedIs DEF UpdateRow
  <1>9. ASSUME NEW r \in Reqs, ReadRow(r) PROVE ContentInv'
    <2>2. req' \in [Reqs -> ContentTasks \cup {Idle}]
      BY <1>0, <1>9, Requests DEF ReadRow
    <2>. QED
      BY <1>0, <1>9, <1>z, <2>2 DEF ReadRow
  <1>10. ASSUME NEW r \in Reqs, DeleteRow(r) PROVE ContentInv'
    <2>2. req' \in [Reqs -> ContentTasks \cup {Idle}]
      BY <1>0, <1>10, Requests DEF DeleteRow
    <2>3. rows' = [j \in DOMAIN rows \ {req[r].i} |-> rows[j]]
      BY <1>10 DEF DeleteRow
    <2>4. DOMAIN rows' \subseteq DOMAIN rows /\ rows' = [i \in DOMAIN rows' |-> rows'[i]] /\ \A i \in DOMAIN rows' : rows'[i] \in Ranks
      BY <1>0, <2>3
    <2>5. walk' = walk \/ walk' = Disturbed
      BY <1>10 DEF DeleteRow
    <2>. QED
      BY <1>0, <1>10, <1>z, <2>2, <2>4, <2>5, DisturbedIs DEF DeleteRow
  <1>11. CASE UNCHANGED <<req, contentVars>>
    BY <1>0, <1>11, <1>z
  <1>. QED
    BY <1>1, <1>2, <1>3, <1>4, <1>5, <1>6, <1>7, <1>8, <1>9, <1>10, <1>11, Handled DEF Works

(* Every variable of the tables and their lists keeps its type.              *)
THEOREM ContentTypeCorrect == ContentSpec => []ContentTypeOK
  <1>1. ContentInv => ContentTypeOK
    BY DEF ContentInv
  <1>. QED
    BY <1>1, ContentBegins, ContentStep, PTL DEF ContentSpec

------------------------------------------------------------------------------
(* The walk.  In an order of distinct ranks a row comes at its place.        *)
LEMMA Ordered ==
    ASSUME ContentInv, IsInjective(rows), NEW s \in Orders
    PROVE  /\ s \in [1..Length -> DOMAIN rows]
           /\ \A a, b \in 1..Length : s[a] = s[b] => a = b
           /\ \A i \in DOMAIN rows : \E a \in 1..Length : s[a] = i
           /\ \A a \in 1..Length : Place(s[a]) = a
  <1>1. /\ s \in [1..Length -> DOMAIN rows] /\ \A a, b \in 1..Length : s[a] = s[b] => a = b
        /\ \A a, b \in 1..Length : a < b => rows[s[a]] <= rows[s[b]]
    BY DEF Orders, Length, IsInjective
  <1>2. IsFiniteSet(DOMAIN rows) /\ Length \in Nat /\ \A i \in DOMAIN rows : rows[i] \in Int
    BY ContentFacts
  <1>3. s \in Injection(1..Length, DOMAIN rows)
    BY <1>1 DEF Injection, IsInjective
  <1>4. Cardinality(1..Length) = Cardinality(DOMAIN rows)
    BY <1>2, FS_Interval DEF Length
  <1>5. s \in Surjection(1..Length, DOMAIN rows)
    BY <1>2, <1>3, <1>4, FS_Injection
  <1>6. \A i \in DOMAIN rows : \E a \in 1..Length : s[a] = i
    BY <1>5 DEF Surjection
  <1>7. ASSUME NEW a \in 1..Length PROVE Place(s[a]) = a
    <2>. DEFINE Before == {j \in DOMAIN rows : rows[j] <= rows[s[a]]}
                f == [b \in 1..a |-> s[b]]
    <2>1. ASSUME NEW b \in 1..Length PROVE s[b] \in Before <=> b <= a
      <3>1. s[a] \in DOMAIN rows /\ s[b] \in DOMAIN rows /\ rows[s[a]] \in Int /\ rows[s[b]] \in Int
        BY <1>1, <1>2
      <3>2. rows[s[a]] = rows[s[b]] => a = b
        BY <1>1, <3>1 DEF IsInjective
      <3>. QED
        BY <1>1, <3>1, <3>2
    <2>4. IsFiniteSet(Before)
      BY <1>2, FS_Subset
    <2>2. f \in [1..a -> Before]
      <3>1. \A b \in 1..a : b \in 1..Length
        BY <1>2
      <3>. HIDE DEF Before
      <3>. QED
        BY <2>1, <3>1
    <2>3. f \in Injection(1..a, Before)
      <3>1. \A b, c \in 1..a : f[b] = f[c] => b = c
        BY <1>1, <1>2
      <3>. QED
        BY <2>2, <3>1 DEF Injection, IsInjective
    <2>5. \A j \in Before : \E b \in 1..a : f[b] = j
      <3>. TAKE j \in Before
      <3>1. PICK b \in 1..Length : s[b] = j
        BY <1>6
      <3>. QED
        BY <2>1, <3>1
    <2>6. f \in Surjection(1..a, Before)
      BY <2>2, <2>5 DEF Surjection
    <2>7. Cardinality(1..a) = Cardinality(Before)
      BY <2>3, <2>4, <2>6, FS_Injection
    <2>8. Cardinality(1..a) = a
      BY FS_Interval
    <2>. QED
      BY <2>7, <2>8 DEF Place
  <1>. QED
    BY <1>1, <1>6, <1>7

(* So a page lists the rows whose places it covers, and as many.             *)
LEMMA Listing ==
    ASSUME ContentInv, IsInjective(rows), NEW s \in Orders, NEW o \in Nat, NEW n \in Nat,
           o = 0 \/ o < Length
    PROVE  LET list == {s[a] : a \in {b \in DOMAIN s : o < b /\ b <= o + n}} IN
             /\ \A i \in Ids : i \in list <=> i \in DOMAIN rows /\ o < Place(i) /\ Place(i) <= o + n
             /\ Cardinality(list) = Least(o + n, Length) - o
  <1>. DEFINE places == {b \in DOMAIN s : o < b /\ b <= o + n}
              list == {s[a] : a \in places}
              f == [a \in places |-> s[a]]
  <1>1. /\ s \in [1..Length -> DOMAIN rows] /\ DOMAIN s = 1..Length
        /\ \A a, b \in 1..Length : s[a] = s[b] => a = b
        /\ \A i \in DOMAIN rows : \E a \in 1..Length : s[a] = i
        /\ \A a \in 1..Length : Place(s[a]) = a
    BY Ordered
  <1>2. Length \in Nat
    BY ContentFacts
  <1>3. \A i \in Ids : i \in list <=> i \in DOMAIN rows /\ o < Place(i) /\ Place(i) <= o + n
    BY <1>1
  <1>4. places = (o + 1)..Least(o + n, Length)
    BY <1>1, <1>2 DEF Least
  <1>5. IsFiniteSet(places) /\ Cardinality(places) = Least(o + n, Length) - o
    <2>1. Least(o + n, Length) \in Nat /\ o <= Least(o + n, Length)
      BY <1>2 DEF Least
    <2>2. \A a, b \in Int : IsFiniteSet(a..b) /\ Cardinality(a..b) = IF a > b THEN 0 ELSE b - a + 1
      BY FS_Interval
    <2>3. o + 1 > Least(o + n, Length) => Least(o + n, Length) - o = 0
      BY <2>1
    <2>. HIDE DEF places
    <2>4. o + 1 \in Int /\ Least(o + n, Length) \in Int
      BY <2>1
    <2>5. IsFiniteSet(places)
      BY <1>4, <2>2, <2>4
    <2>6. Cardinality(places) = IF o + 1 > Least(o + n, Length) THEN 0 ELSE Least(o + n, Length) - (o + 1) + 1
      BY <1>4, <2>2, <2>4
    <2>7. Cardinality(places) = Least(o + n, Length) - o
      <3>. HIDE DEF Least, Length
      <3>. QED
        BY <2>1, <2>3, <2>6
    <2>. QED
      BY <2>5, <2>7
  <1>6. f \in Surjection(places, list) /\ f \in Injection(places, list)
    BY <1>1 DEF Surjection, Injection, IsInjective
  <1>7. Cardinality(list) = Cardinality(places)
    <2>. HIDE DEF f, list, places
    <2>. QED
      BY <1>5, <1>6, FS_Surjection
  <1>. QED
    BY <1>3, <1>5, <1>7

(* The last page is the one that ends where the list does, or later.         *)
LEMMA Paging ==
    ASSUME NEW n \in Nat, NEW m \in Nat \ {0}, NEW k \in Nat
    PROVE  /\ k + 1 >= PagesOf(n, m) => n <= k * m + m
           /\ ~(k + 1 >= PagesOf(n, m)) => k * m + m < n
  <1>. DEFINE a == n + m - 1
              d == a \div m
  <1>1. a \in Nat
    OBVIOUS
  <1>2. d \in Nat /\ d * m <= a /\ a < d * m + m
    <2>. HIDE DEF a
    <2>. QED
      BY <1>1, Dividing
  <1>3. PagesOf(n, m) = IF 1 > d THEN 1 ELSE d
    BY DEF PagesOf, Most
  <1>4. CASE k + 1 >= d
    <2>1. d * m <= (k + 1) * m /\ (k + 1) * m = k * m + m
      BY <1>2, <1>4
    <2>2. k * m \in Nat /\ d * m \in Nat
      BY <1>2
    <2>. HIDE DEF d
    <2>3. n + m - 1 < k * m + m + m
      BY <1>2, <2>1, <2>2
    <2>4. n <= k * m + m
      BY <2>2, <2>3
    <2>5. k + 1 >= PagesOf(n, m)
      BY <1>2, <1>3, <1>4
    <2>. QED
      BY <2>4, <2>5
  <1>5. CASE k + 2 <= d
    <2>1. (k + 2) * m <= d * m /\ (k + 2) * m = k * m + m + m
      BY <1>2, <1>5
    <2>2. k * m \in Nat /\ d * m \in Nat
      BY <1>2
    <2>. HIDE DEF d
    <2>3. k * m + m + m <= n + m - 1
      BY <1>2, <2>1, <2>2
    <2>4. k * m + m < n
      BY <2>2, <2>3
    <2>5. ~(k + 1 >= PagesOf(n, m))
      BY <1>2, <1>3, <1>5
    <2>. QED
      BY <2>4, <2>5
  <1>. HIDE DEF d
  <1>. QED
    BY <1>2, <1>4, <1>5

LEMMA Onward ==
    ASSUME NEW in \in Asked, NEW k \in Nat, OffsetOf(in) = k * LimitOf(in)
    PROVE  LET next == [in EXCEPT !.at = IF in.by = "offset" THEN OffsetOf(in) + LimitOf(in)
                                         ELSE (OffsetOf(in) \div LimitOf(in)) + 1 + 1]
           IN  LimitOf(next) = LimitOf(in) /\ OffsetOf(next) = k * LimitOf(in) + LimitOf(in)
  <1>. DEFINE m == LimitOf(in)
              at == IF in.by = "offset" THEN OffsetOf(in) + m ELSE (OffsetOf(in) \div m) + 1 + 1
              next == [in EXCEPT !.at = at]
  <1>1. m \in Nat \ {0} /\ OffsetOf(in) \in Nat /\ OffsetOf(in) \div m = k
    BY PageIs, Dividing
  <1>2. next.limit = in.limit /\ next.by = in.by /\ next.at = at
    BY DEF Asked
  <1>3. LimitOf(next) = m
    BY <1>2 DEF LimitOf
  <1>4. CASE in.by = "offset"
    <2>1. at = k * m + m /\ at \in Nat
      BY <1>1, <1>4
    <2>2. OffsetOf(next) = Most(at, 0)
      BY <1>2, <1>4 DEF OffsetOf
    <2>3. Most(at, 0) = at
      <3>. HIDE DEF at
      <3>. QED
        BY <2>1 DEF Most
    <2>. QED
      BY <1>3, <2>1, <2>2, <2>3
  <1>5. CASE in.by # "offset"
    <2>1. at = k + 2
      BY <1>1, <1>5
    <2>2. OffsetOf(next) = (Most(at, 1) - 1) * m
      BY <1>2, <1>3, <1>5 DEF OffsetOf
    <2>3. Most(k + 2, 1) - 1 = k + 1
      BY DEF Most
    <2>4. (k + 1) * m = k * m + m
      <3>. HIDE DEF m
      <3>. QED
        BY <1>1
    <2>. QED
      BY <1>3, <2>1, <2>2, <2>3, <2>4
  <1>. QED
    BY <1>4, <1>5

LEMMA Places ==
    ASSUME ContentInv, NEW i \in DOMAIN rows
    PROVE  Place(i) \in 1..Length
  <1>. DEFINE Before == {j \in DOMAIN rows : rows[j] <= rows[i]}
  <1>1. IsFiniteSet(DOMAIN rows) /\ rows[i] \in Int
    BY ContentFacts
  <1>2. i \in Before
    BY <1>1
  <1>3. Before \in SUBSET DOMAIN rows
    OBVIOUS
  <1>. HIDE DEF Before
  <1>4. IsFiniteSet(Before) /\ Cardinality(Before) <= Length
    BY <1>1, <1>3, FS_Subset DEF Length
  <1>5. Cardinality(Before) \in Nat /\ Cardinality(Before) # 0
    BY <1>2, <1>4, FS_CardinalityType, FS_EmptySet
  <1>6. Place(i) = Cardinality(Before)
    BY DEF Place, Before
  <1>. QED
    BY <1>4, <1>5, <1>6, ContentFacts

LEMMA WalkBegins == ContentInit => WalkInv
  BY DEF ContentInit, WalkInv, Leafing

LEMMA WalkStep ==
    ASSUME ContentInv, WalkInv, [ContentNext]_<<req, contentVars>>
    PROVE  WalkInv'
  <1>. USE DEF contentVars
  <1>s. ASSUME UNCHANGED <<rows, walk>> PROVE WalkInv'
    BY <1>s DEF WalkInv, Passed, Page, Place, Length
  <1>d. ASSUME walk'.stage \notin Leafing PROVE WalkInv'
    BY <1>d DEF WalkInv
  <1>c. ASSUME walk' = Disturbed PROVE WalkInv'
    BY <1>c, <1>d, DisturbedIs
  <1>1. ASSUME NEW t \in Kept \cup Listed, WalkStart(t) PROVE WalkInv'
    <2>1. PICK l \in 0..LimitCap + 1, by \in {"page", "offset"} :
            walk' = [stage |-> "count", true |-> TRUE, shown |-> NoRows, total |-> 0,
                     in |-> [limit |-> l, by |-> by, at |-> 0]]
      BY <1>1 DEF WalkStart
    <2>. DEFINE in == [limit |-> l, by |-> by, at |-> 0]
    <2>2. in \in Asked
      BY DEF Asked
    <2>3. OffsetOf(in) = 0 /\ 0 * LimitOf(in) = 0
      <3>1. LimitOf(in) \in Nat
        BY <2>2, PageIs
      <3>2. 0 * LimitOf(in) = 0
        BY <3>1
      <3>. QED
        BY <3>2 DEF OffsetOf, Most
    <2>4. /\ walk'.stage = "count" /\ walk'.true = TRUE /\ walk'.in = in /\ \A i \in Ids : walk'.shown[i] = 0
          /\ rows' = rows
      BY <1>1, <2>1 DEF NoRows, WalkStart
    <2>5. Passed' = 0 /\ Passed' = 0 * Page'
      BY <2>3, <2>4 DEF Passed, Page
    <2>6. \A i \in DOMAIN rows : ~(Place(i)' <= 0)
      BY <2>4, Places, ContentFacts DEF Place
    <2>7. \A i \in Ids : walk'.shown[i] = IF i \in DOMAIN rows' /\ Place(i)' <= Passed' THEN 1 ELSE 0
      BY <2>4, <2>5, <2>6
    <2>8. \E k \in Nat : Passed' = k * Page' /\ (k = 0 \/ Passed' < Length')
      BY <2>5
    <2>. QED
      BY <2>4, <2>7, <2>8 DEF WalkInv
  <1>2. CASE CountRows
    <2>1. walk.stage = "count" /\ walk.stage \in Leafing
      BY <1>2 DEF CountRows, Leafing
    <2>2. walk \in [stage : Leafing, true : BOOLEAN, shown : [Ids -> Nat], total : 0..MaxIds, in : Asked]
      BY <2>1, Followed, ContentFacts
    <2>3. walk' = [walk EXCEPT !.stage = "page", !.total = Length] /\ rows' = rows
      BY <1>2 DEF CountRows, Length
    <2>4. /\ walk'.stage = "page" /\ walk'.total = Length /\ walk'.true = walk.true /\ walk'.shown = walk.shown
          /\ walk'.in = walk.in
      BY <2>2, <2>3
    <2>5. Passed' = Passed /\ Page' = Page /\ Length' = Length /\ \A i : Place(i)' = Place(i)
      BY <2>3, <2>4 DEF Passed, Page, Length, Place
    <2>. QED
      BY <2>1, <2>3, <2>4, <2>5 DEF WalkInv
  <1>3. CASE ReadPage
    <2>. SUFFICES ASSUME IsInjective(rows) PROVE WalkInv'
      BY <1>3 DEF WalkInv, ReadPage
    <2>0. /\ walk.stage = "page" /\ walk.stage \in Leafing /\ walk.in \in Asked
          /\ Page \in Nat \ {0} /\ Passed \in Nat
      BY <1>3, PageEnds
    <2>1. walk \in [stage : Leafing, true : BOOLEAN, shown : [Ids -> Nat], total : 0..MaxIds, in : Asked]
      BY <2>0, Followed, ContentFacts
    <2>2. PICK s \in Orders : PageReads(s)
      BY <1>3, PageEnds
    <2>3. /\ walk'.stage = (IF Last THEN "done" ELSE "count")
          /\ walk'.true = (walk.true /\ Cardinality(OnPage(s)) = Least(Passed + Page, walk.total) - Passed)
          /\ walk'.shown = [i \in Ids |-> IF i \in OnPage(s) THEN walk.shown[i] + 1 ELSE walk.shown[i]]
          /\ walk'.in = [walk.in EXCEPT
                !.at = IF walk.in.by = "offset" THEN Passed + Page ELSE (Passed \div Page) + 1 + 1]
      BY <2>1, <2>2 DEF PageReads
    <2>4. /\ walk.true = TRUE /\ walk.total = Length
          /\ \A i \in Ids : walk.shown[i] = IF i \in DOMAIN rows /\ Place(i) <= Passed THEN 1 ELSE 0
      BY <2>0, <2>1 DEF WalkInv
    <2>5. PICK k \in Nat : Passed = k * Page /\ (k = 0 \/ Passed < Length)
      BY <2>0 DEF WalkInv
    <2>6. Length \in Nat /\ (Passed = 0 \/ Passed < Length)
      BY <2>0, <2>5, ContentFacts
    <2>7. /\ \A i \in Ids : i \in OnPage(s) <=> i \in DOMAIN rows /\ Passed < Place(i) /\ Place(i) <= Passed + Page
          /\ Cardinality(OnPage(s)) = Least(Passed + Page, Length) - Passed
      BY <2>0, <2>6, Listing DEF OnPage
    <2>8. walk'.true = TRUE
      BY <2>3, <2>4, <2>7
    <2>9. Passed' = Passed + Page /\ Page' = Page
      <3>1. OffsetOf(walk.in) = k * LimitOf(walk.in)
        BY <2>5 DEF Passed, Page
      <3>2. LET next == [walk.in EXCEPT !.at = IF walk.in.by = "offset" THEN OffsetOf(walk.in) + LimitOf(walk.in)
                                               ELSE (OffsetOf(walk.in) \div LimitOf(walk.in)) + 1 + 1]
            IN  LimitOf(next) = LimitOf(walk.in) /\ OffsetOf(next) = k * LimitOf(walk.in) + LimitOf(walk.in)
        BY <2>0, <3>1, Onward
      <3>. QED
        BY <2>3, <2>5, <3>2 DEF Passed, Page
    <2>10. rows' = rows /\ Length' = Length /\ \A i : Place(i)' = Place(i)
      BY <1>3 DEF ReadPage, Length, Place
    <2>11. \A i \in Ids : walk'.shown[i] = IF i \in DOMAIN rows /\ Place(i) <= Passed + Page THEN 1 ELSE 0
      <3>. TAKE i \in Ids
      <3>1. CASE i \in DOMAIN rows
        <4>1. Place(i) \in Nat
          BY <3>1, Places
        <4>. QED
          BY <2>0, <2>3, <2>4, <2>7, <3>1, <4>1
      <3>. QED
        BY <2>3, <2>4, <2>7, <3>1
    <2>12. (Passed \div Page) = k
      BY <2>0, <2>5, Dividing
    <2>13. CASE Last
      <3>1. Length <= Passed + Page
        BY <2>0, <2>4, <2>5, <2>6, <2>12, <2>13, Paging DEF Last
      <3>2. \A i \in DOMAIN rows : Place(i) <= Passed + Page
        BY <2>0, <2>6, <3>1, Places
      <3>3. walk'.stage = "done"
        BY <2>3, <2>13
      <3>. QED
        BY <2>8, <2>10, <2>11, <3>2, <3>3 DEF WalkInv
    <2>14. CASE ~Last
      <3>1. Passed + Page < Length
        BY <2>0, <2>4, <2>5, <2>6, <2>12, <2>14, Paging DEF Last
      <3>2. walk'.stage = "count"
        BY <2>3, <2>14
      <3>3. Passed' = (k + 1) * Page' /\ Passed' < Length'
        BY <2>0, <2>5, <2>9, <2>10, <3>1
      <3>4. \E j \in Nat : Passed' = j * Page' /\ (j = 0 \/ Passed' < Length')
        BY <3>3
      <3>5. \A i \in Ids : walk'.shown[i] = IF i \in DOMAIN rows' /\ Place(i)' <= Passed' THEN 1 ELSE 0
        BY <2>9, <2>10, <2>11
      <3>. QED
        BY <2>8, <3>2, <3>4, <3>5 DEF WalkInv
    <2>. QED
      BY <2>13, <2>14
  <1>4. CASE CreateUser \/ DeleteUser
    BY <1>4, <1>c DEF CreateUser, DeleteUser
  <1>5. ASSUME NEW r \in Reqs, InsertRow(r) PROVE WalkInv'
    BY <1>5, <1>c DEF InsertRow
  <1>6. ASSUME NEW r \in Reqs, NEW p \in {"update", "read", "delete"}, Begin(r, p) PROVE WalkInv'
    BY <1>6, <1>s DEF Begin
  <1>7. ASSUME NEW r \in Reqs, UpdateRow(r) PROVE WalkInv'
    BY <1>7, <1>s, <1>c DEF UpdateRow
  <1>8. ASSUME NEW r \in Reqs, ReadRow(r) PROVE WalkInv'
    BY <1>8, <1>s DEF ReadRow
  <1>9. ASSUME NEW r \in Reqs, DeleteRow(r) PROVE WalkInv'
    BY <1>9, <1>s, <1>c DEF DeleteRow
  <1>10. CASE UNCHANGED <<req, contentVars>>
    BY <1>10, <1>s
  <1>. QED
    BY <1>1, <1>2, <1>3, <1>4, <1>5, <1>6, <1>7, <1>8, <1>9, <1>10, Handled DEF Works

(* Leafing through a list that nobody changes shows every row exactly once.  *)
THEOREM WalkShowsEachOnceHolds == ContentSpec => []WalkShowsEachOnce
  <1>1. WalkInv => WalkShowsEachOnce
    BY DEF WalkInv, WalkShowsEachOnce, Leafing
  <1>. QED
    BY <1>1, ContentBegins, WalkBegins, ContentStep, WalkStep, PTL DEF ContentSpec

------------------------------------------------------------------------------
(* One specification for the three: while one part moves, the variables of    *)
(* the others rest where they began.                                          *)
AccountsHold == TypeInv /\ RowsInv /\ OldPasswordsAreOut
PasskeysHold == PasskeysTypeOK /\ HeldInv /\ ServedInv /\ RowInv /\ FreshInv
ContentHolds == ContentInv /\ WalkInv
RecordsInv ==
    \/ part = "Accounts" /\ AccountsHold /\ PasskeysInit /\ ContentInit
    \/ part = "Passkeys" /\ PasskeysHold /\ AccountsInit /\ ContentInit
    \/ part = "Content" /\ ContentHolds /\ AccountsInit /\ PasskeysInit

recordsVars == <<req, part, accountsVars, passkeysVars, contentVars>>

LEMMA RecordsBegin == RecordsInit => RecordsInv
  <1>. SUFFICES ASSUME RecordsInit PROVE AccountsHold /\ PasskeysHold /\ ContentHolds
    BY DEF RecordsInit, RecordsInv
  <1>1. HandlersInit /\ AccountsInit /\ PasskeysInit /\ ContentInit
    BY DEF RecordsInit
  <1>2. AccountsHold
    BY <1>1, AccountsTypeBegins, RowsBegin DEF AccountsHold, OldPasswordsAreOut, AccountsInit
  <1>3. PasskeysHold
    BY <1>1, PasskeysTypeBegins, HeldBegins, ServedBegins, RowBegins, FreshBegins DEF PasskeysHold
  <1>4. ContentHolds
    BY <1>1, ContentBegins, WalkBegins DEF ContentHolds
  <1>. QED
    BY <1>2, <1>3, <1>4

(* A part whose variables rest is as it began.                               *)
LEMMA Rests ==
    /\ AccountsInit /\ UNCHANGED accountsVars => AccountsInit'
    /\ PasskeysInit /\ UNCHANGED passkeysVars => PasskeysInit'
    /\ ContentInit /\ UNCHANGED contentVars => ContentInit'
  BY DEF AccountsInit, accountsVars, accountRows, PasskeysInit, passkeysVars, ContentInit, contentVars

LEMMA PartsStep ==
    ASSUME [RecordsNext]_recordsVars
    PROVE  /\ part' = part
           /\ part = "Accounts" => [AccountsNext]_<<req, accountsVars>> /\ UNCHANGED <<passkeysVars, contentVars>>
           /\ part = "Passkeys" => [PasskeysNext]_<<req, passkeysVars>> /\ UNCHANGED <<accountsVars, contentVars>>
           /\ part = "Content" => [ContentNext]_<<req, contentVars>> /\ UNCHANGED <<accountsVars, passkeysVars>>
  BY DEF RecordsNext, recordsVars

LEMMA RecordsStep == RecordsInv /\ [RecordsNext]_recordsVars => RecordsInv'
  <1>. SUFFICES ASSUME RecordsInv, [RecordsNext]_recordsVars PROVE RecordsInv'
    OBVIOUS
  <1>1. CASE part = "Accounts"
    <2>1. TypeInv /\ RowsInv /\ OldPasswordsAreOut /\ PasskeysInit /\ ContentInit
      BY <1>1 DEF RecordsInv, AccountsHold
    <2>2. [AccountsNext]_<<req, accountsVars>> /\ UNCHANGED passkeysVars /\ UNCHANGED contentVars /\ part' = part
      BY <1>1, PartsStep
    <2>3. TypeInv' /\ RowsInv' /\ OldPasswordsAreOut'
      BY <2>1, <2>2, AccountsTypeStep, RowsStep, OldPasswordsStep
    <2>. QED
      BY <1>1, <2>1, <2>2, <2>3, Rests DEF RecordsInv, AccountsHold
  <1>2. CASE part = "Passkeys"
    <2>1. PasskeysTypeOK /\ HeldInv /\ ServedInv /\ RowInv /\ FreshInv /\ AccountsInit /\ ContentInit
      BY <1>2 DEF RecordsInv, PasskeysHold
    <2>2. [PasskeysNext]_<<req, passkeysVars>> /\ UNCHANGED accountsVars /\ UNCHANGED contentVars /\ part' = part
      BY <1>2, PartsStep
    <2>3. PasskeysTypeOK' /\ HeldInv' /\ ServedInv' /\ RowInv' /\ FreshInv'
      BY <2>1, <2>2, PasskeysTypeStep, HeldStep, ServedStep, RowStep, FreshStep
    <2>. QED
      BY <1>2, <2>1, <2>2, <2>3, Rests DEF RecordsInv, PasskeysHold
  <1>3. CASE part = "Content"
    <2>1. ContentInv /\ WalkInv /\ AccountsInit /\ PasskeysInit
      BY <1>3 DEF RecordsInv, ContentHolds
    <2>2. [ContentNext]_<<req, contentVars>> /\ UNCHANGED accountsVars /\ UNCHANGED passkeysVars /\ part' = part
      BY <1>3, PartsStep
    <2>3. ContentInv' /\ WalkInv'
      BY <2>1, <2>2, ContentStep, WalkStep
    <2>. QED
      BY <1>3, <2>1, <2>2, <2>3, Rests DEF RecordsInv, ContentHolds
  <1>. QED
    BY <1>1, <1>2, <1>3 DEF RecordsInv

AccountsPromises == OneRowPerLookup /\ OldPasswordsAreOut
PasskeysPromises == CeremonyIsServedOnce /\ OneRowPerCredential

LEMMA RecordsMean == RecordsInv => TypesOK /\ AccountsPromises /\ PasskeysPromises /\ WalkShowsEachOnce
  <1>1. AccountsHold => AccountsTypeOK /\ AccountsPromises
    BY LookupsAreUnique DEF AccountsHold, AccountsPromises, TypeInv
  <1>2. PasskeysHold => PasskeysTypeOK /\ PasskeysPromises
    BY RowMeans DEF PasskeysHold, PasskeysPromises, ServedInv, CeremonyIsServedOnce
  <1>3. ContentHolds => ContentTypeOK /\ WalkShowsEachOnce
    BY DEF ContentHolds, ContentInv, WalkInv, WalkShowsEachOnce, Leafing
  (* A part that has not moved keeps its promises.                           *)
  <1>4. AccountsInit => AccountsPromises
    <2>. SUFFICES ASSUME AccountsInit PROVE AccountsPromises
      OBVIOUS
    <2>1. Cardinality(users) = 0 /\ \A u \in Uids : Cardinality(creds[u]) = 0 /\ links[u] = 0
      BY FS_EmptySet DEF AccountsInit
    <2>2. signed = {}
      BY DEF AccountsInit
    <2>. QED
      BY <2>1, <2>2 DEF AccountsPromises, OneRowPerLookup, OldPasswordsAreOut
  <1>5. PasskeysInit => PasskeysPromises
    <2>. SUFFICES ASSUME PasskeysInit PROVE PasskeysPromises
      OBVIOUS
    <2>1. DOMAIN passkeys = {}
      BY DEF PasskeysInit
    <2>2. Cardinality(DOMAIN passkeys) = 0
      BY <2>1, FS_EmptySet
    <2>3. CeremonyIsServedOnce
      BY DEF PasskeysInit, CeremonyIsServedOnce
    <2>. QED
      BY <2>2, <2>3 DEF PasskeysPromises, OneRowPerCredential
  <1>6. ContentInit => WalkShowsEachOnce
    BY DEF ContentInit, WalkShowsEachOnce
  <1>. QED
    BY <1>1, <1>2, <1>3, <1>4, <1>5, <1>6 DEF RecordsInv, TypesOK

(* The types of whichever part moves, in every behaviour that is explored.    *)
THEOREM RecordsTypesCorrect == RecordsSpec => []TypesOK
  BY RecordsBegin, RecordsStep, RecordsMean, PTL DEF RecordsSpec, recordsVars

(* The promises of the three parts hold under the specification the run       *)
(* explores: that they share a pool of requests breaks none.                  *)
THEOREM RecordsKeepPromises == RecordsSpec => [](AccountsPromises /\ PasskeysPromises /\ WalkShowsEachOnce)
  BY RecordsBegin, RecordsStep, RecordsMean, PTL DEF RecordsSpec, recordsVars

(* So does what no step may do to a passkey's counter.                       *)
THEOREM RecordsCounterNeverFallsBack == RecordsSpec => CounterNeverFallsBack
  <1>1. RecordsInv /\ [RecordsNext]_recordsVars =>
          [\A i \in RowIds : CounterFalls(i) =>
             \E r \in Reqs : At(r, "bump") /\ req[r].row = i /\ req[r].read # passkeys[i]]_passkeys
    <2>. SUFFICES ASSUME RecordsInv, [RecordsNext]_recordsVars, passkeys' # passkeys
                  PROVE  \A i \in RowIds : CounterFalls(i) =>
                           \E r \in Reqs : At(r, "bump") /\ req[r].row = i /\ req[r].read # passkeys[i]
      OBVIOUS
    <2>1. part = "Passkeys"
      BY PartsStep DEF RecordsInv, passkeysVars
    <2>2. PasskeysTypeOK /\ FreshInv
      BY <2>1 DEF RecordsInv, PasskeysHold
    <2>3. [PasskeysNext]_<<req, passkeysVars>>
      BY <2>1, PartsStep
    <2>. QED
      BY <2>2, <2>3, FallsAreExcused DEF Outrun
  <1>. QED
    BY <1>1, RecordsBegin, RecordsStep, PTL DEF RecordsSpec, recordsVars, CounterNeverFallsBack
=============================================================================
