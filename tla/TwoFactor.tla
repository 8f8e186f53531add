------------------------------ MODULE TwoFactor ------------------------------
(* The second factor of one user: the user_two_factors rows, the flag         *)
(* users.two_factor_enabled, and the handlers that enrol, verify, renew,      *)
(* remove and disable it and that spend backup codes.  Nothing in the schema  *)
(* keeps a user from having two rows; every handler reads "the" row with      *)
(* scalar_one_or_none, which raises when there are two.  Secrets and batches  *)
(* of backup codes are numbered in the order they are stored.                 *)
EXTENDS Handlers, Naturals, FiniteSets

CONSTANTS
    Slots,       \* the backup codes of a batch (ten in the code)
    MaxBatches   \* bound: secrets and batches of codes stored in a behaviour

ASSUME BatchesAssumption == MaxBatches \in Nat

VARIABLES
    batch,     \* how many have been stored
    rows,      \* ids of the rows: the batch each was inserted with
    secret,    \* secret column
    codes,     \* backup_codes column, a set of <<batch, slot>>
    verified,  \* rows whose verified column is true
    enabled,   \* users.two_factor_enabled
    shown,     \* history: the batch the user was last shown
    proven,    \* history: secrets a code of the authenticator was checked with
    used,      \* history: codes a login was let through with
    reused,    \* history: codes two logins were let through with
    raced      \* history: what two handlers have been writing at one time

columns == <<secret, codes, verified>>
spending == <<used, reused>>
twoFactorVars == <<batch, rows, columns, enabled, shown, proven, spending, raced>>

Batches == 1..MaxBatches
Batch(b) == {b} \X Slots
AllCodes == Batches \X Slots

(* The steps at which a handler holds what it read and has still to write, by *)
(* what it writes.                                                            *)
Writers(what) ==
    CASE what = "rows" -> {"create"}
      [] what = "codes" -> {"rewrite", "renew", "spend"}
      [] what = "secret" -> {"rewrite", "prove", "enable"}
      [] what = "flag" -> {"auth", "prove", "enable", "disable", "erase"}
Contents == {"rows", "codes", "secret", "flag"}

TwoFactorTasks ==
    [pc : {"create"}]
    \cup [pc : {"rewrite", "renew", "unverify"}, row : Batches]
    \cup [pc : {"tell"}, batch : Batches]
    \cup [pc : {"auth"}, held : SUBSET BOOLEAN]
    \cup [pc : {"prove"}, row : Batches, saw : Batches, method : {"totp", "otp"}, held : SUBSET BOOLEAN]
    \cup [pc : {"enable"}, row : Batches, saw : Batches, method : {"totp", "otp"}, on : BOOLEAN]
    \cup [pc : {"disable"}, rows : SUBSET Batches, held : SUBSET BOOLEAN]
    \cup [pc : {"erase"}, rows : SUBSET Batches, on : BOOLEAN]
    \cup [pc : {"spend"}, row : Batches, code : AllCodes, left : SUBSET AllCodes]

(* A handler goes on to a task, and those it overlaps with are remembered.   *)
Hold(r, task) ==
    /\ Become(r, task)
    /\ raced' = raced \cup {w \in Contents : task.pc \in Writers(w) /\ Beside(r, Writers(w))}

Enter(r, task) == req[r] = Idle /\ Hold(r, task)

TheRow(i) == rows = {i}

TwoFactorInit ==
    /\ batch = 0 /\ rows = {} /\ verified = {} /\ enabled = FALSE
    /\ shown = 0
    /\ secret = [b \in Batches |-> b] /\ codes = [b \in Batches |-> {}]
    /\ proven = {} /\ used = {} /\ reused = {} /\ raced = {}

------------------------------------------------------------------------------
(* setup. *)

(* Mutant: enrolment is restarted whatever the state of the one before.      *)
SetupRestarts(r) ==
    /\ \/ rows = {} /\ Enter(r, [pc |-> "create"])
       \/ \E i \in rows : TheRow(i) /\ Enter(r, [pc |-> "rewrite", row |-> i])
    /\ UNCHANGED <<batch, rows, columns, enabled, shown, proven, spending>>

(* Mutant: only a verified row counts as an enrolment.                       *)
SetupAgain(r) ==
    /\ rows \cap verified = {}
    /\ Enter(r, [pc |-> "create"])
    /\ UNCHANGED <<batch, rows, columns, enabled, shown, proven, spending>>

SetupRead(r) ==
    /\ \/ rows = {} /\ Enter(r, [pc |-> "create"])
       \/ \E i \in rows \ verified : TheRow(i) /\ Enter(r, [pc |-> "rewrite", row |-> i])
    /\ UNCHANGED <<batch, rows, columns, enabled, shown, proven, spending>>

(* A new batch is stored in row i.                                           *)
Store(i) ==
    /\ batch < MaxBatches
    /\ batch' = batch + 1
    /\ codes' = [codes EXCEPT ![i] = Batch(batch + 1)]

(* setup answers without another await; a restart, or a connection that is    *)
(* lost, leaves the user without the codes that are stored.                   *)
SetupAnswer(r) ==
    /\ Finish(r)
    /\ shown' \in {shown, batch + 1}

SetupCreate(r) ==
    /\ At(r, "create")
    /\ Store(batch + 1) /\ SetupAnswer(r)
    /\ rows' = rows \cup {batch + 1}
    /\ secret' = [secret EXCEPT ![batch + 1] = batch + 1]
    /\ UNCHANGED <<verified, enabled, proven, spending, raced>>

(* The row keeps the verified column it has by now.                          *)
SetupRewrite(r) ==
    /\ At(r, "rewrite") /\ req[r].row \in rows
    /\ Store(req[r].row) /\ SetupAnswer(r)
    /\ secret' = [secret EXCEPT ![req[r].row] = batch + 1]
    /\ UNCHANGED <<rows, verified, enabled, proven, spending, raced>>

------------------------------------------------------------------------------
(* verify_setup: with a code of the authenticator, or with one sent by mail   *)
(* (verify_otp), which leaves the verified column alone.                      *)

(* A request whose user is not in the cache loads the row when it is          *)
(* authenticated, in the database session its handler goes on with: selecting *)
(* the user later returns that copy, flag and all.                            *)
Authenticate(r) ==
    /\ Enter(r, [pc |-> "auth", held |-> {enabled}])
    /\ UNCHANGED <<batch, rows, columns, enabled, shown, proven, spending>>

Begins(r) == req[r] = Idle \/ At(r, "auth")
Held(r) == IF At(r, "auth") THEN req[r].held ELSE {}

(* The flag a handler selects: the copy, or else what is stored by now.      *)
Selected(r) == IF req[r].held = {} THEN {enabled} ELSE req[r].held

VerifyRead(r, method) ==
    /\ Begins(r)
    /\ \E i \in rows \ verified :
          TheRow(i) /\ Hold(r, [pc |-> "prove", row |-> i, saw |-> secret[i], method |-> method,
                               held |-> Held(r)])
    /\ UNCHANGED <<batch, rows, columns, enabled, shown, proven, spending>>

(* The code is right for the secret that was read; a wrong one ends it.      *)
VerifyCode(r) ==
    /\ At(r, "prove")
    /\ \E on \in Selected(r) : Become(r, [pc |-> "enable", row |-> req[r].row, saw |-> req[r].saw,
                                          method |-> req[r].method, on |-> on])
    /\ proven' = IF req[r].method = "totp" THEN proven \cup {req[r].saw} ELSE proven
    /\ UNCHANGED <<batch, rows, columns, enabled, shown, spending, raced>>

(* A flag that was read as set is not written again.                         *)
VerifyEnable(r) ==
    /\ At(r, "enable")
    /\ req[r].method = "totp" => req[r].row \in rows
    /\ verified' = IF req[r].method = "totp" THEN verified \cup {req[r].row} ELSE verified
    /\ enabled' = (enabled \/ ~req[r].on)
    /\ Finish(r)
    /\ UNCHANGED <<batch, rows, secret, codes, shown, proven, spending, raced>>

------------------------------------------------------------------------------
(* disable and remove_authenticator. *)

DisableRead(r) ==
    /\ Begins(r) /\ Cardinality(rows) <= 1
    /\ Hold(r, [pc |-> "disable", rows |-> rows, held |-> Held(r)])
    /\ UNCHANGED <<batch, rows, columns, enabled, shown, proven, spending>>

DisableUser(r) ==
    /\ At(r, "disable")
    /\ \E on \in Selected(r) : Become(r, [pc |-> "erase", rows |-> req[r].rows, on |-> on])
    /\ UNCHANGED twoFactorVars

(* Mutant: the row goes and the flag stays.                                  *)
DisableHalf(r) ==
    /\ At(r, "erase")
    /\ rows' = rows \ req[r].rows /\ verified' = verified \ req[r].rows
    /\ Finish(r)
    /\ UNCHANGED <<batch, secret, codes, enabled, shown, proven, spending, raced>>

DisableErase(r) ==
    /\ At(r, "erase")
    /\ rows' = rows \ req[r].rows /\ verified' = verified \ req[r].rows
    /\ enabled' = (enabled /\ ~req[r].on)
    /\ Finish(r)
    /\ UNCHANGED <<batch, secret, codes, shown, proven, spending, raced>>

RemoveRead(r) ==
    /\ \E i \in rows \cap verified : TheRow(i) /\ Enter(r, [pc |-> "unverify", row |-> i])
    /\ UNCHANGED <<batch, rows, columns, enabled, shown, proven, spending>>

RemoveWrite(r) ==
    /\ At(r, "unverify") /\ req[r].row \in rows
    /\ verified' = verified \ {req[r].row}
    /\ Finish(r)
    /\ UNCHANGED <<batch, rows, secret, codes, enabled, shown, proven, spending, raced>>

------------------------------------------------------------------------------
(* Backup codes. *)

RenewRead(r) ==
    /\ \E i \in rows \cap verified : TheRow(i) /\ Enter(r, [pc |-> "renew", row |-> i])
    /\ UNCHANGED <<batch, rows, columns, enabled, shown, proven, spending>>

(* Mutant: the new codes join the old ones.                                  *)
RenewBeside(r) ==
    /\ At(r, "renew") /\ req[r].row \in rows
    /\ batch < MaxBatches
    /\ batch' = batch + 1
    /\ codes' = [codes EXCEPT ![req[r].row] = @ \cup Batch(batch + 1)]
    /\ Become(r, [pc |-> "tell", batch |-> batch + 1])
    /\ UNCHANGED <<rows, secret, verified, enabled, shown, proven, spending, raced>>

RenewWrite(r) ==
    /\ At(r, "renew") /\ req[r].row \in rows
    /\ Store(req[r].row)
    /\ Become(r, [pc |-> "tell", batch |-> batch + 1])
    /\ UNCHANGED <<rows, secret, verified, enabled, shown, proven, spending, raced>>

(* The answer, once the activity is logged: an error there leaves the user    *)
(* with the codes of before.                                                  *)
RenewTell(r) ==
    /\ At(r, "tell")
    /\ shown' = req[r].batch
    /\ Finish(r)
    /\ UNCHANGED <<batch, rows, columns, enabled, proven, spending, raced>>

(* _verify_backup_code: the list without the code that matched.              *)
BackupRead(r, c) ==
    /\ \E i \in rows : /\ TheRow(i) /\ c \in codes[i]
                       /\ Enter(r, [pc |-> "spend", row |-> i, code |-> c, left |-> codes[i] \ {c}])
    /\ UNCHANGED <<batch, rows, columns, enabled, shown, proven, spending>>

(* Mutant: the list is written only when it becomes empty.                   *)
BackupKeep(r) ==
    /\ At(r, "spend") /\ req[r].row \in rows
    /\ codes' = IF req[r].left = {} THEN [codes EXCEPT ![req[r].row] = {}] ELSE codes
    /\ used' = used \cup {req[r].code}
    /\ reused' = reused \cup (used \cap {req[r].code})
    /\ Finish(r)
    /\ UNCHANGED <<batch, rows, secret, verified, enabled, shown, proven, raced>>

(* The whole list is written back; the login goes on from here.              *)
BackupSpend(r) ==
    /\ At(r, "spend") /\ req[r].row \in rows
    /\ codes' = [codes EXCEPT ![req[r].row] = req[r].left]
    /\ used' = used \cup {req[r].code}
    /\ reused' = reused \cup (used \cap {req[r].code})
    /\ Finish(r)
    /\ UNCHANGED <<batch, rows, secret, verified, enabled, shown, proven, raced>>

------------------------------------------------------------------------------
(* A write to a row that has gone raises StaleDataError; other errors, and a  *)
(* restart, end a request anywhere.                                           *)
TwoFactorAbort(r) ==
    /\ req[r] \in TwoFactorTasks
    /\ Finish(r)
    /\ UNCHANGED twoFactorVars

TwoFactorStep(r) ==
    \/ SetupRead(r) \/ SetupCreate(r) \/ SetupRewrite(r) \/ Authenticate(r)
    \/ (\E m \in {"totp", "otp"} : VerifyRead(r, m)) \/ VerifyCode(r) \/ VerifyEnable(r)
    \/ DisableRead(r) \/ DisableUser(r) \/ DisableErase(r) \/ RemoveRead(r) \/ RemoveWrite(r)
    \/ RenewRead(r) \/ RenewWrite(r) \/ RenewTell(r)
    \/ (\E c \in AllCodes : BackupRead(r, c)) \/ BackupSpend(r)
    \/ TwoFactorAbort(r)

TwoFactorNext == \E r \in Reqs : TwoFactorStep(r)

TwoFactorSpec == HandlersInit /\ TwoFactorInit /\ [][TwoFactorNext]_<<req, twoFactorVars>>

------------------------------------------------------------------------------
TwoFactorTypeOK ==
    /\ batch \in 0..MaxBatches /\ shown \in 0..MaxBatches /\ enabled \in BOOLEAN
    /\ rows \in SUBSET Batches /\ verified \in SUBSET Batches /\ proven \in SUBSET Batches
    /\ secret \in [Batches -> Batches] /\ codes \in [Batches -> SUBSET AllCodes]
    /\ used \in SUBSET AllCodes /\ reused \in SUBSET AllCodes /\ raced \in SUBSET Contents
    /\ req \in [Reqs -> TwoFactorTasks \cup {Idle}]

(* A user has one row, unless two enrolments overlapped: otherwise every      *)
(* later use of the second factor but the code by mail would raise.           *)
OneRecord == "rows" \notin raced => Cardinality(rows) <= 1

(* A backup code lets one login through, unless two handlers were writing the *)
(* list at one time: the later writes back what the earlier one spent.        *)
BackupCodeIsUsedOnce == "codes" \notin raced => reused = {}

(* The codes the user was last shown work, apart from those that were used;   *)
(* when newer ones were stored and the user was not shown them, none of the   *)
(* shown ones does.  Unless two handlers were writing the list at one time.   *)
ShownCodesWork ==
    raced \cap {"rows", "codes"} = {} =>
        \A i \in rows : codes[i] \cap Batch(shown) = IF shown = batch THEN Batch(shown) \ used ELSE {}

(* A verified row holds a secret the user has shown to have, unless it was    *)
(* verified while enrolment was being restarted.                              *)
VerifiedSecretIsProven ==
    "secret" \notin raced => \A i \in rows \cap verified : secret[i] \in proven

(* The flag that makes sign-in ask for a second factor, and the row that      *)
(* answers it, come and go together, unless requests that enable or disable   *)
(* it overlapped, from the moment they are authenticated.                     *)
FlagFollowsRecord ==
    "flag" \notin raced => (enabled => rows # {}) /\ (rows \cap verified # {} => enabled)
=============================================================================
