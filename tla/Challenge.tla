------------------------------ MODULE Challenge ------------------------------
(* Sign-in with a second factor, for one user and one of their devices: the   *)
(* challenge a sign-in opens (two cache keys, the pending sign-in and the     *)
(* count of failures), the three ways to answer it, and the user_devices rows *)
(* that let a trusted device skip it.  What the enrolment behind it does is   *)
(* TwoFactor; here the second factor is only on or off, with an authenticator *)
(* set up or not, or off with an enrolment begun.                             *)
EXTENDS Handlers, Naturals, FiniteSets

CONSTANTS
    Handles,      \* challenges that can be opened
    MaxAttempts,  \* _TFA_MAX_ATTEMPTS = 5
    MaxGuesses    \* bound: wrong answers followed, which aborts make unlimited

ASSUME AttemptsAssumption == MaxAttempts \in Nat \ {0} /\ MaxGuesses \in Nat
ASSUME RequestsAssumption == IsFiniteSet(Reqs)

VARIABLES
    factor,    \* off; set: off, with a row; on; app: on, with an authenticator
    key,       \* auth:tfa:<handle>
    tries,     \* auth:tfa:attempts:<handle>, 0 when there is no key
    devices,   \* user_devices rows of the device
    current,   \* those of them that have not expired
    guesses,   \* history: wrong answers a challenge has been given
    logins,    \* history: sessions a challenge has led to
    burned,    \* history: challenges destroyed for their failures
    doubled,   \* history: challenges two requests were answering at one time
    cut,       \* history: challenges whose destruction an abort prevented
    twice,     \* history: two requests were inserting the device at one time
    leftover   \* history: trust can have outlived the second factor

challengeKeys == <<key, tries>>
deviceRows == <<devices, current>>
outcomes == <<guesses, logins, burned, cut>>
excuses == <<doubled, twice, leftover>>
challengeVars == <<factor, challengeKeys, deviceRows, outcomes, excuses>>

AnswerSteps == {"answer", "fail", "burn", "clear", "consume", "drop", "wipe",
                "ask", "insert", "issue"}
AnswerTasks == [pc : AnswerSteps, handle : Handles, trust : BOOLEAN]
ChallengeTasks ==
    AnswerTasks \cup [pc : {"device"}] \cup [pc : {"open"}, handle : Handles] \cup [pc : {"revoke"}]

Answering(r, h) == req[r] \in AnswerTasks /\ req[r].handle = h
To(r, p) == req' = [req EXCEPT ![r].pc = p]
Opening(h) == \E q \in Reqs : At(q, "open") /\ req[q].handle = h

Required == factor \in {"on", "app"}

ChallengeInit ==
    /\ factor = "off" /\ devices = 0 /\ current = 0
    /\ key = [h \in Handles |-> "none"] /\ tries = [h \in Handles |-> 0]
    /\ guesses = [h \in Handles |-> 0] /\ logins = [h \in Handles |-> 0]
    /\ burned = {} /\ doubled = {} /\ cut = {} /\ twice = FALSE /\ leftover = FALSE

------------------------------------------------------------------------------
(* The first factor was right. *)

(* A sign-in with a password asks whether the device is trusted.             *)
SignInPassword(r) ==
    /\ Required
    /\ Start(r, [pc |-> "device"])
    /\ UNCHANGED challengeVars

(* is_device_trusted: a trusted device is signed in without a challenge; two  *)
(* rows raise.                                                                *)
SignInDevice(r) ==
    /\ At(r, "device")
    /\ IF current = 0
       THEN \E h \in Handles : /\ key[h] = "none" /\ ~Opening(h)
                               /\ Become(r, [pc |-> "open", handle |-> h])
       ELSE Finish(r)
    /\ UNCHANGED challengeVars

(* A sign-in with a code asks for the second factor on every device.         *)
SignInCode(r, h) ==
    /\ Required
    /\ key[h] = "none" /\ ~Opening(h)
    /\ Start(r, [pc |-> "open", handle |-> h])
    /\ UNCHANGED challengeVars

(* create_tfa_challenge, with a handle of its own.                           *)
OpenChallenge(r) ==
    /\ At(r, "open")
    /\ key' = [key EXCEPT ![req[r].handle] = "alive"]
    /\ Finish(r)
    /\ UNCHANGED <<factor, tries, deviceRows, outcomes, excuses>>

(* The challenge expires; the count of its failures expires later.           *)
ExpireChallenge(h) ==
    /\ key[h] = "alive"
    /\ key' = [key EXCEPT ![h] = "gone"]
    /\ UNCHANGED <<req, factor, tries, deviceRows, outcomes, excuses>>

------------------------------------------------------------------------------
(* Answering: verify_totp_login, verify_otp_login, verify_backup_login. *)

Peek(r, h, trust) ==
    /\ key[h] = "alive"
    /\ Start(r, [pc |-> "answer", handle |-> h, trust |-> trust])
    /\ doubled' = IF \E q \in Reqs : Answering(q, h) THEN doubled \cup {h} ELSE doubled
    /\ UNCHANGED <<factor, challengeKeys, deviceRows, outcomes, twice, leftover>>

(* What can be answered with: the methods get_challenge_methods offers.      *)
Methods == {"otp"} \cup (IF factor # "off" THEN {"backup"} ELSE {})
                   \cup (IF factor = "app" THEN {"totp"} ELSE {})

Right(r) ==
    /\ At(r, "answer")
    /\ To(r, "consume")
    /\ UNCHANGED challengeVars
Wrong(r) ==
    /\ At(r, "answer") /\ guesses[req[r].handle] < MaxGuesses
    /\ To(r, "fail")
    /\ guesses' = [guesses EXCEPT ![req[r].handle] = @ + 1]
    /\ UNCHANGED <<factor, challengeKeys, deviceRows, logins, burned, cut, excuses>>

AnswerTotp(r) == "totp" \in Methods /\ (Right(r) \/ Wrong(r))
AnswerOtp(r) == "otp" \in Methods /\ (Right(r) \/ Wrong(r))
AnswerBackup(r) == "backup" \in Methods /\ (Right(r) \/ Wrong(r))

(* "2FA not configured": the method is not one of those.                     *)
Unanswerable(r) ==
    /\ At(r, "answer") /\ Methods # {"otp", "backup", "totp"}
    /\ Finish(r)
    /\ UNCHANGED challengeVars

(* Mutant: a failure starts the count again.                                 *)
CountAnew(r) ==
    /\ At(r, "fail")
    /\ tries' = [tries EXCEPT ![req[r].handle] = IF MaxAttempts = 1 THEN @ + 1 ELSE 1]
    /\ IF MaxAttempts = 1 THEN To(r, "burn") ELSE Finish(r)
    /\ UNCHANGED <<factor, key, deviceRows, outcomes, excuses>>

(* bump_tfa_attempts: one atomic increment, whose result is the test.        *)
CountFailure(r) ==
    LET h == req[r].handle IN
    /\ At(r, "fail")
    /\ tries' = [tries EXCEPT ![h] = @ + 1]
    /\ IF tries[h] + 1 >= MaxAttempts THEN To(r, "burn") ELSE Finish(r)
    /\ UNCHANGED <<factor, key, deviceRows, outcomes, excuses>>

(* Mutant: the failures are forgotten and the challenge is kept.             *)
BurnCount(r) ==
    /\ At(r, "burn")
    /\ burned' = burned \cup {req[r].handle}
    /\ To(r, "clear")
    /\ UNCHANGED <<factor, challengeKeys, deviceRows, guesses, logins, cut, excuses>>

(* destroy_tfa_challenge.                                                    *)
Burn(r) ==
    /\ At(r, "burn")
    /\ key' = [key EXCEPT ![req[r].handle] = "gone"]
    /\ burned' = burned \cup {req[r].handle}
    /\ To(r, "clear")
    /\ UNCHANGED <<factor, tries, deviceRows, guesses, logins, cut, excuses>>

BurnClear(r) ==
    /\ At(r, "clear")
    /\ tries' = [tries EXCEPT ![req[r].handle] = 0]
    /\ Finish(r)
    /\ UNCHANGED <<factor, key, deviceRows, outcomes, excuses>>

(* consume_tfa_challenge looks once more, and its result is not used: a       *)
(* challenge that has gone meanwhile goes on all the same.                    *)
ConsumeLook(r) ==
    /\ At(r, "consume")
    /\ IF key[req[r].handle] = "alive" THEN To(r, "drop") ELSE To(r, "ask")
    /\ UNCHANGED challengeVars

(* Mutant: only the count is deleted.                                        *)
ConsumeCount(r) ==
    /\ At(r, "drop")
    /\ To(r, "wipe")
    /\ UNCHANGED challengeVars

ConsumeDelete(r) ==
    /\ At(r, "drop")
    /\ key' = [key EXCEPT ![req[r].handle] = "gone"]
    /\ To(r, "wipe")
    /\ UNCHANGED <<factor, tries, deviceRows, outcomes, excuses>>

ConsumeClear(r) ==
    /\ At(r, "wipe")
    /\ tries' = [tries EXCEPT ![req[r].handle] = 0]
    /\ To(r, "ask")
    /\ UNCHANGED <<factor, key, deviceRows, outcomes, excuses>>

------------------------------------------------------------------------------
(* _tfa_login_success. *)

(* Mutant: a device that is known is inserted like a new one.                *)
TrustAlways(r) ==
    /\ At(r, "ask")
    /\ IF req[r].trust
       THEN /\ twice' = (twice \/ Beside(r, {"insert"}))
            /\ To(r, "insert")
       ELSE UNCHANGED twice /\ To(r, "issue")
    /\ UNCHANGED <<factor, challengeKeys, deviceRows, outcomes, doubled, leftover>>

(* trust_device looks for the row of the device, expired or not.  Two rows    *)
(* raise, and the login that consumed the challenge is lost.                  *)
TrustAsk(r) ==
    /\ At(r, "ask")
    /\ \/ ~req[r].trust /\ To(r, "issue") /\ UNCHANGED <<current, twice>>
       \/ /\ req[r].trust /\ devices = 0
          /\ twice' = (twice \/ Beside(r, {"insert"}))
          /\ To(r, "insert") /\ UNCHANGED current
       \/ req[r].trust /\ devices = 1 /\ To(r, "issue") /\ current' = 1 /\ UNCHANGED twice
       \/ req[r].trust /\ devices > 1 /\ Finish(r) /\ UNCHANGED <<current, twice>>
    /\ UNCHANGED <<factor, challengeKeys, devices, outcomes, doubled, leftover>>

TrustInsert(r) ==
    /\ At(r, "insert")
    /\ devices' = devices + 1 /\ current' = current + 1
    /\ To(r, "issue")
    /\ UNCHANGED <<factor, challengeKeys, outcomes, excuses>>

IssueLogin(r) ==
    /\ At(r, "issue")
    /\ logins' = [logins EXCEPT ![req[r].handle] = @ + 1]
    /\ Finish(r)
    /\ UNCHANGED <<factor, challengeKeys, deviceRows, guesses, burned, cut, excuses>>

------------------------------------------------------------------------------
(* Around it. *)

(* setup leaves a row; verify_setup switches the second factor on, with or    *)
(* without an authenticator; remove_authenticator takes that away.            *)
Enrol(f) ==
    /\ IF factor = "off" THEN f = "set" ELSE f \in {"on", "app"} \ {factor}
    /\ factor' = f
    /\ UNCHANGED <<req, challengeKeys, deviceRows, outcomes, excuses>>

(* disable commits the row and the flag first.  Challenges that are open, and *)
(* requests on their way, can still trust the device afterwards.              *)
DisableFactor(r) ==
    /\ Start(r, [pc |-> "revoke"])
    /\ factor' = "off"
    /\ leftover' = \/ leftover
                   \/ \E h \in Handles : key[h] = "alive"
                   \/ \E q \in Reqs \ {r} : req[q] # Idle
    /\ UNCHANGED <<challengeKeys, deviceRows, outcomes, doubled, twice>>

(* Mutant: revokes the trust that has not expired.                           *)
RevokeCurrent(r) ==
    /\ At(r, "revoke")
    /\ devices' = devices - current /\ current' = 0
    /\ Finish(r)
    /\ UNCHANGED <<factor, challengeKeys, outcomes, excuses>>

(* Mutant: the rows go and the trust stays.                                  *)
RevokeRows(r) ==
    /\ At(r, "revoke")
    /\ devices' = 0
    /\ Finish(r)
    /\ UNCHANGED <<factor, challengeKeys, current, outcomes, excuses>>

RevokeDevices(r) ==
    /\ At(r, "revoke")
    /\ devices' = 0 /\ current' = 0
    /\ Finish(r)
    /\ UNCHANGED <<factor, challengeKeys, outcomes, excuses>>

(* Thirty days pass; the row stays.                                          *)
ExpireDevice ==
    /\ current > 0
    /\ current' = current - 1
    /\ UNCHANGED <<req, factor, challengeKeys, devices, outcomes, excuses>>

(* An error, or a restart, ends a request between two of its steps.          *)
ChallengeAbort(r) ==
    /\ req[r] \in ChallengeTasks
    /\ Finish(r)
    /\ leftover' = (leftover \/ At(r, "revoke"))
    /\ cut' = IF At(r, "burn") \/ At(r, "fail") THEN cut \cup {req[r].handle} ELSE cut
    /\ UNCHANGED <<factor, challengeKeys, deviceRows, guesses, logins, burned, doubled, twice>>

Answer(r) ==
    \/ (\E h \in Handles, t \in BOOLEAN : Peek(r, h, t))
    \/ AnswerTotp(r) \/ AnswerOtp(r) \/ AnswerBackup(r) \/ Unanswerable(r)
    \/ CountFailure(r) \/ Burn(r) \/ BurnClear(r)
    \/ ConsumeLook(r) \/ ConsumeDelete(r) \/ ConsumeClear(r)
    \/ TrustAsk(r) \/ TrustInsert(r) \/ IssueLogin(r)

ChallengeStep(r) ==
    \/ SignInPassword(r) \/ SignInDevice(r) \/ (\E h \in Handles : SignInCode(r, h)) \/ OpenChallenge(r)
    \/ Answer(r) \/ DisableFactor(r) \/ RevokeDevices(r) \/ ChallengeAbort(r)

ChallengeNext ==
    \/ \E r \in Reqs : ChallengeStep(r)
    \/ \E h \in Handles : ExpireChallenge(h)
    \/ (\E f \in {"set", "on", "app"} : Enrol(f)) \/ ExpireDevice

ChallengeSpec == HandlersInit /\ ChallengeInit /\ [][ChallengeNext]_<<req, challengeVars>>

------------------------------------------------------------------------------
ChallengeTypeOK ==
    /\ factor \in {"off", "set", "on", "app"}
    /\ key \in [Handles -> {"none", "alive", "gone"}] /\ tries \in [Handles -> Nat]
    /\ devices \in Nat /\ current \in Nat /\ current <= devices
    /\ guesses \in [Handles -> Nat] /\ logins \in [Handles -> Nat]
    /\ burned \in SUBSET Handles /\ doubled \in SUBSET Handles /\ cut \in SUBSET Handles
    /\ twice \in BOOLEAN /\ leftover \in BOOLEAN
    /\ req \in [Reqs -> ChallengeTasks \cup {Idle}]

(* A challenge is guessed at MaxAttempts times, and by every other request    *)
(* that was past its look at the challenge when the last failure ended it,    *)
(* unless an abort kept a failure from being counted or acted upon.           *)
GuessesAreFew == \A h \in Handles \ cut : guesses[h] < MaxAttempts + Cardinality(Reqs)

(* A challenge leads to one login, unless two requests answered it together.  *)
ChallengeLogsInOnce == \A h \in Handles \ doubled : logins[h] <= 1

(* A challenge destroyed for its failures leads to no login, though the       *)
(* result of consuming it is ignored, unless a right answer was on its way.   *)
LockoutIsFinal == \A h \in burned \ doubled : logins[h] = 0

(* A device has one row, or every later sign-in from it would raise, unless   *)
(* two requests inserted it together.                                         *)
DeviceHasOneRow == ~twice => devices <= 1

(* When the second factor is off no device is trusted any more, so that a new *)
(* enrolment asks every device again, unless disable was cut short or         *)
(* something it does not end could still trust the device.                    *)
TrustEndsWithFactor ==
    (~Required /\ ~leftover /\ \A r \in Reqs : ~At(r, "revoke")) => devices = 0
=============================================================================
