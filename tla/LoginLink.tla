------------------------------ MODULE LoginLink ------------------------------
(* Magic-link sign-in: the user_login_links row of a link, the TFA challenge  *)
(* a step-up link ends, and the handlers that create, decide and poll links,  *)
(* or answer the challenge with a code instead.                               *)
(* A handler is a sequence of steps, one per committed statement or cache     *)
(* command.  Rows read through the ORM are written back by primary key, with  *)
(* no condition on what they hold by then; only the claim is conditional.     *)
EXTENDS Naturals, FiniteSets

CONSTANTS
    Links,     \* link ids; who knows one also holds the token it needs
    Handles,   \* handles of TFA challenges, all of one user
    Reqs,      \* requests the server can have in flight at once
    None       \* no link, no handle

ASSUME NoneAssumption == None \notin Links /\ None \notin Handles
ASSUME FinitenessAssumption == IsFiniteSet(Reqs)

VARIABLES
    row,         \* status column of a link, none before and gone after
    via,         \* its tfa_handle column, None for purpose signin
    lapsed,      \* links whose expires_at has passed
    flag,        \* links with a loginlink:trust key in the cache
    challenge,   \* state of the cache key auth:tfa:<handle>
    user,        \* whether the user row exists
    trusted,     \* whether a poll wrote a user_devices row for the user
    req,         \* what each request is doing
    approvals,   \* history: approvals written to a link
    rejections,  \* history: rejections written to a link
    claims,      \* history: times a poll has claimed a link
    logins,      \* history: sessions issued through a link
    spent,       \* history: sessions issued through a challenge
    overlapped,  \* history: links with two decisions in flight at one time
    crowd        \* history: most requests answering a challenge at one time

rowVars == <<row, via>>
cacheVars == <<flag, challenge>>
counts == <<approvals, rejections, claims, logins, spent>>
overlaps == <<overlapped, crowd>>
vars == <<rowVars, lapsed, cacheVars, user, trusted, req, counts, overlaps>>

Statuses == {"pending", "approved", "rejected", "claimed", "expired"}
Steps == {"idle", "insert", "stash", "decide", "expire", "claim", "reread",
          "peek", "drop", "owner", "ask", "grant", "forget", "issue",
          "answer", "delete", "login"}
Requests == [pc : Steps, link : Links \cup {None}, handle : Handles \cup {None},
             wants : {"approved", "rejected", "trust", "nothing"}]
Idle == [pc |-> "idle", link |-> None, handle |-> None, wants |-> "nothing"]

At(r, p) == req[r].pc = p
On(r, p, l) == At(r, p) /\ req[r].link = l
Start(r, p, l, h, w) ==
    /\ At(r, "idle")
    /\ req' = [req EXCEPT ![r] = [pc |-> p, link |-> l, handle |-> h, wants |-> w]]
Go(r, p) == req' = [req EXCEPT ![r].pc = p]
Finish(r) == req' = [req EXCEPT ![r] = Idle]
Plus1(f, x) == [f EXCEPT ![x] = @ + 1]

(* The requests past their look at a challenge that can still log in with it. *)
AnswerSteps == {"drop", "owner", "ask", "grant", "forget", "issue", "answer", "delete", "login"}
Answerers(h) == {r \in Reqs : req[r].handle = h /\ req[r].pc \in AnswerSteps}
Joins(h) ==
    LET n == Cardinality(Answerers(h)) + 1 IN
    crowd' = [crowd EXCEPT ![h] = IF n > @ THEN n ELSE @]

(* The mail with the link leaves once the row and the trust key are written. *)
Mailed(l) == row[l] \in Statuses /\ \A r \in Reqs : ~On(r, "stash", l)

Init ==
    /\ row = [l \in Links |-> "none"] /\ via = [l \in Links |-> None]
    /\ lapsed = {} /\ flag = {} /\ overlapped = {}
    /\ challenge = [h \in Handles |-> "none"] /\ spent = [h \in Handles |-> 0]
    /\ crowd = [h \in Handles |-> 0]
    /\ user = TRUE /\ trusted = FALSE
    /\ req = [r \in Reqs |-> Idle]
    /\ approvals = [l \in Links |-> 0] /\ rejections = [l \in Links |-> 0]
    /\ claims = [l \in Links |-> 0] /\ logins = [l \in Links |-> 0]

------------------------------------------------------------------------------
(* Creating a link. *)

CreateSignin(l) ==
    /\ row[l] = "none" /\ user
    /\ \A r \in Reqs : ~On(r, "insert", l)
    /\ row' = [row EXCEPT ![l] = "pending"]
    /\ UNCHANGED <<via, lapsed, cacheVars, user, trusted, req, counts, overlaps>>

(* create_tfa_login_link: the challenge is only looked at, and may be gone by *)
(* the time the row is inserted.                                              *)
CreateTfa(r, l, h, w) ==
    /\ row[l] = "none" /\ challenge[h] = "alive"
    /\ \A q \in Reqs : ~On(q, "insert", l)
    /\ Start(r, "insert", l, h, w)
    /\ UNCHANGED <<rowVars, lapsed, cacheVars, user, trusted, counts, overlaps>>

InsertLink(r) ==
    /\ At(r, "insert")
    /\ IF user
       THEN /\ row' = [row EXCEPT ![req[r].link] = "pending"]
            /\ via' = [via EXCEPT ![req[r].link] = req[r].handle]
            /\ IF req[r].wants = "trust" THEN Go(r, "stash") ELSE Finish(r)
       ELSE Finish(r) /\ UNCHANGED rowVars
    /\ UNCHANGED <<lapsed, cacheVars, user, trusted, counts, overlaps>>

StashTrust(r) ==
    /\ At(r, "stash")
    /\ flag' = flag \cup {req[r].link}
    /\ Finish(r)
    /\ UNCHANGED <<rowVars, lapsed, challenge, user, trusted, counts, overlaps>>

------------------------------------------------------------------------------
(* Deciding: respond_login_link. *)

(* Mutant: decides a link whatever its status.                               *)
RespondReadAgain(r, l, verdict) ==
    /\ Mailed(l)
    /\ l \notin lapsed
    /\ Start(r, "decide", l, None, verdict)
    /\ overlapped' = IF \E q \in Reqs : On(q, "decide", l) THEN overlapped \cup {l} ELSE overlapped
    /\ UNCHANGED <<rowVars, lapsed, cacheVars, user, trusted, counts, crowd>>

RespondRead(r, l, verdict) ==
    /\ Mailed(l)
    /\ row[l] = "pending" /\ l \notin lapsed
    /\ Start(r, "decide", l, None, verdict)
    /\ overlapped' = IF \E q \in Reqs : On(q, "decide", l) THEN overlapped \cup {l} ELSE overlapped
    /\ UNCHANGED <<rowVars, lapsed, cacheVars, user, trusted, counts, crowd>>

(* Mutant: stores the word of the request.                                   *)
WriteAction(r) ==
    /\ At(r, "decide")
    /\ row[req[r].link] # "gone"
    /\ row' = [row EXCEPT ![req[r].link] = IF req[r].wants = "approved" THEN "approve" ELSE "reject"]
    /\ Finish(r)
    /\ UNCHANGED <<via, lapsed, cacheVars, user, trusted, counts, overlaps>>

(* UPDATE ... WHERE id, whatever the status is by now.                       *)
WriteDecision(r) ==
    /\ At(r, "decide")
    /\ LET l == req[r].link IN
         IF row[l] = "gone" THEN UNCHANGED <<row, approvals, rejections>>
         ELSE /\ row' = [row EXCEPT ![l] = req[r].wants]
              /\ IF req[r].wants = "approved"
                 THEN approvals' = Plus1(approvals, l) /\ UNCHANGED rejections
                 ELSE rejections' = Plus1(rejections, l) /\ UNCHANGED approvals
    /\ Finish(r)
    /\ UNCHANGED <<via, lapsed, cacheVars, user, trusted, claims, logins, spent, overlaps>>

------------------------------------------------------------------------------
(* Polling: poll_login_link up to the claim.  Every other status is answered  *)
(* without a step of its own.                                                 *)

PollLapsed(r, l) ==
    /\ row[l] = "pending" /\ l \in lapsed
    /\ Start(r, "expire", l, None, "nothing")
    /\ UNCHANGED <<rowVars, lapsed, cacheVars, user, trusted, counts, overlaps>>

WriteExpired(r) ==
    /\ At(r, "expire")
    /\ row' = IF row[req[r].link] = "gone" THEN row ELSE [row EXCEPT ![req[r].link] = "expired"]
    /\ Finish(r)
    /\ UNCHANGED <<via, lapsed, cacheVars, user, trusted, counts, overlaps>>

PollApproved(r, l) ==
    /\ row[l] = "approved"
    /\ Start(r, "claim", l, via[l], "nothing")
    /\ UNCHANGED <<rowVars, lapsed, cacheVars, user, trusted, counts, overlaps>>

(* Mutant: the update does not ask for the status again.                     *)
ClaimBlindly(r) ==
    /\ At(r, "claim")
    /\ row' = [row EXCEPT ![req[r].link] = "claimed"]
    /\ claims' = Plus1(claims, req[r].link)
    /\ Go(r, "reread")
    /\ UNCHANGED <<via, lapsed, cacheVars, user, trusted, approvals, rejections, logins, spent, overlaps>>

(* The conditional update, and whether it matched the row.                   *)
Claim(r) ==
    /\ At(r, "claim")
    /\ IF row[req[r].link] = "approved"
       THEN /\ row' = [row EXCEPT ![req[r].link] = "claimed"]
            /\ claims' = Plus1(claims, req[r].link)
            /\ Go(r, "reread")
       ELSE Finish(r) /\ UNCHANGED <<row, claims>>
    /\ UNCHANGED <<via, lapsed, cacheVars, user, trusted, approvals, rejections, logins, spent, overlaps>>

------------------------------------------------------------------------------
(* _finalize_approved_login. *)

Reread(r) ==
    /\ At(r, "reread")
    /\ IF row[req[r].link] = "gone" THEN Finish(r)
       ELSE Go(r, IF req[r].handle = None THEN "owner" ELSE "peek")
    /\ UNCHANGED <<rowVars, lapsed, cacheVars, user, trusted, counts, overlaps>>

(* consume_tfa_challenge looks first and deletes afterwards.                 *)
ConsumePeek(r) ==
    /\ At(r, "peek")
    /\ LET h == req[r].handle IN
         IF challenge[h] = "alive"
         THEN Go(r, "drop") /\ Joins(h)
         ELSE Finish(r) /\ UNCHANGED crowd
    /\ UNCHANGED <<rowVars, lapsed, cacheVars, user, trusted, counts, overlapped>>

ConsumeDrop(r) ==
    /\ At(r, "drop")
    /\ challenge' = [challenge EXCEPT ![req[r].handle] = "gone"]
    /\ Go(r, "owner")
    /\ UNCHANGED <<rowVars, lapsed, flag, user, trusted, counts, overlaps>>

ReadOwner(r) ==
    /\ At(r, "owner")
    /\ IF user THEN Go(r, IF req[r].handle = None THEN "issue" ELSE "ask") ELSE Finish(r)
    /\ UNCHANGED <<rowVars, lapsed, cacheVars, user, trusted, counts, overlaps>>

ReadTrust(r) ==
    /\ At(r, "ask")
    /\ Go(r, IF req[r].link \in flag THEN "grant" ELSE "issue")
    /\ UNCHANGED <<rowVars, lapsed, cacheVars, user, trusted, counts, overlaps>>

TrustDevice(r) ==
    /\ At(r, "grant")
    /\ trusted' = (trusted \/ user)
    /\ IF user THEN Go(r, "forget") ELSE Finish(r)
    /\ UNCHANGED <<rowVars, lapsed, cacheVars, user, counts, overlaps>>

DropTrust(r) ==
    /\ At(r, "forget")
    /\ flag' = flag \ {req[r].link}
    /\ Go(r, "issue")
    /\ UNCHANGED <<rowVars, lapsed, challenge, user, trusted, counts, overlaps>>

IssueSession(r) ==
    /\ At(r, "issue")
    /\ IF user
       THEN /\ logins' = Plus1(logins, req[r].link)
            /\ spent' = IF req[r].handle = None THEN spent ELSE Plus1(spent, req[r].handle)
       ELSE UNCHANGED <<logins, spent>>
    /\ Finish(r)
    /\ UNCHANGED <<rowVars, lapsed, cacheVars, user, trusted, approvals, rejections, claims, overlaps>>

------------------------------------------------------------------------------
(* Answering the challenge with a code: verify_totp_login, verify_otp_login,  *)
(* verify_backup_login.  A wrong code ends the request.                       *)

CodePeek(r, h) ==
    /\ challenge[h] = "alive"
    /\ Start(r, "answer", None, h, "nothing")
    /\ Joins(h)
    /\ UNCHANGED <<rowVars, lapsed, cacheVars, user, trusted, counts, overlapped>>

(* Mutant: logs in and leaves the challenge to be answered again.            *)
CodeSkip(r) ==
    /\ At(r, "answer")
    /\ Go(r, "login")
    /\ UNCHANGED <<rowVars, lapsed, cacheVars, user, trusted, counts, overlaps>>

(* The code was right.  consume_tfa_challenge looks once more; its result is  *)
(* not used, so a challenge that has gone meanwhile goes on all the same.     *)
CodeLook(r) ==
    /\ At(r, "answer")
    /\ Go(r, IF challenge[req[r].handle] = "alive" THEN "delete" ELSE "login")
    /\ UNCHANGED <<rowVars, lapsed, cacheVars, user, trusted, counts, overlaps>>

CodeDelete(r) ==
    /\ At(r, "delete")
    /\ challenge' = [challenge EXCEPT ![req[r].handle] = "gone"]
    /\ Go(r, "login")
    /\ UNCHANGED <<rowVars, lapsed, flag, user, trusted, counts, overlaps>>

(* _tfa_login_success; without the user the session cannot be inserted.      *)
CodeLogin(r) ==
    /\ At(r, "login")
    /\ spent' = IF user THEN Plus1(spent, req[r].handle) ELSE spent
    /\ Finish(r)
    /\ UNCHANGED <<rowVars, lapsed, cacheVars, user, trusted, approvals, rejections, claims, logins, overlaps>>

------------------------------------------------------------------------------
(* What happens around the handlers. *)

(* A login with a password or a code stops at the second factor.             *)
OpenChallenge(h) ==
    /\ challenge[h] = "none" /\ user
    /\ challenge' = [challenge EXCEPT ![h] = "alive"]
    /\ UNCHANGED <<rowVars, lapsed, flag, user, trusted, req, counts, overlaps>>

(* Ten minutes pass, or wrong codes destroy the challenge.                   *)
EndChallenge(h) ==
    /\ challenge[h] = "alive"
    /\ challenge' = [challenge EXCEPT ![h] = "gone"]
    /\ UNCHANGED <<rowVars, lapsed, flag, user, trusted, req, counts, overlaps>>

Lapse(l) ==
    /\ row[l] \in Statuses /\ l \notin lapsed
    /\ lapsed' = lapsed \cup {l}
    /\ UNCHANGED <<rowVars, cacheVars, user, trusted, req, counts, overlaps>>

(* The trust key was written later than the row, and expires later.          *)
ForgetTrust(l) ==
    /\ l \in flag \cap lapsed
    /\ flag' = flag \ {l}
    /\ UNCHANGED <<rowVars, lapsed, challenge, user, trusted, req, counts, overlaps>>

(* delete_account; the links and devices of the user go by the foreign keys. *)
DeleteUser ==
    /\ user
    /\ user' = FALSE /\ trusted' = FALSE
    /\ row' = [l \in Links |-> IF row[l] \in Statuses THEN "gone" ELSE row[l]]
    /\ UNCHANGED <<via, lapsed, cacheVars, req, counts, overlaps>>

(* An error, or a restart, ends a request between two of its steps.          *)
Abort(r) ==
    /\ ~At(r, "idle")
    /\ Finish(r)
    /\ UNCHANGED <<rowVars, lapsed, cacheVars, user, trusted, counts, overlaps>>

Finalize(r) ==
    \/ Reread(r) \/ ConsumePeek(r) \/ ConsumeDrop(r) \/ ReadOwner(r)
    \/ ReadTrust(r) \/ TrustDevice(r) \/ DropTrust(r) \/ IssueSession(r)

Handle(r) ==
    \/ InsertLink(r) \/ StashTrust(r) \/ WriteDecision(r) \/ WriteExpired(r) \/ Claim(r)
    \/ Finalize(r) \/ CodeLook(r) \/ CodeDelete(r) \/ CodeLogin(r) \/ Abort(r)
    \/ \E h \in Handles : CodePeek(r, h)
    \/ \E l \in Links :
          \/ PollLapsed(r, l) \/ PollApproved(r, l)
          \/ \E v \in {"approved", "rejected"} : RespondRead(r, l, v)
          \/ \E h \in Handles, w \in {"trust", "nothing"} : CreateTfa(r, l, h, w)

Around ==
    \/ \E l \in Links : CreateSignin(l) \/ Lapse(l) \/ ForgetTrust(l)
    \/ \E h \in Handles : OpenChallenge(h) \/ EndChallenge(h)
    \/ DeleteUser

Next == Around \/ \E r \in Reqs : Handle(r)

Spec == Init /\ [][Next]_vars

(* The behaviours in which no two decisions about a link overlap.            *)
SerialSpec == Init /\ [][Next /\ overlapped' = {}]_vars

------------------------------------------------------------------------------
TypeOK ==
    /\ row \in [Links -> Statuses \cup {"none", "gone"}]
    /\ via \in [Links -> Handles \cup {None}]
    /\ lapsed \in SUBSET Links /\ flag \in SUBSET Links /\ overlapped \in SUBSET Links
    /\ challenge \in [Handles -> {"none", "alive", "gone"}]
    /\ user \in BOOLEAN /\ trusted \in BOOLEAN
    /\ req \in [Reqs -> Requests]
    /\ approvals \in [Links -> Nat] /\ rejections \in [Links -> Nat]
    /\ claims \in [Links -> Nat] /\ logins \in [Links -> Nat]
    /\ spent \in [Handles -> Nat] /\ crowd \in [Handles -> Nat]

(* However many polls race for a link, and whatever writes over its status,   *)
(* every session issued through it stands on an approval of its own.          *)
LoginsAreApproved == \A l \in Links : logins[l] <= approvals[l]

(* A link whose decisions never overlapped has one verdict: it logs in once   *)
(* at most, and not at all after a rejection.                                 *)
VerdictIsFinal ==
    \A l \in Links \ overlapped : logins[l] <= 1 /\ (rejections[l] > 0 => logins[l] = 0)

(* A TFA challenge lets no more logins through, by links and by codes, than   *)
(* there were requests answering it at one time: one, if they come one after  *)
(* another.  Every login follows the deletion of the challenge, and nobody    *)
(* starts to answer it after that.                                            *)
ChallengeLoginsAreBounded == \A h \in Handles : spent[h] <= crowd[h]

(* What a link promises, for decisions that do not overlap.                  *)
Phase == [l \in Links |-> IF row[l] = "none" THEN "none"
                          ELSE IF approvals[l] > 0 THEN "approved"
                          ELSE IF rejections[l] > 0 THEN "rejected" ELSE "open"]
Promise == INSTANCE LoginLinkPromise WITH phase <- Phase, logins <- logins
PromiseKept == Promise!Spec
=============================================================================
