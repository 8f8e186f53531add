------------------------------- MODULE Accounts -------------------------------
(* Who has an account at one address, and how it signs in: registration,      *)
(* creation by an administrator, Google sign-in, passwords and their change,  *)
(* over the tables users, user_accounts and user_sessions.  None of the       *)
(* lookups is backed by a unique constraint in the declared models, and each  *)
(* of them (scalar_one_or_none) raises once it meets a second row.            *)
EXTENDS Handlers, FiniteSets, Naturals

CONSTANTS
    MaxUsers,      \* bound: rows of users ever inserted
    MaxPasswords   \* bound: passwords ever chosen, each a new one

ASSUME AccountsAssumption == MaxUsers \in Nat /\ MaxPasswords \in Nat

VARIABLES
    made,      \* users inserted so far; the last is the newest
    chosen,    \* passwords chosen so far
    users,     \* the users that have the address
    creds,     \* the password in each credential row of a user
    links,     \* the number of rows that link Google's subject to a user
    signed,    \* sessions: whose, by which password (0: by other means), and
               \*   whether it is excused from the password being changed since
    raced      \* history: a row was inserted beside a request that had looked
               \*   for it and found none

accountRows == <<made, chosen, users, creds, links>>
accountsVars == <<accountRows, signed, raced>>

Uids == 1..MaxUsers
Passwords == 1..MaxPasswords
AccountsTasks ==
    [pc : {"insert"}, way : {"register", "create"}] \cup [pc : {"gmail", "gnew"}]
    \cup [pc : {"glink", "guser", "check", "set", "hash", "change", "revoke"}, u : Uids]
    \cup [pc : {"write"}, u : Uids, found : BOOLEAN]
    \cup [pc : {"issue"}, u : Uids, by : 0..MaxPasswords]

AccountsInit ==
    /\ made = 0 /\ chosen = 0 /\ users = {}
    /\ creds = [u \in Uids |-> {}] /\ links = [u \in Uids |-> 0]
    /\ signed = {} /\ raced = FALSE

NewUser == made < MaxUsers /\ made' = made + 1 /\ users' = users \cup {made'}
NewPassword == chosen < MaxPasswords /\ chosen' = chosen + 1

------------------------------------------------------------------------------
(* register and create_account: no user may have the address; then the user   *)
(* and its credential are inserted together.                                  *)
LookForAddress(r) ==
    /\ users = {}
    /\ \E w \in {"register", "create"} : Start(r, [pc |-> "insert", way |-> w])
    /\ UNCHANGED accountsVars

(* A registration signs in at once unless addresses are to be verified.      *)
InsertUser(r) ==
    /\ At(r, "insert")
    /\ NewUser /\ NewPassword
    /\ creds' = [creds EXCEPT ![made'] = {chosen'}]
    /\ raced' = (raced \/ Beside(r, {"insert", "gnew"}))
    /\ \/ Finish(r)
       \/ req[r].way = "register" /\ Become(r, [pc |-> "issue", u |-> made', by |-> chosen'])
    /\ UNCHANGED <<links, signed>>

------------------------------------------------------------------------------
(* process_google_login: the linked account, or else the user who has the     *)
(* address, or else a new one; then a link.                                   *)
GoogleAccount(r) ==
    /\ \/ \E u \in Uids :
             /\ links = [v \in Uids |-> IF v = u THEN 1 ELSE 0]
             /\ Start(r, [pc |-> "guser", u |-> u])
       \/ links = [v \in Uids |-> 0] /\ Start(r, [pc |-> "gmail"])
    /\ UNCHANGED accountsVars

GoogleMail(r) ==
    /\ At(r, "gmail")
    /\ \/ users = {} /\ Become(r, [pc |-> "gnew"])
       \/ \E u \in Uids : users = {u} /\ Become(r, [pc |-> "glink", u |-> u])
       \/ Cardinality(users) > 1 /\ Finish(r)
    /\ UNCHANGED accountsVars

GoogleCreate(r) ==
    /\ At(r, "gnew")
    /\ NewUser
    /\ links' = [links EXCEPT ![made'] = 1]
    /\ raced' = (raced \/ Beside(r, {"insert", "gmail", "gnew", "glink"}))
    /\ Become(r, [pc |-> "guser", u |-> made'])
    /\ UNCHANGED <<chosen, creds, signed>>

(* The link refers to the user: inserted for a deleted one it fails.         *)
GoogleLink(r) ==
    /\ At(r, "glink")
    /\ LET u == req[r].u IN
         IF u \in users
         THEN /\ links' = [links EXCEPT ![u] = @ + 1]
              /\ raced' = (raced \/ Beside(r, {"gmail", "gnew", "glink"}))
              /\ Become(r, [pc |-> "guser", u |-> u])
         ELSE Finish(r) /\ UNCHANGED <<links, raced>>
    /\ UNCHANGED <<made, chosen, users, creds, signed>>

GoogleUser(r) ==
    /\ At(r, "guser")
    /\ IF req[r].u \in users
       THEN Become(r, [pc |-> "issue", u |-> req[r].u, by |-> 0])
       ELSE Finish(r)
    /\ UNCHANGED accountsVars

------------------------------------------------------------------------------
(* _authenticate: the user, then the password; login_with_otp needs none.    *)
SignIn(r) ==
    /\ \E u \in Uids :
          /\ users = {u}
          /\ \/ Start(r, [pc |-> "check", u |-> u])
             \/ Start(r, [pc |-> "issue", u |-> u, by |-> 0])
    /\ UNCHANGED accountsVars

CheckPassword(r) ==
    /\ At(r, "check")
    /\ \/ \E p \in Passwords :
             /\ creds[req[r].u] = {p}
             /\ Become(r, [pc |-> "issue", u |-> req[r].u, by |-> p])
       \/ Finish(r)
    /\ UNCHANGED accountsVars

(* issue_session, for as long as the user exists.                            *)
SignedIn(r) ==
    /\ At(r, "issue")
    /\ LET t == req[r] IN
         signed' = IF t.u \notin users THEN signed
                   ELSE signed \cup {[u |-> t.u, by |-> t.by,
                                      excused |-> t.by # 0 /\ t.by \notin creds[t.u]]}
    /\ Finish(r)
    /\ UNCHANGED <<accountRows, raced>>

------------------------------------------------------------------------------
(* set_password, of a user who has none.                                     *)
SetLook(r) ==
    /\ \E u \in users : creds[u] = {} /\ Start(r, [pc |-> "set", u |-> u])
    /\ UNCHANGED accountsVars

(* Whether another request is about to insert the credential of u as well.   *)
CredentialBeside(r, u) ==
    \E q \in Reqs \ {r} :
        \/ At(q, "set") /\ req[q].u = u
        \/ At(q, "write") /\ req[q].u = u /\ ~req[q].found

SetInsert(r) ==
    /\ At(r, "set")
    /\ LET u == req[r].u IN
         IF u \in users
         THEN /\ NewPassword
              /\ creds' = [creds EXCEPT ![u] = @ \cup {chosen'}]
              /\ raced' = (raced \/ CredentialBeside(r, u))
         ELSE UNCHANGED <<chosen, creds, raced>>
    /\ Finish(r)
    /\ UNCHANGED <<made, users, links, signed>>

(* reset_password, once the code has been verified.                          *)
ResetUser(r) ==
    /\ \E u \in Uids : users = {u} /\ Start(r, [pc |-> "hash", u |-> u])
    /\ UNCHANGED accountsVars

(* Mutant: a credential is added without looking for the one there is.       *)
ResetBlindly(r) ==
    /\ At(r, "hash")
    /\ Become(r, [pc |-> "write", u |-> req[r].u, found |-> FALSE])
    /\ UNCHANGED accountsVars

ResetLook(r) ==
    /\ At(r, "hash")
    /\ LET u == req[r].u IN
         IF Cardinality(creds[u]) > 1 THEN Finish(r)
         ELSE Become(r, [pc |-> "write", u |-> u, found |-> creds[u] # {}])
    /\ UNCHANGED accountsVars

(* change_password: the current one, then its row once more.                 *)
ChangeCheck(r) ==
    /\ \E u \in users : Cardinality(creds[u]) = 1 /\ Start(r, [pc |-> "change", u |-> u])
    /\ UNCHANGED accountsVars

ChangeLook(r) ==
    /\ At(r, "change")
    /\ LET u == req[r].u IN
         \/ Cardinality(creds[u]) = 1 /\ Become(r, [pc |-> "write", u |-> u, found |-> TRUE])
         \/ creds[u] = {} /\ Become(r, [pc |-> "revoke", u |-> u])
         \/ Cardinality(creds[u]) > 1 /\ Finish(r)
    /\ UNCHANGED accountsVars

(* Mutant: whoever had no password before stays signed in.                   *)
WriteAndStay(r) ==
    /\ At(r, "write") /\ req[r].u \in users
    /\ NewPassword
    /\ creds' = [creds EXCEPT ![req[r].u] = {chosen'}]
    /\ Finish(r)
    /\ UNCHANGED <<made, users, links, signed, raced>>

(* The row that was found, whichever it is, gets the new password; when none  *)
(* was found one is inserted.  Either fails for a deleted user.               *)
WritePassword(r) ==
    /\ At(r, "write")
    /\ LET u == req[r].u IN
         IF u \in users /\ (req[r].found => creds[u] # {})
         THEN /\ NewPassword
              /\ IF req[r].found
                 THEN /\ \E p \in creds[u] : creds' = [creds EXCEPT ![u] = (@ \ {p}) \cup {chosen'}]
                      /\ UNCHANGED raced
                 ELSE /\ creds' = [creds EXCEPT ![u] = @ \cup {chosen'}]
                      /\ raced' = (raced \/ CredentialBeside(r, u))
              /\ Become(r, [pc |-> "revoke", u |-> u])
         ELSE Finish(r) /\ UNCHANGED <<chosen, creds, raced>>
    /\ UNCHANGED <<made, users, links, signed>>

RevokeOld(r) ==
    /\ At(r, "revoke")
    /\ signed' = {s \in signed : s.u # req[r].u}
    /\ Finish(r)
    /\ UNCHANGED <<accountRows, raced>>

------------------------------------------------------------------------------
(* Mutant: the sessions stay.                                                *)
DropUserOnly ==
    /\ \E u \in users :
          /\ users' = users \ {u}
          /\ creds' = [creds EXCEPT ![u] = {}] /\ links' = [links EXCEPT ![u] = 0]
    /\ UNCHANGED <<req, made, chosen, signed, raced>>

(* delete_account: the sessions, the user, and by cascade its other rows.    *)
DropAccount ==
    /\ \E u \in users :
          /\ users' = users \ {u}
          /\ creds' = [creds EXCEPT ![u] = {}] /\ links' = [links EXCEPT ![u] = 0]
          /\ signed' = {s \in signed : s.u # u}
    /\ UNCHANGED <<req, made, chosen, raced>>

(* A statement fails.  After the commit of a new password nobody revokes the  *)
(* sessions of the old one any more.                                          *)
AccountsAbort(r) ==
    /\ req[r] # Idle
    /\ signed' = IF At(r, "revoke")
                 THEN {IF s.u = req[r].u THEN [s EXCEPT !.excused = TRUE] ELSE s : s \in signed}
                 ELSE signed
    /\ Finish(r)
    /\ UNCHANGED <<accountRows, raced>>

AccountsNext ==
    \/ DropAccount
    \/ \E r \in Reqs :
          \/ LookForAddress(r) \/ InsertUser(r)
          \/ GoogleAccount(r) \/ GoogleMail(r) \/ GoogleCreate(r) \/ GoogleLink(r) \/ GoogleUser(r)
          \/ SignIn(r) \/ CheckPassword(r) \/ SignedIn(r)
          \/ SetLook(r) \/ SetInsert(r) \/ ResetUser(r) \/ ResetLook(r)
          \/ ChangeCheck(r) \/ ChangeLook(r) \/ WritePassword(r) \/ RevokeOld(r)
          \/ AccountsAbort(r)

AccountsSpec == HandlersInit /\ AccountsInit /\ [][AccountsNext]_<<req, accountsVars>>

------------------------------------------------------------------------------
AccountsTypeOK ==
    /\ made \in 0..MaxUsers /\ chosen \in 0..MaxPasswords /\ raced \in BOOLEAN
    /\ users \subseteq 1..made
    /\ creds \in [Uids -> SUBSET (1..chosen)] /\ links \in [Uids -> Nat]
    /\ signed \subseteq [u : users, by : 0..chosen, excused : BOOLEAN]
    /\ req \in [Reqs -> AccountsTasks \cup {Idle}]

(* A lookup never meets a second row, which would make every later sign-in    *)
(* fail, unless two requests overlapped that had both found none: one user    *)
(* has the address, one link is Google's, one credential is each user's.      *)
OneRowPerLookup ==
    ~raced =>
        /\ Cardinality(users) <= 1
        /\ \A u \in Uids : Cardinality(creds[u]) <= 1 /\ links[u] <= 1
        /\ \A u, v \in Uids : links[u] > 0 /\ links[v] > 0 => u = v

(* No session rests on a password that has been replaced, unless the request  *)
(* that replaced it has still to revoke it or failed before it could, or the  *)
(* sign-in had checked the old password before and issued the session after.  *)
OldPasswordsAreOut ==
    \A s \in signed :
        s.by # 0 /\ s.by \notin creds[s.u] =>
            s.excused \/ \E r \in Reqs : At(r, "revoke") /\ req[r].u = s.u
=============================================================================
