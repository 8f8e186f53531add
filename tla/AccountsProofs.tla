---------------------------- MODULE AccountsProofs ----------------------------
(* Proofs about Accounts for every number of requests, users and passwords.  *)
EXTENDS Accounts, FiniteSetTheorems, TLAPS

USE AccountsAssumption

(* A request works for a user that was inserted, with a password that was     *)
(* chosen, and the rows of a user go with the user.                           *)
ForUser == {"glink", "guser", "check", "set", "hash", "change", "revoke", "write", "issue"}

WellFormed(x, m, n) ==
    /\ x.pc \in ForUser => x.u \in 1..m
    /\ x.pc = "issue" => x.by \in 0..n

TypeInv ==
    /\ AccountsTypeOK
    /\ \A u \in Uids : (creds[u] # {} => u \in users) /\ (links[u] > 0 => u \in users)
    /\ \A r \in Reqs : WellFormed(req[r], made, chosen)

(* What a step of request r does to req.                                     *)
Moves(r, x) ==
    /\ req' = [req EXCEPT ![r] = x] /\ req'[r] = x
    /\ x \in AccountsTasks \cup {Idle}
    /\ WellFormed(x, made', chosen')

------------------------------------------------------------------------------
LEMMA IdleWellFormed == Idle.pc = "idle" /\ \A m, n : WellFormed(Idle, m, n)
  BY DEF Idle, WellFormed, ForUser

LEMMA Bounds ==
    ASSUME TypeInv
    PROVE  /\ made \in 0..MaxUsers /\ chosen \in 0..MaxPasswords /\ made \in Nat /\ chosen \in Nat
           /\ 1..made \subseteq Uids /\ 1..chosen \subseteq Passwords
           /\ users \subseteq 1..made /\ raced \in BOOLEAN
           /\ creds \in [Uids -> SUBSET (1..chosen)] /\ links \in [Uids -> Nat]
           /\ signed \subseteq [u : users, by : 0..chosen, excused : BOOLEAN]
           /\ req \in [Reqs -> AccountsTasks \cup {Idle}]
           /\ \A r \in Reqs : WellFormed(req[r], made, chosen)
           /\ \A u \in Uids : (creds[u] # {} => u \in users) /\ (links[u] > 0 => u \in users)
  BY DEF TypeInv, AccountsTypeOK, Uids, Passwords

(* The users and passwords there are stay within what is inserted and chosen. *)
LEMMA Grow ==
    ASSUME NEW m \in Nat, NEW n \in Nat, NEW k \in Nat, NEW l \in Nat, m <= k, n <= l
    PROVE  /\ \A x : WellFormed(x, m, n) => WellFormed(x, k, l)
           /\ 1..m \subseteq 1..k /\ 1..n \subseteq 1..l /\ 0..n \subseteq 0..l
  BY DEF WellFormed

(* The tasks of a step, when the users and passwords only grow.              *)
LEMMA Steps ==
    ASSUME TypeInv, NEW r \in Reqs, NEW x \in AccountsTasks \cup {Idle},
           made' \in Nat, chosen' \in Nat, made <= made', chosen <= chosen',
           WellFormed(x, made', chosen'),
           \/ Start(r, x) \/ Become(r, x)
           \/ x = Idle /\ Finish(r)
    PROVE  /\ Moves(r, x) /\ \A q \in Reqs : IF q = r THEN req'[q] = x ELSE req'[q] = req[q]
           /\ req' \in [Reqs -> AccountsTasks \cup {Idle}]
           /\ \A q \in Reqs : WellFormed(req'[q], made', chosen')
  <1>1. /\ req' = [req EXCEPT ![r] = x] /\ req \in [Reqs -> AccountsTasks \cup {Idle}]
        /\ made \in Nat /\ chosen \in Nat
    BY Bounds DEF Start, Become, Finish
  <1>2. \A q \in Reqs : WellFormed(req[q], made', chosen')
    BY <1>1, Bounds, Grow
  <1>. QED
    BY <1>1, <1>2 DEF Moves

LEMMA TasksAreTyped ==
    ASSUME NEW m \in 0..MaxUsers, NEW n \in 0..MaxPasswords
    PROVE  /\ \A w \in {"register", "create"} : LET x == [pc |-> "insert", way |-> w]
                                               IN  x \in AccountsTasks /\ WellFormed(x, m, n)
           /\ \A p \in {"gmail", "gnew"} : [pc |-> p] \in AccountsTasks /\ WellFormed([pc |-> p], m, n)
           /\ \A p \in {"glink", "guser", "check", "set", "hash", "change", "revoke"}, v \in 1..m :
                [pc |-> p, u |-> v] \in AccountsTasks /\ WellFormed([pc |-> p, u |-> v], m, n)
           /\ \A v \in 1..m, f \in BOOLEAN : LET x == [pc |-> "write", u |-> v, found |-> f]
                                            IN  x \in AccountsTasks /\ WellFormed(x, m, n)
           /\ \A v \in 1..m, p \in 0..n : LET x == [pc |-> "issue", u |-> v, by |-> p]
                                         IN  x \in AccountsTasks /\ WellFormed(x, m, n)
  BY DEF AccountsTasks, WellFormed, Uids, ForUser

------------------------------------------------------------------------------
(* A step that leaves the rows alone takes a request on with a task of a user *)
(* there is.                                                                  *)
LEMMA Lookups ==
    ASSUME TypeInv, NEW r \in Reqs,
           \/ LookForAddress(r) \/ GoogleAccount(r) \/ GoogleMail(r) \/ GoogleUser(r) \/ SignIn(r)
           \/ CheckPassword(r) \/ SetLook(r) \/ ResetUser(r) \/ ResetLook(r) \/ ChangeCheck(r) \/ ChangeLook(r)
    PROVE  UNCHANGED accountsVars /\ \E x \in AccountsTasks \cup {Idle} : Moves(r, x)
  <1>. USE Bounds, IdleWellFormed
  <1>1. UNCHANGED <<made, chosen, users, creds, links, signed, raced>>
    BY DEF LookForAddress, GoogleAccount, GoogleMail, GoogleUser, SignIn, CheckPassword, SetLook, ResetUser,
           ResetLook, ChangeCheck, ChangeLook, accountsVars, accountRows
  <1>a. ASSUME NEW x \in AccountsTasks \cup {Idle}, WellFormed(x, made, chosen),
               Start(r, x) \/ Become(r, x) \/ (x = Idle /\ Finish(r))
        PROVE  \E y \in AccountsTasks \cup {Idle} : Moves(r, y)
    BY <1>1, <1>a, Steps
  <1>b. Finish(r) => \E y \in AccountsTasks \cup {Idle} : Moves(r, y)
    BY <1>a
  <1>c. req[r].pc \in ForUser => req[r].u \in 1..made
    BY DEF WellFormed
  <1>2. CASE LookForAddress(r)
    <2>1. PICK w \in {"register", "create"} : Start(r, [pc |-> "insert", way |-> w])
      BY <1>2 DEF LookForAddress
    <2>. QED
      BY <1>1, <1>a, <2>1, TasksAreTyped DEF accountsVars, accountRows
  <1>d. ASSUME NEW p \in {"glink", "guser", "check", "set", "hash", "change", "revoke"}, NEW u \in 1..made,
               Start(r, [pc |-> p, u |-> u]) \/ Become(r, [pc |-> p, u |-> u])
        PROVE  \E y \in AccountsTasks \cup {Idle} : Moves(r, y)
    BY <1>a, <1>d, TasksAreTyped
  <1>e. ASSUME NEW u \in 1..made, NEW p \in 0..chosen,
               Start(r, [pc |-> "issue", u |-> u, by |-> p]) \/ Become(r, [pc |-> "issue", u |-> u, by |-> p])
        PROVE  \E y \in AccountsTasks \cup {Idle} : Moves(r, y)
    BY <1>a, <1>e, TasksAreTyped
  <1>f. ASSUME NEW u \in 1..made, NEW f \in BOOLEAN, Become(r, [pc |-> "write", u |-> u, found |-> f])
        PROVE  \E y \in AccountsTasks \cup {Idle} : Moves(r, y)
    BY <1>a, <1>f, TasksAreTyped
  <1>g. ASSUME NEW p \in {"gmail", "gnew"}, Start(r, [pc |-> p]) \/ Become(r, [pc |-> p])
        PROVE  \E y \in AccountsTasks \cup {Idle} : Moves(r, y)
    BY <1>a, <1>g, TasksAreTyped
  <1>h. 0 \in 0..chosen
    OBVIOUS
  <1>. USE <1>1 DEF accountsVars, accountRows
  <1>3. CASE GoogleMail(r)
    <2>1. ASSUME NEW u \in Uids, users = {u}, Become(r, [pc |-> "glink", u |-> u])
          PROVE  \E y \in AccountsTasks \cup {Idle} : Moves(r, y)
      BY <1>d, <2>1
    <2>. QED
      BY <1>3, <1>b, <1>g, <2>1 DEF GoogleMail
  <1>4. CASE GoogleUser(r)
    <2>1. req[r].u \in 1..made
      BY <1>4, <1>c DEF GoogleUser, At, ForUser
    <2>. QED
      BY <1>4, <1>b, <1>e, <1>h, <2>1 DEF GoogleUser
  <1>5. CASE SignIn(r)
    <2>1. PICK u \in Uids : /\ users = {u}
                            /\ \/ Start(r, [pc |-> "check", u |-> u])
                               \/ Start(r, [pc |-> "issue", u |-> u, by |-> 0])
      BY <1>5 DEF SignIn
    <2>2. u \in 1..made
      BY <2>1
    <2>. QED
      BY <1>d, <1>e, <1>h, <2>1, <2>2
  <1>6. CASE CheckPassword(r)
    <2>1. req[r].u \in 1..made
      BY <1>6, <1>c DEF CheckPassword, At, ForUser
    <2>2. ASSUME NEW p \in Passwords, creds[req[r].u] = {p},
                 Become(r, [pc |-> "issue", u |-> req[r].u, by |-> p])
          PROVE  \E y \in AccountsTasks \cup {Idle} : Moves(r, y)
      <3>1. p \in 1..chosen
        BY <2>1, <2>2
      <3>. QED
        BY <1>e, <2>1, <2>2, <3>1
    <2>. QED
      BY <1>6, <1>b, <2>2 DEF CheckPassword
  <1>7. CASE SetLook(r) \/ ChangeCheck(r)
    <2>1. PICK u \in users : Start(r, [pc |-> "set", u |-> u]) \/ Start(r, [pc |-> "change", u |-> u])
      BY <1>7 DEF SetLook, ChangeCheck
    <2>2. u \in 1..made
      BY <2>1
    <2>. QED
      BY <1>d, <2>1, <2>2
  <1>8. CASE ResetUser(r)
    <2>1. PICK u \in Uids : users = {u} /\ Start(r, [pc |-> "hash", u |-> u])
      BY <1>8 DEF ResetUser
    <2>2. u \in 1..made
      BY <2>1
    <2>. QED
      BY <1>d, <2>1, <2>2
  <1>9. CASE ResetLook(r)
    <2>1. req[r].u \in 1..made
      BY <1>9, <1>c DEF ResetLook, At, ForUser
    <2>2. (creds[req[r].u] # {}) \in BOOLEAN
      BY Zenon
    <2>. QED
      BY <1>9, <1>b, <1>f, <2>1, <2>2 DEF ResetLook
  <1>10. CASE ChangeLook(r)
    <2>1. req[r].u \in 1..made
      BY <1>10, <1>c DEF ChangeLook, At, ForUser
    <2>. QED
      BY <1>10, <1>b, <1>d, <1>f, <2>1 DEF ChangeLook
  <1>11. CASE GoogleAccount(r)
    <2>1. ASSUME NEW u \in Uids, links = [v \in Uids |-> IF v = u THEN 1 ELSE 0], Start(r, [pc |-> "guser", u |-> u])
          PROVE  \E y \in AccountsTasks \cup {Idle} : Moves(r, y)
      <3>1. links[u] > 0
        BY <2>1
      <3>2. u \in 1..made
        BY <3>1
      <3>. QED
        BY <1>d, <2>1, <3>2
    <2>. QED
      BY <1>11, <1>g, <2>1 DEF GoogleAccount
  <1>. QED
    BY <1>2, <1>3, <1>4, <1>5, <1>6, <1>7, <1>8, <1>9, <1>10, <1>11

(* The rest of the steps change the rows.                                    *)
LEMMA AccountsTypeStep ==
    ASSUME TypeInv, [AccountsNext]_<<req, accountsVars>>
    PROVE  TypeInv'
  <1>. USE Bounds, IdleWellFormed DEF accountsVars, accountRows
  <1>a. ASSUME made' \in 0..MaxUsers, chosen' \in 0..MaxPasswords, raced' \in BOOLEAN, users' \subseteq 1..made',
               creds' \in [Uids -> SUBSET (1..chosen')], links' \in [Uids -> Nat],
               signed' \subseteq [u : users', by : 0..chosen', excused : BOOLEAN],
               req' \in [Reqs -> AccountsTasks \cup {Idle}],
               \A r \in Reqs : WellFormed(req'[r], made', chosen'),
               \A u \in Uids : (creds'[u] # {} => u \in users') /\ (links'[u] > 0 => u \in users')
        PROVE  TypeInv'
    BY <1>a DEF TypeInv, AccountsTypeOK
  <1>b. ASSUME NEW r \in Reqs, Finish(r), made' \in Nat, made <= made', chosen' \in Nat, chosen <= chosen'
        PROVE  /\ req' \in [Reqs -> AccountsTasks \cup {Idle}]
               /\ \A q \in Reqs : WellFormed(req'[q], made', chosen')
    BY <1>b, Steps
  <1>1. ASSUME NEW r \in Reqs,
               \/ LookForAddress(r) \/ GoogleAccount(r) \/ GoogleMail(r) \/ GoogleUser(r) \/ SignIn(r)
               \/ CheckPassword(r) \/ SetLook(r) \/ ResetUser(r) \/ ResetLook(r) \/ ChangeCheck(r) \/ ChangeLook(r)
        PROVE  TypeInv'
    <2>1. PICK x \in AccountsTasks \cup {Idle} : Moves(r, x)
      BY <1>1, Lookups
    <2>2. UNCHANGED accountsVars
      BY <1>1, Lookups
    <2>3. /\ req' \in [Reqs -> AccountsTasks \cup {Idle}]
          /\ \A q \in Reqs : WellFormed(req'[q], made', chosen')
      BY <2>1, <2>2 DEF Moves
    <2>. QED
      BY <1>a, <2>2, <2>3
  <1>2. ASSUME NEW r \in Reqs, InsertUser(r) PROVE TypeInv'
    <2>1. /\ made' = made + 1 /\ made' \in 0..MaxUsers /\ made' \in Uids /\ users' = users \cup {made'}
          /\ chosen' = chosen + 1 /\ chosen' \in 0..MaxPasswords
          /\ creds' = [creds EXCEPT ![made'] = {chosen'}] /\ UNCHANGED <<links, signed>>
      BY <1>2 DEF InsertUser, NewUser, NewPassword, Uids
    <2>2. users' \subseteq 1..made' /\ creds' \in [Uids -> SUBSET (1..chosen')]
      BY <2>1
    <2>3. raced' \in BOOLEAN
      <3>1. raced' = (raced \/ Beside(r, {"insert", "gnew"}))
        BY <1>2 DEF InsertUser
      <3>. QED
        BY <3>1, Zenon
    <2>4. signed' \subseteq [u : users', by : 0..chosen', excused : BOOLEAN]
      BY <2>1
    <2>5. /\ req' \in [Reqs -> AccountsTasks \cup {Idle}]
          /\ \A q \in Reqs : WellFormed(req'[q], made', chosen')
      <3>1. CASE Finish(r)
        BY <1>b, <2>1, <3>1
      <3>2. CASE Become(r, [pc |-> "issue", u |-> made', by |-> chosen'])
        <4>. DEFINE x == [pc |-> "issue", u |-> made', by |-> chosen']
        <4>1. x \in AccountsTasks /\ WellFormed(x, made', chosen')
          BY <2>1, TasksAreTyped
        <4>. QED
          BY <2>1, <3>2, <4>1, Steps
      <3>. QED
        BY <1>2, <3>1, <3>2 DEF InsertUser
    <2>6. \A u \in Uids : (creds'[u] # {} => u \in users') /\ (links'[u] > 0 => u \in users')
      BY <2>1
    <2>. QED
      BY <1>a, <2>1, <2>2, <2>3, <2>4, <2>5, <2>6
  <1>3. ASSUME NEW r \in Reqs, GoogleCreate(r) PROVE TypeInv'
    <2>1. /\ made' = made + 1 /\ made' \in 0..MaxUsers /\ made' \in Uids /\ users' = users \cup {made'}
          /\ links' = [links EXCEPT ![made'] = 1] /\ UNCHANGED <<chosen, creds, signed>>
      BY <1>3 DEF GoogleCreate, NewUser, Uids
    <2>2. raced' \in BOOLEAN
      <3>1. raced' = (raced \/ Beside(r, {"insert", "gmail", "gnew", "glink"}))
        BY <1>3 DEF GoogleCreate
      <3>. QED
        BY <3>1, Zenon
    <2>3. /\ req' \in [Reqs -> AccountsTasks \cup {Idle}]
          /\ \A q \in Reqs : WellFormed(req'[q], made', chosen')
      <3>. DEFINE x == [pc |-> "guser", u |-> made']
      <3>1. x \in AccountsTasks /\ WellFormed(x, made', chosen') /\ Become(r, x)
        BY <1>3, <2>1, TasksAreTyped DEF GoogleCreate
      <3>. QED
        BY <2>1, <3>1, Steps
    <2>4. \A u \in Uids : (creds'[u] # {} => u \in users') /\ (links'[u] > 0 => u \in users')
      BY <2>1
    <2>5. users' \subseteq 1..made' /\ links' \in [Uids -> Nat]
          /\ signed' \subseteq [u : users', by : 0..chosen', excused : BOOLEAN]
      BY <2>1
    <2>. QED
      BY <1>a, <2>1, <2>2, <2>3, <2>4, <2>5
  <1>4. ASSUME NEW r \in Reqs, GoogleLink(r) PROVE TypeInv'
    <2>1. UNCHANGED <<made, chosen, users, creds, signed>> /\ req[r].u \in 1..made /\ req[r].u \in Uids
      BY <1>4 DEF GoogleLink, WellFormed, At, ForUser
    <2>2. CASE req[r].u \in users
      <3>1. links' = [links EXCEPT ![req[r].u] = @ + 1] /\ Become(r, [pc |-> "guser", u |-> req[r].u])
        BY <1>4, <2>2 DEF GoogleLink
      <3>2. raced' \in BOOLEAN
        <4>1. raced' = (raced \/ Beside(r, {"gmail", "gnew", "glink"}))
          BY <1>4, <2>2 DEF GoogleLink
        <4>. QED
          BY <4>1, Zenon
      <3>3. [pc |-> "guser", u |-> req[r].u] \in AccountsTasks /\ WellFormed([pc |-> "guser", u |-> req[r].u], made, chosen)
        BY <2>1, TasksAreTyped
      <3>4. /\ req' \in [Reqs -> AccountsTasks \cup {Idle}]
            /\ \A q \in Reqs : WellFormed(req'[q], made', chosen')
        BY <2>1, <3>1, <3>3, Steps
      <3>5. links' \in [Uids -> Nat] /\ \A u \in Uids : links'[u] > 0 => u \in users'
        BY <2>1, <2>2, <3>1
      <3>. QED
        BY <1>a, <2>1, <3>2, <3>4, <3>5
    <2>3. CASE req[r].u \notin users
      <3>1. Finish(r) /\ UNCHANGED <<links, raced>>
        BY <1>4, <2>3 DEF GoogleLink
      <3>. QED
        BY <1>a, <1>b, <2>1, <3>1
    <2>. QED
      BY <2>2, <2>3
  <1>5. ASSUME NEW r \in Reqs, SignedIn(r) PROVE TypeInv'
    <2>. DEFINE t == req[r]  s == [u |-> t.u, by |-> t.by, excused |-> t.by # 0 /\ t.by \notin creds[t.u]]
    <2>1. UNCHANGED <<made, chosen, users, creds, links, raced>> /\ Finish(r) /\ t.by \in 0..chosen
          /\ signed' = IF t.u \notin users THEN signed ELSE signed \cup {s}
      BY <1>5 DEF SignedIn, WellFormed, At
    <2>2. (t.by # 0 /\ t.by \notin creds[t.u]) \in BOOLEAN
      BY Zenon
    <2>3. t.u \in users => s \in [u : users, by : 0..chosen, excused : BOOLEAN]
      BY <2>1, <2>2
    <2>. HIDE DEF s
    <2>4. signed' \subseteq [u : users', by : 0..chosen', excused : BOOLEAN]
      BY <2>1, <2>3
    <2>. QED
      BY <1>a, <1>b, <2>1, <2>4
  <1>6. ASSUME NEW r \in Reqs, SetInsert(r) PROVE TypeInv'
    <2>1. UNCHANGED <<made, users, links, signed>> /\ Finish(r) /\ req[r].u \in Uids
      BY <1>6 DEF SetInsert, WellFormed, At, ForUser
    <2>2. CASE req[r].u \in users
      <3>1. /\ chosen' = chosen + 1 /\ chosen' \in 0..MaxPasswords
            /\ creds' = [creds EXCEPT ![req[r].u] = @ \cup {chosen'}]
        BY <1>6, <2>2 DEF SetInsert, NewPassword
      <3>2. raced' \in BOOLEAN
        <4>1. raced' = (raced \/ CredentialBeside(r, req[r].u))
          BY <1>6, <2>2 DEF SetInsert
        <4>. QED
          BY <4>1, Zenon
      <3>3. creds' \in [Uids -> SUBSET (1..chosen')] /\ \A u \in Uids : creds'[u] # {} => u \in users'
        BY <2>1, <2>2, <3>1
      <3>4. signed' \subseteq [u : users', by : 0..chosen', excused : BOOLEAN]
        BY <2>1, <3>1
      <3>. QED
        BY <1>a, <1>b, <2>1, <3>1, <3>2, <3>3, <3>4
    <2>3. CASE req[r].u \notin users
      <3>1. UNCHANGED <<chosen, creds, raced>>
        BY <1>6, <2>3 DEF SetInsert
      <3>. QED
        BY <1>a, <1>b, <2>1, <3>1
    <2>. QED
      BY <2>2, <2>3
  <1>7. ASSUME NEW r \in Reqs, WritePassword(r) PROVE TypeInv'
    <2>. DEFINE u == req[r].u
    <2>1. UNCHANGED <<made, users, links, signed>> /\ u \in Uids /\ u \in 1..made
      BY <1>7 DEF WritePassword, WellFormed, At, ForUser
    <2>2. CASE u \in users /\ (req[r].found => creds[u] # {})
      <3>1. /\ chosen' = chosen + 1 /\ chosen' \in 0..MaxPasswords /\ Become(r, [pc |-> "revoke", u |-> u])
            /\ \/ \E p \in creds[u] : creds' = [creds EXCEPT ![u] = (@ \ {p}) \cup {chosen'}]
               \/ creds' = [creds EXCEPT ![u] = @ \cup {chosen'}]
        BY <1>7, <2>2 DEF WritePassword, NewPassword
      <3>2. raced' \in BOOLEAN
        <4>1. raced' = raced \/ raced' = (raced \/ CredentialBeside(r, u))
          BY <1>7, <2>2 DEF WritePassword
        <4>. QED
          BY <4>1, Zenon
      <3>3. creds' \in [Uids -> SUBSET (1..chosen')] /\ \A v \in Uids : creds'[v] # {} => v \in users'
        BY <2>1, <2>2, <3>1
      <3>4. signed' \subseteq [u : users', by : 0..chosen', excused : BOOLEAN]
        BY <2>1, <3>1
      <3>5. [pc |-> "revoke", u |-> u] \in AccountsTasks /\ WellFormed([pc |-> "revoke", u |-> u], made', chosen')
        BY <2>1, <3>1, TasksAreTyped
      <3>6. /\ req' \in [Reqs -> AccountsTasks \cup {Idle}]
            /\ \A q \in Reqs : WellFormed(req'[q], made', chosen')
        BY <2>1, <3>1, <3>5, Steps
      <3>. QED
        BY <1>a, <2>1, <3>1, <3>2, <3>3, <3>4, <3>6
    <2>3. CASE ~(u \in users /\ (req[r].found => creds[u] # {}))
      <3>1. Finish(r) /\ UNCHANGED <<chosen, creds, raced>>
        BY <1>7, <2>3 DEF WritePassword
      <3>. QED
        BY <1>a, <1>b, <2>1, <3>1
    <2>. QED
      BY <2>2, <2>3
  <1>8. ASSUME NEW r \in Reqs, RevokeOld(r) PROVE TypeInv'
    <2>1. UNCHANGED <<made, chosen, users, creds, links, raced>> /\ Finish(r) /\ signed' \subseteq signed
      BY <1>8 DEF RevokeOld
    <2>. QED
      BY <1>a, <1>b, <2>1
  <1>9. CASE DropAccount
    <2>1. PICK u \in users : /\ users' = users \ {u}
                             /\ creds' = [creds EXCEPT ![u] = {}] /\ links' = [links EXCEPT ![u] = 0]
                             /\ signed' = {s \in signed : s.u # u}
                             /\ UNCHANGED <<req, made, chosen, raced>>
      BY <1>9 DEF DropAccount
    <2>2. signed' \subseteq [u : users', by : 0..chosen', excused : BOOLEAN]
      BY <2>1
    <2>3. /\ creds' \in [Uids -> SUBSET (1..chosen')] /\ links' \in [Uids -> Nat] /\ users' \subseteq 1..made'
          /\ \A v \in Uids : (creds'[v] # {} => v \in users') /\ (links'[v] > 0 => v \in users')
      BY <2>1
    <2>. QED
      BY <1>a, <2>1, <2>2, <2>3
  <1>10. ASSUME NEW r \in Reqs, AccountsAbort(r) PROVE TypeInv'
    <2>1. UNCHANGED <<made, chosen, users, creds, links, raced>> /\ Finish(r)
          /\ signed' = IF At(r, "revoke")
                       THEN {IF s.u = req[r].u THEN [s EXCEPT !.excused = TRUE] ELSE s : s \in signed}
                       ELSE signed
      BY <1>10 DEF AccountsAbort
    <2>2. \A s \in signed : [s EXCEPT !.excused = TRUE] \in [u : users, by : 0..chosen, excused : BOOLEAN]
      OBVIOUS
    <2>3. signed' \subseteq [u : users', by : 0..chosen', excused : BOOLEAN]
      BY <2>1, <2>2
    <2>. QED
      BY <1>a, <1>b, <2>1, <2>3
  <1>11. CASE UNCHANGED <<req, accountsVars>>
    BY <1>a, <1>11
  <1>. QED
    BY <1>1, <1>2, <1>3, <1>4, <1>5, <1>6, <1>7, <1>8, <1>9, <1>10, <1>11 DEF AccountsNext

LEMMA AccountsTypeBegins == HandlersInit /\ AccountsInit => TypeInv
  <1>. SUFFICES ASSUME HandlersInit, AccountsInit PROVE TypeInv
    OBVIOUS
  <1>1. creds \in [Uids -> SUBSET (1..chosen)] /\ links \in [Uids -> Nat] /\ raced \in BOOLEAN
    BY DEF AccountsInit
  <1>2. req \in [Reqs -> AccountsTasks \cup {Idle}] /\ \A r \in Reqs : WellFormed(req[r], made, chosen)
    BY IdleWellFormed DEF HandlersInit
  <1>3. \A u \in Uids : (creds[u] # {} => u \in users) /\ (links[u] > 0 => u \in users)
    BY DEF AccountsInit
  <1>. QED
    BY <1>1, <1>2, <1>3 DEF AccountsInit, TypeInv, AccountsTypeOK

(* Every state is well typed.                                                *)
THEOREM AccountsTypeCorrect == AccountsSpec => []AccountsTypeOK
  <1>1. TypeInv => AccountsTypeOK
    BY DEF TypeInv
  <1>. QED
    BY <1>1, AccountsTypeBegins, AccountsTypeStep, PTL DEF AccountsSpec

------------------------------------------------------------------------------
(* What a request has found missing is still missing, unless requests raced:  *)
(* a user with the address, a link of Google's, a credential of a user.       *)
NoLinks == \A u \in Uids : links[u] = 0

Lacks(q) ==
    /\ req[q].pc \in {"insert", "gnew"} => users = {}
    /\ req[q].pc \in {"gmail", "gnew", "glink"} => NoLinks
    /\ req[q].pc = "set" => creds[req[q].u] = {}
    /\ req[q].pc = "write" => req[q].found \/ creds[req[q].u] = {}

OneUser == \A u, v \in users : u = v
OneLink == /\ \A u \in Uids : links[u] <= 1
           /\ \A u, v \in Uids : links[u] > 0 /\ links[v] > 0 => u = v
OneCredential == \A u \in Uids : \A p, q \in creds[u] : p = q

RowsInv == ~raced => OneUser /\ OneLink /\ OneCredential /\ \A q \in Reqs : Lacks(q)

(* A race is not forgotten.                                                  *)
LEMMA RacesStay ==
    ASSUME [AccountsNext]_<<req, accountsVars>>, raced
    PROVE  raced'
  <1>. USE DEF accountsVars, accountRows
  <1>1. ASSUME NEW r \in Reqs, InsertUser(r) PROVE raced'
    BY <1>1, Zenon DEF InsertUser
  <1>2. ASSUME NEW r \in Reqs, GoogleCreate(r) PROVE raced'
    BY <1>2, Zenon DEF GoogleCreate
  <1>3. ASSUME NEW r \in Reqs, GoogleLink(r) PROVE raced'
    <2>1. raced' = raced \/ raced' = (raced \/ Beside(r, {"gmail", "gnew", "glink"}))
      BY <1>3 DEF GoogleLink
    <2>. QED
      BY <2>1, Zenon
  <1>4. ASSUME NEW r \in Reqs, SetInsert(r) PROVE raced'
    <2>1. raced' = raced \/ raced' = (raced \/ CredentialBeside(r, req[r].u))
      BY <1>4 DEF SetInsert
    <2>. QED
      BY <2>1, Zenon
  <1>5. ASSUME NEW r \in Reqs, WritePassword(r) PROVE raced'
    <2>1. raced' = raced \/ raced' = (raced \/ CredentialBeside(r, req[r].u))
      BY <1>5 DEF WritePassword
    <2>. QED
      BY <2>1, Zenon
  <1>6. ASSUME NEW r \in Reqs,
               \/ LookForAddress(r) \/ GoogleAccount(r) \/ GoogleMail(r) \/ GoogleUser(r) \/ SignIn(r)
               \/ CheckPassword(r) \/ SetLook(r) \/ ResetUser(r) \/ ResetLook(r) \/ ChangeCheck(r) \/ ChangeLook(r)
               \/ SignedIn(r) \/ RevokeOld(r) \/ AccountsAbort(r)
        PROVE  raced'
    <2>1. raced' = raced
      BY <1>6 DEF LookForAddress, GoogleAccount, GoogleMail, GoogleUser, SignIn, CheckPassword, SetLook, ResetUser,
                  ResetLook, ChangeCheck, ChangeLook, SignedIn, RevokeOld, AccountsAbort
    <2>. QED
      BY <2>1
  <1>7. CASE DropAccount \/ UNCHANGED <<req, accountsVars>>
    <2>1. raced' = raced
      BY <1>7 DEF DropAccount
    <2>. QED
      BY <2>1
  <1>. QED
    BY <1>1, <1>2, <1>3, <1>4, <1>5, <1>6, <1>7 DEF AccountsNext

(* Where a request is after a lookup, and what it has found missing.         *)
LEMMA LookupsLack ==
    ASSUME TypeInv, RowsInv, ~raced, NEW r \in Reqs,
           \/ LookForAddress(r) \/ GoogleAccount(r) \/ GoogleMail(r) \/ GoogleUser(r) \/ SignIn(r)
           \/ CheckPassword(r) \/ SetLook(r) \/ ResetUser(r) \/ ResetLook(r) \/ ChangeCheck(r) \/ ChangeLook(r)
    PROVE  Lacks(r)'
  <1>. USE Bounds, IdleWellFormed
  <1>1. UNCHANGED <<users, creds, links>>
    BY DEF LookForAddress, GoogleAccount, GoogleMail, GoogleUser, SignIn, CheckPassword, SetLook, ResetUser,
           ResetLook, ChangeCheck, ChangeLook, accountsVars, accountRows
  <1>2. /\ \A x : Start(r, x) \/ Become(r, x) => req'[r] = x
        /\ Finish(r) => req'[r] = Idle
    BY DEF Start, Become, Finish
  <1>a. ASSUME req'[r].pc \notin {"insert", "gmail", "gnew", "glink", "set", "write"} PROVE Lacks(r)'
    BY <1>a DEF Lacks
  <1>b. Finish(r) => Lacks(r)'
    BY <1>2, <1>a
  <1>3. CASE LookForAddress(r)
    <2>1. users = {} /\ req'[r].pc = "insert"
      BY <1>2, <1>3 DEF LookForAddress
    <2>. QED
      BY <1>1, <2>1 DEF Lacks
  <1>4. CASE GoogleAccount(r)
    <2>1. CASE \E u \in Uids : Start(r, [pc |-> "guser", u |-> u])
      <3>1. req'[r].pc = "guser"
        BY <2>1 DEF Start
      <3>. QED
        BY <1>a, <3>1
    <2>2. CASE links = [v \in Uids |-> 0] /\ Start(r, [pc |-> "gmail"])
      <3>1. req'[r].pc = "gmail" /\ NoLinks
        BY <2>2 DEF Start, NoLinks
      <3>. QED
        BY <1>1, <3>1 DEF Lacks, NoLinks
    <2>. QED
      BY <1>4, <2>1, <2>2, Zenon DEF GoogleAccount
  <1>5. CASE GoogleMail(r)
    <2>1. req[r].pc = "gmail"
      BY <1>5 DEF GoogleMail, At
    <2>2. NoLinks
      BY <2>1 DEF RowsInv, Lacks
    <2>3. CASE users = {} /\ Become(r, [pc |-> "gnew"])
      <3>1. req'[r].pc = "gnew"
        BY <2>3 DEF Become
      <3>. QED
        BY <1>1, <2>2, <2>3, <3>1 DEF Lacks, NoLinks
    <2>4. CASE \E u \in Uids : users = {u} /\ Become(r, [pc |-> "glink", u |-> u])
      <3>1. req'[r].pc = "glink"
        BY <2>4 DEF Become
      <3>. QED
        BY <1>1, <2>2, <3>1 DEF Lacks, NoLinks
    <2>. QED
      BY <1>5, <1>b, <2>3, <2>4, Zenon DEF GoogleMail
  <1>6. CASE GoogleUser(r) \/ SignIn(r) \/ CheckPassword(r) \/ ResetUser(r) \/ ChangeCheck(r)
    <2>1. CASE GoogleUser(r)
      <3>1. req'[r].pc = "issue" \/ Finish(r)
        BY <2>1 DEF GoogleUser, Become
      <3>. QED
        BY <1>a, <1>b, <3>1
    <2>2. CASE SignIn(r)
      <3>1. req'[r].pc \in {"check", "issue"}
        BY <2>2 DEF SignIn, Start
      <3>. QED
        BY <1>a, <3>1
    <2>3. CASE CheckPassword(r)
      <3>1. req'[r].pc = "issue" \/ Finish(r)
        BY <2>3 DEF CheckPassword, Become
      <3>. QED
        BY <1>a, <1>b, <3>1
    <2>4. CASE ResetUser(r) \/ ChangeCheck(r)
      <3>1. req'[r].pc \in {"hash", "change"}
        BY <2>4 DEF ResetUser, ChangeCheck, Start
      <3>. QED
        BY <1>a, <3>1
    <2>. QED
      BY <1>6, <2>1, <2>2, <2>3, <2>4
  <1>7. CASE SetLook(r)
    <2>1. PICK u \in users : creds[u] = {} /\ req'[r] = [pc |-> "set", u |-> u]
      BY <1>2, <1>7 DEF SetLook
    <2>. QED
      BY <1>1, <2>1 DEF Lacks
  <1>8. CASE ResetLook(r)
    <2>. DEFINE u == req[r].u
    <2>1. CASE Finish(r)
      BY <1>b, <2>1
    <2>2. CASE Become(r, [pc |-> "write", u |-> u, found |-> creds[u] # {}])
      <3>1. PICK f : f = (creds[u] # {})
        OBVIOUS
      <3>2. req'[r] = [pc |-> "write", u |-> u, found |-> f]
        BY <2>2, <3>1 DEF Become
      <3>3. req'[r].pc = "write" /\ req'[r].u = u /\ req'[r].found = f
        BY <3>2
      <3>4. f \/ creds[u] = {}
        BY <3>1, Zenon
      <3>. QED
        BY <1>1, <3>3, <3>4 DEF Lacks
    <2>. QED
      BY <1>8, <2>1, <2>2 DEF ResetLook
  <1>9. CASE ChangeLook(r)
    <2>1. req'[r] = Idle \/ req'[r].pc = "revoke" \/ (req'[r].pc = "write" /\ req'[r].found)
      BY <1>2, <1>9 DEF ChangeLook
    <2>. QED
      BY <1>a, <2>1 DEF Lacks
  <1>. QED
    BY <1>3, <1>4, <1>5, <1>6, <1>7, <1>8, <1>9

(* A request that lacks something goes on lacking it, while nothing is added  *)
(* that it lacks.                                                             *)
LEMMA LacksKept ==
    ASSUME NEW q \in Reqs, Lacks(q), req'[q] = req[q],
           req[q].pc \in {"insert", "gnew"} => users' \subseteq users,
           req[q].pc \in {"gmail", "gnew", "glink"} => \A u \in Uids : links'[u] = links[u] \/ links'[u] = 0,
           req[q].pc = "set" => creds'[req[q].u] \subseteq creds[req[q].u],
           req[q].pc = "write" => req[q].found \/ creds'[req[q].u] \subseteq creds[req[q].u]
    PROVE  Lacks(q)'
  BY DEF Lacks, NoLinks

LEMMA RowsStep ==
    ASSUME TypeInv, RowsInv, [AccountsNext]_<<req, accountsVars>>
    PROVE  RowsInv'
  <1>. USE Bounds, IdleWellFormed DEF accountsVars, accountRows
  <1>. SUFFICES ASSUME ~raced' PROVE (OneUser /\ OneLink /\ OneCredential /\ \A q \in Reqs : Lacks(q))'
    BY DEF RowsInv
  <1>0. ~raced /\ OneUser /\ OneLink /\ OneCredential /\ \A q \in Reqs : Lacks(q)
    BY RacesStay DEF RowsInv
  <1>a. \A r \in Reqs : /\ \A x : Start(r, x) \/ Become(r, x) => /\ req'[r] = x
                                                                 /\ \A q \in Reqs : q # r => req'[q] = req[q]
                        /\ Finish(r) => req'[r] = Idle /\ \A q \in Reqs : q # r => req'[q] = req[q]
    BY DEF Start, Become, Finish
  <1>b. \A q \in Reqs : req'[q].pc \notin {"insert", "gmail", "gnew", "glink", "set", "write"} => Lacks(q)'
    BY DEF Lacks
  <1>1. ASSUME NEW r \in Reqs,
               \/ LookForAddress(r) \/ GoogleAccount(r) \/ GoogleMail(r) \/ GoogleUser(r) \/ SignIn(r)
               \/ CheckPassword(r) \/ SetLook(r) \/ ResetUser(r) \/ ResetLook(r) \/ ChangeCheck(r) \/ ChangeLook(r)
        PROVE  (OneUser /\ OneLink /\ OneCredential /\ \A q \in Reqs : Lacks(q))'
    <2>1. UNCHANGED <<users, creds, links>>
      BY <1>1, Lookups
    <2>2. Lacks(r)'
      BY <1>0, <1>1, LookupsLack
    <2>3. \A q \in Reqs : q # r => req'[q] = req[q]
      BY <1>1, Lookups DEF Moves
    <2>4. \A q \in Reqs : Lacks(q)'
      BY <1>0, <2>1, <2>2, <2>3, LacksKept
    <2>. QED
      BY <1>0, <2>1, <2>4 DEF OneUser, OneLink, OneCredential
  <1>2. ASSUME NEW r \in Reqs, SignedIn(r) \/ RevokeOld(r) \/ AccountsAbort(r)
        PROVE  (OneUser /\ OneLink /\ OneCredential /\ \A q \in Reqs : Lacks(q))'
    <2>1. UNCHANGED <<users, creds, links>> /\ Finish(r)
      BY <1>2 DEF SignedIn, RevokeOld, AccountsAbort
    <2>2. \A q \in Reqs : Lacks(q)'
      BY <1>0, <1>a, <1>b, <2>1, LacksKept
    <2>. QED
      BY <1>0, <2>1, <2>2 DEF OneUser, OneLink, OneCredential
  <1>3. CASE DropAccount
    <2>1. PICK u \in users : /\ users' = users \ {u}
                             /\ creds' = [creds EXCEPT ![u] = {}] /\ links' = [links EXCEPT ![u] = 0]
                             /\ req' = req
      BY <1>3 DEF DropAccount
    <2>2. /\ \A v \in Uids : creds'[v] \subseteq creds[v]
          /\ \A v \in Uids : links'[v] = links[v] \/ links'[v] = 0
      BY <2>1
    <2>3. \A q \in Reqs : req[q].pc \in {"set", "write"} => req[q].u \in Uids
      BY DEF WellFormed, ForUser
    <2>4. \A q \in Reqs : Lacks(q)'
      BY <1>0, <2>1, <2>2, <2>3, LacksKept
    <2>. QED
      BY <1>0, <2>1, <2>2, <2>4 DEF OneUser, OneLink, OneCredential
  <1>4. ASSUME NEW r \in Reqs, InsertUser(r)
        PROVE  (OneUser /\ OneLink /\ OneCredential /\ \A q \in Reqs : Lacks(q))'
    <2>1. /\ made' = made + 1 /\ made' \in Uids /\ users' = users \cup {made'}
          /\ creds' = [creds EXCEPT ![made'] = {chosen'}] /\ links' = links /\ req[r].pc = "insert"
          /\ \/ Finish(r) \/ Become(r, [pc |-> "issue", u |-> made', by |-> chosen'])
      BY <1>4 DEF InsertUser, NewUser, NewPassword, Uids, At
    <2>2. users = {}
      BY <1>0, <2>1 DEF Lacks
    <2>3. \A q \in Reqs : q # r => req[q].pc \notin {"insert", "gnew"}
      <3>1. ~Beside(r, {"insert", "gnew"})
        BY <1>4, Zenon DEF InsertUser
      <3>. QED
        BY <3>1 DEF Beside
    <2>4. /\ req'[r].pc \in {"idle", "issue"} /\ \A q \in Reqs : q # r => req'[q] = req[q]
      BY <1>a, <2>1
    <2>5. \A q \in Reqs : req[q].pc \in {"set", "write"} => req[q].u \in Uids /\ req[q].u # made'
      BY <2>1 DEF WellFormed, ForUser
    <2>6. ASSUME NEW q \in Reqs, q # r PROVE Lacks(q)'
      BY <1>0, <2>1, <2>3, <2>4, <2>5, <2>6, LacksKept
    <2>7. Lacks(r)'
      BY <1>b, <2>4
    <2>. QED
      BY <1>0, <2>1, <2>2, <2>6, <2>7 DEF OneUser, OneLink, OneCredential
  <1>5. ASSUME NEW r \in Reqs, GoogleCreate(r)
        PROVE  (OneUser /\ OneLink /\ OneCredential /\ \A q \in Reqs : Lacks(q))'
    <2>1. /\ made' = made + 1 /\ made' \in Uids /\ users' = users \cup {made'}
          /\ links' = [links EXCEPT ![made'] = 1] /\ creds' = creds /\ req[r].pc = "gnew"
          /\ Become(r, [pc |-> "guser", u |-> made'])
      BY <1>5 DEF GoogleCreate, NewUser, Uids, At
    <2>2. users = {} /\ NoLinks
      BY <1>0, <2>1 DEF Lacks
    <2>3. \A q \in Reqs : q # r => req[q].pc \notin {"insert", "gmail", "gnew", "glink"}
      <3>1. ~Beside(r, {"insert", "gmail", "gnew", "glink"})
        BY <1>5, Zenon DEF GoogleCreate
      <3>. QED
        BY <3>1 DEF Beside
    <2>4. req'[r].pc = "guser" /\ \A q \in Reqs : q # r => req'[q] = req[q]
      BY <1>a, <2>1
    <2>5. ASSUME NEW q \in Reqs, q # r PROVE Lacks(q)'
      BY <1>0, <2>1, <2>3, <2>4, <2>5, LacksKept
    <2>6. Lacks(r)'
      BY <1>b, <2>4
    <2>7. OneLink'
      BY <2>1, <2>2 DEF OneLink, NoLinks
    <2>. QED
      BY <1>0, <2>1, <2>2, <2>5, <2>6, <2>7 DEF OneUser, OneCredential
  <1>6. ASSUME NEW r \in Reqs, GoogleLink(r)
        PROVE  (OneUser /\ OneLink /\ OneCredential /\ \A q \in Reqs : Lacks(q))'
    <2>1. UNCHANGED <<users, creds>> /\ req[r].pc = "glink" /\ NoLinks /\ req[r].u \in Uids
      BY <1>0, <1>6 DEF GoogleLink, At, Lacks, WellFormed, ForUser
    <2>2. CASE req[r].u \in users
      <3>1. links' = [links EXCEPT ![req[r].u] = @ + 1] /\ Become(r, [pc |-> "guser", u |-> req[r].u])
        BY <1>6, <2>2 DEF GoogleLink
      <3>2. \A q \in Reqs : q # r => req[q].pc \notin {"gmail", "gnew", "glink"}
        <4>1. raced' = (raced \/ Beside(r, {"gmail", "gnew", "glink"}))
          BY <1>6, <2>2 DEF GoogleLink
        <4>2. ~Beside(r, {"gmail", "gnew", "glink"})
          BY <4>1, Zenon
        <4>. QED
          BY <4>2 DEF Beside
      <3>3. req'[r].pc = "guser" /\ \A q \in Reqs : q # r => req'[q] = req[q]
        BY <1>a, <3>1
      <3>4. ASSUME NEW q \in Reqs, q # r PROVE Lacks(q)'
        BY <1>0, <2>1, <3>2, <3>3, <3>4, LacksKept
      <3>5. Lacks(r)'
        BY <1>b, <3>3
      <3>6. OneLink'
        BY <2>1, <3>1 DEF OneLink, NoLinks
      <3>. QED
        BY <1>0, <2>1, <3>4, <3>5, <3>6 DEF OneUser, OneCredential
    <2>3. CASE req[r].u \notin users
      <3>1. Finish(r) /\ links' = links
        BY <1>6, <2>3 DEF GoogleLink
      <3>2. \A q \in Reqs : Lacks(q)'
        BY <1>0, <1>a, <1>b, <2>1, <3>1, LacksKept
      <3>. QED
        BY <1>0, <2>1, <3>1, <3>2 DEF OneUser, OneLink, OneCredential
    <2>. QED
      BY <2>2, <2>3
  (* A credential is inserted where there was none.                          *)
  <1>c. ASSUME NEW r \in Reqs, NEW u \in Uids, creds[u] = {}, creds' = [creds EXCEPT ![u] = @ \cup {chosen'}],
               ~CredentialBeside(r, u), UNCHANGED <<users, links>>,
               req'[r].pc \notin {"insert", "gmail", "gnew", "glink", "set", "write"},
               \A q \in Reqs : q # r => req'[q] = req[q]
        PROVE  (OneUser /\ OneLink /\ OneCredential /\ \A q \in Reqs : Lacks(q))'
    <2>1. \A v \in Uids : v # u => creds'[v] = creds[v]
      BY <1>c
    <2>2. \A q \in Reqs : q # r /\ req[q].pc \in {"set", "write"} =>
            req[q].u \in Uids /\ (req[q].u = u => req[q].pc = "write" /\ req[q].found)
      BY <1>c DEF CredentialBeside, At, WellFormed, ForUser
    <2>3. ASSUME NEW q \in Reqs, q # r PROVE Lacks(q)'
      BY <1>0, <1>c, <2>1, <2>2, <2>3, LacksKept
    <2>4. Lacks(r)'
      BY <1>b, <1>c
    <2>5. OneCredential'
      BY <1>0, <1>c, <2>1 DEF OneCredential
    <2>. QED
      BY <1>0, <1>c, <2>3, <2>4, <2>5 DEF OneUser, OneLink
  <1>7. ASSUME NEW r \in Reqs, SetInsert(r)
        PROVE  (OneUser /\ OneLink /\ OneCredential /\ \A q \in Reqs : Lacks(q))'
    <2>1. /\ UNCHANGED <<users, links>> /\ req[r].pc = "set" /\ req[r].u \in Uids /\ creds[req[r].u] = {}
          /\ req'[r] = Idle /\ \A q \in Reqs : q # r => req'[q] = req[q]
      BY <1>0, <1>7, <1>a DEF SetInsert, At, Lacks, WellFormed, ForUser
    <2>2. CASE req[r].u \in users
      <3>1. creds' = [creds EXCEPT ![req[r].u] = @ \cup {chosen'}]
        BY <1>7, <2>2 DEF SetInsert
      <3>2. ~CredentialBeside(r, req[r].u)
        <4>1. raced' = (raced \/ CredentialBeside(r, req[r].u))
          BY <1>7, <2>2 DEF SetInsert
        <4>. QED
          BY <4>1, Zenon
      <3>. QED
        BY <1>c, <2>1, <3>1, <3>2
    <2>3. CASE req[r].u \notin users
      <3>1. creds' = creds
        BY <1>7, <2>3 DEF SetInsert
      <3>2. \A q \in Reqs : Lacks(q)'
        BY <1>0, <1>b, <2>1, <3>1, LacksKept
      <3>. QED
        BY <1>0, <2>1, <3>1, <3>2 DEF OneUser, OneLink, OneCredential
    <2>. QED
      BY <2>2, <2>3
  <1>8. ASSUME NEW r \in Reqs, WritePassword(r)
        PROVE  (OneUser /\ OneLink /\ OneCredential /\ \A q \in Reqs : Lacks(q))'
    <2>. DEFINE u == req[r].u
    <2>1. /\ UNCHANGED <<users, links>> /\ req[r].pc = "write" /\ u \in Uids
          /\ req[r].found \/ creds[u] = {}
      BY <1>0, <1>8 DEF WritePassword, At, Lacks, WellFormed, ForUser
    <2>2. CASE u \in users /\ (req[r].found => creds[u] # {})
      <3>1. /\ req'[r].pc = "revoke" /\ \A q \in Reqs : q # r => req'[q] = req[q]
        BY <1>8, <1>a, <2>2 DEF WritePassword
      <3>2. CASE req[r].found
        <4>1. PICK p \in creds[u] : creds' = [creds EXCEPT ![u] = (@ \ {p}) \cup {chosen'}]
          BY <1>8, <2>2, <3>2 DEF WritePassword
        <4>2. creds[u] = {p}
          BY <1>0, <2>1 DEF OneCredential
        <4>3. OneCredential'
          BY <1>0, <2>1, <4>1, <4>2 DEF OneCredential
        <4>4. \A q \in Reqs : req[q].pc \in {"set", "write"} => req[q].u \in Uids
          BY DEF WellFormed, ForUser
        <4>5. ASSUME NEW q \in Reqs, q # r PROVE Lacks(q)'
          <5>1. (req[q].pc = "set" \/ (req[q].pc = "write" /\ ~req[q].found)) => req[q].u # u
            BY <1>0, <4>2 DEF Lacks
          <5>. QED
            BY <1>0, <2>1, <3>1, <4>1, <4>4, <4>5, <5>1, LacksKept
        <4>6. Lacks(r)'
          BY <1>b, <3>1
        <4>. QED
          BY <1>0, <2>1, <4>3, <4>5, <4>6 DEF OneUser, OneLink
      <3>3. CASE ~req[r].found
        <4>1. creds' = [creds EXCEPT ![u] = @ \cup {chosen'}]
          BY <1>8, <2>2, <3>3 DEF WritePassword
        <4>2. ~CredentialBeside(r, u)
          <5>1. raced' = (raced \/ CredentialBeside(r, u))
            BY <1>8, <2>2, <3>3 DEF WritePassword
          <5>. QED
            BY <5>1, Zenon
        <4>. QED
          BY <1>c, <2>1, <3>1, <3>3, <4>1, <4>2
      <3>. QED
        BY <3>2, <3>3
    <2>3. CASE ~(u \in users /\ (req[r].found => creds[u] # {}))
      <3>1. Finish(r) /\ creds' = creds
        BY <1>8, <2>3 DEF WritePassword
      <3>2. \A q \in Reqs : Lacks(q)'
        BY <1>0, <1>a, <1>b, <2>1, <3>1, LacksKept
      <3>. QED
        BY <1>0, <2>1, <3>1, <3>2 DEF OneUser, OneLink, OneCredential
    <2>. QED
      BY <2>2, <2>3
  <1>9. CASE UNCHANGED <<req, accountsVars>>
    BY <1>0, <1>9 DEF OneUser, OneLink, OneCredential, Lacks, NoLinks
  <1>. QED
    BY <1>1, <1>2, <1>3, <1>4, <1>5, <1>6, <1>7, <1>8, <1>9 DEF AccountsNext

LEMMA RowsBegin == HandlersInit /\ AccountsInit => RowsInv
  BY DEF HandlersInit, AccountsInit, RowsInv, OneUser, OneLink, OneCredential, Lacks, Idle

(* A set whose members are equal has one at most.                            *)
LEMMA AtMostOne ==
    ASSUME NEW S, \A x, y \in S : x = y
    PROVE  Cardinality(S) <= 1
  <1>1. CASE S = {}
    BY <1>1, FS_EmptySet
  <1>2. ASSUME NEW x \in S PROVE Cardinality(S) <= 1
    <2>1. S = {x}
      BY <1>2
    <2>. QED
      BY <2>1, FS_Singleton
  <1>. QED
    BY <1>1, <1>2

LEMMA LookupsAreUnique == RowsInv => OneRowPerLookup
  BY AtMostOne DEF RowsInv, OneUser, OneLink, OneCredential, OneRowPerLookup

(* Every lookup meets one row at most, unless two requests overlapped that    *)
(* had both found none.                                                       *)
THEOREM OneRowPerLookupHolds == AccountsSpec => []OneRowPerLookup
  BY LookupsAreUnique, AccountsTypeBegins, RowsBegin, AccountsTypeStep, RowsStep, PTL DEF AccountsSpec

------------------------------------------------------------------------------
(* A session that rests on a replaced password, when nobody excuses it.      *)
Outdated(s) == s.by # 0 /\ s.by \notin creds[s.u] /\ ~s.excused
Revoked(s) == \E r \in Reqs : At(r, "revoke") /\ req[r].u = s.u

(* Whoever is to revoke it is still to, when another request steps.          *)
LEMMA RevokerStays ==
    ASSUME OldPasswordsAreOut, NEW r \in Reqs, req[r].pc # "revoke",
           \A q \in Reqs : q # r => req'[q] = req[q],
           NEW s \in signed, Outdated(s)
    PROVE  Revoked(s)'
  <1>1. PICK q \in Reqs : At(q, "revoke") /\ req[q].u = s.u
    BY DEF OldPasswordsAreOut, Outdated
  <1>. QED
    BY <1>1 DEF Revoked, At

LEMMA OldPasswordsStep ==
    ASSUME TypeInv, OldPasswordsAreOut, [AccountsNext]_<<req, accountsVars>>
    PROVE  OldPasswordsAreOut'
  <1>. USE Bounds, IdleWellFormed DEF accountsVars, accountRows
  <1>. SUFFICES ASSUME NEW s \in signed', Outdated(s)' PROVE Revoked(s)'
    BY DEF OldPasswordsAreOut, Outdated, Revoked
  <1>a. \A r \in Reqs : /\ \A x : Start(r, x) \/ Become(r, x) => /\ req'[r] = x
                                                                 /\ \A q \in Reqs : q # r => req'[q] = req[q]
                        /\ Finish(r) => req'[r] = Idle /\ \A q \in Reqs : q # r => req'[q] = req[q]
    BY DEF Start, Become, Finish
  <1>b. \A t \in signed : t.u \in users /\ t.u \in Uids
    OBVIOUS
  (* A step that leaves the sessions and the passwords there are.            *)
  <1>c. ASSUME NEW r \in Reqs, req[r].pc # "revoke", \A q \in Reqs : q # r => req'[q] = req[q],
               s \in signed, creds[s.u] \subseteq creds'[s.u]
        PROVE  Revoked(s)'
    <2>1. Outdated(s)
      BY <1>c DEF Outdated
    <2>. QED
      BY <1>c, <2>1, RevokerStays
  <1>1. ASSUME NEW r \in Reqs,
               \/ LookForAddress(r) \/ GoogleAccount(r) \/ GoogleMail(r) \/ GoogleUser(r) \/ SignIn(r)
               \/ CheckPassword(r) \/ SetLook(r) \/ ResetUser(r) \/ ResetLook(r) \/ ChangeCheck(r) \/ ChangeLook(r)
        PROVE  Revoked(s)'
    <2>1. UNCHANGED <<creds, signed>> /\ \A q \in Reqs : q # r => req'[q] = req[q]
      BY <1>1, Lookups DEF Moves
    <2>2. req[r].pc # "revoke"
      BY <1>1 DEF LookForAddress, GoogleAccount, GoogleMail, GoogleUser, SignIn, CheckPassword, SetLook, ResetUser,
                  ResetLook, ChangeCheck, ChangeLook, At, Start
    <2>. QED
      BY <1>c, <2>1, <2>2
  <1>2. ASSUME NEW r \in Reqs, InsertUser(r) PROVE Revoked(s)'
    <2>1. /\ made' = made + 1 /\ creds' = [creds EXCEPT ![made'] = {chosen'}] /\ signed' = signed
          /\ req[r].pc = "insert"
          /\ \/ Finish(r) \/ Become(r, [pc |-> "issue", u |-> made', by |-> chosen'])
      BY <1>2 DEF InsertUser, NewUser, NewPassword, At
    <2>2. s.u # made'
      BY <1>b, <2>1
    <2>3. creds'[s.u] = creds[s.u]
      BY <1>b, <2>1, <2>2
    <2>4. \A q \in Reqs : q # r => req'[q] = req[q]
      BY <1>a, <2>1
    <2>. QED
      BY <1>c, <2>1, <2>3, <2>4
  <1>3. ASSUME NEW r \in Reqs, GoogleCreate(r) \/ GoogleLink(r) PROVE Revoked(s)'
    <2>1. UNCHANGED <<creds, signed>> /\ req[r].pc # "revoke"
      BY <1>3 DEF GoogleCreate, GoogleLink, At
    <2>2. \A q \in Reqs : q # r => req'[q] = req[q]
      BY <1>3, <1>a DEF GoogleCreate, GoogleLink
    <2>. QED
      BY <1>c, <2>1, <2>2
  <1>4. ASSUME NEW r \in Reqs, SetInsert(r) PROVE Revoked(s)'
    <2>1. signed' = signed /\ req[r].pc # "revoke" /\ \A q \in Reqs : q # r => req'[q] = req[q]
      BY <1>4, <1>a DEF SetInsert, At
    <2>2. creds' = creds \/ creds' = [creds EXCEPT ![req[r].u] = @ \cup {chosen'}]
      BY <1>4 DEF SetInsert
    <2>3. creds[s.u] \subseteq creds'[s.u]
      BY <1>b, <2>1, <2>2
    <2>. QED
      BY <1>c, <2>1, <2>3
  <1>5. ASSUME NEW r \in Reqs, WritePassword(r) PROVE Revoked(s)'
    <2>. DEFINE u == req[r].u
    <2>1. signed' = signed /\ req[r].pc = "write" /\ u \in Uids
      BY <1>5 DEF WritePassword, At, WellFormed, ForUser
    <2>2. CASE Become(r, [pc |-> "revoke", u |-> u])
      <3>1. req'[r] = [pc |-> "revoke", u |-> u] /\ \A q \in Reqs : q # r => req'[q] = req[q]
        BY <1>a, <2>2
      <3>2. CASE s.u = u
        BY <3>1, <3>2 DEF Revoked, At
      <3>3. CASE s.u # u
        <4>1. \/ \E p \in creds[u] : creds' = [creds EXCEPT ![u] = (@ \ {p}) \cup {chosen'}]
              \/ creds' = [creds EXCEPT ![u] = @ \cup {chosen'}]
              \/ creds' = creds
          BY <1>5 DEF WritePassword
        <4>2. creds'[s.u] = creds[s.u]
          BY <1>b, <2>1, <3>3, <4>1
        <4>. QED
          BY <1>c, <2>1, <3>1, <4>2
      <3>. QED
        BY <3>2, <3>3
    <2>3. CASE Finish(r) /\ creds' = creds
      <3>1. \A q \in Reqs : q # r => req'[q] = req[q]
        BY <1>a, <2>3
      <3>. QED
        BY <1>c, <2>1, <2>3, <3>1
    <2>. QED
      BY <1>5, <2>2, <2>3 DEF WritePassword
  <1>6. ASSUME NEW r \in Reqs, SignedIn(r) PROVE Revoked(s)'
    <2>1. creds' = creds /\ req[r].pc # "revoke" /\ \A q \in Reqs : q # r => req'[q] = req[q]
      BY <1>6, <1>a DEF SignedIn, At
    <2>2. CASE s \in signed
      BY <1>c, <2>1, <2>2
    <2>3. CASE s \notin signed
      <3>1. s = [u |-> req[r].u, by |-> req[r].by,
                 excused |-> req[r].by # 0 /\ req[r].by \notin creds[req[r].u]]
        BY <1>6, <2>3 DEF SignedIn
      <3>2. /\ s.u = req[r].u /\ s.by = req[r].by
            /\ s.excused = (req[r].by # 0 /\ req[r].by \notin creds[req[r].u])
        BY <3>1
      <3>3. ~Outdated(s)'
        BY <2>1, <3>2, Zenon DEF Outdated
      <3>. QED
        BY <3>3
    <2>. QED
      BY <2>2, <2>3
  <1>7. ASSUME NEW r \in Reqs, RevokeOld(r) PROVE Revoked(s)'
    <2>1. /\ UNCHANGED creds /\ s \in signed /\ s.u # req[r].u /\ \A q \in Reqs : q # r => req'[q] = req[q]
      BY <1>7, <1>a DEF RevokeOld
    <2>2. PICK q \in Reqs : At(q, "revoke") /\ req[q].u = s.u
      BY <2>1 DEF OldPasswordsAreOut, Outdated
    <2>. QED
      BY <2>1, <2>2 DEF Revoked, At
  <1>8. ASSUME NEW r \in Reqs, AccountsAbort(r) PROVE Revoked(s)'
    <2>1. UNCHANGED creds /\ \A q \in Reqs : q # r => req'[q] = req[q]
      BY <1>8, <1>a DEF AccountsAbort
    <2>2. CASE At(r, "revoke")
      <3>1. s \in {IF t.u = req[r].u THEN [t EXCEPT !.excused = TRUE] ELSE t : t \in signed}
        BY <1>8, <2>2 DEF AccountsAbort
      <3>2. PICK t \in signed : s = IF t.u = req[r].u THEN [t EXCEPT !.excused = TRUE] ELSE t
        BY <3>1
      <3>3. t \in [u : users, by : 0..chosen, excused : BOOLEAN] /\ ~s.excused
        BY DEF Outdated
      <3>4. s = t /\ t.u # req[r].u
        BY <3>2, <3>3
      <3>5. PICK q \in Reqs : At(q, "revoke") /\ req[q].u = s.u
        BY <2>1, <3>4 DEF OldPasswordsAreOut, Outdated
      <3>. QED
        BY <2>1, <3>4, <3>5 DEF Revoked, At
    <2>3. CASE ~At(r, "revoke")
      <3>1. signed' = signed
        BY <1>8, <2>3 DEF AccountsAbort
      <3>. QED
        BY <1>c, <2>1, <2>3, <3>1 DEF At
    <2>. QED
      BY <2>2, <2>3
  <1>9. CASE DropAccount
    <2>1. PICK u \in users : /\ creds' = [creds EXCEPT ![u] = {}] /\ req' = req
                             /\ signed' = {t \in signed : t.u # u}
      BY <1>9 DEF DropAccount
    <2>2. s \in signed /\ creds'[s.u] = creds[s.u]
      BY <2>1
    <2>3. PICK q \in Reqs : At(q, "revoke") /\ req[q].u = s.u
      BY <2>2 DEF OldPasswordsAreOut, Outdated
    <2>. QED
      BY <2>1, <2>3 DEF Revoked, At
  <1>10. CASE UNCHANGED <<req, accountsVars>>
    BY <1>10 DEF OldPasswordsAreOut, Outdated, Revoked, At
  <1>. QED
    BY <1>1, <1>2, <1>3, <1>4, <1>5, <1>6, <1>7, <1>8, <1>9, <1>10 DEF AccountsNext

(* No session rests on a replaced password, unless the request that replaced  *)
(* it is still to revoke it or failed, or the sign-in had checked it before.  *)
THEOREM OldPasswordsAreOutHolds == AccountsSpec => []OldPasswordsAreOut
  <1>1. HandlersInit /\ AccountsInit => OldPasswordsAreOut
    BY DEF AccountsInit, OldPasswordsAreOut
  <1>. QED
    BY <1>1, AccountsTypeBegins, AccountsTypeStep, OldPasswordsStep, PTL DEF AccountsSpec
=============================================================================
