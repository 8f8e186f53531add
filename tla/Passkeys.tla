------------------------------- MODULE Passkeys -------------------------------
(* services/passkey_service.py, for one authenticator and one credential: the *)
(* challenges of the ceremonies, the rows of user_passkeys and the signature  *)
(* counter that is to expose a copy of the authenticator.  A signed response  *)
(* is a set of facts the library verifies: its challenge, its kind and its    *)
(* counter; the client may send any response it has, more than once.          *)
EXTENDS Handlers, FiniteSets, Naturals

CONSTANTS
    Ceremonies,  \* challenges
    MaxRows      \* bound: rows of the credential ever inserted

ASSUME PasskeysAssumption == MaxRows \in Nat

VARIABLES
    challenge,  \* of each ceremony: "unused", "open", or "gone"
    responses,  \* what the authenticator has signed
    signatures, \* the authenticator's counter; it may be one that stays at zero
    counting,   \*   or one that counts
    inserted,   \* rows inserted so far
    passkeys,   \* the counter in each row there is
    served,     \* history: how often a challenge has been accepted
    overlapped  \* history: challenges read by two requests before either deleted it

passkeysVars == <<challenge, responses, signatures, counting, inserted, passkeys, served, overlapped>>

RowIds == 1..MaxRows
Counts == Nat
Responses == [c : Ceremonies, kind : {"create", "get"}, n : Counts]
PasskeysTasks ==
    [pc : {"forget", "store", "find"}, resp : Responses]
    \cup [pc : {"verify"}, resp : Responses, row : RowIds, read : Counts]
    \cup [pc : {"bump"}, row : RowIds, read : Counts, n : Counts]
    \cup [pc : {"drop"}, row : RowIds]

PasskeysInit ==
    /\ challenge = [c \in Ceremonies |-> "unused"]
    /\ responses = {} /\ signatures = 0 /\ counting \in BOOLEAN
    /\ inserted = 0 /\ passkeys = << >>
    /\ served = [c \in Ceremonies |-> 0] /\ overlapped = {}

------------------------------------------------------------------------------
(* create_webauthn_challenge.                                                *)
Offer(c) ==
    /\ challenge[c] = "unused"
    /\ challenge' = [challenge EXCEPT ![c] = "open"]
    /\ UNCHANGED <<req, responses, signatures, counting, inserted, passkeys, served, overlapped>>

(* For a signed-in user, whose authenticators are told not to make a second   *)
(* credential, and for anybody; the challenge does not say which it is for.   *)
RegisterOptions(c) == Offer(c)
LoginOptions(c) == Offer(c)

ExpireOffer(c) ==
    /\ challenge[c] = "open"
    /\ challenge' = [challenge EXCEPT ![c] = "gone"]
    /\ UNCHANGED <<req, responses, signatures, counting, inserted, passkeys, served, overlapped>>

(* The authenticator makes its credential once, and signs with it after.     *)
Sign(c) ==
    /\ challenge[c] # "unused" /\ \A a \in responses : a.c # c
    /\ LET kind == IF responses = {} THEN "create" ELSE "get" IN
         /\ signatures' = IF kind = "get" /\ counting THEN signatures + 1 ELSE signatures
         /\ responses' = responses \cup {[c |-> c, kind |-> kind, n |-> signatures']}
    /\ UNCHANGED <<req, challenge, counting, inserted, passkeys, served, overlapped>>

(* consume_webauthn_challenge: read, then deleted.                           *)
Consume(r) ==
    /\ \E a \in responses :
          /\ challenge[a.c] = "open"
          /\ Start(r, [pc |-> "forget", resp |-> a])
          /\ overlapped' = IF \E q \in Reqs \ {r} : At(q, "forget") /\ req[q].resp.c = a.c
                           THEN overlapped \cup {a.c} ELSE overlapped
    /\ UNCHANGED <<challenge, responses, signatures, counting, inserted, passkeys, served>>

NextStep(kind) == IF kind = "create" THEN "store" ELSE "find"

(* Mutant: the challenge stays.                                              *)
Recall(r) ==
    /\ At(r, "forget")
    /\ Become(r, [pc |-> NextStep(req[r].resp.kind), resp |-> req[r].resp])
    /\ UNCHANGED passkeysVars

Forget(r) ==
    /\ At(r, "forget")
    /\ challenge' = [challenge EXCEPT ![req[r].resp.c] = "gone"]
    /\ Become(r, [pc |-> NextStep(req[r].resp.kind), resp |-> req[r].resp])
    /\ UNCHANGED <<responses, signatures, counting, inserted, passkeys, served, overlapped>>

Serve(c) == served' = [served EXCEPT ![c] = @ + 1]

(* register_verify: nothing is looked up but the user.                       *)
StorePasskey(r) ==
    /\ At(r, "store")
    /\ inserted < MaxRows /\ inserted' = inserted + 1
    /\ passkeys' = [i \in DOMAIN passkeys \cup {inserted'} |->
                      IF i = inserted' THEN req[r].resp.n ELSE passkeys[i]]
    /\ Serve(req[r].resp.c)
    /\ Finish(r)
    /\ UNCHANGED <<challenge, responses, signatures, counting, overlapped>>

(* login_verify: the one row of the credential, then the signature and its    *)
(* counter against what was read, then the commit and the session.            *)
FindPasskey(r) ==
    /\ At(r, "find")
    /\ \/ \E i \in DOMAIN passkeys :
             /\ DOMAIN passkeys = {i}
             /\ Become(r, [pc |-> "verify", resp |-> req[r].resp, row |-> i, read |-> passkeys[i]])
       \/ Cardinality(DOMAIN passkeys) # 1 /\ Finish(r)
    /\ UNCHANGED passkeysVars

(* Mutant: the counter is not compared.                                      *)
AnyCount(n, read) == TRUE

Fresh(n, read) == n > read \/ (n = 0 /\ read = 0)

VerifyPasskey(r) ==
    /\ At(r, "verify")
    /\ IF Fresh(req[r].resp.n, req[r].read)
       THEN /\ Become(r, [pc |-> "bump", row |-> req[r].row, read |-> req[r].read, n |-> req[r].resp.n])
            /\ Serve(req[r].resp.c)
       ELSE Finish(r) /\ UNCHANGED served
    /\ UNCHANGED <<challenge, responses, signatures, counting, inserted, passkeys, overlapped>>

(* A counter that has not changed is not written; the write of a row that is  *)
(* gone fails.  The session follows, unless the account is disabled.          *)
BumpCounter(r) ==
    /\ At(r, "bump")
    /\ passkeys' = [i \in DOMAIN passkeys |->
                  IF i = req[r].row /\ req[r].n # req[r].read THEN req[r].n ELSE passkeys[i]]
    /\ Finish(r)
    /\ UNCHANGED <<challenge, responses, signatures, counting, inserted, served, overlapped>>

(* delete_passkey.                                                           *)
LookPasskey(r) ==
    /\ \E i \in DOMAIN passkeys : Start(r, [pc |-> "drop", row |-> i])
    /\ UNCHANGED passkeysVars

DropPasskey(r) ==
    /\ At(r, "drop")
    /\ passkeys' = [i \in DOMAIN passkeys \ {req[r].row} |-> passkeys[i]]
    /\ Finish(r)
    /\ UNCHANGED <<challenge, responses, signatures, counting, inserted, served, overlapped>>

PasskeysAbort(r) == req[r] # Idle /\ Finish(r) /\ UNCHANGED passkeysVars

PasskeysNext ==
    \/ \E c \in Ceremonies : RegisterOptions(c) \/ LoginOptions(c) \/ ExpireOffer(c) \/ Sign(c)
    \/ \E r \in Reqs :
          \/ Consume(r) \/ Forget(r) \/ StorePasskey(r) \/ FindPasskey(r) \/ VerifyPasskey(r)
          \/ BumpCounter(r) \/ LookPasskey(r) \/ DropPasskey(r) \/ PasskeysAbort(r)

PasskeysSpec == HandlersInit /\ PasskeysInit /\ [][PasskeysNext]_<<req, passkeysVars>>

------------------------------------------------------------------------------
PasskeysTypeOK ==
    /\ challenge \in [Ceremonies -> {"unused", "open", "gone"}]
    /\ responses \subseteq Responses /\ signatures \in Counts /\ counting \in BOOLEAN
    /\ inserted \in 0..MaxRows
    /\ DOMAIN passkeys \subseteq 1..inserted /\ \A i \in DOMAIN passkeys : passkeys[i] \in Counts
    /\ served \in [Ceremonies -> Nat] /\ overlapped \subseteq Ceremonies
    /\ req \in [Reqs -> PasskeysTasks \cup {Idle}]

(* A challenge serves one ceremony: a response sent twice is accepted twice   *)
(* only when both requests read the challenge before either deleted it.       *)
CeremonyIsServedOnce == \A c \in Ceremonies \ overlapped : served[c] <= 1

(* The credential has one row, without which signing in with it fails for     *)
(* good, unless a registration's challenge was read twice.                    *)
OneRowPerCredential == overlapped = {} => Cardinality(DOMAIN passkeys) <= 1

(* A stored counter falls only by a sign-in that read it before another one   *)
(* raised it: a response older than the last one is otherwise never accepted. *)
CounterFalls(i) == i \in DOMAIN passkeys \cap DOMAIN passkeys' /\ passkeys'[i] < passkeys[i]
CounterNeverFallsBack ==
    [][\A i \in RowIds : CounterFalls(i) =>
          \E r \in Reqs : At(r, "bump") /\ req[r].row = i /\ req[r].read # passkeys[i]]_passkeys
=============================================================================
