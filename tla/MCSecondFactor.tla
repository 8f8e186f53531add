--------------------------- MODULE MCSecondFactor ---------------------------
(* TwoFactor and Challenge share only the pool of requests, so a step of one  *)
(* commutes with every step of the other: each is explored while the other    *)
(* rests, and between them every state of either is reached.  TwoFactor is    *)
(* explored in two slices.  No step is guarded by the flag, so that of codes  *)
(* leaves out the copies of it that requests bring along and verification by  *)
(* mail, which changes nothing else; and removal, after which a row is as one *)
(* that is still to be verified.  Spending a code changes the list of codes   *)
(* only, which no step that writes a row, a secret or the flag reads, so the  *)
(* slice of enrolment leaves that out.                                        *)
EXTENDS TwoFactor, Challenge, TLC

VARIABLE part   \* the component this behaviour is about

SecondFactorInit ==
    /\ HandlersInit /\ TwoFactorInit /\ ChallengeInit
    /\ part \in {"Codes", "Enrolment", "Challenge"}

(* The steps that put no request at one of pcs.                              *)
Without(pcs) == \A r \in Reqs : req'[r].pc \notin pcs
WithoutMail == \A r \in Reqs : At(r, "prove")' => req'[r].method = "totp"

SecondFactorNext ==
    /\ UNCHANGED part
    /\ \/ part = "Codes" /\ TwoFactorNext /\ Without({"auth", "unverify"}) /\ WithoutMail
          /\ UNCHANGED challengeVars
       \/ part = "Enrolment" /\ TwoFactorNext /\ Without({"spend"}) /\ UNCHANGED challengeVars
       \/ part = "Challenge" /\ ChallengeNext /\ UNCHANGED twoFactorVars

SecondFactorSpec == SecondFactorInit /\ [][SecondFactorNext]_<<req, part, twoFactorVars, challengeVars>>

(* Types, of whichever component is moving.                                  *)
TypesOK ==
    /\ part \in {"Codes", "Enrolment"} => TwoFactorTypeOK
    /\ part = "Challenge" => ChallengeTypeOK

Symmetry == Permutations(Reqs) \cup Permutations(Slots) \cup Permutations(Handles)
=============================================================================
