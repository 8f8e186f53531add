--------------------------- MODULE LoginLinkPromise ---------------------------
(* What a login link promises: its owner decides once, and an approved link   *)
(* gives one login.  How polling, expiry and failures get there is left open. *)
EXTENDS Naturals

CONSTANT Links

VARIABLES
    phase,   \* of a link: none, open, approved or rejected
    logins   \* sessions issued through a link

Init == phase = [l \in Links |-> "none"] /\ logins = [l \in Links |-> 0]

Ask(l) ==
    /\ phase[l] = "none"
    /\ phase' = [phase EXCEPT ![l] = "open"]
    /\ UNCHANGED logins

Decide(l, verdict) ==
    /\ phase[l] = "open"
    /\ phase' = [phase EXCEPT ![l] = verdict]
    /\ UNCHANGED logins

Login(l) ==
    /\ phase[l] = "approved" /\ logins[l] = 0
    /\ logins' = [logins EXCEPT ![l] = 1]
    /\ UNCHANGED phase

Next == \E l \in Links : Ask(l) \/ Decide(l, "approved") \/ Decide(l, "rejected") \/ Login(l)

Spec == Init /\ [][Next]_<<phase, logins>>
=============================================================================
