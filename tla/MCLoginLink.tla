----------------------------- MODULE MCLoginLink -----------------------------
EXTENDS LoginLink, TLC
Symmetry == Permutations(Reqs) \cup Permutations(Links)

(* "Atomically claim: only transition approved -> claimed once"               *)
(* (login_link_service.py:132).                                               *)
ClaimedOnce == \A l \in Links : claims[l] <= 1
=============================================================================
