------------------------------ MODULE MCEnded -------------------------------
(* Sessions whose end has been reported to the client, and the requests that  *)
(* arrive with them afterwards.                                               *)
EXTENDS MCSessions

VARIABLES
    over,   \* tokens a handler has reported as ended
    late    \* requests in flight that arrived with such a token

EndInit == Init /\ over = {} /\ late = {}

(* "Logged out" is the answer after the key is dropped, "All sessions         *)
(* terminated successfully" the one after the user key is.                    *)
Reported == UNION { {t \in Tokens : Owes(r, t)} \cup (IF At(r, "dropuser") THEN req[r].todo ELSE {}) :
                    r \in {q \in Reqs : req[q] # Idle /\ req'[q] = Idle} }
Observe ==
    /\ over' = over \cup Reported
    /\ late' = {r \in Reqs : req'[r] # Idle /\ (r \in late \/ (req[r] = Idle /\ req'[r].tok \in over))}

Authenticate(r, t) ==
    \/ Login(r, t) \/ InsertSession(r) \/ RefreshSession(r) \/ CacheIssued(r)
    \/ ReadSessionHit(r, t) \/ ReadSessionMiss(r, t) \/ SelectSession(r) \/ FillSession(r)
    \/ ReselectSession(r) \/ UpdateSession(r) \/ RewriteSession(r) \/ RevokeRow(r) \/ DropKey(r)
    \/ ReadUserHit(r) \/ ReadUserMiss(r) \/ GetUser(r) \/ FillUser(r) \/ Answer(r)

LogoutNext == Tick \/ \E r \in Reqs, t \in Tokens : Authenticate(r, t) \/ Logout(r, t)
RevokeAllNext == Tick \/ \E r \in Reqs, t \in Tokens : Authenticate(r, t) \/ RevokeAll(r) \/ DropUserKey(r)

LogoutSpec == EndInit /\ [][LogoutNext /\ Observe]_<<vars, over, late>>
RevokeAllSpec == EndInit /\ [][RevokeAllNext /\ Observe]_<<vars, over, late>>

(* A request that arrives with a session after its end was reported is not    *)
(* accepted: "Session must now be rejected" (tests/test_integration.py:85)    *)
(* after a logout, "All sessions terminated successfully" (admin.py:101)      *)
(* after account_revoke_all.                                                  *)
EndedMeansRejected == \A r \in late : ~At(r, "ok")
=============================================================================
