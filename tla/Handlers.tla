------------------------------ MODULE Handlers ------------------------------
(* The requests the server has in flight.  A request is at one step of a      *)
(* handler and holds the local copies the rest of the handler needs; between  *)
(* two steps it awaits, and any other request may run.                        *)
CONSTANT Reqs

VARIABLE req   \* what each request is doing: a step pc, and its local copies

Idle == [pc |-> "idle"]
HandlersInit == req = [r \in Reqs |-> Idle]

At(r, p) == req[r].pc = p
Start(r, task) == req[r] = Idle /\ req' = [req EXCEPT ![r] = task]
Become(r, task) == req' = [req EXCEPT ![r] = task]
Finish(r) == req' = [req EXCEPT ![r] = Idle]

(* Another request is at one of the steps in S.                              *)
Beside(r, S) == \E q \in Reqs \ {r} : req[q].pc \in S
=============================================================================
