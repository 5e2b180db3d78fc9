------------------------------ MODULE Handlers ------------------------------
(***************************************************************************)
(* Requests of staff and students in flight.  A handler reads the database *)
(* in one step and writes it in a later one, at READ COMMITTED: call[p]    *)
(* keeps what it has read.                                                 *)
(***************************************************************************)
CONSTANTS Calls      \* requests in flight

VARIABLES call       \* call[p]: the operation, what it read, and whom or what it is about

Idle == [op |-> "idle", saw |-> "none", who |-> "none"]

HandlersInit == call = [p \in Calls |-> Idle]

At(p, op) == call[p].op = op

\* p goes on to the next step of its operation.
Go(p, op, saw, who) == call' = [call EXCEPT ![p] = [op |-> op, saw |-> saw, who |-> who]]

\* p answers.
End(p) == call' = [call EXCEPT ![p] = Idle]
=============================================================================
