----------------------------- MODULE MCWorkload -----------------------------
(* Two classes without reservations on a node of one permit, whose waiters    *)
(* must all return: one with two workspaces, and a node-scoped one whose      *)
(* queue timeout may end the wait first.                                      *)
EXTENDS Workload

CONSTANTS interactive, control, a, b, p1

MCTwoClasses == <<interactive, control>>
MCNoneReserved == [k \in Classes |-> 0]
MCOneEach == [k \in Classes |-> 1]
MCTwoQueued == [k \in Classes |-> 2]

(* Every Acquire that waits returns.  The callers are interchangeable, so what
   holds of one of them holds of all. *)
AcquireReturns == WaiterReturns(p1)
=============================================================================
