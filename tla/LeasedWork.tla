----------------------------- MODULE LeasedWork -----------------------------
(***************************************************************************)
(* What LeapView's durable queues promise their workers, without leases,   *)
(* generations or clocks: a piece of work is offered, taken by one worker  *)
(* at a time, possibly lost by that worker and taken again, and finished   *)
(* once, by the worker that holds it.  JobQueue (platform/jobs) is checked *)
(* and proved to implement it.                                             *)
(***************************************************************************)
CONSTANTS Work,      \* durable work items
          Workers    \* whoever may hold one

VARIABLES phase,     \* [Work -> {"absent", "open", "done"}]
          holder     \* [Work -> SUBSET Workers], the workers that may finish it

wvars == <<phase, holder>>

Init == /\ phase = [j \in Work |-> "absent"]
        /\ holder = [j \in Work |-> {}]

Offer(j) == /\ phase[j] = "absent"
            /\ phase' = [phase EXCEPT ![j] = "open"]
            /\ UNCHANGED holder

(* Only work nobody holds can be taken. *)
Take(j, w) == /\ phase[j] = "open"
              /\ holder[j] = {}
              /\ holder' = [holder EXCEPT ![j] = {w}]
              /\ UNCHANGED phase

(* Any set of items can lose their holders at once: one process crash. *)
Lose(S) == /\ holder' = [j \in Work |-> IF j \in S THEN {} ELSE holder[j]]
           /\ UNCHANGED phase

(* Finishing takes the hold. *)
Finish(j, w) == /\ phase[j] = "open"
                /\ holder[j] = {w}
                /\ phase' = [phase EXCEPT ![j] = "done"]
                /\ holder' = [holder EXCEPT ![j] = {}]

(* Work nobody holds can be withdrawn by its producer. *)
Withdraw(j) == /\ phase[j] = "open"
               /\ holder[j] = {}
               /\ phase' = [phase EXCEPT ![j] = "done"]
               /\ UNCHANGED holder

Next == \/ \E j \in Work : Offer(j) \/ Withdraw(j)
        \/ \E j \in Work, w \in Workers : Take(j, w) \/ Finish(j, w)
        \/ \E S \in SUBSET Work : Lose(S)

Spec == Init /\ [][Next]_wvars
=============================================================================
