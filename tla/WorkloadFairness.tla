-------------------------- MODULE WorkloadFairness --------------------------
(***************************************************************************)
(* The admission controller with a history of who passed whom.  For a      *)
(* workspace w that waits in class c, passed[c][w] holds the workspaces of *)
(* the class that were served since w started to wait or was last served,  *)
(* and stayed[c][w] those of them that had waiters all the time since.     *)
(* passedClass[c] holds the classes that borrowed a permit since class c   *)
(* became eligible, was last served, or a class below its reservation was  *)
(* served.  The history observes the controller and never constrains it.   *)
(***************************************************************************)
EXTENDS Workload

(* classOrder is a fixed list of different classes. *)
ASSUME ClassesDiffer == IsInjective(ClassOrder)

VARIABLES passed, stayed, passedClass

history == <<passed, stayed, passedClass>>
fvars == <<vars, history>>

Served(c, w) == runningWS'[c][w] > runningWS[c][w]
ServedClass(c) == runningClass'[c] > runningClass[c]

(* The class got a permit beyond its reservation, or below it. *)
Borrowed(c) == ServedClass(c) /\ runningClass[c] >= ReservedRunning[c]
ServedReserved(c) == ServedClass(c) /\ runningClass[c] < ReservedRunning[c]

FInit == /\ Init
         /\ passed = [c \in Classes |-> [w \in AllWorkspaces |-> {}]]
         /\ stayed = [c \in Classes |-> [w \in AllWorkspaces |-> {}]]
         /\ passedClass = [c \in Classes |-> {}]

Observe ==
  /\ passed' = [c \in Classes |-> [w \in AllWorkspaces |->
       IF queues'[c][w] = <<>> \/ Served(c, w)
         THEN {}
         ELSE passed[c][w] \union {v \in AllWorkspaces : Served(c, v)}]]
  /\ stayed' = [c \in Classes |-> [w \in AllWorkspaces |->
       IF queues'[c][w] = <<>> \/ Served(c, w)
         THEN {}
         ELSE {v \in stayed[c][w] \union {x \in AllWorkspaces : Served(c, x)} :
                 queues'[c][v] # <<>>}]]
  /\ passedClass' = [c \in Classes |->
       IF ~Eligible(c)' \/ ServedClass(c) \/ (\E d \in Classes : ServedReserved(d))
         THEN {}
         ELSE passedClass[c] \union {d \in Classes : Borrowed(d)}]

FNext == Next /\ Observe

FSpec == FInit /\ [][FNext]_fvars

(* Round-robin over the workspaces of a class, as src/spec.md:682 has it: while
   a workspace waits, no other workspace is served twice. *)
WorkspacesRoundRobin ==
  [][\A c \in Classes : \A v, w \in AllWorkspaces :
        Served(c, v) /\ v # w /\ queues[c][w] # <<>> => v \notin passed[c][w]]_fvars

(* What classQueue.order and its cursor do achieve, however many workspaces
   come and go: while a workspace waits, no workspace that waits as long as it
   is served twice.  Only one that left the order can come back ahead. *)
WaitingTakeTurns ==
  [][\A c \in Classes : \A v, w \in AllWorkspaces :
        Served(c, v) /\ v # w /\ queues[c][w] # <<>> => v \notin stayed[c][w]]_fvars

(* Borrowable capacity goes round the eligible classes between any two grants
   of reserved capacity: while a class with waiters stays below its maximum, no
   other class borrows twice (nextClassLocked).  A reserved grant moves the one
   classCursor too, and the round starts anew. *)
BorrowersTakeTurns ==
  [][\A c, d \in Classes :
        Borrowed(c) /\ c # d /\ Eligible(d) => c \notin passedClass[d]]_fvars
=============================================================================
