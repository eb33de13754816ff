----------------------------- MODULE MCCutover -----------------------------
(* Two workspaces with active states a1 and b1 and a refresh of the first one
   into a3, against a deployment d1 of a2 and b2 over both, or against a
   deployment d2 of a2 that two calls activate; and the schedule of a pipeline
   whose entries e1 and e2 are both in artifact g1, and e1 alone in g2.  The
   schedule shares no variable with the rest: a behaviour is one of the part
   that Init puts in focus. *)
EXTENDS Cutover, RefreshSchedule, TLC

CONSTANTS wa, wb, a1, a2, a3, b1, b2, d1, d2, deploy, once, again, refresh,
          r1, g1, g2, e1, e2

VARIABLE focus

MCWorkspaceOf == [s \in States |-> IF s \in {a1, a2, a3} THEN wa ELSE wb]
MCTargets == deploy :> {a2, b2} @@ once :> {a2} @@ again :> {a2} @@ refresh :> {a3}
MCDeploymentOf == deploy :> d1 @@ once :> d2 @@ again :> d2 @@ refresh :> None
MCInitialPointer == [w \in Workspaces |-> IF w = wa THEN a1 ELSE b1]
MCCronsOf == g1 :> {e1, e2} @@ g2 :> {e1}
MCFires == e1 :> {1, 3, 5} @@ e2 :> {2, 4, 6}

mcVars == <<focus, cutoverVars, scheduleVars>>

MCInit == CutoverInit /\ ScheduleInit /\ focus \in {"competing", "repeated", "schedule"}

(* The deployment and the calls that are not in focus. *)
Resting == IF focus = "competing" THEN [of |-> d2, calls |-> {once, again}]
           ELSE [of |-> d1, calls |-> {deploy}]

(* What follows a cutover by itself: the cleanup of what it retired and, where
   one deployment has two calls, the release of the leases.  Here it is done
   before anything else goes on; it interleaves freely in the runs of
   MCRuntimeHost. *)
Cleanups ==
  \/ \E g \in Generations : Kick(g)
  \/ \E w \in Workspaces : WorkerNext(w) \/ WorkerClose(w) \/ WorkerFinish(w)
Releases == \E w \in Workspaces : TakeRelease(w) \/ EndRelease(w)
Settled ==
  /\ kicks = {} /\ \A w \in Workspaces : worker[w] = "off"
  /\ focus = "repeated" => \A w \in Workspaces : relq[w] = <<>> /\ relBusy[w] = NoGeneration

MCNext ==
  /\ UNCHANGED focus
  /\ \/ /\ focus # "schedule" /\ UNCHANGED scheduleVars
        /\ \/ Settled /\ CutoverNext
           \/ ~Settled /\ (Cleanups \/ (focus = "repeated" /\ Releases)) /\ UNCHANGED durableVars
        /\ deployment'[Resting.of] = "absent" /\ \A c \in Resting.calls : callPc'[c] = "idle"
     \/ focus = "schedule" /\ ScheduleNext /\ UNCHANGED cutoverVars

Symmetry == Permutations({once, again})

MCSpec == MCInit /\ [][MCNext]_mcVars

(* The state of a cutover, of the runtimes it switches and of the schedule *)
(* is of its type and agrees: pointers name active states, managers follow *)
(* the pointers, and no two dispatchers hold one occurrence.               *)
(* The part out of focus is still as Init left it.                         *)
ActivationConsistent ==
  IF focus = "schedule" THEN ScheduleConsistent ELSE CutoverConsistent
=============================================================================
