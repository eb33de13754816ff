--------------------------- MODULE LifecycleGroup ---------------------------
(***************************************************************************)
(* The group that starts the background components of the process in order *)
(* and stops them in reverse (internal/platform/lifecycle/group.go).       *)
(* Start and Stop may be called by several goroutines at once: a Start     *)
(* joins the attempt that is under way, or waits for a stop to end and     *)
(* then starts again; a Stop cancels a running attempt, which rolls itself *)
(* back, or owns or joins the stop of a started group.                     *)
(*                                                                         *)
(* Start and stop attempts are named by their epoch: there is at most one  *)
(* of each per epoch.  Every component has both functions (a missing one   *)
(* is a call that succeeds at once).                                       *)
(***************************************************************************)
EXTENDS Naturals, FiniteSets

CONSTANTS GroupCallers,     \* goroutines that call Start and Stop
          GroupSize,        \* len(components)
          MaxEpoch          \* bound on the start attempts

ASSUME GroupAssumption == GroupSize \in Nat \ {0} /\ MaxEpoch \in Nat \ {0}

VARIABLES
  group,          \* the Group struct; 0 stands for a nil attempt
  runCancelled,   \* runCtx of the current epoch is done
  ended,          \* the attempts that are done, with their results
  call,           \* where each caller is, and the epoch it works on or waits for
  runningIn       \* for each component the epoch that started it, 0 when stopped

groupVars == <<group, runCancelled, ended, call, runningIn>>

GroupComponents == 1..GroupSize

Groups == [active : BOOLEAN,         \* cancel # nil
           started : 0..GroupSize, starting : Nat, stopping : Nat,
           stopRequested : BOOLEAN, epoch : Nat]

Attempts == [of : {"start", "stop"}, epoch : Nat, ok : BOOLEAN]

(* The phases in which a caller waits for an attempt of somebody else. *)
WaitsForStart == {"joinStart", "awaitRollback"}
WaitsForStop == {"awaitStop", "joinStop"}

(* at: the component a start is about to start;
   left: components a rollback or a stop still has to stop. *)
Calls == [phase : {"idle", "start", "starting", "rollback", "ownStop", "stopping"}
                    \union WaitsForStart \union WaitsForStop,
          epoch : Nat, at : 0..GroupSize + 1, left : 0..GroupSize]

IdleCaller == [phase |-> "idle", epoch |-> 0, at |-> 0, left |-> 0]

GroupTypeOK ==
  /\ group \in Groups /\ runCancelled \in BOOLEAN
  /\ ended \subseteq Attempts
  /\ call \in [GroupCallers -> Calls]
  /\ runningIn \in [GroupComponents -> Nat]

GroupInit ==
  /\ group = [active |-> FALSE, started |-> 0, starting |-> 0, stopping |-> 0,
              stopRequested |-> FALSE, epoch |-> 0]
  /\ runCancelled = FALSE
  /\ ended = {}
  /\ call = [p \in GroupCallers |-> IdleCaller]
  /\ runningIn = [i \in GroupComponents |-> 0]

CallerAt(p, phase) == call[p].phase = phase
GoTo(p, c) == call' = [call EXCEPT ![p] = c]
Wait(p, phase, e) == GoTo(p, [IdleCaller EXCEPT !.phase = phase, !.epoch = e])

(* The bound on epochs, counting the ones that waiting starts may open. *)
RoomToStart ==
  group.epoch + Cardinality({q \in GroupCallers : CallerAt(q, "awaitStop")}) < MaxEpoch

(* Start up to its first unlock: join what is under way, or open an epoch. *)
Enter(p) ==
  \/ /\ group.active /\ group.starting # 0
     /\ Wait(p, "joinStart", group.starting)
     /\ UNCHANGED <<group, runCancelled>>
  \/ /\ group.active /\ group.starting = 0 /\ group.stopping # 0
     /\ Wait(p, "awaitStop", group.stopping)
     /\ UNCHANGED <<group, runCancelled>>
  \/ /\ group.active /\ group.starting = 0 /\ group.stopping = 0
     /\ GoTo(p, IdleCaller)
     /\ UNCHANGED <<group, runCancelled>>
  \/ /\ ~group.active
     /\ group' = [group EXCEPT !.active = TRUE, !.epoch = @ + 1, !.starting = group.epoch + 1]
     /\ runCancelled' = FALSE
     /\ GoTo(p, [phase |-> "start", epoch |-> group.epoch + 1, at |-> 1, left |-> 0])

Start(p) ==
  /\ CallerAt(p, "idle")
  /\ RoomToStart \/ (group.active /\ (group.starting # 0 \/ group.stopping = 0))
  /\ Enter(p)
  /\ UNCHANGED <<ended, runningIn>>

(* The awaited stop is over: its error is returned, or Start is entered again. *)
StopAwaited(p) ==
  /\ CallerAt(p, "awaitStop")
  /\ \/ /\ [of |-> "stop", epoch |-> call[p].epoch, ok |-> FALSE] \in ended
        /\ GoTo(p, IdleCaller)
        /\ UNCHANGED <<group, runCancelled>>
     \/ /\ [of |-> "stop", epoch |-> call[p].epoch, ok |-> TRUE] \in ended
        /\ Enter(p)
  /\ UNCHANGED <<ended, runningIn>>

(* Defective: started is reset before it is read. *)
BeginRollbackForgets(p, have) ==
  /\ runCancelled' = TRUE
  /\ group' = [group EXCEPT !.started = 0]
  /\ GoTo(p, [call[p] EXCEPT !.phase = "rollback", !.left = 0])

(* rollbackStart up to its second lock, with have components to stop. *)
BeginRollback(p, have) ==
  /\ runCancelled' = TRUE
  /\ group' = [group EXCEPT !.started = 0]
  /\ GoTo(p, [call[p] EXCEPT !.phase = "rollback", !.left = have])

(* The head of the loop over the components. *)
NextComponent(p) ==
  /\ CallerAt(p, "start") /\ call[p].at <= GroupSize
  /\ IF runCancelled
       THEN BeginRollback(p, group.started)
       ELSE GoTo(p, [call[p] EXCEPT !.phase = "starting"]) /\ UNCHANGED <<group, runCancelled>>
  /\ UNCHANGED <<ended, runningIn>>

(* component.Start(runCtx) returns; a success is recorded before the stop
   request is looked at. *)
ComponentStarts(p) ==
  /\ CallerAt(p, "starting")
  /\ runningIn' = [runningIn EXCEPT ![call[p].at] = call[p].epoch]
  /\ IF group.stopRequested \/ runCancelled
       THEN BeginRollback(p, call[p].at)
       ELSE /\ group' = [group EXCEPT !.started = call[p].at]
            /\ GoTo(p, [call[p] EXCEPT !.phase = "start", !.at = @ + 1])
            /\ UNCHANGED runCancelled
  /\ UNCHANGED ended

ComponentFailsToStart(p) ==
  /\ CallerAt(p, "starting")
  /\ BeginRollback(p, group.started)
  /\ UNCHANGED <<ended, runningIn>>

(* Defective: the last check of the stop request is left out. *)
AllStartedUnchecked(p) ==
  /\ CallerAt(p, "start") /\ call[p].at > GroupSize
  /\ group' = [group EXCEPT !.starting = 0]
  /\ ended' = ended \union {[of |-> "start", epoch |-> call[p].epoch, ok |-> TRUE]}
  /\ GoTo(p, IdleCaller)
  /\ UNCHANGED <<runCancelled, runningIn>>

(* After the loop: a stop that was requested meanwhile still wins. *)
AllStarted(p) ==
  /\ CallerAt(p, "start") /\ call[p].at > GroupSize
  /\ IF group.stopRequested \/ runCancelled
       THEN BeginRollback(p, group.started) /\ UNCHANGED ended
       ELSE /\ group' = [group EXCEPT !.starting = 0]
            /\ ended' = ended \union {[of |-> "start", epoch |-> call[p].epoch, ok |-> TRUE]}
            /\ GoTo(p, IdleCaller)
            /\ UNCHANGED runCancelled
  /\ UNCHANGED runningIn

(* The fields that the end of a rollback or of a stop resets. *)
FreeGroup(g, of) ==
  [g EXCEPT !.active = FALSE, !.stopRequested = FALSE,
            !.starting = IF of = "start" THEN 0 ELSE @,
            !.stopping = IF of = "stop" THEN 0 ELSE @]

(* Defective: the waiters are not told (done is not closed). *)
EndAttemptSilently(p, of, ok) ==
  /\ group' = IF group.epoch = call[p].epoch THEN FreeGroup(group, of) ELSE group
  /\ GoTo(p, IdleCaller)
  /\ UNCHANGED <<ended, runCancelled, runningIn>>

(* The third lock of rollbackStart and of stopStarted: the group is free, and
   those who wait for the attempt are told. *)
EndAttempt(p, of, ok) ==
  /\ group' = IF group.epoch = call[p].epoch THEN FreeGroup(group, of) ELSE group
  /\ ended' = ended \union {[of |-> of, epoch |-> call[p].epoch, ok |-> ok]}
  /\ GoTo(p, IdleCaller)
  /\ UNCHANGED <<runCancelled, runningIn>>

RolledBack(p) ==
  /\ CallerAt(p, "rollback") /\ call[p].left = 0
  /\ EndAttempt(p, "start", FALSE)

(* Stop up to its unlock. *)
Stop(p) ==
  /\ CallerAt(p, "idle") /\ group.active
  /\ runCancelled' = TRUE
  /\ \/ /\ group.starting # 0
        /\ group' = [group EXCEPT !.stopRequested = TRUE]
        /\ Wait(p, "awaitRollback", group.starting)
     \/ /\ group.starting = 0 /\ group.stopping # 0
        /\ group' = [group EXCEPT !.stopRequested = TRUE]
        /\ Wait(p, "joinStop", group.stopping)
     \/ /\ group.starting = 0 /\ group.stopping = 0
        /\ group' = [group EXCEPT !.stopRequested = TRUE, !.stopping = group.epoch]
        /\ Wait(p, "ownStop", group.epoch)
  /\ UNCHANGED <<ended, runningIn>>

(* stopStarted up to its unlock, for the owner of the stop attempt. *)
StopStarted(p) ==
  /\ CallerAt(p, "ownStop")
  /\ IF group.epoch # call[p].epoch
       THEN GoTo(p, IdleCaller) /\ UNCHANGED group
       ELSE /\ group' = [group EXCEPT !.started = 0]
            /\ GoTo(p, [call[p] EXCEPT !.phase = "stopping", !.left = group.started])
  /\ UNCHANGED <<runCancelled, ended, runningIn>>

(* The loops of stopStarted and rollbackStart, last component first. *)
ComponentStops(p) ==
  /\ call[p].phase \in {"rollback", "stopping"} /\ call[p].left > 0
  /\ runningIn' = [runningIn EXCEPT ![call[p].left] = 0]
  /\ GoTo(p, [call[p] EXCEPT !.left = @ - 1])
  /\ UNCHANGED <<group, runCancelled, ended>>

(* ok: every component stopped cleanly. *)
StopEnds(p) ==
  /\ CallerAt(p, "stopping") /\ call[p].left = 0
  /\ \E ok \in BOOLEAN : EndAttempt(p, "stop", ok)

(* The attempt a caller waits for is done, and its result is returned. *)
WaitEnds(p) ==
  /\ call[p].phase \in WaitsForStart \union {"joinStop"}
  /\ \E a \in ended : /\ a.epoch = call[p].epoch
                      /\ a.of = IF CallerAt(p, "joinStop") THEN "stop" ELSE "start"
  /\ GoTo(p, IdleCaller)
  /\ UNCHANGED <<group, runCancelled, ended, runningIn>>

(* The context of a waiting call ends. *)
GiveUp(p) ==
  /\ call[p].phase \in WaitsForStart \union WaitsForStop
  /\ GoTo(p, IdleCaller)
  /\ UNCHANGED <<group, runCancelled, ended, runningIn>>

(* The context the current epoch was started with ends. *)
StartContextEnds ==
  /\ group.active /\ ~runCancelled
  /\ runCancelled' = TRUE
  /\ UNCHANGED <<group, ended, call, runningIn>>

GroupStep(p) ==
  \/ StopAwaited(p) \/ NextComponent(p) \/ ComponentStarts(p) \/ ComponentFailsToStart(p)
  \/ AllStarted(p) \/ RolledBack(p) \/ StopStarted(p) \/ ComponentStops(p) \/ StopEnds(p)
  \/ WaitEnds(p)

GroupNext ==
  \/ \E p \in GroupCallers : GroupStep(p) \/ Start(p) \/ Stop(p) \/ GiveUp(p)
  \/ StartContextEnds

(* A call that was made goes on: the components' functions return, and
   goroutines are scheduled.  Calls and contexts' ends are the callers' choice. *)
GroupFairness == \A p \in GroupCallers : WF_groupVars(GroupStep(p))

GroupSpec == GroupInit /\ [][GroupNext]_groupVars /\ GroupFairness

(* A group that is free has nothing running; one that is neither starting nor
   stopping has everything running; and whatever runs belongs to the current
   epoch: no start, stop or failure in between leaves a component behind. *)
NothingLeftRunning ==
  /\ ~group.active => \A i \in GroupComponents : runningIn[i] = 0
  /\ group.active /\ group.starting = 0 /\ group.stopping = 0
       => \A i \in GroupComponents : runningIn[i] = group.epoch
  /\ \A i \in GroupComponents : runningIn[i] \in {0, group.epoch}

(* Components start after all the ones before them in the list, and stop
   after all the ones behind them, across every epoch and rollback. *)
StackOrder ==
  [][\A i \in GroupComponents :
       /\ runningIn[i] = 0 /\ runningIn'[i] # 0
            => \A j \in 1..i - 1 : runningIn[j] = runningIn'[i]
       /\ runningIn[i] # 0 /\ runningIn'[i] = 0
            => \A j \in i + 1..GroupSize : runningIn[j] = 0]_groupVars

(* A call of Stop returns, other than because its own context ended. *)
StopReturns(p) ==
  \/ StopEnds(p)
  \/ StopStarted(p) /\ call'[p] = IdleCaller
  \/ WaitEnds(p) /\ call[p].phase \in {"awaitRollback", "joinStop"}

(* A Stop that returns without giving up has ended the epoch it was called in:
   none of that epoch's components runs, also when it only waited for a start
   to roll itself back ("there is no active epoch left to stop"). *)
StopReturnsStopped ==
  [][\A p \in GroupCallers : StopReturns(p)
        => \A i \in GroupComponents : runningIn[i] # call[p].epoch]_groupVars

(* Components stop in order, and a Stop that returns has stopped them. *)
OrderlyStops == StackOrder /\ StopReturnsStopped

(* A stop request ends with the epoch it was made in, so that it never rolls
   back a later start: while one is pending, that epoch's context is done. *)
StopRequestStaysInEpoch ==
  group.stopRequested => group.active /\ runCancelled

(* The phases in which a caller owns the attempt that is under way. *)
OwnsStart == {"start", "starting", "rollback"}
OwnsStop == {"ownStop", "stopping"}

(* At most one attempt is under way, of the current epoch and owned by one caller. *)
OneAttempt ==
  /\ group.starting \in {0, group.epoch} /\ group.stopping \in {0, group.epoch}
  /\ group.starting = 0 \/ group.stopping = 0
  /\ IF group.active THEN group.epoch # 0 ELSE group.starting = 0 /\ group.stopping = 0
  /\ \A p \in GroupCallers :
       /\ call[p].phase \in OwnsStart \union OwnsStop => call[p].epoch = group.epoch
       /\ call[p].phase \in OwnsStart => group.starting # 0
       /\ call[p].phase \in OwnsStop => group.stopping # 0
  /\ \A p, q \in GroupCallers :
       {call[p].phase, call[q].phase} \subseteq OwnsStart \union OwnsStop => p = q

(* The first n components run, and no other. *)
RunningUpTo(n) ==
  \A i \in GroupComponents : runningIn[i] = IF i <= n THEN group.epoch ELSE 0

(* What runs, and what is recorded of it, is what the owner has got to. *)
OwnerKnowsWhatRuns ==
  \A p \in GroupCallers :
    /\ call[p].phase \in {"start", "starting"} =>
         group.started = call[p].at - 1 /\ RunningUpTo(group.started)
    /\ CallerAt(p, "starting") => call[p].at <= GroupSize
    /\ call[p].phase \in {"rollback", "stopping"} =>
         group.started = 0 /\ RunningUpTo(call[p].left)
    /\ CallerAt(p, "ownStop") => group.started = GroupSize /\ RunningUpTo(GroupSize)

(* A free group has recorded no component, a started one all of them. *)
StartedRecorded ==
  /\ ~group.active => group.started = 0
  /\ group.active /\ group.starting = 0 /\ group.stopping = 0 => group.started = GroupSize

(* An attempt that is done is over for good: of the current epoch, a start is no
   longer under way and a stop has left the group free.  Who waits for a start to
   roll itself back waits for one that will. *)
AttemptsEnd ==
  /\ \A a \in ended :
       /\ a.epoch <= group.epoch
       /\ a.epoch = group.epoch =>
            IF a.of = "start" THEN group.starting = 0 ELSE ~group.active
  /\ \A p \in GroupCallers :
       /\ call[p].phase \in WaitsForStart \union WaitsForStop =>
            call[p].epoch \in 1..group.epoch
       /\ CallerAt(p, "awaitRollback") /\ call[p].epoch = group.epoch /\ group.active =>
            group.starting # 0 /\ group.stopRequested

(* The types, the scope of a stop request, and who owns what. *)
GroupConsistent ==
  /\ GroupTypeOK /\ StopRequestStaysInEpoch
  /\ OneAttempt /\ OwnerKnowsWhatRuns /\ StartedRecorded /\ AttemptsEnd

(* Every call returns, once the components' own functions do. *)
GroupCallsReturn ==
  \A p \in GroupCallers : ~CallerAt(p, "idle") ~> CallerAt(p, "idle")
=============================================================================
