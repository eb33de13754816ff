------------------------------ MODULE Workload ------------------------------
(***************************************************************************)
(* The node's workload admission controller (internal/workload).           *)
(*                                                                         *)
(* Callers are goroutines that Acquire a permit, hold its lease and        *)
(* Release it, again and again.  The controller's mutex is held by a       *)
(* caller whose pc is in InLock: scheduleLocked runs one grant per step in *)
(* such a state, and no other critical section starts before the loop is   *)
(* done.  Cursors count from 0, as in the code.                            *)
(***************************************************************************)
EXTENDS Naturals, Sequences, FiniteSets, SequencesExt

CONSTANTS Callers,                   \* goroutines that ask for admission
          ClassOrder,                \* classOrder
          NodeClasses,               \* classes normalised to the node workspace
          Workspaces,                \* workspaces of the other classes
          NodeWorkspace,             \* "_node"
          NoRequest,                 \* the caller is not in Acquire
          MaxRunning,                \* node limit of running leases
          MaximumQueued,             \* node limit of waiters
          ReservedRunning,           \* the policy of each class ...
          MaximumRunning,
          ClassMaximumQueued,
          MaximumQueuedPerWorkspace,
          TimedClasses               \* ... and the classes with a QueueTimeout

Classes == ToSet(ClassOrder)
AllWorkspaces == Workspaces \union {NodeWorkspace}

(* Config.Validate. *)
ValidConfig ==
  /\ MaxRunning \in Nat /\ MaximumQueued \in Nat
  /\ ClassOrder \in Seq(Classes) /\ Len(ClassOrder) > 0
  /\ ReservedRunning \in [Classes -> Nat] /\ MaximumRunning \in [Classes -> Nat]
  /\ ClassMaximumQueued \in [Classes -> Nat] /\ MaximumQueuedPerWorkspace \in [Classes -> Nat]
  /\ \A c \in Classes : /\ ReservedRunning[c] <= MaximumRunning[c]
                        /\ MaximumRunning[c] <= MaxRunning
                        /\ MaximumQueuedPerWorkspace[c] <= ClassMaximumQueued[c]

ASSUME ConfigAssumption == ValidConfig

VARIABLES closed,        \* Controller.closed
          running,       \* Controller.running
          runningClass,  \* Controller.runningClass
          runningWS,     \* Controller.runningWS
          active,        \* Controller.active, the callers whose lease it is
          queues,        \* classQueue.workspaces
          order,         \* classQueue.order
          cursor,        \* classQueue.cursor
          queued,        \* classQueue.queued
          classCursor,   \* Controller.classCursor
          request,       \* the class and workspace each caller asks for
          state,         \* waiter.state
          result,        \* what is in waiter.result
          parentDone,    \* the caller's context is done
          leaseDone,     \* the lease's execution context is done
          pc,            \* where the caller is
          toNotify,      \* waiters that Close still sends a result to
          toCancel       \* leases that Close still cancels

counters == <<running, runningClass, runningWS, active>>
queueVars == <<queues, order, cursor, queued>>
waiterVars == <<request, state, result>>
contexts == <<parentDone, leaseDone>>
closeVars == <<closed, toNotify, toCancel>>
vars == <<counters, queueVars, classCursor, waiterVars, contexts, pc, closeVars>>

InLock == {"acquire", "cancel", "release"}
PCs == InLock \union {"idle", "select", "ctxDone", "timedOut", "holding", "dropping"}
Free == \A p \in Callers : pc[p] \notin InLock

Requests == [class : Classes, workspace : AllWorkspaces]
ClassOf(p) == request[p].class
WorkspaceOf(p) == request[p].workspace

Init == /\ closed = FALSE /\ toNotify = {} /\ toCancel = {}
        /\ running = 0
        /\ runningClass = [c \in Classes |-> 0]
        /\ runningWS = [c \in Classes |-> [w \in AllWorkspaces |-> 0]]
        /\ active = {}
        /\ queues = [c \in Classes |-> [w \in AllWorkspaces |-> <<>>]]
        /\ order = [c \in Classes |-> <<>>]
        /\ cursor = [c \in Classes |-> 0]
        /\ queued = [c \in Classes |-> 0]
        /\ classCursor = 0
        /\ request = [p \in Callers |-> NoRequest]
        /\ state = [p \in Callers |-> "none"]
        /\ result = [p \in Callers |-> "empty"]
        /\ parentDone = [p \in Callers |-> FALSE]
        /\ leaseDone = [p \in Callers |-> FALSE]
        /\ pc = [p \in Callers |-> "idle"]

-----------------------------------------------------------------------------
(* classQueue: a FIFO per workspace and a cursor over the workspaces that
   have waiters. *)

enqueue(p, c, w) ==
  /\ queues' = [queues EXCEPT ![c][w] = Append(@, p)]
  /\ order' = [order EXCEPT ![c] = IF queues[c][w] = <<>> THEN Append(@, w) ELSE @]
  /\ queued' = [queued EXCEPT ![c] = @ + 1]
  /\ UNCHANGED cursor

(* Where pop looks, and whom it takes. *)
Position(c) == IF cursor[c] >= Len(order[c]) THEN 0 ELSE cursor[c]
NextWorkspace(c) == order[c][Position(c) + 1]
NextWaiter(c) == Head(queues[c][NextWorkspace(c)])

(* Defective: a workspace that became empty stays in the order. *)
popKeepsOrder(c) ==
  LET w == NextWorkspace(c)
  IN /\ queues' = [queues EXCEPT ![c][w] = Tail(@)]
     /\ queued' = [queued EXCEPT ![c] = @ - 1]
     /\ cursor' = [cursor EXCEPT ![c] = (Position(c) + 1) % Len(order[c])]
     /\ UNCHANGED order

(* Defective: the cursor stays on a workspace that still has waiters. *)
popKeepsCursor(c) ==
  LET w == NextWorkspace(c)
      last == Len(queues[c][w]) = 1
  IN /\ queues' = [queues EXCEPT ![c][w] = Tail(@)]
     /\ queued' = [queued EXCEPT ![c] = @ - 1]
     /\ order' = [order EXCEPT ![c] = IF last THEN RemoveAt(@, Position(c) + 1) ELSE @]
     /\ cursor' = [cursor EXCEPT ![c] =
          IF last /\ Position(c) >= Len(order[c]) - 1 THEN 0 ELSE Position(c)]

pop(c) ==
  LET w == NextWorkspace(c)
      last == Len(queues[c][w]) = 1
  IN /\ queues' = [queues EXCEPT ![c][w] = Tail(@)]
     /\ queued' = [queued EXCEPT ![c] = @ - 1]
     /\ order' = [order EXCEPT ![c] = IF last THEN RemoveAt(@, Position(c) + 1) ELSE @]
     /\ cursor' = [cursor EXCEPT ![c] =
          IF last THEN IF Position(c) >= Len(order[c]) - 1 THEN 0 ELSE Position(c)
                  ELSE (Position(c) + 1) % Len(order[c])]

(* A workspace that leaves the order before the cursor moves the cursor. *)
remove(p) ==
  LET c == ClassOf(p)
      w == WorkspaceOf(p)
      last == Len(queues[c][w]) = 1
      index == SelectInSeq(order[c], LAMBDA x : x = w) - 1
      moved == IF index < cursor[c] THEN cursor[c] - 1 ELSE cursor[c]
  IN /\ queues' = [queues EXCEPT ![c][w] = RemoveFirst(@, p)]
     /\ queued' = [queued EXCEPT ![c] = @ - 1]
     /\ order' = [order EXCEPT ![c] = IF last THEN RemoveFirst(@, w) ELSE @]
     /\ cursor' = [cursor EXCEPT ![c] =
          IF ~last THEN @ ELSE IF moved >= Len(order[c]) - 1 THEN 0 ELSE moved]

-----------------------------------------------------------------------------
(* scheduleLocked. *)

(* Defective: the class maximum is not consulted. *)
EligibleIgnoresMaximum(c) == queued[c] > 0

(* A class with waiters below its maximum, and below its reservation. *)
Eligible(c) == queued[c] > 0 /\ runningClass[c] < MaximumRunning[c]
Reserved(c) == Eligible(c) /\ runningClass[c] < ReservedRunning[c]
Schedulable == ~closed /\ running < MaxRunning /\ \E c \in Classes : Eligible(c)

Offsets == 0 .. Len(ClassOrder) - 1
ClassAt(o) == ClassOrder[((classCursor + o) % Len(ClassOrder)) + 1]

(* nextClassLocked, first for classes below their reservation and then for
   every class: the first one from the cursor on. *)
nextClassLocked(o) ==
  IF \E c \in Classes : Reserved(c)
    THEN Reserved(ClassAt(o)) /\ \A q \in Offsets : q < o => ~Reserved(ClassAt(q))
    ELSE Eligible(ClassAt(o)) /\ \A q \in Offsets : q < o => ~Eligible(ClassAt(q))

(* Defective: the class cursor is never advanced. *)
ClassCursorStays(o) == classCursor

(* classCursor after the class at offset o was chosen. *)
ClassCursorAfter(o) == (classCursor + o + 1) % Len(ClassOrder)

(* One turn of the loop: the next waiter of the class is granted a lease and
   the lease is put into its channel. *)
Grant(o) ==
  LET c == ClassAt(o)
      p == NextWaiter(c)
  IN /\ ~Free /\ Schedulable
     /\ nextClassLocked(o)
     /\ classCursor' = ClassCursorAfter(o)
     /\ pop(c)
     /\ running' = running + 1
     /\ runningClass' = [runningClass EXCEPT ![c] = @ + 1]
     /\ runningWS' = [runningWS EXCEPT ![c][WorkspaceOf(p)] = @ + 1]
     /\ active' = active \union {p}
     /\ state' = [state EXCEPT ![p] = "granted"]
     /\ result' = [result EXCEPT ![p] = "lease"]
     /\ UNCHANGED <<request, contexts, pc, closeVars>>

-----------------------------------------------------------------------------
(* Acquire. *)

(* Acquire returns an error: the waiter is dropped. *)
Fails(p) == /\ request' = [request EXCEPT ![p] = NoRequest]
            /\ state' = [state EXCEPT ![p] = "none"]
            /\ result' = [result EXCEPT ![p] = "empty"]
            /\ parentDone' = [parentDone EXCEPT ![p] = FALSE]
            /\ pc' = [pc EXCEPT ![p] = "idle"]

(* Acquire returns the lease that was in the channel. *)
Admits(p) == /\ result' = [result EXCEPT ![p] = "empty"]
             /\ pc' = [pc EXCEPT ![p] = "holding"]
             /\ UNCHANGED <<request, state, parentDone>>

(* A request on a closed controller is rejected at once; so are invalid and
   conflicting nested requests, and a matching nested one reuses the lease. *)
AcquireShutdown(p) == /\ pc[p] = "idle" /\ Free /\ closed
                      /\ UNCHANGED vars

Acquire(p, c, w) ==
  LET ws == IF c \in NodeClasses THEN NodeWorkspace ELSE w
  IN /\ pc[p] = "idle" /\ Free /\ ~closed
     /\ request' = [request EXCEPT ![p] = [class |-> c, workspace |-> ws]]
     /\ state' = [state EXCEPT ![p] = "waiting"]
     /\ enqueue(p, c, ws)
     /\ pc' = [pc EXCEPT ![p] = "acquire"]
     /\ UNCHANGED <<counters, classCursor, result, contexts, closeVars>>

(* queueLimitReasonLocked # "": the new waiter is one too many for the node,
   its class or its workspace. *)
TotalQueued == LET sum[i \in 0 .. Len(ClassOrder)] ==
                     IF i = 0 THEN 0 ELSE sum[i - 1] + queued[ClassOrder[i]]
               IN sum[Len(ClassOrder)]

OverLimit(p) ==
  \/ TotalQueued > MaximumQueued
  \/ queued[ClassOf(p)] > ClassMaximumQueued[ClassOf(p)]
  \/ Len(queues[ClassOf(p)][WorkspaceOf(p)]) > MaximumQueuedPerWorkspace[ClassOf(p)]

AcquireGranted(p) == /\ pc[p] = "acquire" /\ ~Schedulable
                     /\ state[p] = "granted"
                     /\ Admits(p)
                     /\ UNCHANGED <<counters, queueVars, classCursor, leaseDone, closeVars>>

AcquireRejected(p) == /\ pc[p] = "acquire" /\ ~Schedulable
                      /\ state[p] = "waiting" /\ OverLimit(p)
                      /\ remove(p)
                      /\ Fails(p)
                      /\ UNCHANGED <<counters, classCursor, leaseDone, closeVars>>

AcquireWaits(p) == /\ pc[p] = "acquire" /\ ~Schedulable
                   /\ state[p] = "waiting" /\ ~OverLimit(p)
                   /\ pc' = [pc EXCEPT ![p] = "select"]
                   /\ UNCHANGED <<counters, queueVars, classCursor, waiterVars, contexts, closeVars>>

(* The three cases of the select. *)
ReceiveResult(p) ==
  /\ pc[p] = "select" /\ result[p] # "empty"
  /\ CASE result[p] = "shutdown" -> Fails(p)
       [] result[p] = "lease" /\ ~parentDone[p] -> Admits(p)
       [] result[p] = "lease" /\ parentDone[p] ->
            /\ result' = [result EXCEPT ![p] = "empty"]
            /\ pc' = [pc EXCEPT ![p] = "dropping"]
            /\ UNCHANGED <<request, state, parentDone>>
  /\ UNCHANGED <<counters, queueVars, classCursor, leaseDone, closeVars>>

SelectCtxDone(p) == /\ pc[p] = "select" /\ parentDone[p]
                    /\ pc' = [pc EXCEPT ![p] = "ctxDone"]
                    /\ UNCHANGED <<counters, queueVars, classCursor, waiterVars, contexts, closeVars>>

SelectTimeout(p) == /\ pc[p] = "select" /\ ClassOf(p) \in TimedClasses
                    /\ pc' = [pc EXCEPT ![p] = "timedOut"]
                    /\ UNCHANGED <<counters, queueVars, classCursor, waiterVars, contexts, closeVars>>

(* cancelWaiter of a waiter that is still queued. *)
CancelWaiter(p) == /\ pc[p] \in {"ctxDone", "timedOut"} /\ Free
                   /\ state[p] = "waiting"
                   /\ remove(p)
                   /\ state' = [state EXCEPT ![p] = "rejected"]
                   /\ pc' = [pc EXCEPT ![p] = "cancel"]
                   /\ UNCHANGED <<counters, classCursor, request, result, contexts, closeVars>>

(* Defective: a caller that timed out does not look for a lease that was
   granted meanwhile. *)
CancelLosesLease(p) ==
  /\ pc[p] \in {"ctxDone", "timedOut"} /\ Free
  /\ state[p] # "waiting"
  /\ Fails(p)
  /\ UNCHANGED <<counters, queueVars, classCursor, leaseDone, closeVars>>

(* cancelWaiter that comes too late: a lease in the channel is kept by a
   timed-out caller and released by a cancelled one. *)
CancelLost(p) ==
  /\ pc[p] \in {"ctxDone", "timedOut"} /\ Free
  /\ state[p] # "waiting"
  /\ IF result[p] = "lease"
       THEN IF pc[p] = "timedOut" /\ ~parentDone[p]
              THEN Admits(p)
              ELSE /\ result' = [result EXCEPT ![p] = "empty"]
                   /\ pc' = [pc EXCEPT ![p] = "dropping"]
                   /\ UNCHANGED <<request, state, parentDone>>
       ELSE Fails(p)
  /\ UNCHANGED <<counters, queueVars, classCursor, leaseDone, closeVars>>

(* Defective: neither of them runs the scheduling loop. *)
LeaveLockUnscheduled(p) ==
  /\ pc[p] \in {"cancel", "release"}
  /\ Fails(p)
  /\ UNCHANGED <<counters, queueVars, classCursor, leaseDone, closeVars>>

(* The end of cancelWaiter and of Release, after their scheduling loop. *)
LeaveLock(p) == /\ pc[p] \in {"cancel", "release"} /\ ~Schedulable
                /\ Fails(p)
                /\ UNCHANGED <<counters, queueVars, classCursor, leaseDone, closeVars>>

-----------------------------------------------------------------------------
(* Leases. *)

(* Release; sync.Once makes every further Release of the lease a no-op. *)
Release(p) ==
  LET c == ClassOf(p)
      w == WorkspaceOf(p)
  IN /\ pc[p] \in {"holding", "dropping"} /\ Free
     /\ running' = running - 1
     /\ runningClass' = [runningClass EXCEPT ![c] = @ - 1]
     /\ runningWS' = [runningWS EXCEPT ![c][w] = @ - 1]
     /\ active' = active \ {p}
     /\ leaseDone' = [leaseDone EXCEPT ![p] = FALSE]
     /\ pc' = [pc EXCEPT ![p] = "release"]
     /\ UNCHANGED <<queueVars, classCursor, waiterVars, parentDone, closeVars>>

(* The policy's ExecutionTimeout ends the lease's context. *)
ExecutionDeadline(p) == /\ pc[p] = "holding" /\ ~leaseDone[p]
                        /\ leaseDone' = [leaseDone EXCEPT ![p] = TRUE]
                        /\ UNCHANGED <<counters, queueVars, classCursor, waiterVars, parentDone, pc, closeVars>>

(* The caller's own context ends while it waits. *)
ParentDone(p) == /\ pc[p] \in {"select", "timedOut"} /\ ~parentDone[p]
                 /\ parentDone' = [parentDone EXCEPT ![p] = TRUE]
                 /\ UNCHANGED <<counters, queueVars, classCursor, waiterVars, leaseDone, pc, closeVars>>

-----------------------------------------------------------------------------
(* Close: the waiters are rejected and the queues emptied under the lock;
   leases are cancelled and results sent after it. *)

InOrder(p) == \E c \in Classes : \E w \in ToSet(order[c]) : p \in ToSet(queues[c][w])

Close == /\ ~closed /\ Free
         /\ closed' = TRUE
         /\ toNotify' = {p \in Callers : InOrder(p)}
         /\ toCancel' = active
         /\ state' = [p \in Callers |-> IF InOrder(p) THEN "rejected" ELSE state[p]]
         /\ queues' = [c \in Classes |-> [w \in AllWorkspaces |-> <<>>]]
         /\ order' = [c \in Classes |-> <<>>]
         /\ cursor' = [c \in Classes |-> 0]
         /\ queued' = [c \in Classes |-> 0]
         /\ UNCHANGED <<counters, classCursor, request, result, contexts, pc>>

CloseCancels(p) == /\ p \in toCancel
                   /\ toCancel' = toCancel \ {p}
                   /\ leaseDone' = [leaseDone EXCEPT ![p] = p \in active]
                   /\ UNCHANGED <<closed, toNotify, counters, queueVars, classCursor,
                                  waiterVars, parentDone, pc>>

(* Defective: Close rejects the waiters but sends them nothing. *)
CloseForgetsWaiters(p) == /\ p \in toNotify /\ toCancel = {}
                          /\ toNotify' = toNotify \ {p}
                          /\ UNCHANGED <<closed, toCancel, counters, queueVars, classCursor,
                                         waiterVars, contexts, pc>>

(* A waiter that gave up meanwhile leaves its channel to the collector. *)
CloseNotifies(p) == /\ p \in toNotify /\ toCancel = {}
                    /\ toNotify' = toNotify \ {p}
                    /\ result' = [result EXCEPT ![p] =
                         IF state[p] = "rejected" THEN "shutdown" ELSE @]
                    /\ UNCHANGED <<closed, toCancel, counters, queueVars, classCursor,
                                   request, state, contexts, pc>>

Caller(p) == \/ \E c \in Classes, w \in Workspaces : Acquire(p, c, w)
             \/ AcquireShutdown(p) \/ AcquireGranted(p) \/ AcquireRejected(p) \/ AcquireWaits(p)
             \/ ReceiveResult(p) \/ SelectCtxDone(p) \/ SelectTimeout(p)
             \/ CancelWaiter(p) \/ CancelLost(p) \/ LeaveLock(p)
             \/ Release(p) \/ ExecutionDeadline(p) \/ ParentDone(p)
             \/ CloseCancels(p) \/ CloseNotifies(p)

Next == \/ \E p \in Callers : Caller(p)
        \/ \E o \in Offsets : Grant(o)
        \/ Close

Spec == Init /\ [][Next]_vars

-----------------------------------------------------------------------------
(* Properties. *)

(* Every variable has its type. *)
TypeOK == /\ closed \in BOOLEAN
          /\ toNotify \subseteq Callers /\ toCancel \subseteq Callers /\ active \subseteq Callers
          /\ running \in Nat
          /\ runningClass \in [Classes -> Nat]
          /\ runningWS \in [Classes -> [AllWorkspaces -> Nat]]
          /\ queues \in [Classes -> [AllWorkspaces -> Seq(Callers)]]
          /\ order \in [Classes -> Seq(AllWorkspaces)]
          /\ cursor \in [Classes -> Nat] /\ queued \in [Classes -> Nat]
          /\ classCursor \in Offsets
          /\ request \in [Callers -> Requests \union {NoRequest}]
          /\ state \in [Callers -> {"none", "waiting", "granted", "rejected"}]
          /\ result \in [Callers -> {"empty", "lease", "shutdown"}]
          /\ parentDone \in [Callers -> BOOLEAN] /\ leaseDone \in [Callers -> BOOLEAN]
          /\ pc \in [Callers -> PCs]

(* Who waits and who has a lease, in a class and with a request. *)
WaitingIn(c) == {p \in Callers : state[p] = "waiting" /\ ClassOf(p) = c}
WaitingFor(c, w) ==
  {p \in Callers : state[p] = "waiting" /\ request[p] = [class |-> c, workspace |-> w]}
LeasesIn(c) == {p \in active : ClassOf(p) = c}
LeasesFor(c, w) == {p \in active : request[p] = [class |-> c, workspace |-> w]}

(* The node and class counters count exactly the leases that are out, so a
   grant that raced a timeout, a cancellation or Close is neither leaked nor
   given back twice. *)
CountersMatchLeases ==
  /\ running = Cardinality(active)
  /\ \A c \in Classes : runningClass[c] = Cardinality(LeasesIn(c))
  /\ \A c \in Classes, w \in AllWorkspaces : runningWS[c][w] = Cardinality(LeasesFor(c, w))

(* Every lease that is out has somebody who will release it: its caller holds
   it, is about to drop it, or will find it in the channel. *)
NoLeaseLost ==
  \A p \in Callers :
    p \in active <=> \/ pc[p] \in {"holding", "dropping"}
                     \/ /\ result[p] = "lease"
                        /\ pc[p] \in {"acquire", "select", "ctxDone", "timedOut"}

(* Admission never exceeds the node limit or a class limit. *)
WithinLimits == /\ running <= MaxRunning
                /\ \A c \in Classes : runningClass[c] <= MaximumRunning[c]

(* The four fields of a classQueue agree after any mix of enqueue, pop and
   remove: the order lists the workspaces with waiters once each, the counter
   counts the waiters, the cursor is inside the order, and the queued callers
   are the waiting ones, once each, under their own class and workspace. *)
QueueConsistent(c) ==
  /\ IsInjective(order[c])
  /\ ToSet(order[c]) = {w \in AllWorkspaces : queues[c][w] # <<>>}
  /\ cursor[c] < Len(order[c]) \/ cursor[c] = 0
  /\ queued[c] = Cardinality(WaitingIn(c))
  /\ \A w \in AllWorkspaces : /\ IsInjective(queues[c][w])
                              /\ ToSet(queues[c][w]) = WaitingFor(c, w)

QueuesConsistent == \A c \in Classes : QueueConsistent(c)

(* Outside the lock no queue is longer than its class, workspace and node
   limits allow. *)
QueuesBounded ==
  Free => /\ TotalQueued <= MaximumQueued
          /\ \A c \in Classes :
               /\ queued[c] <= ClassMaximumQueued[c]
               /\ \A w \in AllWorkspaces : Len(queues[c][w]) <= MaximumQueuedPerWorkspace[c]

(* Work conservation: when nobody is in the lock, a waiter waits only because
   the node or its class is full. *)
WorkConserving == Free => ~Schedulable

(* Once Close has run through, every lease it found is cancelled and no
   waiter is left without an answer. *)
CloseReachesEveryone ==
  closed /\ toCancel = {} => /\ \A p \in active : leaseDone[p]
                             /\ \A p \in Callers : pc[p] = "select" /\ p \notin toNotify
                                                     => result[p] # "empty"

(* Where Acquire can be while the waiter's fate is open. *)
Deciding == {"acquire", "select", "ctxDone", "timedOut"}

(* What the waiter, its channel and its lease look like at each place of the
   caller: a waiter is queued, granted with its lease in the channel, or
   rejected by Close, whose answer is in the channel or on its way. *)
CallerAgrees(p) ==
  \/ pc[p] = "idle" /\ state[p] = "none" /\ result[p] = "empty" /\ p \notin active
  \/ /\ request[p] \in Requests
     /\ \/ /\ pc[p] \in Deciding /\ state[p] = "waiting" /\ result[p] = "empty"
           /\ p \notin active /\ ~closed
        \/ pc[p] \in Deciding /\ state[p] = "granted" /\ result[p] = "lease" /\ p \in active
        \/ /\ pc[p] \in Deciding \ {"acquire"} /\ state[p] = "rejected" /\ p \notin active
           /\ (result[p] = "shutdown" \/ (result[p] = "empty" /\ p \in toNotify))
        \/ /\ pc[p] \in {"holding", "dropping"} /\ state[p] = "granted"
           /\ result[p] = "empty" /\ p \in active
        \/ pc[p] = "cancel" /\ state[p] = "rejected" /\ result[p] = "empty" /\ p \notin active
        \/ pc[p] = "release" /\ state[p] = "granted" /\ result[p] = "empty" /\ p \notin active

(* The mutex: at most one caller is in the lock, and Close is not. *)
OneInLock == /\ \A p, q \in Callers : pc[p] \in InLock /\ pc[q] \in InLock => p = q
             /\ \A p \in Callers : pc[p] \in {"acquire", "cancel"} => ~closed

(* Only Close collects waiters and leases, and the leases it has dealt with
   are cancelled. *)
CloseProgresses == /\ closed \/ (toNotify = {} /\ toCancel = {})
                   /\ closed => \A p \in active \ toCancel : leaseDone[p]

(* The types and the bookkeeping that the controller's promises rest on, in
   every race of grant, timeout, cancellation and Close. *)
Consistent == /\ TypeOK /\ CountersMatchLeases
              /\ QueuesConsistent /\ QueuesBounded /\ CloseReachesEveryone
              /\ (\A p \in Callers : CallerAgrees(p)) /\ OneInLock /\ CloseProgresses

-----------------------------------------------------------------------------
(* Fairness: critical sections end, a goroutine whose select has a ready case
   runs, timers fire, Close finishes, and work that is admitted ends. *)
Fairness ==
  /\ WF_vars(\E o \in Offsets : Grant(o))
  /\ \A p \in Callers :
       /\ WF_vars(AcquireGranted(p) \/ AcquireRejected(p) \/ AcquireWaits(p) \/ LeaveLock(p))
       /\ WF_vars(ReceiveResult(p) \/ SelectTimeout(p) \/ SelectCtxDone(p))
       /\ SF_vars(CancelWaiter(p) \/ CancelLost(p))
       /\ SF_vars(Release(p))
       /\ WF_vars(CloseCancels(p)) /\ WF_vars(CloseNotifies(p))

FairSpec == Spec /\ Fairness

(* An Acquire that waits returns, with a lease or with an error, through grants,
   cancellations and Close alike. *)
WaiterReturns(p) == pc[p] = "select" ~> pc[p] \in {"holding", "idle"}
=============================================================================
