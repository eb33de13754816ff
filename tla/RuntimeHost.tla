---------------------------- MODULE RuntimeHost ----------------------------
(***************************************************************************)
(* The process-local runtime host: one Manager per workspace (manager.go)  *)
(* behind the Registry that serializes cutovers (registry.go).             *)
(*                                                                         *)
(* A generation is one prepared runtime with its managed-data lifetime and *)
(* its persistent snapshot lease.  It is prepared by an activation call,   *)
(* published by swapping Manager.current, kept alive by the readers that   *)
(* acquired it, retired by the next publication, and closed by the one     *)
(* cleanup worker of its workspace.  The durable half of an activation     *)
(* (the callback) is left open here: it commits or it is refused.  Module  *)
(* Cutover supplies it.                                                    *)
(***************************************************************************)
EXTENDS Naturals, FiniteSets, SequencesExt

CONSTANTS Workspaces,      \* one Manager each
          States,          \* serving states
          WorkspaceOf,     \* State.WorkspaceID
          Readers,         \* requests that hold a runtimeLease
          Calls,           \* calls of Registry.Activate...
          Targets,         \* the serving states a call prepares
          MaxGenerations,  \* bound: runtime generations ever prepared
          QueueCapacity,   \* LeaseReleaseQueueCapacity
          MayShutDown,     \* Registry.Close may be called
          MayExpire,       \* leases without a heartbeat may reach their expiry
          RenewalMayFail,  \* the heartbeat may miss a whole lease TTL
          ReleaseMayFail,  \* five attempts to release a lease may all fail
          None

ASSUME HostAssumption ==
  /\ WorkspaceOf \in [States -> Workspaces]
  /\ MaxGenerations \in Nat /\ QueueCapacity \in Nat \ {0}
  /\ {MayShutDown, MayExpire, RenewalMayFail, ReleaseMayFail} \subseteq BOOLEAN
  /\ None \notin States \union Calls
  /\ Targets \in [Calls -> SUBSET States]
  /\ \A c \in Calls : /\ Targets[c] # {} /\ IsFiniteSet(Targets[c])
                      /\ \A s, t \in Targets[c] : WorkspaceOf[s] = WorkspaceOf[t] => s = t

Generations == 1..MaxGenerations
NoGeneration == 0

VARIABLES source,     \* managedRuntime.servingStateID of a generation
          prep,       \* Prepared.state
          noChange,   \* Prepared.noChange: the state was current, nothing prepared
          current,    \* Manager.current
          retired,    \* Manager.retired, the tombstones in order
          refs,       \* managedRuntime.refs
          cleanup,    \* managedRuntime.cleanupState
          closes,     \* how often the generation's resources were closed
          row,        \* the query_snapshot_leases row of the generation
          beat,       \* its heartbeat runs: the lease object is not closed
          relq,       \* snapshotLeaseReleaseQueue.queue
          relBusy,    \* the release in flight
          accepting,  \* snapshotLeaseReleaseQueue.accepting
          worker,     \* runCleanupWorker: where it stands
          working,    \* the generation it cleans up
          kicks,      \* goroutines about to call cleanupRetired
          holding,    \* runtimeLease.managed of each reader
          callPc,     \* where each activation call stands
          items,      \* its PreparedSet
          replaced,   \* what its publications retired without readers
          writer,     \* the call that holds cutoverMu
          loaded,     \* managers that Registry.Reload has visited
          closed,     \* Registry.closed
          closePc     \* Manager.Close of each workspace

genVars == <<source, prep, noChange, closes>>
leaseVars == <<row, beat, relq, relBusy, accepting>>
managerVars == <<current, retired, refs, cleanup>>
workerVars == <<worker, working, kicks>>
callVars == <<callPc, items, replaced, writer>>
hostVars == <<loaded, closed, closePc>>
vars == <<genVars, leaseVars, managerVars, workerVars, callVars, hostVars, holding>>

Used == {g \in Generations : prep[g] # "free"}
At(g) == WorkspaceOf[source[g]]
Serving == loaded = Workspaces /\ ~closed

TypeOK ==
  /\ source \in [Generations -> States \union {None}]
  /\ prep \in [Generations -> {"free", "open", "sealed", "published", "closed"}]
  /\ noChange \in [Generations -> BOOLEAN]
  /\ current \in [Workspaces -> Generations \union {NoGeneration}]
  /\ retired \in [Workspaces -> Seq(Generations)]
  /\ refs \in [Generations -> Nat]
  /\ cleanup \in [Generations -> {"none", "draining", "pending", "running", "finished"}]
  /\ closes \in [Generations -> Nat]
  /\ row \in [Generations -> {"none", "live", "expired", "released"}]
  /\ beat \in [Generations -> BOOLEAN]
  /\ relq \in [Workspaces -> Seq(Generations)]
  /\ relBusy \in [Workspaces -> Generations \union {NoGeneration}]
  /\ accepting \in [Workspaces -> BOOLEAN]
  /\ worker \in [Workspaces -> {"off", "next", "close", "finish"}]
  /\ working \in [Workspaces -> Generations \union {NoGeneration}]
  /\ kicks \subseteq Generations
  /\ holding \in [Readers -> Generations \union {NoGeneration}]
  /\ callPc \in [Calls -> {"idle", "prepared", "sealed", "publishing", "answered", "done"}]
  /\ items \in [Calls -> SUBSET Generations]
  /\ replaced \in [Calls -> SUBSET Generations]
  /\ writer \in Calls \union {None}
  /\ loaded \subseteq Workspaces
  /\ closed \in BOOLEAN
  /\ closePc \in [Workspaces -> {"open", "waiting", "closed"}]

(* NewRegistryWithFactory, with a manager for every workspace. *)
Init ==
  /\ source = [g \in Generations |-> None]
  /\ prep = [g \in Generations |-> "free"]
  /\ noChange = [g \in Generations |-> FALSE]
  /\ current = [w \in Workspaces |-> NoGeneration]
  /\ retired = [w \in Workspaces |-> <<>>]
  /\ refs = [g \in Generations |-> 0]
  /\ cleanup = [g \in Generations |-> "none"]
  /\ closes = [g \in Generations |-> 0]
  /\ row = [g \in Generations |-> "none"]
  /\ beat = [g \in Generations |-> FALSE]
  /\ relq = [w \in Workspaces |-> <<>>]
  /\ relBusy = [w \in Workspaces |-> NoGeneration]
  /\ accepting = [w \in Workspaces |-> TRUE]
  /\ worker = [w \in Workspaces |-> "off"]
  /\ working = [w \in Workspaces |-> NoGeneration]
  /\ kicks = {}
  /\ holding = [r \in Readers |-> NoGeneration]
  /\ callPc = [c \in Calls |-> "idle"]
  /\ items = [c \in Calls |-> {}]
  /\ replaced = [c \in Calls |-> {}]
  /\ writer = None
  /\ loaded = {}
  /\ closed = FALSE
  /\ closePc = [w \in Workspaces |-> "open"]
-----------------------------------------------------------------------------
(* Closing resources and retiring generations                              *)

(* snapshotLeaseReleaseQueue.enqueue of the leases of G, at most one of each
   workspace: a full or closed queue refuses. *)
Enqueued(G, src) ==
  [w \in Workspaces |->
     LET mine == {g \in G : WorkspaceOf[src[g]] = w}
     IN IF mine # {} /\ accepting[w] /\ Len(relq[w]) < QueueCapacity
        THEN Append(relq[w], CHOOSE g \in mine : TRUE) ELSE relq[w]]

(* persistentSnapshotLease.Close: stop the heartbeat and hand the release to
   the queue.  When that refuses, the row lives on until its expiry. *)
CloseLeases(G) ==
  /\ beat' = [g \in Generations |-> beat[g] /\ g \notin G]
  /\ relq' = Enqueued(G, source)
  /\ UNCHANGED <<row, relBusy, accepting>>

(* closeManagedResources: runtime, managed data, snapshot lease, lifetime. *)
CloseResources(G) ==
  /\ closes' = [g \in Generations |-> closes[g] + (IF g \in G THEN 1 ELSE 0)]
  /\ CloseLeases(G)

(* The state retireLocked leaves a generation in. *)
RetiredAs(g) == IF refs[g] > 0 THEN "draining" ELSE "pending"

(* retireLocked: the generation becomes a tombstone of its workspace; it is
   to be cleaned up at once when it has no reader. *)
Retire(w, g) ==
  /\ cleanup' = IF g = NoGeneration THEN cleanup ELSE [cleanup EXCEPT ![g] = RetiredAs(g)]
  /\ retired' = IF g = NoGeneration THEN retired ELSE [retired EXCEPT ![w] = Append(@, g)]

(* What retireLocked returns to its caller. *)
Retired(g) == IF g # NoGeneration /\ refs[g] = 0 THEN {g} ELSE {}

-----------------------------------------------------------------------------
(* Preparation                                                             *)

(* The generations that preparing the states T creates. *)
Assign(T) ==
  CHOOSE f \in [T -> Cardinality(Used) + 1 .. Cardinality(Used) + Cardinality(T)] :
    \A s, t \in T : f[s] = f[t] => s = t

(* The condition under which prepareResolved answers a noChange preparation. *)
Unchanged(s) == current[WorkspaceOf[s]] # NoGeneration /\ source[current[WorkspaceOf[s]]] = s

(* prepareResolved for every state of T, into Prepared objects in state st. *)
PrepareAs(T, st) ==
  LET f == Assign(T)
      Of(g) == CHOOSE s \in T : f[s] = g
      New == {f[s] : s \in T}
  IN /\ Cardinality(Used) + Cardinality(T) <= MaxGenerations
     /\ source' = [g \in Generations |-> IF g \in New THEN Of(g) ELSE source[g]]
     /\ noChange' = [g \in Generations |-> IF g \in New THEN Unchanged(Of(g)) ELSE noChange[g]]
     /\ prep' = [g \in Generations |-> IF g \in New THEN st ELSE prep[g]]
     /\ row' = [g \in Generations |-> IF g \in New /\ ~Unchanged(Of(g)) THEN "live" ELSE row[g]]

(* prepareServingStateCandidates, under prepareMu and the read half of
   cutoverMu, so that no cutover happens while it runs. *)
Prepare(c) ==
  /\ Serving /\ writer = None /\ callPc[c] = "idle"
  /\ PrepareAs(Targets[c], "open")
  /\ beat' = [g \in Generations |-> beat[g] \/ row'[g] # row[g]]
  /\ items' = [items EXCEPT ![c] = {g \in Generations : prep'[g] # prep[g]}]
  /\ callPc' = [callPc EXCEPT ![c] = "prepared"]
  /\ UNCHANGED <<closes, relq, relBusy, accepting, managerVars, workerVars, replaced, writer,
                 hostVars, holding>>

(* Defective: what was prepared before the failure is not closed. *)
PrepareFailsLeaks(c) ==
  /\ Serving /\ writer = None /\ callPc[c] = "idle"
  /\ \E T \in SUBSET Targets[c] : T # Targets[c] /\ PrepareAs(T, "closed")
  /\ callPc' = [callPc EXCEPT ![c] = "done"]
  /\ UNCHANGED <<beat, closes, relq, relBusy, accepting, managerVars, workerVars, items, replaced,
                 writer, hostVars, holding>>

(* The same when one preparation fails after the states T were prepared: the
   set closes what it has. *)
PrepareFails(c) ==
  /\ Serving /\ writer = None /\ callPc[c] = "idle"
  /\ \E T \in SUBSET Targets[c] :
       /\ T # Targets[c]
       /\ PrepareAs(T, "closed")
       /\ LET opened == {g \in Generations : row'[g] # row[g]}
          IN /\ closes' = [g \in Generations |-> closes[g] + (IF g \in opened THEN 1 ELSE 0)]
             /\ relq' = Enqueued(opened, source')
  /\ callPc' = [callPc EXCEPT ![c] = "done"]
  /\ UNCHANGED <<beat, relBusy, accepting, managerVars, workerVars, items, replaced, writer,
                 hostVars, holding>>

(* Defective: Close returns early for a closed Prepared only. *)
DiscardPublished(c) ==
  LET open == {g \in items[c] : prep[g] # "closed"}
  IN /\ callPc[c] \in {"prepared", "answered"}
     /\ prep' = [g \in Generations |-> IF g \in open THEN "closed" ELSE prep[g]]
     /\ CloseResources({g \in open : ~noChange[g]})
     /\ callPc' = [callPc EXCEPT ![c] = "done"]
     /\ UNCHANGED <<source, noChange, managerVars, workerVars, items, replaced, writer,
                    hostVars, holding>>

(* PreparedSet.Close, Prepared.Close: only what is still open is closed.  The
   callers defer it, so it also runs after an activation was answered. *)
Discard(c) ==
  LET open == {g \in items[c] : prep[g] = "open"}
  IN /\ callPc[c] \in {"prepared", "answered"}
     /\ prep' = [g \in Generations |-> IF g \in open THEN "closed" ELSE prep[g]]
     /\ CloseResources({g \in open : ~noChange[g]})
     /\ callPc' = [callPc EXCEPT ![c] = "done"]
     /\ UNCHANGED <<source, noChange, managerVars, workerVars, items, replaced, writer,
                    hostVars, holding>>
-----------------------------------------------------------------------------
(* Activation                                                              *)

(* sealPrepared of every item: the resources leave the Prepared objects. *)
Seal(c) ==
  /\ callPc[c] = "prepared"
  /\ \A g \in items[c] : prep[g] = "open"
  /\ prep' = [g \in Generations |-> IF g \in items[c] THEN "sealed" ELSE prep[g]]
  /\ callPc' = [callPc EXCEPT ![c] = "sealed"]
  /\ UNCHANGED <<source, noChange, closes, leaseVars, managerVars, workerVars, items, replaced,
                 writer, hostVars, holding>>

(* Defective: a refused activation does not abort what it sealed. *)
ActivateRefusedLeaks(c) ==
  /\ callPc[c] = "sealed" /\ writer = None
  /\ prep' = [g \in Generations |-> IF g \in items[c] THEN "closed" ELSE prep[g]]
  /\ callPc' = [callPc EXCEPT ![c] = "answered"]
  /\ UNCHANGED <<source, noChange, closes, leaseVars, managerVars, workerVars, items, replaced,
                 writer, hostVars, holding>>

(* cutoverMu is taken; the registry is closed or the callback fails, and
   abortSealed closes what was prepared. *)
ActivateRefused(c) ==
  /\ callPc[c] = "sealed" /\ writer = None
  /\ prep' = [g \in Generations |-> IF g \in items[c] THEN "closed" ELSE prep[g]]
  /\ CloseResources({g \in items[c] : ~noChange[g]})
  /\ callPc' = [callPc EXCEPT ![c] = "answered"]
  /\ UNCHANGED <<source, noChange, managerVars, workerVars, items, replaced, writer, hostVars,
                 holding>>

(* cutoverMu is taken and the callback has committed. *)
ActivateCommitted(c) ==
  /\ callPc[c] = "sealed" /\ writer = None /\ ~closed
  /\ writer' = c
  /\ callPc' = [callPc EXCEPT ![c] = "publishing"]
  /\ UNCHANGED <<genVars, leaseVars, managerVars, workerVars, items, replaced, hostVars, holding>>

(* sealedPrepared.publish of one item. *)
Publish(c, g) ==
  LET w == At(g)
      old == current[w]
  IN /\ writer = c /\ g \in items[c] /\ prep[g] = "sealed"
     /\ prep' = [prep EXCEPT ![g] = "published"]
     /\ IF noChange[g]
        THEN UNCHANGED <<current, cleanup, retired, replaced>>
        ELSE /\ current' = [current EXCEPT ![w] = g]
             /\ Retire(w, old)
             /\ replaced' = [replaced EXCEPT ![c] = @ \union Retired(old)]
     /\ UNCHANGED <<source, noChange, closes, leaseVars, refs, workerVars, callPc, items, writer,
                    hostVars, holding>>

(* The end of ActivatePreparedSet: unlock, then cleanupRetired. *)
Unlock(c) ==
  /\ writer = c /\ \A g \in items[c] : prep[g] = "published"
  /\ writer' = None
  /\ kicks' = kicks \union replaced[c]
  /\ callPc' = [callPc EXCEPT ![c] = "answered"]
  /\ UNCHANGED <<genVars, leaseVars, managerVars, worker, working, items, replaced, hostVars,
                 holding>>

(* Registry.Reload for one workspace: ReloadBeforePrepare with the durable
   active state s.  Without one it closes the manager. *)
Reload(w, s) ==
  /\ ~closed /\ w \notin loaded
  /\ loaded' = loaded \union {w}
  /\ IF s = None
     THEN /\ accepting' = [accepting EXCEPT ![w] = FALSE]
          /\ UNCHANGED <<genVars, row, beat, current>>
     ELSE /\ WorkspaceOf[s] = w
          /\ PrepareAs({s}, "published")
          /\ beat' = [g \in Generations |-> beat[g] \/ row'[g] # row[g]]
          /\ current' = [current EXCEPT ![w] = Assign({s})[s]]
          /\ UNCHANGED <<closes, accepting>>
  /\ UNCHANGED <<relq, relBusy, retired, refs, cleanup, workerVars, callVars, closed, closePc,
                 holding>>
-----------------------------------------------------------------------------
(* Readers                                                                 *)

(* Defective: the read half of cutoverMu is not taken. *)
AcquireDuringCutover(r, w) ==
  /\ Serving /\ holding[r] = NoGeneration
  /\ current[w] # NoGeneration /\ cleanup[current[w]] = "none"
  /\ refs' = [refs EXCEPT ![current[w]] = @ + 1]
  /\ holding' = [holding EXCEPT ![r] = current[w]]
  /\ UNCHANGED <<genVars, leaseVars, current, retired, cleanup, workerVars, callVars, hostVars>>

(* AcquireForWorkspace and Manager.Acquire. *)
Acquire(r, w) ==
  /\ Serving /\ writer = None /\ holding[r] = NoGeneration
  /\ current[w] # NoGeneration /\ cleanup[current[w]] = "none"
  /\ refs' = [refs EXCEPT ![current[w]] = @ + 1]
  /\ holding' = [holding EXCEPT ![r] = current[w]]
  /\ UNCHANGED <<genVars, leaseVars, current, retired, cleanup, workerVars, callVars, hostVars>>

(* Defective: the last reader does not schedule the cleanup. *)
ReleaseWithoutKick(r) ==
  LET g == holding[r]
  IN /\ g # NoGeneration
     /\ holding' = [holding EXCEPT ![r] = NoGeneration]
     /\ refs' = [refs EXCEPT ![g] = @ - 1]
     /\ cleanup' = IF refs[g] = 1 /\ cleanup[g] = "draining"
                   THEN [cleanup EXCEPT ![g] = "pending"] ELSE cleanup
     /\ UNCHANGED <<genVars, leaseVars, current, retired, workerVars, callVars, hostVars>>

(* runtimeLease.Release, Manager.release: the last reader of a retired
   generation schedules its cleanup. *)
Release(r) ==
  LET g == holding[r]
      drained == refs[g] = 1 /\ cleanup[g] # "none"
  IN /\ g # NoGeneration
     /\ holding' = [holding EXCEPT ![r] = NoGeneration]
     /\ refs' = [refs EXCEPT ![g] = @ - 1]
     /\ cleanup' = IF drained /\ cleanup[g] = "draining"
                   THEN [cleanup EXCEPT ![g] = "pending"] ELSE cleanup
     /\ kicks' = IF drained THEN kicks \union {g} ELSE kicks
     /\ UNCHANGED <<genVars, leaseVars, current, retired, worker, working, callVars, hostVars>>
-----------------------------------------------------------------------------
(* Cleanup of retired generations                                          *)

(* cleanupRetired: start the workspace's worker unless it runs. *)
Kick(g) ==
  /\ g \in kicks
  /\ kicks' = kicks \ {g}
  /\ cleanup' = IF cleanup[g] = "draining" /\ refs[g] = 0
                THEN [cleanup EXCEPT ![g] = "pending"] ELSE cleanup
  /\ worker' = IF cleanup'[g] = "pending" /\ worker[At(g)] = "off"
               THEN [worker EXCEPT ![At(g)] = "next"] ELSE worker
  /\ UNCHANGED <<genVars, leaseVars, current, retired, refs, working, callVars, hostVars, holding>>

(* nextPendingCleanupLocked picks the first of these. *)
Pending(w) == {i \in DOMAIN retired[w] : cleanup[retired[w][i]] = "pending"}

(* runCleanupWorker, its first critical section: the oldest pending
   generation, or the end of the worker. *)
WorkerNext(w) ==
  /\ worker[w] = "next"
  /\ \/ /\ Pending(w) = {}
        /\ worker' = [worker EXCEPT ![w] = "off"]
        /\ UNCHANGED <<cleanup, working>>
     \/ \E i \in Pending(w) :
          /\ \A j \in Pending(w) : i <= j
          /\ worker' = [worker EXCEPT ![w] = "close"]
          /\ working' = [working EXCEPT ![w] = retired[w][i]]
          /\ cleanup' = [cleanup EXCEPT ![retired[w][i]] = "running"]
  /\ UNCHANGED <<genVars, leaseVars, current, retired, refs, kicks, callVars, hostVars, holding>>

(* closeManagedResources, outside the lock. *)
WorkerClose(w) ==
  /\ worker[w] = "close"
  /\ CloseResources({working[w]})
  /\ worker' = [worker EXCEPT ![w] = "finish"]
  /\ UNCHANGED <<source, prep, noChange, managerVars, working, kicks, callVars, hostVars, holding>>

(* removeRetiredLocked *)
RemoveRetired(w, g) ==
  \E i \in DOMAIN retired[w] :
    retired[w][i] = g /\ retired' = [retired EXCEPT ![w] = RemoveAt(retired[w], i)]

(* Defective: the worker ends after one generation. *)
WorkerFinishesOne(w) ==
  /\ worker[w] = "finish"
  /\ cleanup' = [cleanup EXCEPT ![working[w]] = "finished"]
  /\ RemoveRetired(w, working[w])
  /\ worker' = [worker EXCEPT ![w] = "off"]
  /\ working' = [working EXCEPT ![w] = NoGeneration]
  /\ UNCHANGED <<genVars, leaseVars, current, refs, kicks, callVars, hostVars, holding>>

(* Its second critical section: the tombstone goes. *)
WorkerFinish(w) ==
  /\ worker[w] = "finish"
  /\ cleanup' = [cleanup EXCEPT ![working[w]] = "finished"]
  /\ RemoveRetired(w, working[w])
  /\ worker' = [worker EXCEPT ![w] = "next"]
  /\ working' = [working EXCEPT ![w] = NoGeneration]
  /\ UNCHANGED <<genVars, leaseVars, current, refs, kicks, callVars, hostVars, holding>>
-----------------------------------------------------------------------------
(* Snapshot leases                                                         *)

(* snapshotLeaseReleaseQueue.run takes a task. *)
TakeRelease(w) ==
  /\ relBusy[w] = NoGeneration /\ relq[w] # <<>>
  /\ relBusy' = [relBusy EXCEPT ![w] = Head(relq[w])]
  /\ relq' = [relq EXCEPT ![w] = Tail(@)]
  /\ UNCHANGED <<genVars, row, beat, accepting, managerVars, workerVars, callVars, hostVars, holding>>

(* releaseSnapshotLease: released, or given up after its attempts. *)
EndRelease(w) ==
  /\ relBusy[w] # NoGeneration
  /\ relBusy' = [relBusy EXCEPT ![w] = NoGeneration]
  /\ \/ row' = [row EXCEPT ![relBusy[w]] = "released"]
     \/ ReleaseMayFail /\ UNCHANGED row
  /\ UNCHANGED <<genVars, beat, relq, accepting, managerVars, workerVars, callVars, hostVars, holding>>

(* The lease row outlives its expiry: its heartbeat ended or was too late. *)
Expire(g) ==
  /\ row[g] = "live" /\ (IF beat[g] THEN RenewalMayFail ELSE MayExpire)
  /\ row' = [row EXCEPT ![g] = "expired"]
  /\ UNCHANGED <<genVars, beat, relq, relBusy, accepting, managerVars, workerVars, callVars,
                 hostVars, holding>>

(* heartbeatLease: an extension revives a row that is not released. *)
Renew(g) ==
  /\ row[g] = "expired" /\ beat[g]
  /\ row' = [row EXCEPT ![g] = "live"]
  /\ UNCHANGED <<genVars, beat, relq, relBusy, accepting, managerVars, workerVars, callVars,
                 hostVars, holding>>
-----------------------------------------------------------------------------
(* Shutdown                                                                *)

(* Registry.Close marks the registry closed under both locks. *)
CloseRegistry ==
  /\ MayShutDown /\ ~closed /\ writer = None
  /\ closed' = TRUE
  /\ UNCHANGED <<genVars, leaseVars, managerVars, workerVars, callVars, loaded, closePc, holding>>

(* Manager.Close: the current generation is retired like any other. *)
CloseManager(w) ==
  /\ closed /\ closePc[w] = "open"
  /\ current' = [current EXCEPT ![w] = NoGeneration]
  /\ Retire(w, current[w])
  /\ kicks' = kicks \union Retired(current[w])
  /\ closePc' = [closePc EXCEPT ![w] = "waiting"]
  /\ UNCHANGED <<genVars, leaseVars, refs, worker, working, callVars, loaded, closed, holding>>

(* waitForCleanup returned, done or timed out: releaseQueue.close. *)
CloseQueue(w) ==
  /\ closePc[w] = "waiting"
  /\ accepting' = [accepting EXCEPT ![w] = FALSE]
  /\ closePc' = [closePc EXCEPT ![w] = "closed"]
  /\ UNCHANGED <<genVars, row, beat, relq, relBusy, managerVars, workerVars, callVars, loaded,
                 closed, holding>>
-----------------------------------------------------------------------------
(* Everything that neither prepares nor activates. *)
Background ==
  \/ \E c \in Calls : Unlock(c) \/ (callPc[c] = "answered" /\ Discard(c))
  \/ \E c \in Calls, g \in Generations : Publish(c, g)
  \/ \E r \in Readers, w \in Workspaces : Acquire(r, w)
  \/ \E r \in Readers : Release(r)
  \/ \E g \in Generations : Kick(g) \/ Expire(g) \/ Renew(g)
  \/ \E w \in Workspaces : WorkerNext(w) \/ WorkerClose(w) \/ WorkerFinish(w)
  \/ \E w \in Workspaces : TakeRelease(w) \/ EndRelease(w)
  \/ CloseRegistry
  \/ \E w \in Workspaces : CloseManager(w) \/ CloseQueue(w)

Next ==
  \/ Background
  \/ \E c \in Calls : Prepare(c) \/ PrepareFails(c) \/ Seal(c)
  \/ \E c \in Calls : callPc[c] = "prepared" /\ Discard(c)
  \/ \E c \in Calls : ActivateCommitted(c) \/ ActivateRefused(c)
  \/ \E w \in Workspaces, s \in States \union {None} : Reload(w, s)

Spec == Init /\ [][Next]_vars

(* What runs once it was started: the goroutines, the code between a lock and
   its unlock, the deferred Close, and the clock.  Nothing is assumed of new
   requests, of readers, or of shutdown. *)
Fairness ==
  /\ \A g \in Generations : WF_vars(Kick(g)) /\ WF_vars(Expire(g) /\ ~beat[g])
  /\ \A w \in Workspaces : /\ WF_vars(WorkerNext(w)) /\ WF_vars(WorkerClose(w))
                           /\ WF_vars(WorkerFinish(w)) /\ WF_vars(TakeRelease(w))
                           /\ WF_vars(EndRelease(w))
  /\ \A c \in Calls : /\ WF_vars(Unlock(c)) /\ WF_vars(Discard(c))
                      /\ \A g \in Generations : WF_vars(Publish(c, g))

FairSpec == Spec /\ Fairness
-----------------------------------------------------------------------------
(* Properties                                                              *)

(* A generation whose runtime and lease were really created. *)
Built(g) == prep[g] # "free" /\ ~noChange[g]

(* No reader ever works on a closed runtime: the generation it acquired keeps
   its runtime open and its snapshot lease renewed, whatever cutover, cleanup
   or shutdown happens meanwhile (Manager.release, retireLocked, the worker). *)
ReadersProtected ==
  \A r \in Readers : LET g == holding[r]
                     IN g # NoGeneration => closes[g] = 0 /\ beat[g]

(* Resources are closed at most once, on every path out of a Prepared: closed
   unused, aborted, published and retired, or discarded after its activation
   (runtime.md: "exactly once"). *)
ClosedOnce == \A g \in Generations : closes[g] <= (IF noChange[g] THEN 0 ELSE 1)

(* Nothing leaks: what is built and not closed is the current generation, a
   tombstone, or held by a call that still has to publish or close it. *)
NothingLeaks ==
  \A g \in Generations :
    Built(g) /\ closes[g] = 0 =>
      \/ \E w \in Workspaces : current[w] = g
      \/ \E w \in Workspaces : \E i \in DOMAIN retired[w] : retired[w][i] = g
      \/ \E c \in Calls : g \in items[c] /\ callPc[c] \in {"prepared", "sealed", "publishing"}

(* A generation's snapshot stays leased as long as its resources are open and
   no longer (runtime.md: "its snapshot remains leased, until cleanup
   completes"). *)
LeasedWhileOpen == \A g \in Generations : beat[g] <=> (Built(g) /\ closes[g] = 0)

HoldersOf(g) == {r \in Readers : holding[r] = g}

(* The tombstones are exactly the retired generations whose cleanup is not
   finished, each once; the draining ones are those with readers, and refs
   counts the readers. *)
TombstonesExact ==
  /\ \A g \in Generations : refs[g] = Cardinality(HoldersOf(g))
  /\ \A w \in Workspaces : \A i, j \in DOMAIN retired[w] : retired[w][i] = retired[w][j] => i = j
  /\ \A g \in Generations :
       /\ cleanup[g] \in {"draining", "pending", "running"} <=>
            (source[g] # None /\ \E i \in DOMAIN retired[At(g)] : retired[At(g)][i] = g)
       /\ cleanup[g] = "draining" => refs[g] > 0
       /\ cleanup[g] \in {"pending", "running", "finished"} => refs[g] = 0

(* No wakeup is lost: a pending cleanup has a worker that runs, a goroutine
   about to start one, or a cutover that will (cleanupRetired against the
   worker's exit). *)
CleanupIsScheduled ==
  \A g \in Generations :
    cleanup[g] = "pending" => \/ worker[At(g)] # "off"
                             \/ g \in kicks
                             \/ \E c \in Calls : writer = c /\ g \in replaced[c]

(* Calls and their Prepared objects go together: a generation that is not
   published, closed or free belongs to one call, which says how far it is. *)
CallsOwnTheirs ==
  /\ Used \subseteq 1..Cardinality(Used)
  /\ \A g \in Generations : prep[g] = "free" <=> source[g] = None
  /\ \A g \in Generations : prep[g] \in {"open", "sealed"} => \E c \in Calls : g \in items[c]
  /\ \A c, d \in Calls : c # d => items[c] \intersect items[d] = {}
  /\ \A c \in Calls :
       /\ callPc[c] = "idle" => items[c] = {}
       /\ callPc[c] # "idle" => loaded = Workspaces
       /\ writer = c <=> callPc[c] = "publishing"
       /\ \A g \in items[c] :
            /\ callPc[c] = "prepared" => prep[g] = "open"
            /\ callPc[c] = "sealed" => prep[g] = "sealed"
            /\ callPc[c] = "publishing" => prep[g] \in {"sealed", "published"}
            /\ callPc[c] \in {"answered", "done"} => prep[g] \in {"published", "closed"}
  /\ closed => writer = None

(* The resources of g are closed: unused, or by the worker. *)
Gone(g) ==
  /\ Built(g)
  /\ \/ prep[g] = "closed" \/ cleanup[g] = "finished"
     \/ cleanup[g] = "running" /\ worker[At(g)] = "finish"

ClosesExact ==
  /\ \A g \in Generations : closes[g] = IF Gone(g) THEN 1 ELSE 0
  /\ \A g \in Generations : prep[g] = "free" => row[g] = "none" /\ ~noChange[g]
  /\ \A w \in Workspaces :
       /\ relBusy[w] # NoGeneration => prep[relBusy[w]] # "free"
       /\ \A i \in DOMAIN relq[w] : prep[relq[w][i]] # "free"

(* A published runtime is the current one of its workspace until it is retired;
   the worker of a workspace works on a tombstone of its own. *)
ManagersExact ==
  /\ \A g \in Generations : prep[g] # "published" \/ noChange[g] => cleanup[g] = "none" /\ refs[g] = 0
  /\ \A w \in Workspaces : current[w] # NoGeneration =>
       /\ prep[current[w]] = "published" /\ ~noChange[current[w]]
       /\ At(current[w]) = w /\ cleanup[current[w]] = "none" /\ w \in loaded
  /\ \A g \in Generations :
       prep[g] = "published" /\ ~noChange[g] /\ cleanup[g] = "none" => current[At(g)] = g
  /\ \A w \in Workspaces : \A i \in DOMAIN retired[w] :
       prep[retired[w][i]] = "published" /\ At(retired[w][i]) = w
  /\ \A w \in Workspaces :
       /\ working[w] # NoGeneration <=> worker[w] \in {"close", "finish"}
       /\ working[w] # NoGeneration => cleanup[working[w]] = "running" /\ At(working[w]) = w
  /\ \A g \in Generations : cleanup[g] = "running" => working[At(g)] = g

(* The types and the bookkeeping of the managers: leases, tombstones and
   scheduled cleanups agree with what is open, whatever call is under way. *)
Consistent ==
  /\ TypeOK /\ LeasedWhileOpen /\ ClosedOnce /\ TombstonesExact /\ CleanupIsScheduled
  /\ CallsOwnTheirs /\ ClosesExact /\ ManagersExact

(* The state of SharedRuntimes that a state of the host stands for.  A Prepared
   object for the state that is current anyway builds no runtime. *)
RuntimeLife ==
  [g \in Generations |->
     IF ~Built(g) THEN "absent"
     ELSE IF closes[g] > 0 THEN "closed"
     ELSE IF prep[g] # "published" THEN "ready"
     ELSE IF cleanup[g] = "none" THEN "serving" ELSE "retired"]

RuntimeHome == [g \in Generations |-> IF Built(g) THEN At(g) ELSE NoGeneration]

Shared == INSTANCE SharedRuntimes WITH
  Runtimes <- Generations, Places <- Workspaces, Nothing <- NoGeneration,
  life <- RuntimeLife, home <- RuntimeHome, held <- holding

(* The host implements SharedRuntimes: through cutovers, refusals, the cleanup
   worker and shutdown, a runtime is handed out only while it is the one of its
   workspace, and is closed once, after its readers (manager.go, registry.go). *)
ImplementsSharedRuntimes == Shared!Spec

(* A retired generation without readers is closed in the end, and the lease of
   every closed generation stops protecting its snapshot: released by the
   queue, or left to its expiry when the queue refused it. *)
RetiredIsCleaned ==
  \A g \in Generations :
    /\ cleanup[g] = "pending" ~> cleanup[g] = "finished"
    /\ closes[g] = 1 ~> row[g] \in {"released", "expired"}
=============================================================================
