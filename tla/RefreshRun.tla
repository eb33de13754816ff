----------------------------- MODULE RefreshRun -----------------------------
(***************************************************************************)
(* The runs of one refresh pipeline: submission, supersession, claims,     *)
(* execution, publication, cancellation and startup recovery.              *)
(*                                                                         *)
(* A run is identified by its target generation.  Its root row has a run   *)
(* status and a job status; a dependency row has both too, but every       *)
(* statement that writes one writes the other alike, so a child is one     *)
(* status.  Workers are dispatcher goroutines of one or several processes. *)
(* A lease is live until it expires; renewal keeps it live and is not a    *)
(* step.  The snapshot a worker's materialization commits is named by the  *)
(* worker.                                                                 *)
(***************************************************************************)
EXTENDS Integers, FiniteSets, FiniteSetsExt

CONSTANTS
  Workers,      \* dispatcher goroutines
  Tables,       \* the dependency tables of the pipeline's plan
  MaxRuns,      \* bound on submissions
  MaxRunClaims,    \* bound on the claims of one job
  MaxMishaps     \* bound on stalls, crashes, restarts and failed insertions

ASSUME RefreshAssumption ==
  MaxRuns \in Nat \ {0} /\ MaxRunClaims \in Nat /\ MaxMishaps \in Nat /\ Tables # {}

VARIABLES
  root,        \* root[g]: the root run of generation g and its job
  child,       \* child[g][t]: the dependency run of table t
  candidate,   \* candidate[g]: the serving state the run builds
  pointer,     \* generation whose state is active, 0 for a deployment's
  submitter,   \* submitter[g]: QueuePipelineRefresh of generation g
  executor,    \* executor[w]: what worker w is doing
  mishaps      \* faults spent

refreshVars ==
  <<root, child, candidate, pointer, submitter, executor, mishaps>>

-----------------------------------------------------------------------------
RunGenerations == 1..MaxRuns

NoWorker == "nobody"

OpenStatus == {"queued", "running", "prepared"}

SettledStatus == {"succeeded", "failed", "superseded", "cancelled"}

NoRoot == [run |-> "none", job |-> "none", owner |-> NoWorker,
           lease |-> "none", claims |-> 0]

NoExecution == [at |-> "idle", run |-> 0, claim |-> 0, todo |-> {}]

Existing == {g \in RunGenerations : root[g].run # "none"}

Unsettled(g) == root[g].run \in OpenStatus

(* Defective: the job row is left as it was.                               *)
SettleRunOnly(row, outcome) ==
  [row EXCEPT !.run = outcome, !.owner = NoWorker, !.lease = "none"]

(* A terminal root: both rows in the status, the claim cleared.       *)
Settle(row, outcome) ==
  [row EXCEPT !.run = outcome, !.job = outcome, !.owner = NoWorker,
              !.lease = "none"]

SettleOpen(outcome, rows) ==
  [t \in Tables |-> IF rows[t] \in OpenStatus THEN outcome ELSE rows[t]]

(* The fence: the claim the worker holds is the row's and has not lapsed.  *)
Fenced(w) ==
  LET row == root[executor[w].run]
  IN  /\ row.job = "running"
      /\ row.owner = w
      /\ row.claims = executor[w].claim
      /\ row.lease = "live"

(* The row counts of a tree match only when every row of it was written.   *)
TreeOpen(g) ==
  /\ root[g].run \in OpenStatus
  /\ \A t \in Tables : child[g][t] \in OpenStatus \cup {"none"}

Executing(w) == executor[w].at \notin {"idle", "listed"}

ExecutorGoes(w, at) == executor' = [executor EXCEPT ![w].at = at]

Leaves(w) == executor' = [executor EXCEPT ![w] = NoExecution]

-----------------------------------------------------------------------------
RefreshInit ==
  /\ root = [g \in RunGenerations |-> NoRoot]
  /\ child = [g \in RunGenerations |-> [t \in Tables |-> "none"]]
  /\ candidate = [g \in RunGenerations |->
                    [status |-> "none", snapshot |-> NoWorker]]
  /\ pointer = 0
  /\ submitter = [g \in RunGenerations |-> "none"]
  /\ executor = [w \in Workers |-> NoExecution]
  /\ mishaps = 0

(* createRun for a root: the target's open roots and their children are    *)
(* superseded, and the new root takes the next generation.                 *)
Superseded(g) ==
  /\ root' = [h \in RunGenerations |->
       IF h = g THEN [NoRoot EXCEPT !.run = "queued", !.job = "queued"]
       ELSE IF Unsettled(h) THEN Settle(root[h], "superseded")
       ELSE root[h]]
  /\ child' = [h \in RunGenerations |->
       IF Unsettled(h) THEN SettleOpen("superseded", child[h]) ELSE child[h]]

(* QueuePipelineRefresh: the candidate, then the root run.  A submission   *)
(* whose root is not inserted leaves a failed candidate nobody refers to.  *)
Submit(g) ==
  /\ g = Cardinality(Existing) + 1
  /\ candidate' = [candidate EXCEPT ![g].status = "validated"]
  /\ Superseded(g)
  /\ submitter' = [submitter EXCEPT ![g] = "inserting"]
  /\ UNCHANGED <<pointer, executor, mishaps>>

(* ... then its dependency runs, one transaction each, whatever became of  *)
(* the root meanwhile.                                                     *)
InsertChild(g, t) ==
  /\ submitter[g] = "inserting"
  /\ child[g][t] = "none"
  /\ child' = [child EXCEPT ![g][t] = "queued"]
  /\ submitter' = [submitter EXCEPT ![g] =
       IF \A u \in Tables \ {t} : child[g][u] # "none" THEN "done" ELSE @]
  /\ UNCHANGED <<root, candidate, pointer, executor, mishaps>>

(* A dependency insertion fails: MarkRunFailed of the root, unfenced ...   *)
InsertFails(g) ==
  /\ submitter[g] = "inserting"
  /\ mishaps < MaxMishaps
  /\ mishaps' = mishaps + 1
  /\ root' = IF Unsettled(g)
             THEN [root EXCEPT ![g] = Settle(@, "failed")] ELSE root
  /\ submitter' = [submitter EXCEPT ![g] = "failing"]
  /\ UNCHANGED <<child, candidate, pointer, executor>>

(* ... and MarkFailed of the candidate, whatever its status.               *)
SubmissionFails(g) ==
  /\ submitter[g] = "failing"
  /\ candidate' = [candidate EXCEPT ![g].status = "failed"]
  /\ submitter' = [submitter EXCEPT ![g] = "failed"]
  /\ UNCHANGED <<root, child, pointer, executor, mishaps>>

(* CancelRun: a queued root with its queued children and its candidate.    *)
CancelRun(g) ==
  /\ root[g].run = "queued"
  /\ candidate[g].status = "validated"
  /\ root' = [root EXCEPT ![g] = Settle(@, "cancelled")]
  /\ child' = [child EXCEPT ![g] =
       [t \in Tables |-> IF @[t] = "queued" THEN "cancelled" ELSE @[t]]]
  /\ candidate' = [candidate EXCEPT ![g].status = "failed"]
  /\ UNCHANGED <<pointer, submitter, executor, mishaps>>

-----------------------------------------------------------------------------
(* Defective: a job whose worker died is not listed again.                 *)
ExecutableQueued(g) == root[g].job = "queued" /\ root[g].run = "queued"

(* A job is executable while queued, or running under a lapsed lease.      *)
Executable(g) ==
  \/ root[g].job = "queued" /\ root[g].run = "queued"
  \/ root[g].job = "running" /\ root[g].lease # "live"

(* Dispatcher.Run lists the head of the workspace's queue; admission comes *)
(* between the listing and the claim.                                      *)
List(w, g) ==
  /\ executor[w].at = "idle"
  /\ Executable(g)
  /\ \A h \in Existing : Executable(h) => g <= h
  /\ executor' = [executor EXCEPT ![w] =
       [at |-> "listed", run |-> g, claim |-> root[g].claims, todo |-> {}]]
  /\ UNCHANGED <<root, child, candidate, pointer, submitter, mishaps>>

Claimable(g) ==
  \/ root[g].job = "queued"
  \/ root[g].job = "running" /\ root[g].lease # "live"

(* ClaimExecutableJob: the worker's claim number is the listed one plus    *)
(* one, the row's is its own plus one.                                     *)
Claim(w) ==
  LET g == executor[w].run
  IN  /\ executor[w].at = "listed"
      /\ root[g].claims < MaxRunClaims
      /\ IF Claimable(g)
         THEN /\ root' = [root EXCEPT ![g] =
                   [run |-> "running", job |-> "running", owner |-> w,
                    lease |-> "live", claims |-> @.claims + 1]]
              /\ executor' = [executor EXCEPT ![w].at = "claimed",
                                              ![w].claim = @ + 1]
         ELSE Leaves(w) /\ UNCHANGED root
      /\ UNCHANGED <<child, candidate, pointer, submitter, mishaps>>

(* ExecuteClaimedJob reads the candidate and lists the children.  Its      *)
(* branch for a candidate that is active already is never taken: Publish   *)
(* settles the run in the transaction that activates the candidate.        *)
BeginExecution(w) ==
  LET g == executor[w].run
  IN  /\ executor[w].at = "claimed"
      /\ executor' = [executor EXCEPT ![w].at = "marking",
           ![w].todo = {t \in Tables : child[g][t] # "none"}]
      /\ UNCHANGED <<root, child, candidate, pointer, submitter, mishaps>>

(* MarkRunRunning of each listed child: no fence and no status guard.      *)
MarkChild(w, t) ==
  /\ executor[w].at = "marking"
  /\ t \in executor[w].todo
  /\ child' = [child EXCEPT ![executor[w].run][t] = "running"]
  /\ executor' = [executor EXCEPT ![w].todo = @ \ {t}]
  /\ UNCHANGED <<root, candidate, pointer, submitter, mishaps>>

(* Materialize commits a snapshot, RecordSnapshot writes it unfenced.      *)
Materialize(w) ==
  /\ executor[w].at = "marking"
  /\ executor[w].todo = {}
  /\ ExecutorGoes(w, "materialized")
  /\ UNCHANGED <<root, child, candidate, pointer, submitter, mishaps>>

RecordSnapshot(w) ==
  /\ executor[w].at = "materialized"
  /\ candidate' = [candidate EXCEPT ![executor[w].run].snapshot = w]
  /\ ExecutorGoes(w, "recorded")
  /\ UNCHANGED <<root, child, pointer, submitter, mishaps>>

(* PrepareServingState, then MarkRunPrepared under the fence.              *)
PrepareRun(w) ==
  LET g == executor[w].run
  IN  /\ executor[w].at = "recorded"
      /\ IF Fenced(w) /\ root[g].run = "running"
         THEN /\ root' = [root EXCEPT ![g].run = "prepared"]
              /\ ExecutorGoes(w, "prepared")
         ELSE Leaves(w) /\ UNCHANGED root
      /\ UNCHANGED <<child, candidate, pointer, submitter, mishaps>>

(* Defective: publication relies on what was true when the run was         *)
(* prepared.                                                               *)
MayPublishUnfenced(w) == TRUE

(* RunMayPublish, and again first thing in Publish's transaction.          *)
MayPublish(w) ==
  LET g == executor[w].run
  IN  /\ Fenced(w)
      /\ root[g].run = "prepared"
      /\ \A h \in Existing : h <= g
      /\ TreeOpen(g)

Publishable(w) ==
  LET built == candidate[executor[w].run]
  IN  built.status \in {"validated", "inactive", "active"} /\ built.snapshot = w

(* The other active states drain and the candidate becomes active.         *)
Activated(g) ==
  [h \in RunGenerations |->
     IF h = g THEN [candidate[h] EXCEPT !.status = "active"]
     ELSE IF candidate[h].status = "active"
          THEN [candidate[h] EXCEPT !.status = "draining"]
     ELSE candidate[h]]

(* ActivatePrepared with Publish's transaction: drain, activate, repoint,  *)
(* complete the tree.                                                      *)
Publish(w) ==
  LET g == executor[w].run
  IN  /\ executor[w].at = "prepared"
      /\ IF ~MayPublish(w)
         THEN Leaves(w) /\ UNCHANGED <<root, child, candidate, pointer>>
         ELSE IF ~Publishable(w)
         THEN ExecutorGoes(w, "failing") /\ UNCHANGED <<root, child, candidate, pointer>>
         ELSE /\ candidate' = Activated(g)
              /\ pointer' = g
              /\ root' = [root EXCEPT ![g] = Settle(@, "succeeded")]
              /\ child' = [child EXCEPT ![g] = SettleOpen("succeeded", @)]
              /\ Leaves(w)
      /\ UNCHANGED <<submitter, mishaps>>

(* Materialize, RecordSnapshot, PrepareServingState or the activation      *)
(* returns an error.                                                       *)
ExecutionFails(w) ==
  /\ \/ executor[w].at \in {"materialized", "recorded", "prepared"}
     \/ executor[w].at = "marking" /\ executor[w].todo = {}
  /\ ExecutorGoes(w, "failing")
  /\ UNCHANGED <<root, child, candidate, pointer, submitter, mishaps>>

MayFail(w) == Fenced(w) /\ TreeOpen(executor[w].run)

(* MarkRunTreeFailedClaimed: the whole tree under the fence or nothing.    *)
FailTree(w) ==
  LET g == executor[w].run
  IN  /\ root' = IF MayFail(w)
                 THEN [root EXCEPT ![g] = Settle(@, "failed")] ELSE root
      /\ child' = IF MayFail(w)
                  THEN [child EXCEPT ![g] = SettleOpen("failed", @)] ELSE child

(* failJob; a refusal is a lost lease and ends the execution ...           *)
FailJob(w) ==
  /\ executor[w].at = "failing"
  /\ FailTree(w)
  /\ IF MayFail(w) THEN ExecutorGoes(w, "failed") ELSE Leaves(w)
  /\ UNCHANGED <<candidate, pointer, submitter, mishaps>>

(* ... otherwise the candidate follows.                                    *)
FailCandidate(w) ==
  /\ executor[w].at = "failed"
  /\ candidate' = [candidate EXCEPT ![executor[w].run].status = "failed"]
  /\ Leaves(w)
  /\ UNCHANGED <<root, child, pointer, submitter, mishaps>>

(* An error before the children are listed reaches dispatchCandidate,      *)
(* which fails the tree and leaves the candidate.                          *)
BeginFails(w) ==
  /\ executor[w].at = "claimed"
  /\ FailTree(w)
  /\ Leaves(w)
  /\ UNCHANGED <<candidate, pointer, submitter, mishaps>>

(* The renewal finds the claim lost and cancels the execution.             *)
Abandon(w) ==
  /\ Executing(w)
  /\ ~Fenced(w)
  /\ Leaves(w)
  /\ UNCHANGED <<root, child, candidate, pointer, submitter, mishaps>>

-----------------------------------------------------------------------------
Held(g) ==
  \E w \in Workers : Executing(w) /\ executor[w].run = g /\ Fenced(w)

(* A lease nobody renews lapses; one a working process should renew lapses *)
(* only when that process stalls.                                          *)
LeaseLapses(g) ==
  /\ root[g].job = "running"
  /\ root[g].lease = "live"
  /\ Held(g) => mishaps < MaxMishaps
  /\ mishaps' = IF Held(g) THEN mishaps + 1 ELSE mishaps
  /\ root' = [root EXCEPT ![g].lease = "lapsed"]
  /\ UNCHANGED <<child, candidate, pointer, submitter, executor>>

(* Defective: recovery takes every run of a dead serving state.            *)
RecoveredSettled(g, row) ==
  IF candidate[g].status \in {"failed", "deleted"} /\ row # "none"
  THEN "failed" ELSE row

(* FailRunsForTerminalServingStates.                                       *)
Recovered(g, row) ==
  IF /\ row \in {"queued", "running"}
     /\ candidate[g].status \in {"failed", "deleted"}
  THEN "failed" ELSE row

(* The process crashes and starts again: its goroutines are gone, Recover  *)
(* runs, then retention retires the drained states.                        *)
RestartProcess ==
  /\ mishaps < MaxMishaps
  /\ \/ \E w \in Workers : executor[w].at # "idle"
     \/ \E g \in RunGenerations : submitter[g] \in {"inserting", "failing"}
  /\ mishaps' = mishaps + 1
  /\ executor' = [w \in Workers |-> NoExecution]
  /\ submitter' = [g \in RunGenerations |->
       IF submitter[g] \in {"inserting", "failing"} THEN "lost"
       ELSE submitter[g]]
  /\ root' = [g \in RunGenerations |->
       [root[g] EXCEPT !.run = Recovered(g, @), !.job = Recovered(g, @)]]
  /\ child' = [g \in RunGenerations |->
       [t \in Tables |-> Recovered(g, child[g][t])]]
  /\ candidate' = [g \in RunGenerations |->
       IF candidate[g].status = "draining"
       THEN [candidate[g] EXCEPT !.status = "deleted"] ELSE candidate[g]]
  /\ UNCHANGED pointer

ExecutorStep(w) ==
  \/ Claim(w) \/ BeginExecution(w) \/ Materialize(w) \/ RecordSnapshot(w)
  \/ PrepareRun(w) \/ Publish(w) \/ FailJob(w) \/ FailCandidate(w)
  \/ \E t \in Tables : MarkChild(w, t)

SubmitterStep(g) ==
  SubmissionFails(g) \/ \E t \in Tables : InsertChild(g, t)

RefreshNext ==
  \/ \E g \in RunGenerations :
       Submit(g) \/ SubmitterStep(g) \/ InsertFails(g) \/ CancelRun(g)
       \/ LeaseLapses(g)
  \/ \E w \in Workers :
       ExecutorStep(w) \/ ExecutionFails(w) \/ BeginFails(w) \/ Abandon(w)
       \/ \E g \in RunGenerations : List(w, g)
  \/ RestartProcess

(* Goroutines run; the dispatcher is started again every lease timeout;    *)
(* time passes, so an unrenewed lease lapses.                              *)
RefreshFairness ==
  /\ \A w \in Workers :
       /\ WF_refreshVars(ExecutorStep(w))
       /\ WF_refreshVars(\E g \in RunGenerations : List(w, g))
  /\ \A g \in RunGenerations :
       /\ WF_refreshVars(SubmitterStep(g))
       /\ WF_refreshVars(LeaseLapses(g) /\ ~Held(g))

RefreshSpec == RefreshInit /\ [][RefreshNext]_refreshVars /\ RefreshFairness

-----------------------------------------------------------------------------
RunStatus == {"none"} \cup OpenStatus \cup SettledStatus

JobStatus == {"none", "queued", "running"} \cup SettledStatus

Roots == [run : RunStatus, job : JobStatus, owner : Workers \cup {NoWorker},
          lease : {"none", "live", "lapsed"}, claims : 0..MaxRunClaims]

CandidateRows == [status : {"none", "validated", "active", "draining", "deleted", "failed"},
                  snapshot : Workers \cup {NoWorker}]

Executions == [at : {"idle", "listed", "claimed", "marking", "materialized",
                     "recorded", "prepared", "failing", "failed"},
               run : 0..MaxRuns, claim : Nat, todo : SUBSET Tables]

(* Types of the rows and of the goroutines.                                *)
RefreshTypeOK ==
  /\ root \in [RunGenerations -> Roots]
  /\ child \in [RunGenerations -> [Tables -> JobStatus]]
  /\ candidate \in [RunGenerations -> CandidateRows]
  /\ submitter \in [RunGenerations ->
                      {"none", "inserting", "failing", "done", "failed", "lost"}]
  /\ executor \in [Workers -> Executions]
  /\ pointer \in 0..MaxRuns
  /\ mishaps \in 0..MaxMishaps

(* The run row and the job row of a root never disagree, whichever of      *)
(* submission, claim, publication, failure, cancellation and recovery      *)
(* wrote them last (sqlite/runs.go).                                       *)
RunAndJobAgree ==
  \A g \in RunGenerations :
    \/ root[g].run = root[g].job
    \/ root[g].run = "prepared" /\ root[g].job = "running"

(* The tree of an unsettled root holds no settled child: otherwise neither *)
(* Publish nor MarkRunTreeFailedClaimed could ever match its row counts    *)
(* and the run would be reclaimed for ever.                                *)
UnsettledTreesWhole ==
  \A g \in RunGenerations : Unsettled(g) => TreeOpen(g)

(* The active state is the one of the newest run that succeeded: a run     *)
(* succeeds exactly when its publication moved the pointer                 *)
(* (publication.go).                                                       *)
ActiveIsNewestSuccess ==
  pointer = Max({0} \cup {g \in RunGenerations : root[g].run = "succeeded"})

(* The pointer names an active state, except after a submission that       *)
(* failed to insert a dependency once its run had already been published.  *)
PointerNamesLiveState ==
  \/ pointer = 0
  \/ candidate[pointer].status = "active"
  \/ submitter[pointer] = "failed"

(* Generations are given out in order, nothing exists of the ones to come, *)
(* and only the newest run can be unsettled.                               *)
OnlyNewestOpen ==
  /\ \E n \in 0..MaxRuns : Existing = 1..n
  /\ \A g \in RunGenerations \ Existing :
       submitter[g] = "none" /\ \A t \in Tables : child[g][t] = "none"
  /\ \A g \in RunGenerations : Unsettled(g) => \A h \in Existing : h <= g

(* Whatever gives up a candidate, or replaces it, has settled its run.     *)
DeadCandidatesSettled ==
  /\ \A g \in RunGenerations :
       \/ candidate[g].status \in {"active", "draining", "deleted", "failed"}
       \/ submitter[g] \in {"failing", "failed"}
       => root[g].run \in SettledStatus
  /\ \A w \in Workers :
       /\ executor[w].at # "idle" => executor[w].run \in Existing
       /\ executor[w].at = "failed" => root[executor[w].run].run = "failed"

(* The types and what the rows say of each other at any moment.            *)
RefreshConsistent ==
  /\ RefreshTypeOK /\ RunAndJobAgree /\ UnsettledTreesWhole
  /\ ActiveIsNewestSuccess /\ PointerNamesLiveState
  /\ OnlyNewestOpen /\ DeadCandidatesSettled

(* A publication only moves forward, to a generation no newer one has      *)
(* superseded (docs/articles/data/refresh.md: an older run cannot          *)
(* overwrite newer state).                                                 *)
PublicationsAdvance ==
  [][pointer' # pointer =>
       pointer' > pointer /\ \A h \in Existing : h <= pointer']_refreshVars

(* A settled root keeps its status: neither a late claim, nor a reclaimed  *)
(* worker, nor recovery revives or rewrites it.                            *)
SettledRootsStaySettled ==
  [][\A g \in RunGenerations :
       root[g].run \in SettledStatus => root'[g].run = root[g].run]_refreshVars

(* Every submitted run is settled in the end, through stalled workers,     *)
(* restarts and claims made from a stale listing.                          *)
RunsSettle ==
  \A g \in RunGenerations :
    root[g].run = "queued" ~> root[g].run \in SettledStatus

(* The state of LatestRefresh that a state of the rows and of the workers  *)
(* stands for: a worker holds the refresh while its fence would pass.      *)
FencedWorkers == {w \in Workers : Executing(w) /\ Fenced(w)}

LatestOpen == \E g \in RunGenerations : Unsettled(g)

LatestWins == INSTANCE LatestRefresh WITH
  newest <- Cardinality(Existing), open <- LatestOpen,
  holders <- FencedWorkers, published <- pointer

(* The pipeline implements LatestRefresh: whatever claims, lapses, stale   *)
(* listings, late submissions and restarts come between, only the newest   *)
(* run is ever published, while it is unsettled, and by the one worker     *)
(* that then holds its claim (publication.go, sqlite/runs.go).             *)
ImplementsLatestRefresh == LatestWins!Spec

=============================================================================
