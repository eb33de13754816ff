------------------------------ MODULE JobQueue ------------------------------
(***************************************************************************)
(* The durable job queue of internal/platform/jobs: the api_async_jobs     *)
(* table (sqlite/repository.go and its SQL) and the Runner that polls,     *)
(* admits, claims, renews, executes and finishes jobs.                     *)
(*                                                                         *)
(* A Runner is one server process.  For each candidate of a poll the       *)
(* runner starts a goroutine, so the goroutines are the pairs              *)
(* <<runner, job>>.  The wall clock appears only through lease expiry:     *)
(* live[j] says lease_expires_at > CURRENT_TIMESTAMP, and LeaseExpires may *)
(* make it false at any time.                                              *)
(***************************************************************************)
EXTENDS Naturals, FiniteSets

CONSTANTS Jobs,        \* job ids; naturals, because ties in created_at are broken by id
          Runners,     \* server processes
          Classes,     \* workload classes, one pump of a runner for each
          ClassOf,     \* [Jobs -> Classes]
          WorkspaceOf, \* the workspace of each job
          OwnerOf,     \* the lease owner name of each runner; names may repeat
          NoOwner,     \* the empty lease_owner
          MaxClaims    \* bound on claims of one job

ASSUME JobsAssumption ==
  /\ Jobs \subseteq Nat
  /\ ClassOf \in [Jobs -> Classes]
  /\ MaxClaims \in Nat
  /\ \A r \in Runners : OwnerOf[r] # NoOwner

VARIABLES status,      \* api_async_jobs.status, or "absent" before the row exists
          created,     \* created_at, in ticks of the one-second clock
          clock,       \* CURRENT_TIMESTAMP as far as created_at can see it
          generation,  \* lease_generation
          owner,       \* lease_owner
          live,        \* lease_expires_at > CURRENT_TIMESTAMP
          pc,          \* where each goroutine of a runner is
          fence,       \* job.Fence().Generation of the goroutine's claim
          ctxDone,     \* the goroutine's execution context is cancelled
          up           \* the runner's process and context are alive

table == <<status, created, clock, generation, owner, live>>
threads == <<pc, fence, ctxDone>>
vars == <<table, threads, up>>

Threads == Runners \X Jobs
Terminal == {"succeeded", "failed", "cancelled"}
Statuses == {"absent", "queued", "running"} \union Terminal
Owners == {OwnerOf[r] : r \in Runners} \union {NoOwner}
PCs == {"none", "acquiring", "claiming", "handling", "succeeded", "failed"}

Init == /\ status = [j \in Jobs |-> "absent"]
        /\ created = [j \in Jobs |-> 0]
        /\ clock = 0
        /\ generation = [j \in Jobs |-> 0]
        /\ owner = [j \in Jobs |-> NoOwner]
        /\ live = [j \in Jobs |-> FALSE]
        /\ pc = [t \in Threads |-> "none"]
        /\ fence = [t \in Threads |-> 0]
        /\ ctxDone = [t \in Threads |-> FALSE]
        /\ up = [r \in Runners |-> TRUE]

-----------------------------------------------------------------------------
(* The table. *)

(* Inserting an id that is already there changes nothing: the same digest
   returns the row, another one ErrConflict.  The new row is created in the
   second of the last one or in a later second. *)
Enqueue(j) == /\ status[j] = "absent"
              /\ status' = [status EXCEPT ![j] = "queued"]
              /\ \E now \in {clock, clock + 1} :
                    /\ clock' = now
                    /\ created' = [created EXCEPT ![j] = now]
              /\ UNCHANGED <<generation, owner, live, threads, up>>

(* Defective: abandoned claims are never offered again. *)
EligibleOnlyQueued(j) == status[j] = "queued"

(* queued, or running with an expired lease. *)
Eligible(j) == \/ status[j] = "queued"
               \/ status[j] = "running" /\ ~live[j]

Before(i, j) == \/ created[i] < created[j]
                \/ created[i] = created[j] /\ i < j

(* The candidates of a class: the first eligible job of each workspace. *)
Candidates(c) ==
  {j \in Jobs : /\ ClassOf[j] = c
                /\ Eligible(j)
                /\ \A i \in Jobs : /\ ClassOf[i] = c
                                   /\ WorkspaceOf[i] = WorkspaceOf[j]
                                   /\ Eligible(i)
                                   => ~Before(i, j)}

(* The goroutine has a claim and has not returned yet. *)
Working(t) == pc[t] \in {"handling", "succeeded", "failed"}

(* Defective: the owner name alone is taken for the fence. *)
HoldsByOwnerOnly(t) == /\ status[t[2]] = "running"
                       /\ owner[t[2]] = OwnerOf[t[1]]
                       /\ live[t[2]]

(* The WHERE clause shared by Renew, Complete, Fail and CancelClaimed. *)
Holds(t) == /\ status[t[2]] = "running"
            /\ owner[t[2]] = OwnerOf[t[1]]
            /\ generation[t[2]] = fence[t]
            /\ live[t[2]]

(* Complete, Fail and CancelClaimed: one UPDATE to a terminal status. *)
Finish(j, s) == /\ status' = [status EXCEPT ![j] = s]
                /\ owner' = [owner EXCEPT ![j] = NoOwner]
                /\ live' = [live EXCEPT ![j] = FALSE]
                /\ UNCHANGED <<created, clock, generation>>

(* Defective: a running job can be cancelled without its fence. *)
CancelRunningToo(j) == /\ status[j] \in {"queued", "running"}
                       /\ Finish(j, "cancelled")
                       /\ UNCHANGED <<threads, up>>

(* Cancel: only a job that is still queued. *)
Cancel(j) == /\ status[j] = "queued"
             /\ Finish(j, "cancelled")
             /\ UNCHANGED <<threads, up>>

LeaseExpires(j) == /\ live[j]
                   /\ live' = [live EXCEPT ![j] = FALSE]
                   /\ UNCHANGED <<status, created, clock, generation, owner, threads, up>>

-----------------------------------------------------------------------------
(* The runner. *)

(* runPump: a class is polled again only after every goroutine of its last
   batch has returned. *)
Poll(r, c) ==
  /\ up[r]
  /\ \A j \in Jobs : ClassOf[j] = c => pc[<<r, j>>] = "none"
  /\ Candidates(c) # {}
  /\ pc' = [t \in Threads |-> IF t[1] = r /\ t[2] \in Candidates(c)
                                THEN "acquiring" ELSE pc[t]]
  /\ UNCHANGED <<table, fence, ctxDone, up>>

(* The goroutines of S are gone, and their local variables with them. *)
Gone(S) == /\ pc' = [t \in Threads |-> IF t \in S THEN "none" ELSE pc[t]]
           /\ fence' = [t \in Threads |-> IF t \in S THEN 0 ELSE fence[t]]
           /\ ctxDone' = [t \in Threads |-> IF t \in S THEN FALSE ELSE ctxDone[t]]

Admitted(t) == /\ pc[t] = "acquiring"
               /\ pc' = [pc EXCEPT ![t] = "claiming"]
               /\ UNCHANGED <<table, fence, ctxDone, up>>

AdmissionRejected(t) == /\ pc[t] = "acquiring"
                        /\ Gone({t})
                        /\ UNCHANGED <<table, up>>

(* Defective: a claim does not take a new generation. *)
ClaimKeepsGeneration(t) == LET j == t[2] IN
  /\ pc[t] = "claiming"
  /\ ~ctxDone[t]
  /\ Eligible(j)
  /\ status' = [status EXCEPT ![j] = "running"]
  /\ owner' = [owner EXCEPT ![j] = OwnerOf[t[1]]]
  /\ live' = [live EXCEPT ![j] = TRUE]
  /\ fence' = [fence EXCEPT ![t] = generation[j]]
  /\ pc' = [pc EXCEPT ![t] = "handling"]
  /\ UNCHANGED <<created, clock, generation, ctxDone, up>>

(* ClaimByID: the UPDATE repeats the eligibility test of the listing. *)
ClaimByID(t) == LET j == t[2] IN
  /\ pc[t] = "claiming"
  /\ ~ctxDone[t]
  /\ Eligible(j)
  /\ generation[j] < MaxClaims
  /\ status' = [status EXCEPT ![j] = "running"]
  /\ owner' = [owner EXCEPT ![j] = OwnerOf[t[1]]]
  /\ live' = [live EXCEPT ![j] = TRUE]
  /\ generation' = [generation EXCEPT ![j] = generation[j] + 1]
  /\ fence' = [fence EXCEPT ![t] = generation[j] + 1]
  /\ pc' = [pc EXCEPT ![t] = "handling"]
  /\ UNCHANGED <<created, clock, ctxDone, up>>

(* Somebody else claimed it, it was cancelled, or the context is done. *)
ClaimMissed(t) == /\ pc[t] = "claiming"
                  /\ ctxDone[t] \/ ~Eligible(t[2])
                  /\ Gone({t})
                  /\ UNCHANGED <<table, up>>

(* The renewal goroutine: a renewal can still be in flight when the handler
   has returned, and one that fails cancels the handler's context. *)
Renew(t) == /\ Working(t)
            /\ ~ctxDone[t]
            /\ IF Holds(t)
                 THEN /\ live' = [live EXCEPT ![t[2]] = TRUE]
                      /\ UNCHANGED ctxDone
                 ELSE /\ ctxDone' = [ctxDone EXCEPT ![t] = TRUE]
                      /\ UNCHANGED live
            /\ UNCHANGED <<status, created, clock, generation, owner, pc, fence, up>>

(* The admission lease's execution deadline. *)
ExecutionTimeout(t) == /\ pc[t] \in {"claiming", "handling"}
                       /\ ~ctxDone[t]
                       /\ ctxDone' = [ctxDone EXCEPT ![t] = TRUE]
                       /\ UNCHANGED <<table, pc, fence, up>>

(* A handler that cancels its own job (agent runs) through its fence. *)
CancelClaimed(t) == /\ pc[t] = "handling"
                    /\ Holds(t)
                    /\ Finish(t[2], "cancelled")
                    /\ UNCHANGED <<threads, up>>

(* The handler returns.  A done context ends the goroutine with the job left
   running; otherwise the outcome still has to be written. *)
HandlerReturns(t, outcome) ==
  /\ pc[t] = "handling"
  /\ IF ctxDone[t]
       THEN Gone({t})
       ELSE pc' = [pc EXCEPT ![t] = outcome] /\ UNCHANGED <<fence, ctxDone>>
  /\ UNCHANGED <<table, up>>

(* Complete or Fail; a lost fence updates no row and the error is dropped. *)
WriteOutcome(t) ==
  /\ pc[t] \in {"succeeded", "failed"}
  /\ IF Holds(t) THEN Finish(t[2], pc[t]) ELSE UNCHANGED table
  /\ Gone({t})
  /\ UNCHANGED up

-----------------------------------------------------------------------------
(* Process lifetime. *)

(* Runner.Run's context ends: every goroutine's context ends with it. *)
Shutdown(r) == /\ up[r]
               /\ up' = [up EXCEPT ![r] = FALSE]
               /\ ctxDone' = [t \in Threads |-> IF t[1] = r /\ pc[t] # "none"
                                             THEN TRUE ELSE ctxDone[t]]
               /\ UNCHANGED <<table, pc, fence>>

(* The process dies: its goroutines vanish wherever they are. *)
Crash(r) == /\ up' = [up EXCEPT ![r] = FALSE]
            /\ Gone({t \in Threads : t[1] = r})
            /\ UNCHANGED table

Restart(r) == /\ ~up[r]
              /\ \A j \in Jobs : pc[<<r, j>>] = "none"
              /\ up' = [up EXCEPT ![r] = TRUE]
              /\ UNCHANGED <<table, threads>>

Goroutine(t) == \/ Admitted(t)
                \/ AdmissionRejected(t)
                \/ ClaimByID(t)
                \/ ClaimMissed(t)
                \/ Renew(t)
                \/ ExecutionTimeout(t)
                \/ CancelClaimed(t)
                \/ \E outcome \in {"succeeded", "failed"} : HandlerReturns(t, outcome)
                \/ WriteOutcome(t)

Next == \/ \E j \in Jobs : Enqueue(j) \/ Cancel(j) \/ LeaseExpires(j)
        \/ \E r \in Runners, c \in Classes : Poll(r, c)
        \/ \E t \in Threads : Goroutine(t)
        \/ \E r \in Runners : Shutdown(r) \/ Crash(r) \/ Restart(r)

Spec == Init /\ [][Next]_vars

-----------------------------------------------------------------------------
(* Fairness.  Goroutines that can run do run, handlers return, a stopped
   server is started again and from some time on stays up, and a lease nobody
   renews runs out.  Admission and the claim are strongly fair: neither a full
   workload queue nor an execution deadline that ends before the claim is met
   by the same goroutine for ever. *)

LeaseRunsOut(j) == /\ \A r \in Runners : ~(Working(<<r, j>>) /\ Holds(<<r, j>>))
                   /\ LeaseExpires(j)

Fairness == /\ <>[](\A r \in Runners : up[r])
            /\ \A r \in Runners, c \in Classes : WF_vars(Poll(r, c))
            /\ \A r \in Runners : WF_vars(Restart(r))
            /\ \A j \in Jobs : WF_vars(LeaseRunsOut(j))
            /\ \A t \in Threads :
                 /\ SF_vars(Admitted(t)) /\ SF_vars(ClaimByID(t))
                 /\ WF_vars(ClaimMissed(t)) /\ WF_vars(WriteOutcome(t))
                 /\ WF_vars(\E o \in {"succeeded", "failed"} : HandlerReturns(t, o))
                 /\ WF_vars(AdmissionRejected(t) /\ ctxDone[t])

FairSpec == Spec /\ Fairness

-----------------------------------------------------------------------------
(* Properties. *)

(* Every variable has the type the table and the goroutines give it. *)
TypeOK == /\ status \in [Jobs -> Statuses]
          /\ created \in [Jobs -> Nat]
          /\ clock \in Nat
          /\ generation \in [Jobs -> Nat]
          /\ owner \in [Jobs -> Owners]
          /\ live \in [Jobs -> BOOLEAN]
          /\ pc \in [Threads -> PCs]
          /\ fence \in [Threads -> Nat]
          /\ ctxDone \in [Threads -> BOOLEAN]
          /\ up \in [Runners -> BOOLEAN]

(* A lease exists only on a running job; a finished or queued job has no
   owner and no expiry (the SQL clears them together). *)
LeaseOnlyWhileRunning ==
  \A j \in Jobs : /\ live[j] => status[j] = "running"
                  /\ owner[j] # NoOwner => status[j] = "running"

(* No goroutine carries a fence from the future, and two goroutines that work
   on one job carry different fences, whatever their owner names. *)
FencesDistinct ==
  /\ \A t \in Threads : fence[t] <= generation[t[2]]
  /\ \A t, u \in Threads :
       t # u /\ t[2] = u[2] /\ fence[t] = fence[u] => fence[t] = 0

(* A working goroutine got its fence from a claim. *)
WorkingIsFenced == \A t \in Threads : Working(t) => fence[t] > 0

(* The inductive invariant behind the theorems. *)
IInv == TypeOK /\ LeaseOnlyWhileRunning /\ FencesDistinct /\ WorkingIsFenced

(* Claim exclusivity across crashes, restarts with a reused owner name and
   expired leases: at most one goroutine of all processes can still renew or
   finish a job (the four fenced UPDATEs of async_job.sql). *)
AtMostOneHolder ==
  \A t, u \in Threads :
    t[2] = u[2] /\ Working(t) /\ Working(u) /\ Holds(t) /\ Holds(u) => t = u

(* A finished job is final: no late Complete, Fail, Cancel or claim of a
   delayed worker changes its status, and no new claim is made on it. *)
TerminalIsFinal ==
  [][\A j \in Jobs : status[j] \in Terminal
        => status'[j] = status[j] /\ generation'[j] = generation[j]]_vars

(* A running job is finished only through the newest claim: when a status
   leaves "running" for a terminal one, a working goroutine with the current
   generation made the change while its lease was live. *)
FinishedByNewestClaim ==
  [][\A j \in Jobs : status[j] = "running" /\ status'[j] \in Terminal
        => \E r \in Runners : /\ Working(<<r, j>>)
                              /\ fence[<<r, j>>] = generation[j]
                              /\ live[j]]_vars

(* A claim never takes a job from a worker whose lease is live. *)
NoStealing ==
  [][\A j \in Jobs : generation'[j] # generation[j] => ~live[j]]_vars

(* Every enqueued job is finished, unless some job was claimed as often as
   the bound allows: abandoned claims of crashed workers are picked up again,
   and neither the wait for a whole batch nor the one candidate per workspace
   holds a job back for ever. *)
EventuallyFinished ==
  \A j \in Jobs : status[j] = "queued"
                    ~> \/ status[j] \in Terminal
                       \/ \E i \in Jobs : generation[i] = MaxClaims

(* The state of LeasedWork that a state of the queue stands for: a job is open
   from its insertion to its terminal status, and held by the goroutines whose
   fence still matches. *)
LedgerPhase == [j \in Jobs |-> IF status[j] = "absent" THEN "absent"
                               ELSE IF status[j] \in Terminal THEN "done" ELSE "open"]
LedgerHolder == [j \in Jobs |-> {t \in Threads : t[2] = j /\ Working(t) /\ Holds(t)}]

(* The queue implements the abstract promise to its workers. *)
Ledger == INSTANCE LeasedWork WITH
  Work <- Jobs, Workers <- Threads, phase <- LedgerPhase, holder <- LedgerHolder
ImplementsLeasedWork == Ledger!Spec
=============================================================================
