--------------------------- MODULE JobQueueProofs ---------------------------
(***************************************************************************)
(* Machine-checked facts about the durable job queue, for every set of     *)
(* jobs, processes and owner names.  The heart is IInv: the lease          *)
(* generation only grows, every claim takes a new one, so no two           *)
(* goroutines carry the same fence.                                        *)
(***************************************************************************)
EXTENDS JobQueue, TLAPS

(* A goroutine is a pair of a runner and a job. *)
LEMMA ThreadParts ==
  \A t \in Threads : t[1] \in Runners /\ t[2] \in Jobs /\ t = <<t[1], t[2]>>
BY DEF Threads

(* Before the first step nothing is claimed. *)
LEMMA InitIInv == Init => IInv
BY JobsAssumption, ThreadParts DEF Init, IInv, TypeOK, LeaseOnlyWhileRunning, FencesDistinct,
   WorkingIsFenced, Working, Statuses, Terminal, Owners, PCs

(* A goroutine that is gone keeps nothing; the others keep everything. *)
LEMMA GoneThreads ==
  ASSUME TypeOK, NEW S, Gone(S)
  PROVE  /\ pc' \in [Threads -> PCs]
         /\ fence' \in [Threads -> Nat]
         /\ ctxDone' \in [Threads -> BOOLEAN]
         /\ \A t \in Threads : /\ fence'[t] \in {0, fence[t]}
                               /\ Working(t)' => Working(t) /\ fence'[t] = fence[t]
<1>1. pc' \in [Threads -> PCs]
  BY DEF TypeOK, Gone, PCs
<1>2. fence' \in [Threads -> Nat]
  BY DEF TypeOK, Gone
<1>3. ctxDone' \in [Threads -> BOOLEAN]
  BY DEF TypeOK, Gone
<1>4. ASSUME NEW t \in Threads
      PROVE  /\ fence'[t] \in {0, fence[t]}
             /\ Working(t)' => Working(t) /\ fence'[t] = fence[t]
  BY DEF TypeOK, Gone, Working
<1> QED
  BY <1>1, <1>2, <1>3, <1>4

(* Goroutines that go, with the table as it is, keep IInv. *)
LEMMA GoneIInv ==
  ASSUME IInv, NEW S, Gone(S), UNCHANGED table, up' \in [Runners -> BOOLEAN]
  PROVE  IInv'
<1>1. TypeOK'
  BY GoneThreads DEF IInv, TypeOK, table
<1>2. LeaseOnlyWhileRunning'
  BY DEF IInv, LeaseOnlyWhileRunning, table
<1>3. FencesDistinct'
  BY GoneThreads, ThreadParts DEF IInv, TypeOK, FencesDistinct, table
<1>4. WorkingIsFenced'
  BY GoneThreads DEF IInv, WorkingIsFenced
<1> QED
  BY <1>1, <1>2, <1>3, <1>4 DEF IInv

(* Every step of a goroutine, of the table or of a process keeps IInv. *)
LEMMA NextIInv == IInv /\ [Next]_vars => IInv'
<1> SUFFICES ASSUME IInv, [Next]_vars PROVE IInv'
  OBVIOUS
<1> USE ThreadParts, JobsAssumption
    DEF IInv, TypeOK, LeaseOnlyWhileRunning, FencesDistinct, WorkingIsFenced,
        Working, table, threads, Statuses, Terminal, PCs
<1>0. \A r \in Runners : OwnerOf[r] \in Owners
  BY DEF Owners
<1>00. NoOwner \in Owners
  BY DEF Owners
<1>1. ASSUME NEW j \in Jobs, Enqueue(j) PROVE IInv'
  BY <1>1 DEF Enqueue
<1>2. ASSUME NEW j \in Jobs, Cancel(j) PROVE IInv'
  BY <1>2, <1>00 DEF Cancel, Finish
<1>3. ASSUME NEW j \in Jobs, LeaseExpires(j) PROVE IInv'
  BY <1>3 DEF LeaseExpires
<1>4. ASSUME NEW r \in Runners, NEW c \in Classes, Poll(r, c) PROVE IInv'
  BY <1>4 DEF Poll
<1>5. ASSUME NEW t \in Threads, Goroutine(t) PROVE IInv'
  <2>1. CASE Admitted(t)
    BY <2>1 DEF Admitted
  <2>2. CASE AdmissionRejected(t)
    BY <2>2, GoneIInv DEF AdmissionRejected
  <2>3. CASE ClaimByID(t)
    BY <2>3, <1>0 DEF ClaimByID
  <2>4. CASE ClaimMissed(t)
    BY <2>4, GoneIInv DEF ClaimMissed
  <2>5. CASE Renew(t)
    BY <2>5 DEF Renew, Holds
  <2>6. CASE ExecutionTimeout(t)
    BY <2>6 DEF ExecutionTimeout
  <2>7. CASE CancelClaimed(t)
    BY <2>7, <1>00 DEF CancelClaimed, Finish
  <2>8. ASSUME NEW outcome \in {"succeeded", "failed"}, HandlerReturns(t, outcome)
        PROVE IInv'
    <3>1. CASE ctxDone[t]
      BY <2>8, <3>1, GoneIInv DEF HandlerReturns
    <3>2. CASE ~ctxDone[t]
      BY <2>8, <3>2 DEF HandlerReturns
    <3> QED
      BY <3>1, <3>2
  <2>9. CASE WriteOutcome(t)
    <3>1. CASE ~Holds(t)
      BY <2>9, <3>1, GoneIInv DEF WriteOutcome
    <3>2. CASE Holds(t)
      <4>1. TypeOK'
        BY <2>9, <3>2, <1>00, GoneThreads, ZenonT(60) DEF WriteOutcome, Finish
      <4>2. LeaseOnlyWhileRunning'
        BY <2>9, <3>2 DEF WriteOutcome, Finish, Holds
      <4>3. FencesDistinct' /\ WorkingIsFenced'
        BY <2>9, <3>2, GoneThreads DEF WriteOutcome, Finish
      <4> QED
        BY <4>1, <4>2, <4>3
    <3> QED
      BY <3>1, <3>2
  <2> QED
    BY <1>5, <2>1, <2>2, <2>3, <2>4, <2>5, <2>6, <2>7, <2>8, <2>9 DEF Goroutine
<1>6. ASSUME NEW r \in Runners, Shutdown(r) PROVE IInv'
  BY <1>6 DEF Shutdown
<1>7. ASSUME NEW r \in Runners, Crash(r) PROVE IInv'
  BY <1>7, GoneIInv DEF Crash
<1>8. ASSUME NEW r \in Runners, Restart(r) PROVE IInv'
  BY <1>8 DEF Restart
<1>9. CASE UNCHANGED vars
  BY <1>9 DEF vars
<1> QED
  BY <1>1, <1>2, <1>3, <1>4, <1>5, <1>6, <1>7, <1>8, <1>9 DEF Next

(* The inductive invariant holds in every reachable state. *)
THEOREM Invariance == Spec => []IInv
<1>1. Init => IInv
  BY InitIInv
<1>2. IInv /\ [Next]_vars => IInv'
  BY NextIInv
<1> QED
  BY <1>1, <1>2, PTL DEF Spec

(* The repository's tables and the runner's goroutines stay well typed. *)
THEOREM TypeCorrect == Spec => []TypeOK
BY Invariance, PTL DEF IInv

(* At most one goroutine, of any process and under any owner name, can renew
   or finish a job. *)
THEOREM ClaimExclusive == Spec => []AtMostOneHolder
<1>1. IInv => AtMostOneHolder
  BY DEF IInv, FencesDistinct, WorkingIsFenced, AtMostOneHolder, Holds
<1> QED
  BY <1>1, Invariance, PTL

(* A finished job is never changed or claimed again. *)
THEOREM FinishedStaysFinished == Spec => TerminalIsFinal
<1>1. IInv /\ [Next]_vars
        => [\A j \in Jobs : status[j] \in Terminal
              => status'[j] = status[j] /\ generation'[j] = generation[j]]_vars
  <2> SUFFICES ASSUME IInv, [Next]_vars, NEW j \in Jobs, status[j] \in Terminal
               PROVE  status'[j] = status[j] /\ generation'[j] = generation[j]
    OBVIOUS
  <2> USE ThreadParts DEF IInv, TypeOK, LeaseOnlyWhileRunning, table, threads, Terminal
  <2>1. ASSUME NEW i \in Jobs, Enqueue(i) \/ Cancel(i) \/ LeaseExpires(i)
        PROVE  status'[j] = status[j] /\ generation'[j] = generation[j]
    BY <2>1 DEF Enqueue, Cancel, LeaseExpires, Finish
  <2>2. ASSUME NEW t \in Threads, Goroutine(t)
        PROVE  status'[j] = status[j] /\ generation'[j] = generation[j]
    BY <2>2 DEF Goroutine, Admitted, AdmissionRejected, ClaimByID, ClaimMissed, Renew,
       ExecutionTimeout, CancelClaimed, HandlerReturns, WriteOutcome, Finish, Holds, Eligible
  <2>3. CASE UNCHANGED table
    BY <2>3
  <2> QED
    BY <2>1, <2>2, <2>3 DEF Next, Poll, Shutdown, Crash, Restart, vars
<1> QED
  BY <1>1, Invariance, PTL DEF Spec, TerminalIsFinal

(* No claim takes a job whose lease is live. *)
THEOREM ClaimsNeverSteal == Spec => NoStealing
<1>1. IInv /\ [Next]_vars
        => [\A j \in Jobs : generation'[j] # generation[j] => ~live[j]]_vars
  <2> SUFFICES ASSUME IInv, [Next]_vars, NEW j \in Jobs, generation'[j] # generation[j]
               PROVE  ~live[j]
    OBVIOUS
  <2> USE ThreadParts DEF IInv, TypeOK, LeaseOnlyWhileRunning, table, threads
  <2>1. PICK t \in Threads : ClaimByID(t)
    BY DEF Next, vars, Enqueue, Cancel, LeaseExpires, Finish, Poll, Shutdown, Crash, Restart,
       Goroutine, Admitted, AdmissionRejected, ClaimMissed, Renew, ExecutionTimeout,
       CancelClaimed, HandlerReturns, WriteOutcome
  <2>2. t[2] = j /\ Eligible(j)
    BY <2>1 DEF ClaimByID
  <2> QED
    BY <2>2 DEF Eligible
<1> QED
  BY <1>1, Invariance, PTL DEF Spec, NoStealing

(* A running job is finished only by a goroutine that holds the newest claim
   under a live lease. *)
THEOREM NewestClaimFinishes == Spec => FinishedByNewestClaim
<1>1. IInv /\ [Next]_vars
        => [\A j \in Jobs : status[j] = "running" /\ status'[j] \in Terminal
              => \E r \in Runners : /\ Working(<<r, j>>)
                                    /\ fence[<<r, j>>] = generation[j]
                                    /\ live[j]]_vars
  <2> SUFFICES ASSUME IInv, [Next]_vars, NEW j \in Jobs,
                      status[j] = "running", status'[j] \in Terminal
               PROVE  \E r \in Runners : /\ Working(<<r, j>>)
                                         /\ fence[<<r, j>>] = generation[j]
                                         /\ live[j]
    OBVIOUS
  <2> USE ThreadParts DEF IInv, TypeOK, table, threads, Terminal
  <2>1. PICK t \in Threads : CancelClaimed(t) \/ WriteOutcome(t)
    BY DEF Next, vars, Enqueue, Cancel, LeaseExpires, Finish, Poll, Shutdown, Crash, Restart,
       Goroutine, Admitted, AdmissionRejected, ClaimByID, ClaimMissed, Renew,
       ExecutionTimeout, HandlerReturns
  <2>2. t[2] = j /\ Holds(t) /\ Working(t)
    BY <2>1 DEF CancelClaimed, WriteOutcome, Finish, Working
  <2>3. t = <<t[1], j>> /\ t[1] \in Runners
    BY <2>2
  <2> QED
    BY <2>2, <2>3 DEF Holds
<1> QED
  BY <1>1, Invariance, PTL DEF Spec, FinishedByNewestClaim

-----------------------------------------------------------------------------
(* Refinement of LeasedWork.  A goroutine holds a job when Holds is true of
   it, so the abstract holder of a job is a set with at most one member. *)

(* Membership in the abstract holder. *)
LEMMA HolderMember ==
  \A j \in Jobs : \A t : t \in LedgerHolder[j] <=> t \in Threads /\ t[2] = j /\ Working(t) /\ Holds(t)
BY DEF LedgerHolder

(* The same in the next state. *)
LEMMA HolderMemberNext ==
  \A j \in Jobs : \A t : t \in LedgerHolder'[j]
                            <=> t \in Threads /\ t[2] = j /\ Working(t)' /\ Holds(t)'
BY DEF LedgerHolder

(* A step that changes nobody's hold on a job keeps its abstract holder. *)
LEMMA HolderSame ==
  ASSUME NEW i \in Jobs,
         \A t \in Threads : t[2] = i => (Working(t)' /\ Holds(t)' <=> Working(t) /\ Holds(t))
  PROVE  LedgerHolder'[i] = LedgerHolder[i]
<1>1. \A t : t \in LedgerHolder'[i] <=> t \in LedgerHolder[i]
  BY HolderMember, HolderMemberNext
<1> QED
  BY <1>1

(* Two goroutines never hold one job. *)
LEMMA HolderUnique ==
  ASSUME IInv, NEW j \in Jobs, NEW t \in LedgerHolder[j], NEW u \in LedgerHolder[j]
  PROVE  t = u
BY HolderMember DEF IInv, FencesDistinct, WorkingIsFenced, Holds

(* A step that leaves the statuses alone and gives no goroutine a hold is a
   loss of holders. *)
LEMMA HoldersLost ==
  ASSUME IInv, status' = status,
         \A j \in Jobs : LedgerHolder'[j] \subseteq LedgerHolder[j]
  PROVE  Ledger!Next
<1> DEFINE S == {j \in Jobs : LedgerHolder'[j] = {}}
<1>1. \A j \in Jobs : LedgerHolder'[j] = IF j \in S THEN {} ELSE LedgerHolder[j]
  <2> SUFFICES ASSUME NEW j \in Jobs, LedgerHolder'[j] # {}
               PROVE  LedgerHolder'[j] = LedgerHolder[j]
    OBVIOUS
  <2>1. PICK t : t \in LedgerHolder'[j]
    OBVIOUS
  <2> QED
    BY <2>1, HolderUnique
<1>2. LedgerHolder' = [j \in Jobs |-> IF j \in S THEN {} ELSE LedgerHolder[j]]
  <2>1. LedgerHolder' = [j \in Jobs |-> LedgerHolder'[j]]
    BY DEF LedgerHolder
  <2> QED
    BY <1>1, <2>1
<1>3. LedgerPhase' = LedgerPhase
  BY DEF LedgerPhase
<1>4. Ledger!Lose(S)
  BY <1>2, <1>3 DEF Ledger!Lose
<1> QED
  BY <1>4 DEF Ledger!Next

(* A step that changes one status and one holder: what the abstract functions
   become. *)
LEMMA OneJobChanges ==
  ASSUME IInv, NEW j \in Jobs, NEW p, NEW h,
         \A i \in Jobs \ {j} : status'[i] = status[i] /\ LedgerHolder'[i] = LedgerHolder[i],
         LedgerPhase'[j] = p, LedgerHolder'[j] = h
  PROVE  /\ LedgerPhase' = [LedgerPhase EXCEPT ![j] = p]
         /\ LedgerHolder' = [LedgerHolder EXCEPT ![j] = h]
<1>1. \A i \in Jobs \ {j} : LedgerPhase'[i] = LedgerPhase[i]
  BY DEF LedgerPhase
<1>2. /\ LedgerPhase = [i \in Jobs |-> LedgerPhase[i]]
      /\ LedgerPhase' = [i \in Jobs |-> LedgerPhase'[i]]
      /\ LedgerHolder = [i \in Jobs |-> LedgerHolder[i]]
      /\ LedgerHolder' = [i \in Jobs |-> LedgerHolder'[i]]
  BY DEF LedgerPhase, LedgerHolder
<1> QED
  BY <1>1, <1>2

(* Enqueue offers a job, Cancel withdraws it. *)
LEMMA TableSteps ==
  ASSUME IInv, NEW j \in Jobs, Enqueue(j) \/ Cancel(j)
  PROVE  Ledger!Next
<1> USE ThreadParts DEF IInv, TypeOK, threads
<1>1. LedgerHolder[j] = {} /\ LedgerHolder'[j] = {}
  BY HolderMember, HolderMemberNext DEF Enqueue, Cancel, Finish, Holds, Terminal
<1>2. \A i \in Jobs \ {j} : status'[i] = status[i]
  BY DEF Enqueue, Cancel, Finish
<1>3. \A i \in Jobs \ {j} : \A t \in Threads :
        t[2] = i => (Working(t)' /\ Holds(t)' <=> Working(t) /\ Holds(t))
  BY DEF Enqueue, Cancel, Finish, Holds, Working
<1>4. \A i \in Jobs \ {j} : LedgerHolder'[i] = LedgerHolder[i]
  BY <1>3, HolderSame
<1>5. CASE Enqueue(j)
  <2>1. LedgerPhase[j] = "absent" /\ LedgerPhase'[j] = "open"
    BY <1>5 DEF Enqueue, LedgerPhase, Terminal
  <2>2. LedgerPhase' = [LedgerPhase EXCEPT ![j] = "open"]
    BY <2>1, <1>2, <1>4, OneJobChanges
  <2>3. LedgerHolder' = [LedgerHolder EXCEPT ![j] = {}]
    BY <1>1, <1>2, <1>4, OneJobChanges
  <2>4. LedgerHolder' = LedgerHolder
    BY <2>3, <1>1 DEF LedgerHolder
  <2>5. Ledger!Offer(j)
    BY <2>1, <2>2, <2>4 DEF Ledger!Offer
  <2> QED
    BY <2>5 DEF Ledger!Next
<1>6. CASE Cancel(j)
  <2>1. LedgerPhase[j] = "open" /\ LedgerPhase'[j] = "done"
    BY <1>6 DEF Cancel, Finish, LedgerPhase, Terminal
  <2>2. LedgerPhase' = [LedgerPhase EXCEPT ![j] = "done"]
    BY <2>1, <1>2, <1>4, OneJobChanges
  <2>3. LedgerHolder' = [LedgerHolder EXCEPT ![j] = {}]
    BY <1>1, <1>2, <1>4, OneJobChanges
  <2>4. LedgerHolder' = LedgerHolder
    BY <2>3, <1>1 DEF LedgerHolder
  <2>5. Ledger!Withdraw(j)
    BY <1>1, <2>1, <2>2, <2>4 DEF Ledger!Withdraw
  <2> QED
    BY <2>5 DEF Ledger!Next
<1> QED
  BY <1>5, <1>6

(* A claim takes a job nobody holds: its generation is newer than every fence. *)
LEMMA ClaimTakes ==
  ASSUME IInv, NEW t \in Threads, ClaimByID(t)
  PROVE  Ledger!Next
<1> DEFINE j == t[2]
<1> USE ThreadParts DEF IInv, TypeOK
<1>1. j \in Jobs
  OBVIOUS
<1>2. LedgerHolder[j] = {}
  BY HolderMember DEF ClaimByID, Eligible, Holds
<1>3. \A u \in Threads : u # t /\ u[2] = j => ~Holds(u)'
  BY DEF ClaimByID, Holds, FencesDistinct
<1>4. Working(t)' /\ Holds(t)'
  BY DEF ClaimByID, Holds, Working
<1>5. LedgerHolder'[j] = {t}
  BY <1>1, <1>3, <1>4, HolderMemberNext
<1>6. \A i \in Jobs \ {j} : status'[i] = status[i]
  BY DEF ClaimByID
<1>7. \A i \in Jobs \ {j} : \A u \in Threads :
        u[2] = i => (Working(u)' /\ Holds(u)' <=> Working(u) /\ Holds(u))
  BY DEF ClaimByID, Holds, Working
<1>8. \A i \in Jobs \ {j} : LedgerHolder'[i] = LedgerHolder[i]
  BY <1>7, HolderSame
<1>9. LedgerPhase[j] = "open" /\ LedgerPhase'[j] = "open"
  BY DEF ClaimByID, Eligible, LedgerPhase, Terminal
<1>10. LedgerHolder' = [LedgerHolder EXCEPT ![j] = {t}]
  BY <1>1, <1>5, <1>6, <1>8, OneJobChanges
<1>11. LedgerPhase' = [LedgerPhase EXCEPT ![j] = "open"]
  BY <1>1, <1>9, <1>6, <1>8, OneJobChanges
<1>12. LedgerPhase' = LedgerPhase
  BY <1>9, <1>11 DEF LedgerPhase
<1>13. Ledger!Take(j, t)
  BY <1>2, <1>9, <1>10, <1>12 DEF Ledger!Take
<1> QED
  BY <1>1, <1>13 DEF Ledger!Next

(* A fenced terminal write finishes the job its goroutine holds. *)
LEMMA HolderFinishes ==
  ASSUME IInv, NEW t \in Threads, Holds(t), Working(t),
         NEW s \in Terminal, Finish(t[2], s),
         \A u \in Threads : u[2] # t[2] =>
            pc'[u] = pc[u] /\ fence'[u] = fence[u]
  PROVE  Ledger!Next
<1> DEFINE j == t[2]
<1> USE ThreadParts DEF IInv, TypeOK
<1>1. j \in Jobs
  OBVIOUS
<1>2. LedgerHolder[j] = {t}
  BY <1>1, HolderMember, HolderUnique
<1>3. LedgerHolder'[j] = {}
  BY <1>1, HolderMemberNext DEF Finish, Holds, Terminal
<1>4. \A i \in Jobs \ {j} : status'[i] = status[i]
  BY DEF Finish
<1>5. \A i \in Jobs \ {j} : \A u \in Threads :
        u[2] = i => (Working(u)' /\ Holds(u)' <=> Working(u) /\ Holds(u))
  BY DEF Finish, Holds, Working
<1>6. \A i \in Jobs \ {j} : LedgerHolder'[i] = LedgerHolder[i]
  BY <1>5, HolderSame
<1>7. LedgerPhase[j] = "open" /\ LedgerPhase'[j] = "done"
  BY DEF Finish, Holds, LedgerPhase, Terminal
<1>8. LedgerHolder' = [LedgerHolder EXCEPT ![j] = {}]
  BY <1>1, <1>3, <1>4, <1>6, OneJobChanges
<1>9. LedgerPhase' = [LedgerPhase EXCEPT ![j] = "done"]
  BY <1>1, <1>7, <1>4, <1>6, OneJobChanges
<1>10. Ledger!Finish(j, t)
  BY <1>2, <1>7, <1>8, <1>9 DEF Ledger!Finish
<1> QED
  BY <1>1, <1>10 DEF Ledger!Next

(* Every step of the queue is a step of the abstract one or leaves it alone. *)
LEMMA NextRefines == IInv /\ [Next]_vars => [Ledger!Next]_(Ledger!wvars)
<1> SUFFICES ASSUME IInv, [Next]_vars PROVE Ledger!Next
  BY DEF Ledger!wvars
<1> USE ThreadParts DEF IInv, TypeOK, table, threads
<1>1. ASSUME status' = status,
             \A t \in Threads : Working(t)' /\ Holds(t)' => Working(t) /\ Holds(t)
      PROVE  Ledger!Next
  <2>1. \A j \in Jobs : LedgerHolder'[j] \subseteq LedgerHolder[j]
    BY <1>1, HolderMember, HolderMemberNext
  <2> QED
    BY <1>1, <2>1, HoldersLost
<1>2. ASSUME NEW j \in Jobs, Enqueue(j) \/ Cancel(j) PROVE Ledger!Next
  BY <1>2, TableSteps
<1>3. ASSUME NEW j \in Jobs, LeaseExpires(j) PROVE Ledger!Next
  BY <1>3, <1>1 DEF LeaseExpires, Working, Holds
<1>4. ASSUME NEW r \in Runners, NEW c \in Classes, Poll(r, c) PROVE Ledger!Next
  BY <1>4, <1>1 DEF Poll, Working, Holds
<1>5. ASSUME UNCHANGED table, NEW S, Gone(S) PROVE Ledger!Next
  <2>1. \A t \in Threads : Working(t)' /\ Holds(t)' => Working(t) /\ Holds(t)
    BY <1>5, GoneThreads DEF Holds
  <2> QED
    BY <1>1, <1>5, <2>1
<1>6. ASSUME NEW t \in Threads, Goroutine(t) PROVE Ledger!Next
  <2>1. CASE Admitted(t)
    BY <2>1, <1>1 DEF Admitted, Working, Holds
  <2>2. CASE AdmissionRejected(t) \/ ClaimMissed(t)
    BY <2>2, <1>5 DEF AdmissionRejected, ClaimMissed
  <2>3. CASE ClaimByID(t)
    BY <2>3, ClaimTakes
  <2>4. CASE Renew(t)
    BY <2>4, <1>1 DEF Renew, Working, Holds
  <2>5. CASE ExecutionTimeout(t)
    BY <2>5, <1>1 DEF ExecutionTimeout, Working, Holds
  <2>6. CASE CancelClaimed(t)
    BY <2>6, HolderFinishes DEF CancelClaimed, Working, Terminal
  <2>7. ASSUME NEW o \in {"succeeded", "failed"}, HandlerReturns(t, o) PROVE Ledger!Next
    <3>1. CASE ctxDone[t]
      BY <2>7, <3>1, <1>5 DEF HandlerReturns
    <3>2. CASE ~ctxDone[t]
      BY <2>7, <3>2, <1>1 DEF HandlerReturns, Working, Holds
    <3> QED
      BY <3>1, <3>2
  <2>8. CASE WriteOutcome(t)
    <3>1. CASE ~Holds(t)
      BY <2>8, <3>1, <1>5 DEF WriteOutcome
    <3>2. CASE Holds(t)
      <4>1. pc[t] \in Terminal /\ Working(t) /\ Finish(t[2], pc[t])
        BY <2>8, <3>2 DEF WriteOutcome, Working, Terminal
      <4>2. \A u \in Threads : u[2] # t[2] => pc'[u] = pc[u] /\ fence'[u] = fence[u]
        BY <2>8 DEF WriteOutcome, Gone
      <4> QED
        BY <3>2, <4>1, <4>2, HolderFinishes
    <3> QED
      BY <3>1, <3>2
  <2> QED
    BY <1>6, <2>1, <2>2, <2>3, <2>4, <2>5, <2>6, <2>7, <2>8 DEF Goroutine
<1>7. ASSUME NEW r \in Runners, Crash(r) PROVE Ledger!Next
  BY <1>7, <1>5 DEF Crash
<1>8. ASSUME NEW r \in Runners, Shutdown(r) \/ Restart(r) PROVE Ledger!Next
  BY <1>8, <1>1 DEF Shutdown, Restart, Working, Holds
<1>9. CASE UNCHANGED vars
  BY <1>9, <1>1 DEF vars, Working, Holds
<1> QED
  BY <1>2, <1>3, <1>4, <1>6, <1>7, <1>8, <1>9 DEF Next

(* Initially nothing is offered and nobody holds anything. *)
LEMMA InitRefines == Init => Ledger!Init
<1> SUFFICES ASSUME Init PROVE Ledger!Init
  OBVIOUS
<1>1. LedgerPhase = [j \in Jobs |-> "absent"]
  BY DEF Init, LedgerPhase
<1>2. LedgerHolder = [j \in Jobs |-> {}]
  BY DEF Init, LedgerHolder, Working
<1> QED
  BY <1>1, <1>2 DEF Ledger!Init

(* The durable job queue implements LeasedWork: seen from its workers it is a
   ledger in which one worker holds a job and only that worker finishes it. *)
THEOREM Refinement == Spec => ImplementsLeasedWork
<1>1. Init => Ledger!Init
  BY InitRefines
<1>2. IInv /\ [Next]_vars => [Ledger!Next]_(Ledger!wvars)
  BY NextRefines
<1> QED
  BY <1>1, <1>2, Invariance, PTL DEF Spec, ImplementsLeasedWork, Ledger!Spec
=============================================================================
