--------------------------- MODULE RefreshSchedule ---------------------------
(***************************************************************************)
(* The schedule of one refresh pipeline: reconciliation with the deployed  *)
(* artifact, claims of due occurrences, the runs submitted for them, their *)
(* release after an error and the recovery of abandoned claims.            *)
(*                                                                         *)
(* Every statement is keyed by workspace, environment and pipeline, so one *)
(* pipeline stands for all.  Dispatchers are the scheduler goroutines of   *)
(* the processes on the database, reconcilers the deployment jobs and      *)
(* process starts that rewrite the schedules.  Time is counted in units of *)
(* which ClaimTimeout make occurrenceClaimTimeout; a claim's age stands    *)
(* for the difference between the clock and claimed_at.                    *)
(***************************************************************************)
EXTENDS Integers, FiniteSets, FiniteSetsExt

CONSTANTS
  Dispatchers,      \* scheduler goroutines
  Reconcilers,      \* goroutines inside Module.Reconcile
  Digests,          \* artifacts that can be deployed
  FirstDigest,      \* the one deployed at the start
  Crons,            \* cron entries of the pipeline, over all artifacts
  CronsOf,          \* CronsOf[a]: the entries in artifact a
  Fires,            \* Fires[c]: the instants at which c fires
  Horizon,          \* bound on the clock
  ClaimTimeout,     \* occurrenceClaimTimeout
  MaxDeploys,       \* bound on activations
  MaxDispatchFaults \* bound on crashes and failed calls

(* Reconcile refuses an entry that has no next occurrence.                 *)
ASSUME ScheduleAssumption ==
  /\ Horizon \in Nat /\ ClaimTimeout \in Nat \ {0}
  /\ MaxDeploys \in Nat /\ MaxDispatchFaults \in Nat
  /\ FirstDigest \in Digests
  /\ \A a \in Digests : CronsOf[a] \subseteq Crons
  /\ \A c \in Crons : Fires[c] \subseteq Nat /\ \E t \in Fires[c] : t > Horizon

VARIABLES
  now,          \* the clock
  deployed,     \* digest of the active artifact
  deploys,      \* activations so far
  schedule,     \* refresh_pipeline_schedules of the pipeline
  occurrence,   \* occurrence[t]: its refresh_pipeline_occurrences row
  dispatcher,   \* dispatcher[d]: where DispatchDue is, and its occurrence
  reconciler,   \* reconciler[r]: the artifact it read, before it writes
  runOpen,      \* the pipeline's latest run is queued or running
  dispatchFaults

scheduleVars == <<now, deployed, deploys, schedule, occurrence, dispatcher,
                  reconciler, runOpen, dispatchFaults>>

-----------------------------------------------------------------------------
Instants == 0..Horizon

NoRow == [state |-> "none", digest |-> "none", age |-> 0]

IdleDispatcher ==
  [at |-> "idle", due |-> 0, digest |-> "none", lost |-> FALSE]

(* Schedule.Next: the first instant strictly after t.                      *)
NextFire(c, t) == Min({u \in Fires[c] : u > t})

FreshSchedule(a, t) ==
  [digest |-> a, since |-> t, next |-> [c \in CronsOf[a] |-> NextFire(c, t)]]

ScheduleInit ==
  /\ now = 0
  /\ deployed = FirstDigest
  /\ deploys = 0
  /\ schedule = FreshSchedule(FirstDigest, 0)
  /\ occurrence = [t \in Instants |-> NoRow]
  /\ dispatcher = [d \in Dispatchers |-> IdleDispatcher]
  /\ reconciler = [r \in Reconcilers |-> "none"]
  /\ runOpen = FALSE
  /\ dispatchFaults = 0

Claimed(t) == occurrence[t].state = "claimed"

Attached(t) == occurrence[t].state = "attached"

DispatcherGoes(d, at) == dispatcher' = [dispatcher EXCEPT ![d].at = at]

Spend == /\ dispatchFaults < MaxDispatchFaults
         /\ dispatchFaults' = dispatchFaults + 1

(* Time passes; past the horizon nothing new is due, but claims grow old.  *)
PassTime ==
  /\ now' = IF now < Horizon THEN now + 1 ELSE now
  /\ occurrence' = [t \in Instants |->
       IF Claimed(t) /\ occurrence[t].age < ClaimTimeout
       THEN [occurrence[t] EXCEPT !.age = @ + 1] ELSE occurrence[t]]
  /\ <<now', occurrence'>> # <<now, occurrence>>
  /\ UNCHANGED <<deployed, deploys, schedule, dispatcher, reconciler, runOpen,
                 dispatchFaults>>

-----------------------------------------------------------------------------
(* A deployment moves the pointer to another artifact.                     *)
Deploy(a) ==
  /\ deploys < MaxDeploys
  /\ a # deployed
  /\ deployed' = a
  /\ deploys' = deploys + 1
  /\ UNCHANGED <<now, schedule, occurrence, dispatcher, reconciler, runOpen,
                 dispatchFaults>>

(* Module.Reconcile reads the active artifact, after an activation (where  *)
(* an error is only logged) or when a process starts ...                   *)
ReadActive(r) ==
  /\ reconciler[r] = "none"
  /\ reconciler' = [reconciler EXCEPT ![r] = deployed]
  /\ UNCHANGED <<now, deployed, deploys, schedule, occurrence, dispatcher,
                 runOpen, dispatchFaults>>

(* ... and the repository replaces the schedules, keeping the next run of  *)
(* an artifact's own entries.                                              *)
Reconciled(a) ==
  IF schedule.digest = a THEN schedule ELSE FreshSchedule(a, now)

Reconcile(r) ==
  /\ reconciler[r] # "none"
  /\ schedule' = Reconciled(reconciler[r])
  /\ reconciler' = [reconciler EXCEPT ![r] = "none"]
  /\ UNCHANGED <<now, deployed, deploys, occurrence, dispatcher, runOpen,
                 dispatchFaults>>

-----------------------------------------------------------------------------
Abandoned == {t \in Instants : Claimed(t) /\ occurrence[t].age >= ClaimTimeout}

(* Defective: abandoned claims are deleted but their schedules move on.    *)
NotRequeued == schedule.next

(* RequeueAbandonedRefreshPipelineSchedules: every entry of the artifact   *)
(* goes back to the oldest abandoned occurrence of that artifact.          *)
Requeued ==
  LET own == {t \in Abandoned : occurrence[t].digest = schedule.digest}
  IN  [c \in DOMAIN schedule.next |->
         IF own = {} THEN schedule.next[c] ELSE Min(own)]

(* The latest instant of entry c that is due.                              *)
LatestDue(c, from) == Max({from} \cup {t \in Fires[c] : from < t /\ t <= now})

(* Defective: the row count of INSERT OR IGNORE is not looked at.          *)
WinsAlways(t, rows) == TRUE

Wins(t, rows) == rows[t] = NoRow

(* ClaimDue: abandoned claims are requeued and deleted, the due entries    *)
(* advance past now, and the latest of their instants is claimed unless it *)
(* has a row.                                                              *)
ClaimDue(d) ==
  LET rows == [t \in Instants |-> IF t \in Abandoned THEN NoRow ELSE occurrence[t]]
      due == {c \in DOMAIN schedule.next : Requeued[c] <= now}
      latest == Max({LatestDue(c, Requeued[c]) : c \in due})
      claim == due # {} /\ Wins(latest, rows)
      holders == [e \in Dispatchers |->
        IF dispatcher[e].at # "idle" /\ dispatcher[e].due \in Abandoned
        THEN [dispatcher[e] EXCEPT !.lost = TRUE] ELSE dispatcher[e]]
  IN  /\ dispatcher[d].at = "idle"
      /\ due # {} \/ Abandoned # {}
      /\ schedule' = [schedule EXCEPT !.next =
           [c \in DOMAIN schedule.next |->
              IF c \in due THEN NextFire(c, now) ELSE Requeued[c]]]
      /\ occurrence' = IF claim /\ rows[latest] = NoRow
           THEN [rows EXCEPT ![latest] =
                  [state |-> "claimed", digest |-> schedule.digest, age |-> 0]]
           ELSE rows
      /\ dispatcher' = IF claim
           THEN [holders EXCEPT ![d] = [at |-> "claimed", due |-> latest,
                   digest |-> schedule.digest, lost |-> FALSE]]
           ELSE holders
      /\ UNCHANGED <<now, deployed, deploys, reconciler, runOpen,
                     dispatchFaults>>

(* QueuePipelineRefresh refuses an occurrence of a superseded artifact,    *)
(* and builds a candidate from the active one.                             *)
CheckArtifact(d) ==
  /\ dispatcher[d].at = "claimed"
  /\ DispatcherGoes(d, IF dispatcher[d].digest = deployed
                       THEN "checked" ELSE "releasing")
  /\ UNCHANGED <<now, deployed, deploys, schedule, occurrence, reconciler,
                 runOpen, dispatchFaults>>

AttachedRow(t) ==
  [occurrence EXCEPT ![t].state = "attached", ![t].age = 0]

(* CreateScheduledRun inserts the run and attaches it in one transaction,  *)
(* which needs the row and nothing else of the claim.  When it fails and   *)
(* the pipeline has an open run, that run is reported instead.             *)
CreateScheduledRun(d) ==
  LET t == dispatcher[d].due
  IN  /\ dispatcher[d].at = "checked"
      /\ \/ /\ occurrence[t] # NoRow
            /\ occurrence' = AttachedRow(t)
            /\ runOpen' = TRUE
            /\ DispatcherGoes(d, "created")
            /\ UNCHANGED dispatchFaults
         \/ /\ IF occurrence[t] = NoRow THEN UNCHANGED dispatchFaults ELSE Spend
            /\ DispatcherGoes(d, IF runOpen THEN "created" ELSE "releasing")
            /\ UNCHANGED <<occurrence, runOpen>>
      /\ UNCHANGED <<now, deployed, deploys, schedule, reconciler>>

(* A dependency run cannot be inserted: the root run fails.                *)
DependencyFails(d) ==
  /\ dispatcher[d].at = "created"
  /\ Attached(dispatcher[d].due)
  /\ Spend
  /\ DispatcherGoes(d, "releasing")
  /\ runOpen' = FALSE
  /\ UNCHANGED <<now, deployed, deploys, schedule, occurrence, reconciler>>

(* AttachRun, once more or for the open run; an error is only reported.    *)
AttachRun(d) ==
  LET t == dispatcher[d].due
  IN  /\ dispatcher[d].at = "created"
      /\ \/ /\ occurrence' = IF occurrence[t] = NoRow THEN occurrence
                             ELSE AttachedRow(t)
            /\ UNCHANGED dispatchFaults
         \/ Spend /\ UNCHANGED occurrence
      /\ dispatcher' = [dispatcher EXCEPT ![d] = IdleDispatcher]
      /\ UNCHANGED <<now, deployed, deploys, schedule, reconciler, runOpen>>

(* Defective: the released occurrence's schedules stay advanced.           *)
NotRetried(t, a) == schedule.next

(* RetryRefreshPipelineSchedules: entries of the claim's artifact that are *)
(* past the occurrence go back to it.                                      *)
Retried(t, a) ==
  [c \in DOMAIN schedule.next |->
     IF schedule.digest = a /\ schedule.next[c] > t THEN t ELSE schedule.next[c]]

(* ReleaseOccurrence: an unattached row goes, whoever claimed it.          *)
ReleaseOccurrence(d) ==
  LET t == dispatcher[d].due
  IN  /\ dispatcher[d].at = "releasing"
      /\ IF Claimed(t)
         THEN /\ occurrence' = [occurrence EXCEPT ![t] = NoRow]
              /\ schedule' = [schedule EXCEPT !.next =
                                Retried(t, dispatcher[d].digest)]
              /\ dispatcher' = [e \in Dispatchers |->
                   IF e = d THEN IdleDispatcher
                   ELSE IF dispatcher[e].at # "idle" /\ dispatcher[e].due = t
                   THEN [dispatcher[e] EXCEPT !.lost = TRUE]
                   ELSE dispatcher[e]]
         ELSE /\ dispatcher' = [dispatcher EXCEPT ![d] = IdleDispatcher]
              /\ UNCHANGED <<occurrence, schedule>>
      /\ UNCHANGED <<now, deployed, deploys, reconciler, runOpen,
                     dispatchFaults>>

(* The process dies, or every remaining call of the dispatch fails.        *)
DispatcherDies(d) ==
  /\ dispatcher[d].at # "idle"
  /\ Spend
  /\ dispatcher' = [dispatcher EXCEPT ![d] = IdleDispatcher]
  /\ UNCHANGED <<now, deployed, deploys, schedule, occurrence, reconciler,
                 runOpen>>

(* A run of the pipeline ends, or somebody starts one by hand.             *)
OtherRuns ==
  /\ runOpen' = ~runOpen
  /\ UNCHANGED <<now, deployed, deploys, schedule, occurrence, dispatcher,
                 reconciler, dispatchFaults>>

-----------------------------------------------------------------------------
DispatcherStep(d) ==
  \/ ClaimDue(d) \/ CheckArtifact(d) \/ CreateScheduledRun(d)
  \/ AttachRun(d) \/ ReleaseOccurrence(d)

ScheduleNext ==
  \/ PassTime
  \/ OtherRuns
  \/ \E a \in Digests : Deploy(a)
  \/ \E r \in Reconcilers : ReadActive(r) \/ Reconcile(r)
  \/ \E d \in Dispatchers :
       DispatcherStep(d) \/ DependencyFails(d) \/ DispatcherDies(d)

ScheduleSpec == ScheduleInit /\ [][ScheduleNext]_scheduleVars

-----------------------------------------------------------------------------
OccurrenceRows == [state : {"none", "claimed", "attached"},
                   digest : Digests \cup {"none"}, age : 0..ClaimTimeout]

DispatcherRows == [at : {"idle", "claimed", "checked", "created", "releasing"},
                   due : Instants, digest : Digests \cup {"none"}, lost : BOOLEAN]

ScheduleTypeOK ==
  /\ now \in Instants
  /\ deployed \in Digests
  /\ deploys \in 0..MaxDeploys
  /\ \E a \in Digests :
       schedule \in [digest : {a}, since : Instants, next : [CronsOf[a] -> Nat]]
  /\ occurrence \in [Instants -> OccurrenceRows]
  /\ dispatcher \in [Dispatchers -> DispatcherRows]
  /\ reconciler \in [Reconcilers -> Digests \cup {"none"}]
  /\ runOpen \in BOOLEAN
  /\ dispatchFaults \in 0..MaxDispatchFaults

(* Of two dispatchers at work on one occurrence at least one had its claim *)
(* taken away, by the timeout or by a release: ClaimDue's insertion gives  *)
(* an occurrence to one dispatcher, whatever schedules led to it.          *)
ExclusiveClaims ==
  \A d, e \in Dispatchers :
    /\ d # e
    /\ dispatcher[d].at # "idle" /\ dispatcher[e].at # "idle"
    /\ dispatcher[d].due = dispatcher[e].due
    => dispatcher[d].lost \/ dispatcher[e].lost

(* The instants that became due under the schedules' artifact.             *)
DueInstants ==
  {t \in (schedule.since + 1)..now : \E c \in DOMAIN schedule.next : t \in Fires[c]}

(* No due instant is forgotten: an entry is still due, which will claim    *)
(* the latest instant, or a row at or after it is attached or claimed for  *)
(* this artifact.  Claims, releases, timeouts and stale dispatchers all    *)
(* move both the rows and next_run_at.                                     *)
DueNotForgotten ==
  \A t \in DueInstants :
    \/ \E c \in DOMAIN schedule.next : schedule.next[c] <= now
    \/ \E u \in t..Horizon :
         Attached(u) \/ (Claimed(u) /\ occurrence[u].digest = schedule.digest)

(* The claims made since the schedules were written are of their artifact, *)
(* and a dispatcher whose claim was not taken away has its row.            *)
ClaimsOfSchedule ==
  /\ \A t \in Instants :
       /\ occurrence[t].state = "none" => occurrence[t] = NoRow
       /\ Claimed(t) => t <= now
       /\ Claimed(t) /\ t > schedule.since => occurrence[t].digest = schedule.digest
  /\ \A d \in Dispatchers : dispatcher[d].at # "idle" =>
       LET t == dispatcher[d].due
       IN  /\ t <= now
           /\ t > schedule.since => dispatcher[d].digest = schedule.digest
           /\ ~dispatcher[d].lost => occurrence[t] # NoRow

(* No entry skips an instant to come, and one that is not due has a row at *)
(* or after each of its instants that was.                                 *)
NothingSkipped ==
  \A c \in DOMAIN schedule.next :
    /\ \A t \in Fires[c] : t > now => schedule.next[c] <= t
    /\ schedule.next[c] > now =>
         \A t \in Fires[c] \cap ((schedule.since + 1)..now) : \E u \in t..Horizon :
           Attached(u) \/ (Claimed(u) /\ occurrence[u].digest = schedule.digest)

(* The types, and what claims, rows and schedules say of each other.       *)
ScheduleConsistent ==
  ScheduleTypeOK /\ ExclusiveClaims /\ ClaimsOfSchedule /\ NothingSkipped

(* While the schedules are those of the deployed artifact, every due       *)
(* instant gets a run at or after it, or the artifact is replaced.  A      *)
(* failed run counts: it is not scheduled again.                           *)
Owed(t) ==
  /\ schedule.digest = deployed
  /\ t \in DueInstants
  /\ \A u \in t..Horizon : ~Attached(u)

DueIsRun == \A t \in 1..Horizon : Owed(t) ~> ~Owed(t)
=============================================================================
