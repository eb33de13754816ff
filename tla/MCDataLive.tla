----------------------------- MODULE MCDataLive -----------------------------
(***************************************************************************)
(* What must eventually happen in the job queue, the lifecycle group,      *)
(* refresh runs and managed data.  They share no variable here; a          *)
(* behaviour is one of the component that Init puts in focus, and it is    *)
(* fair to that component in the way the component's own module says.      *)
(***************************************************************************)
EXTENDS JobQueue, LifecycleGroup, RefreshRun, ManagedData, TLC

CONSTANTS c1, w1, o1, u1, u2, d1, b1

VARIABLE focus

MCClassOf == [j \in Jobs |-> c1]
MCSameWorkspace == [j \in Jobs |-> w1]
MCOwnerOf == [r \in Runners |-> o1]
MCManifestOf == u1 :> {b1} @@ u2 :> {b1}
MCRevisionOf == u1 :> d1 @@ u2 :> d1

jobVars == vars
mcVars == <<focus, jobVars, groupVars, refreshVars, dataVars>>

MCInit == /\ Init /\ GroupInit /\ RefreshInit /\ DataInit
          /\ focus \in {"jobs", "group", "refresh", "data", "same"}
          /\ blobs = {} \/ focus \in {"data", "same"}
          /\ focus = "same" => blobs = Blobs

(* Two sessions with one manifest, whose blobs are left over from others, are *)
(* finalized: their clients do no more than begin and finalize them.          *)
SameDataNext ==
  \/ \E c \in Uploaders :
       \/ UploaderStep(c)
       \/ \E u \in Uploads :
            \/ Status(u) = "absent" /\ BeginUpload(c, u)
            \/ Status(u) = "open" /\ BeginFinalizeUpload(c, u)
            \/ CompleteFinalizeUpload(c, u)
  \/ ProcessCrash \/ ExpireUploads \/ KeeperStep

MCNext ==
  /\ UNCHANGED focus
  /\ \/ /\ focus = "jobs" /\ Next
        /\ UNCHANGED <<groupVars, refreshVars, dataVars>>
     \/ /\ focus = "group" /\ GroupNext
        /\ UNCHANGED <<jobVars, refreshVars, dataVars>>
     \/ /\ focus = "refresh" /\ RefreshNext
        /\ UNCHANGED <<jobVars, groupVars, dataVars>>
     \/ /\ focus = "data" /\ DataNext /\ Status(u2)' = "absent"
        /\ UNCHANGED <<jobVars, groupVars, refreshVars>>
     \/ /\ focus = "same" /\ SameDataNext
        /\ UNCHANGED <<jobVars, groupVars, refreshVars>>

(* The fairness conditions of the modules, for the component in focus.     *)
JobsFair ==
  /\ <>[](\A r \in Runners : up[r])
  /\ \A r \in Runners, c \in Classes : WF_jobVars(focus = "jobs" /\ Poll(r, c))
  /\ \A r \in Runners : WF_jobVars(focus = "jobs" /\ Restart(r))
  /\ \A j \in Jobs : WF_jobVars(focus = "jobs" /\ LeaseRunsOut(j))
  /\ \A t \in Threads :
       /\ SF_jobVars(focus = "jobs" /\ Admitted(t))
       /\ SF_jobVars(focus = "jobs" /\ ClaimByID(t))
       /\ WF_jobVars(focus = "jobs" /\ ClaimMissed(t))
       /\ WF_jobVars(focus = "jobs" /\ WriteOutcome(t))
       /\ WF_jobVars(focus = "jobs" /\ \E o \in {"succeeded", "failed"} : HandlerReturns(t, o))
       /\ WF_jobVars(focus = "jobs" /\ AdmissionRejected(t) /\ ctxDone[t])

GroupFair == \A p \in GroupCallers : WF_groupVars(focus = "group" /\ GroupStep(p))

RefreshFair ==
  /\ \A w \in Workers :
       /\ WF_refreshVars(focus = "refresh" /\ ExecutorStep(w))
       /\ WF_refreshVars(focus = "refresh" /\ \E g \in RunGenerations : List(w, g))
  /\ \A g \in RunGenerations :
       /\ WF_refreshVars(focus = "refresh" /\ SubmitterStep(g))
       /\ WF_refreshVars(focus = "refresh" /\ LeaseLapses(g) /\ ~Held(g))

InData == focus \in {"data", "same"}

DataFair ==
  /\ \A c \in Uploaders : WF_dataVars(InData /\ UploaderStep(c))
  /\ \A u \in Uploads :
       SF_dataVars(InData /\ \E c \in Uploaders : CompleteFinalizeUpload(c, u))
  /\ WF_dataVars(InData /\ ExpireUploads)
  /\ WF_dataVars(InData /\ KeeperStep)

LiveSpec == /\ MCInit /\ [][MCNext]_mcVars
            /\ JobsFair /\ GroupFair /\ RefreshFair /\ DataFair
=============================================================================
