------------------------------ MODULE Cutover ------------------------------
(***************************************************************************)
(* Activation end to end: the runtime host composed with the durable       *)
(* serving-state pointers, which two kinds of callers move through         *)
(* Registry.ActivatePreparedSet and ActivatePrepared:                      *)
(*   - a deployment switches a set of workspaces in one transaction, if    *)
(*     the pointers are still those it was planned against                 *)
(*     (deployment/service.go, deployment/sqlite/repository.go);           *)
(*   - a refresh switches one workspace to a candidate made from the       *)
(*     artifact that was active when it was queued                         *)
(*     (refresh/run/service.go, refresh/sqlite/publication.go).            *)
(***************************************************************************)
EXTENDS RuntimeHost

CONSTANTS Deployments,    \* project_deployments rows
          DeploymentOf,   \* the deployment a call activates, None for a refresh
          InitialPointer  \* workspace_active_serving_states at startup

ASSUME CutoverAssumption ==
  /\ None \notin Deployments
  /\ DeploymentOf \in [Calls -> Deployments \union {None}]
  /\ InitialPointer \in [Workspaces -> States \union {None}]
  /\ \A w \in Workspaces : InitialPointer[w] # None => WorkspaceOf[InitialPointer[w]] = w
  /\ \A c \in Calls : DeploymentOf[c] = None =>
       /\ Cardinality(Targets[c]) = 1
       /\ \A w \in Workspaces : InitialPointer[w] \notin Targets[c]
  /\ \A c, e \in Calls : DeploymentOf[c] # None /\ DeploymentOf[c] = DeploymentOf[e]
                           => Targets[c] = Targets[e]

VARIABLES pointer,     \* workspace_active_serving_states
          status,      \* serving_states.status
          artifact,    \* the artifact a serving state serves, by the state that brought it
          deployment,  \* project_deployments.status
          prior        \* project_deployment_targets.prior_serving_state_id

durableVars == <<pointer, status, artifact, deployment, prior>>
cutoverVars == <<vars, durableVars>>

Refreshes == {c \in Calls : DeploymentOf[c] = None}
RefreshStates == UNION {Targets[c] : c \in Refreshes}
StatesOf(d) == UNION {Targets[c] : c \in {e \in Calls : DeploymentOf[e] = d}}

CutoverTypeOK ==
  /\ TypeOK
  /\ pointer \in [Workspaces -> States \union {None}]
  /\ status \in [States -> {"absent", "validated", "active", "draining", "failed"}]
  /\ artifact \in [States -> States \union {None}]
  /\ deployment \in [Deployments -> {"absent", "pending", "active", "superseded", "failed", "cancelled"}]
  /\ prior \in [Deployments -> [Workspaces -> States \union {None}]]

CutoverInit ==
  /\ Init
  /\ pointer = InitialPointer
  /\ status = [s \in States |-> IF \E w \in Workspaces : InitialPointer[w] = s THEN "active"
                                ELSE IF s \in RefreshStates THEN "absent" ELSE "validated"]
  /\ artifact = [s \in States |-> IF s \in RefreshStates THEN None ELSE s]
  /\ deployment = [d \in Deployments |-> "absent"]
  /\ prior = [d \in Deployments |-> InitialPointer]

(* State.CanActivate *)
CanActivate(s) == status[s] \in {"validated", "active"}

(* Defective: the states that were active stay so. *)
ActivatedKeepsOld(S) ==
  /\ pointer' = [w \in Workspaces |->
                   IF \E s \in S : WorkspaceOf[s] = w THEN CHOOSE s \in S : WorkspaceOf[s] = w
                   ELSE pointer[w]]
  /\ status' = [s \in States |-> IF s \in S THEN "active" ELSE status[s]]

(* The pointers and statuses after the states S became the active ones. *)
Activated(S) ==
  /\ pointer' = [w \in Workspaces |->
                   IF \E s \in S : WorkspaceOf[s] = w THEN CHOOSE s \in S : WorkspaceOf[s] = w
                   ELSE pointer[w]]
  /\ status' = [s \in States |->
                  CASE s \in S -> "active"
                    [] s \notin S /\ status[s] = "active"
                         /\ (\E t \in S : WorkspaceOf[t] = WorkspaceOf[s]) -> "draining"
                    [] OTHER -> status[s]]
-----------------------------------------------------------------------------
(* Deployments                                                             *)

(* CreateDeployment records the pointers the deployment replaces. *)
CreateDeployment(d) ==
  /\ Serving /\ deployment[d] = "absent"
  /\ \A s \in StatesOf(d) : CanActivate(s) /\ pointer[WorkspaceOf[s]] # s
  /\ deployment' = [deployment EXCEPT ![d] = "pending"]
  /\ prior' = [prior EXCEPT ![d] = pointer]
  /\ UNCHANGED <<vars, pointer, status, artifact>>

(* FailDeployment: only a pending deployment fails. *)
Fail(d) == deployment' = [deployment EXCEPT ![d] = IF @ = "pending" THEN "failed" ELSE @]

(* Service.Cancel, CancelDeployment: a call that already prepared goes on and
   is refused by its transaction. *)
CancelDeployment(d) ==
  /\ Serving /\ deployment[d] = "pending"
  /\ deployment' = [deployment EXCEPT ![d] = "cancelled"]
  /\ UNCHANGED <<vars, pointer, status, artifact, prior>>

(* Service.Activate up to its prepared set.  It found the deployment pending
   when it read it, which may be long ago. *)
DeployPrepare(c) ==
  /\ DeploymentOf[c] # None /\ deployment[DeploymentOf[c]] # "absent"
  /\ \/ Prepare(c) /\ UNCHANGED deployment
     \/ PrepareFails(c) /\ Fail(DeploymentOf[c])
  /\ UNCHANGED <<pointer, status, artifact, prior>>

(* VerifyPreparedSet: a preparation that found nothing to change cannot be
   verified, and a failed verification fails the deployment. *)
DeployVerify(c) ==
  /\ DeploymentOf[c] # None /\ callPc[c] = "prepared"
  /\ \/ Seal(c) /\ (\A g \in items[c] : ~noChange[g]) /\ UNCHANGED deployment
     \/ Discard(c) /\ Fail(DeploymentOf[c])
  /\ UNCHANGED <<pointer, status, artifact, prior>>

(* The conditions ActivateDeployment checks inside its transaction. *)
Activatable(d) ==
  /\ deployment[d] = "pending"
  /\ \A s \in StatesOf(d) : /\ CanActivate(s)
                            /\ pointer[WorkspaceOf[s]] = prior[d][WorkspaceOf[s]]

(* ActivateDeployment for a pending deployment. *)
DeployTransaction(d) ==
  /\ Activatable(d)
  /\ Activated(StatesOf(d))
  /\ deployment' = [e \in Deployments |->
                      IF e = d THEN "active"
                      ELSE IF deployment[e] = "active" THEN "superseded" ELSE deployment[e]]

(* Defective: any deployment that is no longer pending is answered with
   success. *)
DeployNotPending(d) ==
  /\ deployment[d] # "pending"
  /\ UNCHANGED <<pointer, status, deployment>>

(* ActivateDeployment for a deployment that is active already succeeds and
   writes nothing. *)
DeployRepeated(d) ==
  /\ deployment[d] = "active"
  /\ UNCHANGED <<pointer, status, deployment>>

(* The activation callback of a deployment under cutoverMu. *)
DeployActivate(c) ==
  /\ DeploymentOf[c] # None
  /\ \/ /\ ActivateCommitted(c)
        /\ DeployTransaction(DeploymentOf[c]) \/ DeployRepeated(DeploymentOf[c])
     \/ ActivateRefused(c) /\ UNCHANGED <<pointer, status, deployment>>
  /\ UNCHANGED <<artifact, prior>>
-----------------------------------------------------------------------------
(* Refreshes                                                               *)

(* QueuePipelineRefresh, CreateRefreshCandidate: a new serving state with the
   artifact of the active one, and the root run whose job can be claimed before
   the dependency runs are inserted. *)
QueueRefresh(c) ==
  \E s \in Targets[c] :
    /\ c \in Refreshes /\ Serving /\ status[s] = "absent" /\ pointer[WorkspaceOf[s]] # None
    /\ status' = [status EXCEPT ![s] = "validated"]
    /\ artifact' = [artifact EXCEPT ![s] = artifact[pointer[WorkspaceOf[s]]]]
    /\ UNCHANGED <<vars, pointer, deployment, prior>>

(* The rest of QueuePipelineRefresh when the root run or a dependency run cannot
   be inserted: MarkFailed has no fence, and the candidate is failed whatever
   became of it since.  Insertions that succeed change nothing here. *)
SubmissionFails(c) ==
  /\ c \in Refreshes /\ (\A s \in Targets[c] : status[s] \notin {"absent", "failed"})
  /\ status' = [s \in States |-> IF s \in Targets[c] THEN "failed" ELSE status[s]]
  /\ UNCHANGED <<vars, pointer, artifact, deployment, prior>>

(* The run of the refresh is not published: failed says so too, unless its
   submission failed later. *)
Unsettled(c) == \A s \in Targets[c] : status[s] \in {"validated", "failed"}

(* failJob: the candidate is marked failed, once the fence let its run fail:
   not after the run has published it. *)
FailCandidate(c) ==
  /\ Unsettled(c)
  /\ status' = [s \in States |-> IF s \in Targets[c] THEN "failed" ELSE status[s]]

(* ExecuteClaimedJob from the materialized candidate to its prepared runtime.
   RunMayPublish stops a worker whose run another one has published, the only
   one to find its candidate served; without its lease a worker closes what it
   prepared and leaves the rest. *)
RefreshPrepare(c) ==
  /\ c \in Refreshes
  /\ \/ Unsettled(c) /\ Prepare(c) /\ UNCHANGED status
     \/ Unsettled(c) /\ PrepareFails(c) /\ (FailCandidate(c) \/ UNCHANGED status)
     \/ Unsettled(c) /\ Seal(c) /\ (\A g \in items[c] : ~noChange[g]) /\ UNCHANGED status
     \/ callPc[c] = "prepared" /\ Discard(c) /\ (FailCandidate(c) \/ UNCHANGED status)
  /\ UNCHANGED <<pointer, artifact, deployment, prior>>

(* PublicationUnitOfWork.Publish under cutoverMu: its fence concerns the
   refresh run only, and the callback may lose it. *)
RefreshActivate(c) ==
  /\ c \in Refreshes
  /\ \/ ActivateCommitted(c) /\ (\A s \in Targets[c] : CanActivate(s)) /\ Activated(Targets[c])
     \/ ActivateRefused(c) /\ (FailCandidate(c) \/ UNCHANGED status) /\ UNCHANGED pointer
  /\ UNCHANGED <<artifact, deployment, prior>>
-----------------------------------------------------------------------------
CutoverNext ==
  \/ Background /\ UNCHANGED durableVars
  \/ \E w \in Workspaces : Reload(w, pointer[w]) /\ UNCHANGED durableVars
  \/ \E d \in Deployments : CreateDeployment(d) \/ CancelDeployment(d)
  \/ \E c \in Calls : DeployPrepare(c) \/ DeployVerify(c) \/ DeployActivate(c)
  \/ \E c \in Calls : QueueRefresh(c) \/ SubmissionFails(c)
  \/ \E c \in Calls : RefreshPrepare(c) \/ RefreshActivate(c)

CutoverSpec == CutoverInit /\ [][CutoverNext]_cutoverVars

-----------------------------------------------------------------------------
(* Properties                                                              *)

(* The manager of w serves what the pointer of w names. *)
Follows(w) ==
  IF pointer[w] = None THEN current[w] = NoGeneration
  ELSE current[w] # NoGeneration /\ source[current[w]] = pointer[w]

(* The call c was answered and has published its whole set. *)
Published(c) ==
  /\ callPc[c] \in {"answered", "done"} /\ items[c] # {}
  /\ \A g \in items[c] : prep[g] = "published"

(* Another call of the same deployment has activated it: ActivateDeployment
   answers c with success and writes nothing. *)
Repeats(c) ==
  DeploymentOf[c] # None
  /\ \E e \in Calls \ {c} : DeploymentOf[e] = DeploymentOf[c] /\ Published(e)

(* What w serves was published by a repeated activation. *)
Strayed(w) == \E c \in Calls : current[w] \in items[c] /\ Repeats(c)

(* What the managers serve is what the database says is active, whenever no
   cutover is under way, except for what a repeated activation published: no
   activation that is refused, overtaken or the first of its deployment leaves
   a workspace on another generation than its pointer names. *)
MemoryServesPointer ==
  Serving /\ writer = None => \A w \in Workspaces : Follows(w) \/ Strayed(w)

(* A request that acquires a runtime finds every workspace switched or none,
   but for those a repeated activation published: it never observes a cutover
   half done (ActivatePreparedSet). *)
NoMixedRollout ==
  [][\A r \in Readers :
       holding'[r] # holding[r] /\ holding'[r] # NoGeneration =>
         \A w \in Workspaces :
           current[w] # NoGeneration => source[current[w]] = pointer[w] \/ Strayed(w)]_cutoverVars

(* Every active serving state is the one its workspace's pointer names, and a
   pointer names an active state of its workspace, or one that a refresh has
   published and whose submission failed afterwards. *)
PointersNameActive ==
  /\ \A s \in States : status[s] = "active" => pointer[WorkspaceOf[s]] = s
  /\ \A w \in Workspaces : pointer[w] # None =>
       /\ WorkspaceOf[pointer[w]] = w
       /\ \/ status[pointer[w]] = "active"
          \/ pointer[w] \in RefreshStates /\ status[pointer[w]] = "failed"

(* A call's Prepared objects are its targets, one for each; what it publishes
   really was prepared. *)
CallsServeTargets ==
  \A c \in Calls :
    callPc[c] \in {"prepared", "sealed", "publishing"} =>
      /\ {source[g] : g \in items[c]} = Targets[c]
      /\ \A g, h \in items[c] : source[g] = source[h] => g = h
      /\ callPc[c] # "prepared" => \A g \in items[c] : ~noChange[g]

(* While a cutover publishes, the workspaces that do not serve their pointer
   are those for which it still holds the runtime that will, and those that
   strayed. *)
CutoverCatchesUp ==
  /\ \A w \in loaded :
       ~closed => \/ Follows(w) \/ Strayed(w)
                  \/ \E c \in Calls : \E g \in items[c] :
                       writer = c /\ prep[g] = "sealed" /\ At(g) = w
  /\ \A c \in Calls : \A g \in items[c] :
       writer = c /\ prep[g] = "sealed" /\ ~Repeats(c) => pointer[At(g)] = source[g]

(* An active deployment was activated by a call that publishes its runtimes. *)
ActiveWasActivated ==
  \A d \in Deployments :
    deployment[d] = "active" =>
      \E e \in Calls : DeploymentOf[e] = d /\ (callPc[e] = "publishing" \/ Published(e))

(* The types, and the agreement of pointers, statuses, calls and managers. *)
CutoverConsistent ==
  /\ CutoverTypeOK /\ PointersNameActive /\ CallsServeTargets /\ CutoverCatchesUp
  /\ ActiveWasActivated
=============================================================================
