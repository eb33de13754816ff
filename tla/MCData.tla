------------------------------- MODULE MCData -------------------------------
(***************************************************************************)
(* One run over the components that keep durable rows and over the start   *)
(* and stop of the process: refresh runs, snapshot retention, managed data *)
(* and the lifecycle group.  They share no variable here; a behaviour is   *)
(* one of the component that Init puts in focus.  Managed data is explored *)
(* three times: two uploaders on one session, two sessions with a blob in  *)
(* common, and a manifest of two blobs.                                    *)
(***************************************************************************)
EXTENDS RefreshRun, SnapshotRetention, ManagedData, LifecycleGroup, TLC

CONSTANTS u1, u2, u3, d1, d2, b1, b2

VARIABLE focus

MCManifestOf == u1 :> {b1} @@ u2 :> {b1} @@ u3 :> {b1, b2}
MCRevisionOf == u1 :> d1 @@ u2 :> d1 @@ u3 :> d2
(* Workers, Passes and Uploaders are given the same two values.            *)
DataSymmetry == Permutations(Workers)

DataFocuses == {"session", "shared", "manifest"}

mcVars == <<focus, refreshVars, retentionVars, dataVars, groupVars>>

Focuses == {"refresh", "retention", "group"} \cup DataFocuses

MCInit == /\ RefreshInit /\ RetentionInit /\ DataInit /\ GroupInit
          /\ focus \in Focuses
          /\ blobs \subseteq IF focus \in DataFocuses THEN {b1} ELSE {}

(* The sessions of a focus on managed data, and who may turn to them.      *)
FocusUploads ==
  IF focus = "session" THEN {u1}
  ELSE IF focus = "shared" THEN {u1, u2} ELSE {u3}
OthersIdle(c) == focus = "session" \/ \A d \in Uploaders \ {c} : uploader[d] = IdleUploader

FocusDataNext ==
  \/ \E c \in Uploaders :
       \/ UploaderStep(c)
       \/ OthersIdle(c) /\ \E u \in Uploads \cap FocusUploads : CallBegins(c, u)
  \/ \E u \in Uploads \cap FocusUploads : TransferStep(u)
  \/ StoreStep

MCNext ==
  /\ UNCHANGED focus
  /\ \/ /\ focus = "refresh" /\ RefreshNext
        /\ UNCHANGED <<retentionVars, dataVars, groupVars>>
     \/ /\ focus = "retention" /\ RetentionNext
        /\ UNCHANGED <<refreshVars, dataVars, groupVars>>
     \/ /\ focus \in DataFocuses /\ FocusDataNext
        /\ UNCHANGED <<refreshVars, retentionVars, groupVars>>
     \/ /\ focus = "group" /\ GroupNext
        /\ UNCHANGED <<refreshVars, retentionVars, dataVars>>

MCSpec == MCInit /\ [][MCNext]_mcVars

(* The types and bookkeeping of the component in focus; the others rest in *)
(* their initial state.                                                    *)
DurableConsistent ==
  /\ focus = "refresh" => RefreshConsistent
  /\ focus = "retention" => RetentionConsistent
  /\ focus \in DataFocuses => DataConsistent
  /\ focus = "group" => GroupConsistent
=============================================================================
