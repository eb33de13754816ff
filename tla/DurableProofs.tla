---------------------------- MODULE DurableProofs ----------------------------
(***************************************************************************)
(* Machine-checked facts about managed data and about the lifecycle group, *)
(* and about both beside the refresh runs and retention of RefreshProofs.  *)
(*                                                                         *)
(* Managed data, for every set of sessions, blobs, manifests and service   *)
(* goroutines: the heart is DataInv.  A blob that a call has found, and    *)
(* that a row protects, cannot be a candidate of the collector, because    *)
(* the collector deletes under a lock that no row changes in, after        *)
(* comparing the rows with its own snapshot.                               *)
(*                                                                         *)
(* Lifecycle group, for every number of components and every set of        *)
(* concurrent callers of Start and Stop: the heart is that an attempt has  *)
(* one owner, that the owner's place in its loop says exactly which        *)
(* components run, and that an attempt that is done leaves the group free  *)
(* before the next epoch opens.                                            *)
(***************************************************************************)
EXTENDS MCData, RefreshProofs

-----------------------------------------------------------------------------
(* Managed data                                                            *)

(* The inductive invariant. *)
DataInv == DataConsistent /\ PublishedBlobsExist

(* Before the first step no session exists and nobody is at work. *)
LEMMA InitDataInv == DataInit => DataInv
BY ManagedDataAssumption
   DEF DataInit, DataInv, DataConsistent, DataTypeOK, FoundBlobsExist, CallsFollowRows,
       CollectorSpares, PublishedBlobsExist, IdleUploader, IdleKeeper, CallAt, Status,
       UploadStatus, Finished, UploadOps, UploadRows, UploadCalls, Keepers

(* How the status of a session may change in one step. *)
StatusMoves ==
  {<<"absent", "open">>, <<"open", "committing">>, <<"open", "complete">>,
   <<"committing", "complete">>, <<"committing", "failed">>,
   <<"open", "aborted">>, <<"open", "expired">>}

RowsMove ==
  /\ upload' \in [Uploads -> UploadRows]
  /\ \A u \in Uploads : \/ upload'[u].status = Status(u)
                        \/ <<Status(u), upload'[u].status>> \in StatusMoves
  /\ \A u \in Uploads :
       Status(u) = "open" /\ upload'[u].status \in {"committing", "complete"}
         => ManifestOf[u] \subseteq blobs

(* Every transaction that writes a row moves its status along these edges, and
   a session that commits has all its blobs. *)
LEMMA StatusMovesOnly ==
  ASSUME DataInv, [DataNext]_dataVars
  PROVE  RowsMove
<1>00. upload \in [Uploads -> UploadRows]
  BY DEF DataInv, DataConsistent, DataTypeOK
<1> USE <1>00 DEF UploadRows, RowsMove, StatusMoves, Status, UploadStatus, Finished
<1>0. UNCHANGED upload => RowsMove
  OBVIOUS
<1>1. ASSUME NEW c \in Uploaders, UploaderStep(c) PROVE RowsMove
  <2> DEFINE u == uploader[c].upload
  <2>0. ~CallAt(c, "idle") => u \in Uploads
    BY DEF DataInv, DataConsistent, CallsFollowRows
  <2>00. /\ CallAt(c, "queue") => Status(u) # "open"
         /\ uploader[c].step \in {"commit", "publish"} /\ Status(u) = "open"
              => ManifestOf[u] \subseteq blobs
    BY DEF DataInv, DataConsistent, CallsFollowRows, FoundBlobsExist, CallAt
  <2>1. CASE AbortSession(c)
    BY <2>1 DEF AbortSession
  <2>2. CASE ExpireSession(c)
    BY <2>2 DEF ExpireSession, Expired
  <2>3. CASE StatBlob(c) \/ Inspected(c) \/ StatFails(c) \/ CleanupTransport(c)
    BY <1>0, <2>3 DEF StatBlob, Inspected, StatFails, CleanupTransport
  <2>4. CASE BeginUploadFinalization(c)
    <3>1. \/ UNCHANGED upload
          \/ Finalizable(u) /\ upload' = [upload EXCEPT ![u].status = "committing"]
      BY <2>4 DEF BeginUploadFinalization
    <3> QED
      BY <1>0, <2>0, <2>00, <2>4, <3>1 DEF BeginUploadFinalization, Finalizable, CallAt
  <2>5. CASE CompleteUpload(c)
    <3>1. \/ UNCHANGED upload
          \/ /\ Status(u) \in {"open", "committing", "complete"}
             /\ upload' = [upload EXCEPT ![u].status = "complete"]
      BY <2>5 DEF CompleteUpload
    <3> QED
      BY <1>0, <2>0, <2>00, <2>5, <3>1 DEF CompleteUpload, CallAt
  <2>6. CASE FailFinalizeUpload(c)
    BY <2>6, ZenonT(60) DEF FailFinalizeUpload, Failed
  <2>7. CASE AcknowledgeCleanup(c)
    BY <1>0, <2>0, <2>7 DEF AcknowledgeCleanup, Acknowledged, CallAt
  <2> QED
    BY <1>1, <2>1, <2>2, <2>3, <2>4, <2>5, <2>6, <2>7 DEF UploaderStep
<1>2. ASSUME NEW c \in Uploaders, NEW u \in Uploads, BeginUpload(c, u) PROVE RowsMove
  BY <1>2 DEF BeginUpload
<1>3. ASSUME NEW c \in Uploaders, NEW u \in Uploads,
             \/ RecoverUpload(c, u) \/ BeginFinalizeUpload(c, u)
             \/ CompleteFinalizeUpload(c, u) \/ AbortUpload(c, u)
      PROVE  RowsMove
  BY <1>0, <1>3 DEF RecoverUpload, BeginFinalizeUpload, CompleteFinalizeUpload, AbortUpload
<1>4. ASSUME NEW u \in Uploads, Lapses(u) PROVE RowsMove
  BY <1>4 DEF Lapses
<1>5. CASE ExpireUploads
  BY <1>5 DEF ExpireUploads, Expired
<1>6. CASE AcknowledgeTerminalUpload
  BY <1>6, ZenonT(60) DEF AcknowledgeTerminalUpload, Acknowledged
<1>7. CASE \/ \E u \in Uploads, b \in Blobs : PutBlob(u, b)
           \/ \E b \in Blobs : Ages(b)
           \/ ProcessCrash \/ CleanupTerminalUpload \/ ReachabilitySnapshot
           \/ WalkBlobs \/ WithStableSnapshot \/ DeleteBlob \/ UNCHANGED dataVars
  BY <1>0, <1>7 DEF PutBlob, Ages, ProcessCrash, CleanupTerminalUpload,
     ReachabilitySnapshot, WalkBlobs, WithStableSnapshot, DeleteBlob, dataVars
<1> QED
  BY <1>1, <1>2, <1>3, <1>4, <1>5, <1>6, <1>7
     DEF DataNext, CallBegins, TransferStep, StoreStep, KeeperStep

(* What the deletion under the lock leaves alone. *)
BlobsKept ==
  \A u \in Uploads : Status(u) \in {"open", "committing", "complete"} =>
    ManifestOf[u] \intersect blobs \subseteq blobs'

(* No step takes away a blob that a session protects. *)
LEMMA ProtectedBlobsKept ==
  ASSUME DataInv, [DataNext]_dataVars
  PROVE  BlobsKept
<1>1. CASE DeleteBlob
  <2>1. ASSUME NEW u \in Uploads, Status(u) \in {"open", "committing", "complete"}
        PROVE  ManifestOf[u] \subseteq ReachableBlobs
    <3>1. <<u, Status(u)>> \in Reachability
      BY <2>1 DEF Reachability
    <3>2. <<u, Status(u)>>[1] = u
      OBVIOUS
    <3> QED
      BY <3>1, <3>2 DEF ReachableBlobs
  <2>2. keeper.candidates \intersect ReachableBlobs = {}
    BY <1>1 DEF DeleteBlob, DataInv, DataConsistent, CollectorSpares
  <2>3. \A b \in blobs : b \in blobs' \/ b \in keeper.candidates
    BY <1>1 DEF DeleteBlob
  <2> QED
    BY <2>1, <2>2, <2>3 DEF BlobsKept
<1>2. CASE ~DeleteBlob
  <2>1. ASSUME NEW c \in Uploaders, UploaderStep(c) PROVE UNCHANGED blobs
    BY <2>1 DEF UploaderStep, AbortSession, ExpireSession, StatBlob, Inspected, StatFails,
       BeginUploadFinalization, CompleteUpload, FailFinalizeUpload, CleanupTransport,
       AcknowledgeCleanup
  <2>2. ASSUME NEW c \in Uploaders, NEW u \in Uploads,
               \/ BeginUpload(c, u) \/ RecoverUpload(c, u) \/ BeginFinalizeUpload(c, u)
               \/ CompleteFinalizeUpload(c, u) \/ AbortUpload(c, u)
        PROVE  UNCHANGED blobs
    BY <2>2 DEF BeginUpload, RecoverUpload, BeginFinalizeUpload, CompleteFinalizeUpload,
       AbortUpload
  <2>3. ASSUME NEW u \in Uploads, Lapses(u) \/ \E b \in Blobs : PutBlob(u, b)
        PROVE  blobs \subseteq blobs'
    BY <2>3 DEF Lapses, PutBlob
  <2>4. (\E b \in Blobs : Ages(b)) \/ ProcessCrash \/ ExpireUploads => UNCHANGED blobs
    BY DEF Ages, ProcessCrash, ExpireUploads
  <2>5. KeeperStep \/ UNCHANGED dataVars => UNCHANGED blobs
    BY <1>2 DEF KeeperStep, CleanupTerminalUpload, AcknowledgeTerminalUpload,
       ReachabilitySnapshot, WalkBlobs, WithStableSnapshot, dataVars
  <2>6. blobs \subseteq blobs'
    BY <2>1, <2>2, <2>3, <2>4, <2>5 DEF DataNext, CallBegins, TransferStep, StoreStep
  <2> QED
    BY <2>6 DEF BlobsKept
<1> QED
  BY <1>1, <1>2

(* The part of the invariant that is about one call. *)
CallOK(c) ==
  LET u == uploader[c].upload IN
  /\ ~CallAt(c, "idle") =>
       /\ u \in Uploads /\ Status(u) # "absent"
       /\ CallAt(c, "queue") => Status(u) # "open"
       /\ CallAt(c, "stat") => uploader[c].todo \union uploader[c].found \subseteq ManifestOf[u]
  /\ uploader[c].step \in {"stat", "commit", "publish"} =>
       \/ Status(u) \notin {"open", "committing", "complete"}
       \/ (IF CallAt(c, "stat") THEN uploader[c].found ELSE ManifestOf[u]) \subseteq blobs

(* Call by call, it is the part of the invariant about calls. *)
LEMMA CallsOK ==
  (\A c \in Uploaders : CallOK(c)) <=> FoundBlobsExist /\ CallsFollowRows
BY DEF CallOK, FoundBlobsExist, CallsFollowRows

(* A call that does not move keeps what it relies on, whatever else happens. *)
LEMMA OthersKeep ==
  ASSUME DataInv, [DataNext]_dataVars, NEW d \in Uploaders, uploader'[d] = uploader[d]
  PROVE  CallOK(d)'
<1>1. RowsMove /\ BlobsKept
  BY StatusMovesOnly, ProtectedBlobsKept
<1>2. CallOK(d)
  BY CallsOK DEF DataInv, DataConsistent
<1> DEFINE u == uploader[d].upload
<1>3. CASE uploader[d].step = "idle"
  BY <1>3 DEF CallOK, CallAt
<1>4. CASE uploader[d].step # "idle"
  <2>1. u \in Uploads /\ Status(u) # "absent"
    BY <1>2, <1>4 DEF CallOK, CallAt
  <2>2. upload'[u].status # "absent"
    BY <1>1, <2>1 DEF RowsMove, StatusMoves
  <2>3. Status(u) # "open" => upload'[u].status # "open"
    BY <1>1, <2>1 DEF RowsMove, StatusMoves
  <2>4. upload'[u].status \in {"open", "committing", "complete"}
          => Status(u) \in {"open", "committing", "complete"}
    BY <1>1, <2>1 DEF RowsMove, StatusMoves
  <2>5. Status(u) \in {"open", "committing", "complete"} =>
          ManifestOf[u] \intersect blobs \subseteq blobs'
    BY <1>1, <2>1 DEF BlobsKept
  <2> QED
    BY <1>2, <1>4, <2>1, <2>2, <2>3, <2>4, <2>5 DEF CallOK, CallAt, Status
<1> QED
  BY <1>3, <1>4

CallSteps == {"idle", "expire", "queue", "stat", "commit", "publish", "fail", "abort",
              "cleanup", "acknowledge"}

(* The three ways a call moves: to a step without findings, *)
LEMMA GoesTo ==
  ASSUME uploader \in [Uploaders -> UploadCalls], NEW c \in Uploaders,
         NEW op \in UploadOps \union {"none"},
         NEW step \in CallSteps, NEW u \in Uploads, Goes(c, op, step, u)
  PROVE  /\ uploader' \in [Uploaders -> UploadCalls]
         /\ uploader'[c].step = step /\ uploader'[c].upload = u
         /\ \A d \in Uploaders \ {c} : uploader'[d] = uploader[d]
<1>1. IdleUploader \in UploadCalls
  BY DEF IdleUploader, UploadCalls, UploadStatus
<1>2. [IdleUploader EXCEPT !.op = op, !.step = step, !.upload = u] \in UploadCalls
  BY <1>1 DEF UploadCalls, CallSteps
<1>3. /\ [IdleUploader EXCEPT !.op = op, !.step = step, !.upload = u].step = step
      /\ [IdleUploader EXCEPT !.op = op, !.step = step, !.upload = u].upload = u
  BY <1>1 DEF UploadCalls
<1> QED
  BY <1>2, <1>3 DEF Goes

(* into an inspection, *)
LEMMA InspectsAll ==
  ASSUME uploader \in [Uploaders -> UploadCalls], NEW c \in Uploaders,
         NEW op \in UploadOps \union {"none"},
         NEW u \in Uploads, NEW seen \in UploadStatus, Inspects(c, op, u, seen)
  PROVE  /\ uploader' \in [Uploaders -> UploadCalls]
         /\ uploader'[c].step = "stat" /\ uploader'[c].upload = u
         /\ uploader'[c].todo = ManifestOf[u] /\ uploader'[c].found = {}
         /\ \A d \in Uploaders \ {c} : uploader'[d] = uploader[d]
<1> DEFINE i == [IdleUploader EXCEPT !.op = op, !.step = "stat", !.upload = u,
                                      !.seen = seen, !.todo = ManifestOf[u]]
<1>1. IdleUploader \in UploadCalls /\ IdleUploader.found = {}
  BY DEF IdleUploader, UploadCalls, UploadStatus
<1>2. i \in UploadCalls
  BY <1>1, ManagedDataAssumption DEF UploadCalls
<1>3. i.step = "stat" /\ i.upload = u /\ i.todo = ManifestOf[u] /\ i.found = {}
  BY <1>1 DEF UploadCalls
<1> QED
  BY <1>2, <1>3 DEF Inspects

(* and back to the caller. *)
LEMMA ReturnsIdle ==
  ASSUME uploader \in [Uploaders -> UploadCalls], NEW c \in Uploaders,
         uploader' = [uploader EXCEPT ![c] = IdleUploader]
  PROVE  /\ uploader' \in [Uploaders -> UploadCalls]
         /\ uploader'[c].step = "idle"
         /\ \A d \in Uploaders \ {c} : uploader'[d] = uploader[d]
BY DEF IdleUploader, UploadCalls, UploadStatus

(* A call that is over relies on nothing. *)
LEMMA IdleOK ==
  ASSUME NEW c \in Uploaders, uploader'[c].step = "idle"
  PROVE  CallOK(c)'
BY DEF CallOK, CallAt

(* A step without findings relies on the row only. *)
LEMMA QuietOK ==
  ASSUME NEW c \in Uploaders, NEW u \in Uploads, RowsMove,
         uploader'[c].step \in {"abort", "expire", "fail", "cleanup", "acknowledge"},
         uploader'[c].upload = u, Status(u) # "absent" \/ upload'[u].status # "absent"
  PROVE  CallOK(c)'
BY DEF CallOK, CallAt, Status, RowsMove, StatusMoves

(* An inspection that begins has found nothing. *)
LEMMA InspectionOK ==
  ASSUME NEW c \in Uploaders, NEW u \in Uploads, uploader'[c].step = "stat",
         uploader'[c].upload = u, upload'[u].status # "absent",
         uploader'[c].todo = ManifestOf[u], uploader'[c].found = {}
  PROVE  CallOK(c)'
BY DEF CallOK, CallAt, Status

CallsKept ==
  /\ uploader' \in [Uploaders -> UploadCalls]
  /\ \A d \in Uploaders : CallOK(d)'

(* Every step of a call keeps what the calls rely on. *)
LEMMA UploaderStepKeeps ==
  ASSUME DataInv, [DataNext]_dataVars, NEW c \in Uploaders, UploaderStep(c)
  PROVE  CallsKept
<1>0. /\ uploader \in [Uploaders -> UploadCalls] /\ uploader[c] \in UploadCalls
      /\ upload \in [Uploads -> UploadRows] /\ CallOK(c) /\ RowsMove
  BY StatusMovesOnly, CallsOK DEF DataInv, DataConsistent, DataTypeOK
<1> DEFINE i == uploader[c]
           u == uploader[c].upload
<1>00. SUFFICES /\ uploader' \in [Uploaders -> UploadCalls]
                /\ CallOK(c)'
                /\ \A d \in Uploaders \ {c} : uploader'[d] = uploader[d]
  BY OthersKeep DEF CallsKept
<1>1. i.step # "idle" /\ u \in Uploads /\ Status(u) # "absent"
  <2>1. i.step # "idle"
    BY DEF UploaderStep, AbortSession, ExpireSession, StatBlob, Inspected, StatFails,
       BeginUploadFinalization, CompleteUpload, FailFinalizeUpload, CleanupTransport,
       AcknowledgeCleanup, CallAt
  <2> QED
    BY <1>0, <2>1 DEF CallOK, CallAt
<1>2. i.op \in UploadOps \union {"none"} /\ i.step \in CallSteps /\ i.seen \in UploadStatus
  BY <1>0 DEF UploadCalls, CallSteps
<1>3. ASSUME uploader' = [uploader EXCEPT ![c] = IdleUploader]
      PROVE  /\ uploader' \in [Uploaders -> UploadCalls]
             /\ CallOK(c)'
             /\ \A d \in Uploaders \ {c} : uploader'[d] = uploader[d]
  BY <1>0, <1>3, ReturnsIdle, IdleOK
<1>4. ASSUME NEW op \in UploadOps \union {"none"},
             Goes(c, op, "cleanup", u) \/ Goes(c, op, "acknowledge", u)
               \/ Goes(c, op, "fail", u)
      PROVE  /\ uploader' \in [Uploaders -> UploadCalls]
             /\ CallOK(c)'
             /\ \A d \in Uploaders \ {c} : uploader'[d] = uploader[d]
  <2>1. PICK step \in {"cleanup", "acknowledge", "fail"} : Goes(c, op, step, u)
    BY <1>4
  <2>2. step \in CallSteps
    BY DEF CallSteps
  <2>3. /\ uploader' \in [Uploaders -> UploadCalls]
        /\ uploader'[c].step = step /\ uploader'[c].upload = u
        /\ \A d \in Uploaders \ {c} : uploader'[d] = uploader[d]
    BY <1>0, <1>1, <2>1, <2>2, GoesTo
  <2> QED
    BY <1>0, <1>1, <2>3, QuietOK
<1>5. CASE AbortSession(c)
  BY <1>3, <1>4, <1>5 DEF AbortSession, CallEnds, UploadOps
<1>6. CASE ExpireSession(c)
  BY <1>4, <1>6 DEF ExpireSession, UploadOps
<1>7. CASE StatBlob(c)
  <2>1. PICK b \in i.todo : uploader' = [uploader EXCEPT ![c].todo = @ \ {b},
                               ![c].found = @ \union ({b} \intersect blobs)]
    BY <1>7 DEF StatBlob
  <2>2. /\ uploader'[c].step = i.step /\ uploader'[c].upload = u
        /\ uploader'[c].todo = i.todo \ {b}
        /\ uploader'[c].found = i.found \union ({b} \intersect blobs)
        /\ \A d \in Uploaders \ {c} : uploader'[d] = uploader[d]
    BY <1>0, <2>1 DEF UploadCalls
  <2>3. uploader' \in [Uploaders -> UploadCalls]
    BY <1>0, <2>1 DEF UploadCalls
  <2>4. UNCHANGED <<upload, blobs>> /\ i.step = "stat"
    BY <1>7 DEF StatBlob, CallAt
  <2>5. CallOK(c)'
    BY <1>0, <1>1, <2>2, <2>4 DEF CallOK, CallAt, Status
  <2> QED
    BY <2>2, <2>3, <2>5
<1>8. CASE Inspected(c)
  <2> DEFINE next == Continuation(i.op, i.seen, i.found # ManifestOf[u])
  <2>1. /\ next \in {"commit", "publish", "cleanup", "fail", "end"}
        /\ next \in {"commit", "publish"} => i.found = ManifestOf[u]
    BY DEF Continuation
  <2>2. /\ i.step = "stat" /\ UNCHANGED <<upload, blobs>>
        /\ IF next = "end" THEN CallEnds(c) ELSE Goes(c, i.op, next, u)
    BY <1>8 DEF Inspected, CallAt
  <2> HIDE DEF next
  <2>3. CASE next \in {"commit", "publish"}
    <3>1. Goes(c, i.op, next, u)
      BY <2>2, <2>3
    <3>10. next \in CallSteps
      BY <2>3 DEF CallSteps
    <3>2. /\ uploader' \in [Uploaders -> UploadCalls]
          /\ uploader'[c].step = next /\ uploader'[c].upload = u
          /\ \A d \in Uploaders \ {c} : uploader'[d] = uploader[d]
      BY <1>0, <1>1, <1>2, <3>1, <3>10, GoesTo
    <3>3. Status(u) \notin {"open", "committing", "complete"} \/ ManifestOf[u] \subseteq blobs
      BY <1>0, <2>1, <2>2, <2>3 DEF CallOK, CallAt
    <3>4. CallOK(c)'
      BY <1>1, <2>2, <2>3, <3>2, <3>3 DEF CallOK, CallAt, Status
    <3> QED
      BY <3>2, <3>4
  <2>4. CASE next \in {"cleanup", "fail"}
    BY <1>2, <1>4, <2>2, <2>4
  <2>5. CASE next = "end"
    BY <1>3, <2>2, <2>5 DEF CallEnds
  <2> QED
    BY <2>1, <2>3, <2>4, <2>5
<1>9. CASE StatFails(c)
  BY <1>3, <1>4, <1>9 DEF StatFails, CallEnds, UploadOps
<1>10. CASE BeginUploadFinalization(c)
  <2>1. CASE Finalizable(u) /\ CallAt(c, "queue")
    <3>1. Inspects(c, "finalize", u, "committing")
      BY <1>10, <2>1 DEF BeginUploadFinalization
    <3>2. upload'[u].status # "absent"
      BY <1>0, <1>1 DEF RowsMove, StatusMoves
    <3> QED
      BY <1>0, <1>1, <3>1, <3>2, InspectsAll, InspectionOK DEF UploadOps, UploadStatus
  <2>2. CASE ~(Finalizable(u) /\ CallAt(c, "queue"))
    BY <1>3, <1>10, <2>2 DEF BeginUploadFinalization, CallEnds
  <2> QED
    BY <2>1, <2>2
<1>11. CASE CompleteUpload(c)
  BY <1>3, <1>4, <1>11 DEF CompleteUpload, CallEnds, UploadOps
<1>12. CASE FailFinalizeUpload(c)
  BY <1>3, <1>12 DEF FailFinalizeUpload, CallEnds
<1>13. CASE CleanupTransport(c)
  BY <1>2, <1>3, <1>4, <1>13 DEF CleanupTransport, CallEnds
<1>14. CASE AcknowledgeCleanup(c)
  BY <1>3, <1>14 DEF AcknowledgeCleanup, CallEnds
<1> QED
  BY <1>5, <1>6, <1>7, <1>8, <1>9, <1>10, <1>11, <1>12, <1>13, <1>14 DEF UploaderStep

(* So does the beginning of a call. *)
LEMMA CallBeginsKeeps ==
  ASSUME DataInv, [DataNext]_dataVars, NEW c \in Uploaders, NEW u \in Uploads,
         \/ BeginUpload(c, u) \/ RecoverUpload(c, u) \/ BeginFinalizeUpload(c, u)
         \/ CompleteFinalizeUpload(c, u) \/ AbortUpload(c, u)
  PROVE  CallsKept
<1>0. /\ uploader \in [Uploaders -> UploadCalls] /\ CallOK(c) /\ RowsMove
      /\ upload \in [Uploads -> UploadRows]
  BY StatusMovesOnly, CallsOK DEF DataInv, DataConsistent, DataTypeOK
<1>00. Status(u) \in UploadStatus /\ upload'[u].status \in UploadStatus
  BY <1>0 DEF RowsMove, UploadRows, Status
<1>1. SUFFICES /\ uploader' \in [Uploaders -> UploadCalls]
               /\ CallOK(c)'
               /\ \A d \in Uploaders \ {c} : uploader'[d] = uploader[d]
  BY OthersKeep DEF CallsKept
<1>2. ASSUME NEW op \in UploadOps \union {"none"}, NEW step \in {"expire", "cleanup", "abort"},
             Goes(c, op, step, u), Status(u) # "absent"
      PROVE  /\ uploader' \in [Uploaders -> UploadCalls]
             /\ CallOK(c)'
             /\ \A d \in Uploaders \ {c} : uploader'[d] = uploader[d]
  <2>0. step \in CallSteps
    BY DEF CallSteps
  <2>1. /\ uploader' \in [Uploaders -> UploadCalls]
        /\ uploader'[c].step = step /\ uploader'[c].upload = u
        /\ \A d \in Uploaders \ {c} : uploader'[d] = uploader[d]
    BY <1>0, <1>2, <2>0, GoesTo
  <2> QED
    BY <1>0, <1>2, <2>1, QuietOK
<1>3. ASSUME NEW op \in UploadOps \union {"none"}, NEW seen \in UploadStatus,
             Inspects(c, op, u, seen), upload'[u].status # "absent"
      PROVE  /\ uploader' \in [Uploaders -> UploadCalls]
             /\ CallOK(c)'
             /\ \A d \in Uploaders \ {c} : uploader'[d] = uploader[d]
  <2>1. /\ uploader' \in [Uploaders -> UploadCalls]
        /\ uploader'[c].step = "stat" /\ uploader'[c].upload = u
        /\ uploader'[c].todo = ManifestOf[u] /\ uploader'[c].found = {}
        /\ \A d \in Uploaders \ {c} : uploader'[d] = uploader[d]
    BY <1>0, <1>3, InspectsAll
  <2> QED
    BY <1>3, <2>1, InspectionOK
<1>4. ASSUME Status(u) # "absent" PROVE upload'[u].status # "absent"
  BY <1>0, <1>4 DEF RowsMove, StatusMoves
<1>5. CASE BeginUpload(c, u)
  <2>1. Inspects(c, "begin", u, upload'[u].status)
    BY <1>5 DEF BeginUpload
  <2>2. upload'[u].status # "absent"
    BY <1>0, <1>4, <1>5 DEF BeginUpload, Status, UploadRows
  <2> QED
    BY <1>00, <1>3, <2>1, <2>2 DEF UploadOps
<1>6. CASE RecoverUpload(c, u)
  BY <1>00, <1>2, <1>3, <1>4, <1>6 DEF RecoverUpload, UploadOps
<1>7. CASE BeginFinalizeUpload(c, u)
  <2>1. CASE Goes(c, "finalize", "queue", u) /\ Status(u) = "committing"
    <3>1. /\ uploader' \in [Uploaders -> UploadCalls]
          /\ uploader'[c].step = "queue" /\ uploader'[c].upload = u
          /\ \A d \in Uploaders \ {c} : uploader'[d] = uploader[d]
      <4>1. "finalize" \in UploadOps \union {"none"} /\ "queue" \in CallSteps
        BY DEF CallSteps, UploadOps
      <4> QED
        BY <1>0, <2>1, <4>1, GoesTo
    <3>2. UNCHANGED upload
      BY <1>7 DEF BeginFinalizeUpload
    <3>3. CallOK(c)'
      BY <2>1, <3>1, <3>2 DEF CallOK, CallAt, Status
    <3> QED
      BY <3>1, <3>3
  <2>2. CASE ~(Goes(c, "finalize", "queue", u) /\ Status(u) = "committing")
    BY <1>00, <1>2, <1>3, <1>4, <1>7, <2>2 DEF BeginFinalizeUpload, UploadOps
  <2> QED
    BY <2>1, <2>2
<1>8. CASE CompleteFinalizeUpload(c, u)
  <2>1. CASE UNCHANGED uploader
    BY <1>0, <2>1, OthersKeep
  <2>2. CASE Inspects(c, "complete", u, Status(u)) /\ Status(u) # "absent"
    BY <1>00, <1>3, <1>4, <2>2 DEF UploadOps
  <2> QED
    BY <1>8, <2>1, <2>2 DEF CompleteFinalizeUpload
<1>9. CASE AbortUpload(c, u)
  BY <1>2, <1>9 DEF AbortUpload, UploadOps
<1> QED
  BY <1>5, <1>6, <1>7, <1>8, <1>9

(* Every step keeps what the calls rely on. *)
LEMMA AllCallsKept ==
  ASSUME DataInv, [DataNext]_dataVars
  PROVE  CallsKept
<1>1. CASE UNCHANGED uploader
  BY <1>1, OthersKeep DEF CallsKept, DataInv, DataConsistent, DataTypeOK
<1>2. CASE ProcessCrash
  <2>1. /\ uploader' \in [Uploaders -> UploadCalls]
        /\ \A c \in Uploaders : uploader'[c].step = "idle"
    BY <1>2 DEF ProcessCrash, IdleUploader, UploadCalls, UploadStatus
  <2> QED
    BY <2>1, IdleOK DEF CallsKept
<1>3. ASSUME NEW u \in Uploads, Lapses(u) \/ \E b \in Blobs : PutBlob(u, b)
      PROVE  UNCHANGED uploader
  BY <1>3 DEF Lapses, PutBlob
<1>4. (\E b \in Blobs : Ages(b)) \/ ExpireUploads \/ KeeperStep \/ UNCHANGED dataVars
        => UNCHANGED uploader
  BY DEF Ages, ExpireUploads, KeeperStep, CleanupTerminalUpload, AcknowledgeTerminalUpload,
     ReachabilitySnapshot, WalkBlobs, WithStableSnapshot, DeleteBlob, dataVars
<1> QED
  BY <1>1, <1>2, <1>3, <1>4, UploaderStepKeeps, CallBeginsKeeps
     DEF DataNext, CallBegins, TransferStep, StoreStep

(* While the collector deletes under its lock, no row changes its status. *)
LEMMA LockedRowsStay ==
  ASSUME DataInv, [DataNext]_dataVars, keeper.step = "delete"
  PROVE  \A u \in Uploads : upload'[u].status = Status(u)
<1>0. upload \in [Uploads -> UploadRows]
  BY DEF DataInv, DataConsistent, DataTypeOK
<1>1. CASE UNCHANGED upload
  BY <1>1 DEF Status
<1>2. ASSUME NEW u \in Uploads, Lapses(u)
      PROVE  \A v \in Uploads : upload'[v].status = Status(v)
  BY <1>0, <1>2 DEF Lapses, UploadRows, Status
<1>3. ASSUME NEW c \in Uploaders, UploaderStep(c) PROVE UNCHANGED upload
  BY <1>3 DEF UploaderStep, AbortSession, ExpireSession, StatBlob, Inspected, StatFails,
     BeginUploadFinalization, CompleteUpload, FailFinalizeUpload, CleanupTransport,
     AcknowledgeCleanup, Writable
<1>4. ASSUME NEW c \in Uploaders, NEW u \in Uploads,
             \/ BeginUpload(c, u) \/ RecoverUpload(c, u) \/ BeginFinalizeUpload(c, u)
             \/ CompleteFinalizeUpload(c, u) \/ AbortUpload(c, u)
      PROVE  UNCHANGED upload
  BY <1>4 DEF BeginUpload, RecoverUpload, BeginFinalizeUpload, CompleteFinalizeUpload,
     AbortUpload, Writable
<1>5. ASSUME NEW u \in Uploads, NEW b \in Blobs, PutBlob(u, b) PROVE UNCHANGED upload
  BY <1>5 DEF PutBlob
<1>6. ASSUME (\E b \in Blobs : Ages(b)) \/ ProcessCrash \/ ExpireUploads \/ KeeperStep
             \/ UNCHANGED dataVars
      PROVE  UNCHANGED upload
  BY <1>6 DEF Ages, ProcessCrash, ExpireUploads, KeeperStep, CleanupTerminalUpload,
     AcknowledgeTerminalUpload, ReachabilitySnapshot, WalkBlobs, WithStableSnapshot, DeleteBlob,
     dataVars
<1>7. UNCHANGED upload \/ \E u \in Uploads : Lapses(u)
  BY <1>3, <1>4, <1>5, <1>6 DEF DataNext, CallBegins, TransferStep, StoreStep
<1> QED
  BY <1>1, <1>2, <1>7

(* The collector goes on sparing what it must. *)
LEMMA CollectorKept ==
  ASSUME DataInv, [DataNext]_dataVars
  PROVE  keeper' \in Keepers /\ CollectorSpares'
<1>0. /\ keeper \in Keepers /\ CollectorSpares /\ upload \in [Uploads -> UploadRows]
      /\ blobs \subseteq Blobs
  BY DEF DataInv, DataConsistent, DataTypeOK
<1>1. CASE UNCHANGED keeper
  <2>1. keeper.step = "delete" => Reachability' = Reachability
    BY <1>1, LockedRowsStay DEF Reachability, Status
  <2> QED
    BY <1>0, <1>1, <2>1 DEF CollectorSpares, ReachableBlobs
<1>2. CASE keeper' = IdleKeeper
  BY <1>2 DEF IdleKeeper, Keepers, CollectorSpares
<1>3. CASE ExpireUploads
  <2>1. keeper' = [keeper EXCEPT !.step = "cleanup", !.sessions = keeper'.sessions]
    BY <1>0, <1>3 DEF ExpireUploads, Keepers
  <2>2. keeper'.sessions \subseteq Uploads /\ keeper'.step = "cleanup"
    BY <1>0, <1>3 DEF ExpireUploads, Keepers
  <2> QED
    BY <1>0, <2>1, <2>2 DEF CollectorSpares, Keepers
<1>4. CASE CleanupTerminalUpload
  BY <1>0, <1>4 DEF CleanupTerminalUpload, Keepers, CollectorSpares
<1>5. CASE AcknowledgeTerminalUpload
  BY <1>0, <1>5 DEF AcknowledgeTerminalUpload, Keepers, CollectorSpares
<1>6. CASE ReachabilitySnapshot
  <2>1. Reachability \in SUBSET (Uploads \X UploadStatus)
    BY <1>0 DEF Reachability, Status, UploadRows
  <2>2. /\ keeper'.step = "walk" /\ keeper'.generation = Reachability
        /\ keeper'.candidates = Blobs \ ReachableBlobs
    BY <1>0, <1>6 DEF ReachabilitySnapshot, Keepers
  <2>3. keeper' \in Keepers
    BY <1>0, <1>6, <2>1 DEF ReachabilitySnapshot, Keepers
  <2>4. \A r \in Reachability : ManifestOf[r[1]] \subseteq ReachableBlobs
    BY DEF ReachableBlobs
  <2> QED
    BY <2>2, <2>3, <2>4 DEF CollectorSpares
<1>7. CASE WalkBlobs /\ keeper' # IdleKeeper
  BY <1>0, <1>7 DEF WalkBlobs, Keepers, CollectorSpares
<1>8. CASE WithStableSnapshot /\ keeper' # IdleKeeper
  <2>1. /\ keeper' = [keeper EXCEPT !.step = "delete", !.generation = {}]
        /\ keeper.step = "lock" /\ keeper.generation = Reachability
    BY <1>8 DEF WithStableSnapshot, Stable
  <2>2. keeper' \in Keepers /\ keeper'.step = "delete" /\ keeper'.candidates = keeper.candidates
    BY <1>0, <2>1 DEF Keepers
  <2>3. keeper.candidates \intersect ReachableBlobs = {}
    BY <1>0, <2>1 DEF CollectorSpares, ReachableBlobs
  <2>4. ReachableBlobs' = ReachableBlobs
    BY <1>8 DEF WithStableSnapshot, ReachableBlobs, Reachability, Status
  <2> QED
    BY <2>2, <2>3, <2>4 DEF CollectorSpares
<1>9. CASE DeleteBlob /\ keeper' # IdleKeeper
  <2>1. PICK b \in keeper.candidates : keeper' = [keeper EXCEPT !.candidates = @ \ {b}]
    BY <1>9 DEF DeleteBlob
  <2>2. /\ keeper' \in Keepers /\ keeper'.step = "delete"
        /\ keeper'.candidates = keeper.candidates \ {b}
    BY <1>0, <1>9, <2>1 DEF Keepers, DeleteBlob
  <2>3. ReachableBlobs' = ReachableBlobs
    BY <1>9 DEF DeleteBlob, ReachableBlobs, Reachability, Status
  <2>4. keeper.candidates \intersect ReachableBlobs = {}
    BY <1>0, <1>9 DEF CollectorSpares, DeleteBlob
  <2> QED
    BY <2>2, <2>3, <2>4 DEF CollectorSpares
<1>10. ASSUME NEW c \in Uploaders, UploaderStep(c) PROVE UNCHANGED keeper
  BY <1>10 DEF UploaderStep, AbortSession, ExpireSession, StatBlob, Inspected, StatFails,
     BeginUploadFinalization, CompleteUpload, FailFinalizeUpload, CleanupTransport,
     AcknowledgeCleanup
<1>11. ASSUME NEW c \in Uploaders, NEW u \in Uploads,
              \/ BeginUpload(c, u) \/ RecoverUpload(c, u) \/ BeginFinalizeUpload(c, u)
              \/ CompleteFinalizeUpload(c, u) \/ AbortUpload(c, u)
       PROVE  UNCHANGED keeper
  BY <1>11 DEF BeginUpload, RecoverUpload, BeginFinalizeUpload, CompleteFinalizeUpload,
     AbortUpload
<1>12. ASSUME NEW u \in Uploads, Lapses(u) \/ \E b \in Blobs : PutBlob(u, b)
       PROVE  UNCHANGED keeper
  BY <1>12 DEF Lapses, PutBlob
<1>14. (\E b \in Blobs : Ages(b)) \/ UNCHANGED dataVars => UNCHANGED keeper
  BY DEF Ages, dataVars
<1>13. ProcessCrash => keeper' = IdleKeeper
  BY DEF ProcessCrash
<1> QED
  BY <1>1, <1>2, <1>3, <1>4, <1>5, <1>6, <1>7, <1>8, <1>9, <1>10, <1>11, <1>12, <1>13,
     <1>14 DEF DataNext, CallBegins, TransferStep, StoreStep, KeeperStep

(* The rest of the types. *)
StoreOK ==
  /\ blobs \subseteq Blobs /\ aged \subseteq blobs
  /\ staging \in [Uploads -> SUBSET Blobs]
  /\ \A u \in Uploads : staging[u] \subseteq ManifestOf[u]
  /\ finalizeJob \in [Uploads -> BOOLEAN]
  /\ faults \in 0..MaxFaults

LEMMA StoreKept ==
  ASSUME DataInv, [DataNext]_dataVars
  PROVE  StoreOK'
<1> USE ManagedDataAssumption DEF StoreOK
<1>0. StoreOK
  BY DEF DataInv, DataConsistent, DataTypeOK
<1>1. CASE UNCHANGED <<blobs, aged, staging, finalizeJob, faults>>
  BY <1>0, <1>1
<1>2. ASSUME NEW c \in Uploaders, UploaderStep(c) PROVE StoreOK'
  <2> DEFINE u == uploader[c].upload
  <2>0. u \in Uploads
    <3>1. ~CallAt(c, "idle")
      BY <1>2 DEF UploaderStep, AbortSession, ExpireSession, StatBlob, Inspected, StatFails,
         BeginUploadFinalization, CompleteUpload, FailFinalizeUpload, CleanupTransport,
         AcknowledgeCleanup, CallAt
    <3> QED
      BY <3>1 DEF DataInv, DataConsistent, CallsFollowRows
  <2>1. ASSUME CallEnds(c) PROVE finalizeJob' \in [Uploads -> BOOLEAN]
    BY <1>0, <2>0, <2>1 DEF CallEnds
  <2>2. finalizeJob' \in [Uploads -> BOOLEAN]
    <3>1. CASE CallEnds(c)
      BY <2>1, <3>1
    <3>2. CASE BeginUploadFinalization(c) /\ ~CallEnds(c)
      BY <1>0, <2>0, <3>2 DEF BeginUploadFinalization
    <3>3. CASE ~BeginUploadFinalization(c) /\ ~CallEnds(c)
      <4>1. UNCHANGED finalizeJob
        BY <1>2, <3>3 DEF UploaderStep, AbortSession, ExpireSession, StatBlob, Inspected,
           StatFails, CompleteUpload, FailFinalizeUpload, CleanupTransport, AcknowledgeCleanup
      <4> QED
        BY <1>0, <4>1
    <3> QED
      BY <3>1, <3>2, <3>3
  <2>3. /\ staging' \in [Uploads -> SUBSET Blobs]
        /\ \A v \in Uploads : staging'[v] \subseteq ManifestOf[v]
    <3>1. CASE Inspected(c)
      <4>1. staging' = Described(c)
        BY <3>1 DEF Inspected
      <4> QED
        BY <1>0, <2>0, <4>1 DEF Described
    <3>2. CASE CleanupTransport(c)
      BY <1>0, <2>0, <3>2 DEF CleanupTransport
    <3>3. CASE ~Inspected(c) /\ ~CleanupTransport(c)
      <4>1. UNCHANGED staging
        BY <1>2, <3>3 DEF UploaderStep, AbortSession, ExpireSession, StatBlob, StatFails,
           BeginUploadFinalization, CompleteUpload, FailFinalizeUpload, AcknowledgeCleanup
      <4> QED
        BY <1>0, <4>1
    <3> QED
      BY <3>1, <3>2, <3>3
  <2>4. UNCHANGED <<blobs, aged>>
    BY <1>2 DEF UploaderStep, AbortSession, ExpireSession, StatBlob, Inspected, StatFails,
       BeginUploadFinalization, CompleteUpload, FailFinalizeUpload, CleanupTransport,
       AcknowledgeCleanup
  <2>5. faults' = faults \/ (faults < MaxFaults /\ faults' = faults + 1)
    BY <1>2 DEF UploaderStep, AbortSession, ExpireSession, StatBlob, Inspected, StatFails,
       BeginUploadFinalization, CompleteUpload, FailFinalizeUpload, CleanupTransport,
       AcknowledgeCleanup
  <2> QED
    BY <1>0, <2>2, <2>3, <2>4, <2>5
<1>3. ASSUME NEW c \in Uploaders, NEW u \in Uploads,
             \/ BeginUpload(c, u) \/ RecoverUpload(c, u) \/ BeginFinalizeUpload(c, u)
             \/ CompleteFinalizeUpload(c, u) \/ AbortUpload(c, u)
      PROVE  StoreOK'
  <2>1. CASE CompleteFinalizeUpload(c, u)
    BY <1>0, <2>1 DEF CompleteFinalizeUpload
  <2>2. CASE ~CompleteFinalizeUpload(c, u)
    BY <1>1, <1>3, <2>2 DEF BeginUpload, RecoverUpload, BeginFinalizeUpload, AbortUpload
  <2> QED
    BY <2>1, <2>2
<1>4. ASSUME NEW u \in Uploads, Lapses(u) PROVE StoreOK'
  BY <1>1, <1>4 DEF Lapses
<1>5. ASSUME NEW u \in Uploads, NEW b \in Blobs, PutBlob(u, b) PROVE StoreOK'
  BY <1>0, <1>5 DEF PutBlob
<1>6. ASSUME NEW b \in Blobs, Ages(b) PROVE StoreOK'
  BY <1>0, <1>6 DEF Ages
<1>7. CASE ProcessCrash
  BY <1>0, <1>7 DEF ProcessCrash
<1>8. CASE CleanupTerminalUpload
  <2>1. PICK u \in keeper.sessions :
          \/ staging' = [staging EXCEPT ![u] = {}] /\ UNCHANGED faults
          \/ UNCHANGED staging /\ faults < MaxFaults /\ faults' = faults + 1
    BY <1>8 DEF CleanupTerminalUpload
  <2>2. u \in Uploads
    BY DEF DataInv, DataConsistent, DataTypeOK, Keepers
  <2>3. UNCHANGED <<blobs, aged, finalizeJob>>
    BY <1>8 DEF CleanupTerminalUpload
  <2> QED
    BY <1>0, <2>1, <2>2, <2>3
<1>9. CASE DeleteBlob
  BY <1>0, <1>9 DEF DeleteBlob
<1>10. CASE \/ ExpireUploads \/ AcknowledgeTerminalUpload \/ ReachabilitySnapshot
            \/ WalkBlobs \/ WithStableSnapshot \/ UNCHANGED dataVars
  BY <1>1, <1>10 DEF ExpireUploads, AcknowledgeTerminalUpload, ReachabilitySnapshot, WalkBlobs,
     WithStableSnapshot, dataVars
<1> QED
  BY <1>2, <1>3, <1>4, <1>5, <1>6, <1>7, <1>8, <1>9, <1>10
     DEF DataNext, CallBegins, TransferStep, StoreStep, KeeperStep

(* Every step keeps the invariant. *)
LEMMA NextDataInv == DataInv /\ [DataNext]_dataVars => DataInv'
<1> SUFFICES ASSUME DataInv, [DataNext]_dataVars PROVE DataInv'
  OBVIOUS
<1>1. DataTypeOK'
  BY StatusMovesOnly, AllCallsKept, CollectorKept, StoreKept
     DEF RowsMove, CallsKept, StoreOK, DataTypeOK
<1>2. (FoundBlobsExist /\ CallsFollowRows)'
  BY AllCallsKept DEF CallsKept, CallOK, FoundBlobsExist, CallsFollowRows
<1>3. PublishedBlobsExist'
  <2>1. SUFFICES ASSUME NEW u \in Uploads, upload'[u].status \in {"committing", "complete"}
                 PROVE  ManifestOf[u] \subseteq blobs'
    BY DEF PublishedBlobsExist, Status
  <2>2. RowsMove /\ BlobsKept
    BY StatusMovesOnly, ProtectedBlobsKept
  <2>3. Status(u) \in {"open", "committing", "complete"}
    BY <2>1, <2>2 DEF RowsMove, StatusMoves
  <2>4. ManifestOf[u] \subseteq blobs
    BY <2>1, <2>2, <2>3 DEF RowsMove, DataInv, PublishedBlobsExist
  <2> QED
    BY <2>2, <2>3, <2>4 DEF BlobsKept
<1> QED
  BY <1>1, <1>2, <1>3, CollectorKept DEF DataInv, DataConsistent

(* The invariant holds in every state that can be reached. *)
THEOREM DataInvariance == DataSpec => []DataInv
BY InitDataInv, NextDataInv, PTL DEF DataSpec

(* The rows, the store, the calls and the collector stay well typed, and what a
   call has found present stays present while its session protects it. *)
THEOREM FindingsStayTrue == DataSpec => []DataConsistent
BY DataInvariance, PTL DEF DataInv

(* Every blob of a ready revision, and of a session being finalized, is in the
   store, whatever the collector, expiry, aborts, errors and crashes do. *)
THEOREM PublishedBlobsKept == DataSpec => []PublishedBlobsExist
BY DataInvariance, PTL DEF DataInv

(* A session has one outcome: no late call or finalization job changes it. *)
THEOREM OutcomesStay == DataSpec => OneOutcome
<1>1. DataInv /\ [DataNext]_dataVars =>
        [\A u \in Uploads : Status(u) \in Finished => upload'[u].status = Status(u)]_dataVars
  BY StatusMovesOnly DEF RowsMove, StatusMoves, Finished
<1> QED
  BY <1>1, DataInvariance, PTL DEF DataSpec, OneOutcome

-----------------------------------------------------------------------------
(* Lifecycle group                                                         *)

(* The inductive invariant. *)
GroupInv == GroupConsistent /\ NothingLeftRunning

(* A caller that goes somewhere moves nobody else. *)
LEMMA CallerGoes ==
  ASSUME call \in [GroupCallers -> Calls], NEW p \in GroupCallers, NEW c \in Calls, GoTo(p, c)
  PROVE  /\ call' \in [GroupCallers -> Calls]
         /\ call'[p] = c
         /\ \A q \in GroupCallers \ {p} : call'[q] = call[q]
BY DEF GoTo

(* A caller that is not in a call. *)
LEMMA IdleIsCaller ==
  /\ IdleCaller \in Calls
  /\ IdleCaller.phase = "idle" /\ IdleCaller.epoch = 0
BY GroupAssumption DEF IdleCaller, Calls

(* A caller begins to wait for an attempt. *)
LEMMA CallerWaits ==
  ASSUME call \in [GroupCallers -> Calls], NEW p \in GroupCallers,
         NEW phase \in WaitsForStart \union WaitsForStop \union {"ownStop"}, NEW e \in Nat,
         Wait(p, phase, e)
  PROVE  /\ call' \in [GroupCallers -> Calls]
         /\ call'[p].phase = phase /\ call'[p].epoch = e
         /\ \A q \in GroupCallers \ {p} : call'[q] = call[q]
<1>1. /\ [IdleCaller EXCEPT !.phase = phase, !.epoch = e] \in Calls
      /\ [IdleCaller EXCEPT !.phase = phase, !.epoch = e].phase = phase
      /\ [IdleCaller EXCEPT !.phase = phase, !.epoch = e].epoch = e
  BY IdleIsCaller DEF Calls
<1> QED
  BY <1>1, CallerGoes DEF Wait

(* Before the first step nothing runs and nobody waits. *)
LEMMA InitGroupInv == GroupInit => GroupInv
<1> SUFFICES ASSUME GroupInit PROVE GroupInv
  OBVIOUS
<1> USE GroupAssumption, IdleIsCaller
    DEF GroupInit, OwnsStart, OwnsStop, WaitsForStart, WaitsForStop, CallerAt
<1>1. GroupTypeOK
  <2>1. group \in Groups
    BY DEF Groups
  <2> QED
    BY <2>1 DEF GroupTypeOK
<1>2. OneAttempt
  BY DEF OneAttempt
<1>3. OwnerKnowsWhatRuns /\ StopRequestStaysInEpoch /\ StartedRecorded
  BY DEF OwnerKnowsWhatRuns, StopRequestStaysInEpoch, StartedRecorded
<1>4. AttemptsEnd
  BY DEF AttemptsEnd
<1>5. NothingLeftRunning
  BY DEF NothingLeftRunning
<1> QED
  BY <1>1, <1>2, <1>3, <1>4, <1>5 DEF GroupInv, GroupConsistent

(* What a caller does to the group, field by field. *)
GroupStays(except) ==
  /\ group' \in Groups
  /\ "active" \notin except => group'.active = group.active
  /\ "started" \notin except => group'.started = group.started
  /\ "starting" \notin except => group'.starting = group.starting
  /\ "stopping" \notin except => group'.stopping = group.stopping
  /\ "stopRequested" \notin except => group'.stopRequested = group.stopRequested
  /\ "epoch" \notin except => group'.epoch = group.epoch

(* Only the place of p changes, and it stays a place. *)
OnlyMoves(p) ==
  /\ call' \in [GroupCallers -> Calls]
  /\ \A q \in GroupCallers \ {p} : call'[q] = call[q]

(* A rollback begins. *)
LEMMA RollbackBegins ==
  ASSUME GroupTypeOK, NEW p \in GroupCallers, NEW have \in 0..GroupSize, BeginRollback(p, have)
  PROVE  /\ GroupStays({"started"}) /\ group'.started = 0 /\ runCancelled' = TRUE
         /\ OnlyMoves(p) /\ call'[p].phase = "rollback" /\ call'[p].left = have
         /\ call'[p].epoch = call[p].epoch
<1>1. GroupStays({"started"}) /\ group'.started = 0 /\ runCancelled' = TRUE
  BY GroupAssumption DEF BeginRollback, GroupStays, GroupTypeOK, Groups
<1>2. /\ [call[p] EXCEPT !.phase = "rollback", !.left = have] \in Calls
      /\ [call[p] EXCEPT !.phase = "rollback", !.left = have].phase = "rollback"
      /\ [call[p] EXCEPT !.phase = "rollback", !.left = have].left = have
      /\ [call[p] EXCEPT !.phase = "rollback", !.left = have].epoch = call[p].epoch
  BY DEF GroupTypeOK, Calls
<1> QED
  BY <1>1, <1>2, CallerGoes DEF BeginRollback, OnlyMoves, GroupTypeOK

(* An attempt ends: the group is free, as the owner works on the current epoch. *)
LEMMA AttemptEnds ==
  ASSUME GroupTypeOK, NEW p \in GroupCallers, NEW of \in {"start", "stop"}, NEW ok \in BOOLEAN,
         EndAttempt(p, of, ok), call[p].epoch = group.epoch
  PROVE  /\ GroupStays({"active", "stopRequested", "starting", "stopping"})
         /\ group'.active = FALSE /\ group'.stopRequested = FALSE
         /\ group'.starting = IF of = "start" THEN 0 ELSE group.starting
         /\ group'.stopping = IF of = "stop" THEN 0 ELSE group.stopping
         /\ OnlyMoves(p) /\ call'[p].phase = "idle"
<1>1. group' = FreeGroup(group, of)
  BY DEF EndAttempt
<1>2. /\ GroupStays({"active", "stopRequested", "starting", "stopping"})
      /\ group'.active = FALSE /\ group'.stopRequested = FALSE
      /\ group'.starting = IF of = "start" THEN 0 ELSE group.starting
      /\ group'.stopping = IF of = "stop" THEN 0 ELSE group.stopping
  BY <1>1 DEF FreeGroup, GroupStays, GroupTypeOK, Groups
<1> QED
  BY <1>2, CallerGoes, IdleIsCaller DEF EndAttempt, OnlyMoves, GroupTypeOK

(* A call that ends or gives up while everything else stays. *)
LEMMA ReturnKeeps ==
  ASSUME GroupInv, NEW p \in GroupCallers, GoTo(p, IdleCaller),
         UNCHANGED <<group, runCancelled, ended, runningIn>>
  PROVE  GroupInv'
<1>1. OnlyMoves(p) /\ call'[p].phase = "idle"
  BY CallerGoes, IdleIsCaller DEF OnlyMoves, GroupInv, GroupConsistent, GroupTypeOK
<1> USE <1>1 DEF OnlyMoves, OwnsStart, OwnsStop, WaitsForStart, WaitsForStop, CallerAt
<1>2. GroupTypeOK'
  BY DEF GroupInv, GroupConsistent, GroupTypeOK
<1>3. OneAttempt'
  BY DEF GroupInv, GroupConsistent, OneAttempt
<1>4. (OwnerKnowsWhatRuns /\ StopRequestStaysInEpoch /\ StartedRecorded)'
  BY DEF GroupInv, GroupConsistent, OwnerKnowsWhatRuns, RunningUpTo, StopRequestStaysInEpoch,
     StartedRecorded
<1>5. AttemptsEnd'
  BY DEF GroupInv, GroupConsistent, AttemptsEnd
<1>6. NothingLeftRunning'
  BY DEF GroupInv, NothingLeftRunning
<1> QED
  BY <1>2, <1>3, <1>4, <1>5, <1>6 DEF GroupInv, GroupConsistent

(* A call that begins to wait for the attempt under way, and may ask it to stop. *)
LEMMA WaitKeeps ==
  ASSUME GroupInv, NEW p \in GroupCallers, group.active, OnlyMoves(p),
         call'[p].phase \in {"joinStart", "awaitStop", "awaitRollback", "joinStop"},
         call'[p].epoch = group.epoch, GroupStays({"stopRequested"}),
         \/ group'.stopRequested = group.stopRequested /\ runCancelled' = runCancelled
         \/ group'.stopRequested = TRUE /\ runCancelled' = TRUE,
         call'[p].phase = "awaitRollback" =>
           group'.stopRequested = TRUE /\ group.starting # 0,
         UNCHANGED <<ended, runningIn>>
  PROVE  GroupInv'
<1> USE DEF OwnsStart, OwnsStop, WaitsForStart, WaitsForStop, CallerAt
<1>1. group.epoch \in 1..group.epoch
  BY DEF GroupInv, GroupConsistent, GroupTypeOK, OneAttempt, Groups
<1> USE DEF OnlyMoves, GroupStays
<1>2. GroupTypeOK'
  BY DEF GroupInv, GroupConsistent, GroupTypeOK
<1>3. OneAttempt'
  <2>1. \A q \in GroupCallers : call'[q].phase \in OwnsStart \union OwnsStop =>
          q # p /\ call'[q] = call[q]
    OBVIOUS
  <2>2. OneAttempt
    BY DEF GroupInv, GroupConsistent
  <2>3. \A q, r \in GroupCallers :
          {call'[q].phase, call'[r].phase} \subseteq OwnsStart \union OwnsStop => q = r
    BY <2>1, <2>2 DEF OneAttempt
  <2>4. \A q \in GroupCallers :
          /\ call'[q].phase \in OwnsStart \union OwnsStop => call'[q].epoch = group'.epoch
          /\ call'[q].phase \in OwnsStart => group'.starting # 0
          /\ call'[q].phase \in OwnsStop => group'.stopping # 0
    BY <2>1, <2>2 DEF OneAttempt
  <2> QED
    BY <2>2, <2>3, <2>4 DEF OneAttempt
<1>4. OwnerKnowsWhatRuns'
  BY <1>1 DEF GroupInv, GroupConsistent, OwnerKnowsWhatRuns, RunningUpTo
<1>5. StopRequestStaysInEpoch'
  <2>1. group'.active = group.active
    BY DEF GroupInv, GroupConsistent
  <2>2. CASE group'.stopRequested = group.stopRequested /\ runCancelled' = runCancelled
    BY <2>1, <2>2 DEF StopRequestStaysInEpoch, GroupInv, GroupConsistent
  <2>3. CASE runCancelled' = TRUE
    BY <2>1, <2>3 DEF StopRequestStaysInEpoch
  <2> QED
    BY <2>2, <2>3
<1>6. StartedRecorded'
  BY DEF GroupInv, GroupConsistent, StartedRecorded
<1>7. AttemptsEnd'
  BY <1>1 DEF GroupInv, GroupConsistent, AttemptsEnd
<1>8. NothingLeftRunning'
  BY DEF GroupInv, NothingLeftRunning
<1> QED
  BY <1>2, <1>3, <1>4, <1>5, <1>6, <1>7, <1>8 DEF GroupInv, GroupConsistent

(* A Start joins the start, or waits for the stop, that is under way. *)
LEMMA JoinKeeps ==
  ASSUME GroupInv, NEW p \in GroupCallers, group.active,
         \/ group.starting # 0 /\ Wait(p, "joinStart", group.starting)
         \/ group.stopping # 0 /\ Wait(p, "awaitStop", group.stopping),
         UNCHANGED <<group, runCancelled, ended, runningIn>>
  PROVE  GroupInv'
<1>1. /\ group.epoch \in Nat /\ group.starting \in {0, group.epoch}
      /\ group.stopping \in {0, group.epoch}
  BY DEF GroupInv, GroupConsistent, GroupTypeOK, OneAttempt, Groups
<1>2. Wait(p, "joinStart", group.epoch) \/ Wait(p, "awaitStop", group.epoch)
  BY <1>1
<1>3. /\ OnlyMoves(p) /\ call'[p].epoch = group.epoch
      /\ call'[p].phase \in {"joinStart", "awaitStop"}
  BY <1>1, <1>2, CallerWaits
     DEF OnlyMoves, GroupInv, GroupConsistent, GroupTypeOK, WaitsForStart, WaitsForStop
<1>4. GroupStays({"stopRequested"}) /\ group'.stopRequested = group.stopRequested
  BY DEF GroupStays, GroupInv, GroupConsistent, GroupTypeOK
<1> QED
  BY <1>3, <1>4, WaitKeeps

(* A Stop asks the attempt under way to stop, and waits for it. *)
LEMMA AskStopKeeps ==
  ASSUME GroupInv, NEW p \in GroupCallers, group.active,
         \/ group.starting # 0 /\ Wait(p, "awaitRollback", group.starting)
         \/ group.stopping # 0 /\ Wait(p, "joinStop", group.stopping),
         runCancelled' = TRUE, group' = [group EXCEPT !.stopRequested = TRUE],
         UNCHANGED <<ended, runningIn>>
  PROVE  GroupInv'
<1>1. /\ group.epoch \in Nat /\ group.starting \in {0, group.epoch}
      /\ group.stopping \in {0, group.epoch}
  BY DEF GroupInv, GroupConsistent, GroupTypeOK, OneAttempt, Groups
<1>2. \/ group.starting # 0 /\ Wait(p, "awaitRollback", group.epoch)
      \/ Wait(p, "joinStop", group.epoch)
  BY <1>1
<1>3. /\ OnlyMoves(p) /\ call'[p].epoch = group.epoch
      /\ \/ call'[p].phase = "awaitRollback" /\ group.starting # 0
         \/ call'[p].phase = "joinStop"
  BY <1>1, <1>2, CallerWaits
     DEF OnlyMoves, GroupInv, GroupConsistent, GroupTypeOK, WaitsForStart, WaitsForStop
<1>4. GroupStays({"stopRequested"}) /\ group'.stopRequested = TRUE
  BY DEF GroupStays, GroupInv, GroupConsistent, GroupTypeOK, Groups
<1> QED
  BY <1>3, <1>4, WaitKeeps

(* A Start that finds the group free opens the next epoch. *)
LEMMA OpenKeeps ==
  ASSUME GroupInv, NEW p \in GroupCallers, ~group.active,
         group' = [group EXCEPT !.active = TRUE, !.epoch = @ + 1, !.starting = group.epoch + 1],
         runCancelled' = FALSE,
         GoTo(p, [phase |-> "start", epoch |-> group.epoch + 1, at |-> 1, left |-> 0]),
         UNCHANGED <<ended, runningIn>>
  PROVE  GroupInv'
<1> USE DEF OwnsStart, OwnsStop, WaitsForStart, WaitsForStop, CallerAt
<1>1. group.epoch \in Nat /\ group.epoch + 1 \in Nat
  BY DEF GroupInv, GroupConsistent, GroupTypeOK, Groups
<1>2. [phase |-> "start", epoch |-> group.epoch + 1, at |-> 1, left |-> 0] \in Calls
  BY <1>1, GroupAssumption DEF Calls
<1>3. /\ OnlyMoves(p) /\ call'[p].phase = "start" /\ call'[p].epoch = group.epoch + 1
      /\ call'[p].at = 1
  BY <1>2, CallerGoes DEF OnlyMoves, GroupInv, GroupConsistent, GroupTypeOK
<1>4. /\ GroupStays({"active", "epoch", "starting"}) /\ group'.active
      /\ group'.epoch = group.epoch + 1 /\ group'.starting = group.epoch + 1
  BY <1>1 DEF GroupStays, GroupInv, GroupConsistent, GroupTypeOK, Groups
<1>5. /\ group.starting = 0 /\ group.stopping = 0 /\ group.started = 0
      /\ \A i \in GroupComponents : runningIn[i] = 0
      /\ ~group.stopRequested
      /\ \A q \in GroupCallers : call[q].phase \notin OwnsStart \union OwnsStop
  BY DEF GroupInv, GroupConsistent, OneAttempt, StartedRecorded, NothingLeftRunning,
     StopRequestStaysInEpoch
<1> USE DEF OnlyMoves, GroupStays
<1>6. GroupTypeOK'
  BY <1>3, <1>4 DEF GroupInv, GroupConsistent, GroupTypeOK
<1>7. OneAttempt'
  BY <1>1, <1>3, <1>4, <1>5 DEF OneAttempt
<1>8. OwnerKnowsWhatRuns'
  BY <1>3, <1>4, <1>5 DEF OwnerKnowsWhatRuns, RunningUpTo, GroupComponents
<1>9. StopRequestStaysInEpoch' /\ StartedRecorded'
  BY <1>1, <1>4, <1>5 DEF StopRequestStaysInEpoch, StartedRecorded
<1>10. AttemptsEnd'
  <2>1. ended' = ended /\ \A a \in ended : a.epoch \in Nat /\ a.epoch <= group.epoch
    BY DEF GroupInv, GroupConsistent, AttemptsEnd, GroupTypeOK, Attempts
  <2>2. \A q \in GroupCallers \ {p} : call'[q].phase \in WaitsForStart \union WaitsForStop =>
          call'[q].epoch \in 1..group.epoch
    BY <1>3 DEF GroupInv, GroupConsistent, AttemptsEnd
  <2> QED
    BY <1>1, <1>3, <1>4, <2>1, <2>2 DEF AttemptsEnd
<1>11. NothingLeftRunning'
  BY <1>1, <1>4, <1>5 DEF NothingLeftRunning
<1> QED
  BY <1>6, <1>7, <1>8, <1>9, <1>10, <1>11 DEF GroupInv, GroupConsistent

(* Start, when it is called and when the stop it waited for is over. *)
LEMMA EnterKeeps ==
  ASSUME GroupInv, NEW p \in GroupCallers, Enter(p), UNCHANGED <<ended, runningIn>>
  PROVE  GroupInv'
<1>1. CASE /\ group.active /\ UNCHANGED <<group, runCancelled>>
           /\ \/ group.starting # 0 /\ Wait(p, "joinStart", group.starting)
              \/ group.stopping # 0 /\ Wait(p, "awaitStop", group.stopping)
  BY <1>1, JoinKeeps
<1>2. CASE GoTo(p, IdleCaller) /\ UNCHANGED <<group, runCancelled>>
  BY <1>2, ReturnKeeps
<1>3. CASE ~group.active
  BY <1>3, OpenKeeps DEF Enter
<1> QED
  BY <1>1, <1>2, <1>3 DEF Enter

(* An owner is alone, and works on the current epoch of a group that is not free. *)
LEMMA OwnerAlone ==
  ASSUME GroupInv, NEW p \in GroupCallers, call[p].phase \in OwnsStart \union OwnsStop
  PROVE  /\ group.active /\ group.epoch \in Nat \ {0} /\ call[p].epoch = group.epoch
         /\ \A q \in GroupCallers \ {p} : call[q].phase \notin OwnsStart \union OwnsStop
         /\ IF call[p].phase \in OwnsStart
              THEN group.starting = group.epoch /\ group.stopping = 0
              ELSE group.stopping = group.epoch /\ group.starting = 0
BY DEF GroupInv, GroupConsistent, OneAttempt, GroupTypeOK, Groups, OwnsStart, OwnsStop

(* An owner goes on within its attempt, and what runs is what its place says. *)
LEMMA OwnerKeeps ==
  ASSUME GroupInv, NEW p \in GroupCallers, OnlyMoves(p), GroupStays({"started"}),
         \/ call[p].phase \in OwnsStart /\ call'[p].phase \in OwnsStart
         \/ call[p].phase \in OwnsStop /\ call'[p].phase \in OwnsStop,
         call'[p].epoch = call[p].epoch,
         runCancelled' \in BOOLEAN, runCancelled => runCancelled', UNCHANGED ended,
         NEW n \in 0..GroupSize, runningIn' \in [GroupComponents -> Nat],
         \A i \in GroupComponents : runningIn'[i] = IF i <= n THEN group.epoch ELSE 0,
         call'[p].phase \in {"start", "starting"} =>
           group'.started = n /\ call'[p].at = n + 1,
         call'[p].phase = "starting" => n < GroupSize,
         call'[p].phase \in {"rollback", "stopping"} => group'.started = 0 /\ call'[p].left = n,
         call'[p].phase # "ownStop"
  PROVE  GroupInv'
<1> USE DEF OwnsStart, OwnsStop, WaitsForStart, WaitsForStop, CallerAt
<1>1. /\ group.active /\ group.epoch \in Nat \ {0} /\ call[p].epoch = group.epoch
      /\ \A q \in GroupCallers \ {p} : call[q].phase \notin OwnsStart \union OwnsStop
      /\ group.starting # 0 \/ group.stopping # 0
  BY OwnerAlone
<1>2. GroupTypeOK'
  BY DEF GroupInv, GroupConsistent, GroupTypeOK, OnlyMoves, GroupStays
<1>3. \A q \in GroupCallers : call'[q].phase \in OwnsStart \union OwnsStop => q = p
  BY <1>1 DEF OnlyMoves
<1>4. OneAttempt'
  <2>1. OneAttempt /\ UNCHANGED <<group.starting, group.stopping, group.epoch, group.active>>
    BY DEF GroupStays, GroupInv, GroupConsistent
  <2>2. \A q, r \in GroupCallers :
          {call'[q].phase, call'[r].phase} \subseteq OwnsStart \union OwnsStop => q = r
    BY <1>3
  <2>3. \A q \in GroupCallers :
          /\ call'[q].phase \in OwnsStart \union OwnsStop => call'[q].epoch = group'.epoch
          /\ call'[q].phase \in OwnsStart => group'.starting # 0
          /\ call'[q].phase \in OwnsStop => group'.stopping # 0
    BY <1>1, <1>3, <2>1 DEF OneAttempt
  <2> QED
    BY <2>1, <2>2, <2>3 DEF OneAttempt
<1>5. OwnerKnowsWhatRuns'
  <2>1. \A i \in GroupComponents : runningIn'[i] = IF i <= n THEN group'.epoch ELSE 0
    BY DEF GroupStays
  <2>2. RunningUpTo(n)'
    BY <2>1 DEF RunningUpTo
  <2>3. call'[p].phase \in {"start", "starting"} =>
          group'.started = call'[p].at - 1 /\ group'.started = n /\ call'[p].at = n + 1
    OBVIOUS
  <2>4. CASE call'[p].phase \in {"start", "starting"}
    <3>1. call'[p].phase = "starting" => call'[p].at <= GroupSize
      BY <2>3, GroupAssumption
    <3>2. RunningUpTo(group.started)'
      BY <2>2, <2>3, <2>4 DEF RunningUpTo
    <3> QED
      BY <1>3, <2>3, <2>4, <3>1, <3>2 DEF OwnerKnowsWhatRuns
  <2>5. CASE call'[p].phase \in {"rollback", "stopping"}
    BY <1>3, <2>2, <2>5 DEF OwnerKnowsWhatRuns, RunningUpTo
  <2> QED
    BY <2>4, <2>5
<1>6. StopRequestStaysInEpoch'
  BY DEF GroupStays, GroupInv, GroupConsistent, StopRequestStaysInEpoch
<1>7. StartedRecorded'
  BY <1>1 DEF GroupStays, GroupInv, GroupConsistent, StartedRecorded
<1>8. AttemptsEnd'
  <2>1. AttemptsEnd
    BY DEF GroupInv, GroupConsistent
  <2>2. UNCHANGED <<ended, group.starting, group.epoch, group.active, group.stopRequested>>
    BY DEF GroupStays
  <2> QED
    BY <1>3, <2>1, <2>2 DEF AttemptsEnd, OnlyMoves
<1>9. NothingLeftRunning'
  BY <1>1 DEF GroupStays, NothingLeftRunning
<1> QED
  BY <1>2, <1>4, <1>5, <1>6, <1>7, <1>8, <1>9 DEF GroupInv, GroupConsistent

(* A rollback begins with the components that run. *)
LEMMA RollbackKeeps ==
  ASSUME GroupInv, NEW p \in GroupCallers, call[p].phase \in {"start", "starting"},
         NEW n \in 0..GroupSize, BeginRollback(p, n),
         UNCHANGED ended, runningIn' \in [GroupComponents -> Nat],
         \A i \in GroupComponents : runningIn'[i] = IF i <= n THEN group.epoch ELSE 0
  PROVE  GroupInv'
<1>1. /\ GroupStays({"started"}) /\ group'.started = 0 /\ runCancelled' = TRUE
      /\ OnlyMoves(p) /\ call'[p].phase = "rollback" /\ call'[p].left = n
      /\ call'[p].epoch = call[p].epoch
  BY RollbackBegins DEF GroupInv, GroupConsistent
<1> QED
  BY <1>1, OwnerKeeps DEF OwnsStart, OwnsStop

(* An attempt that ends with nothing running leaves the group free. *)
LEMMA EndKeeps ==
  ASSUME GroupInv, NEW p \in GroupCallers, NEW of \in {"start", "stop"}, NEW ok \in BOOLEAN,
         EndAttempt(p, of, ok), call[p].left = 0,
         call[p].phase = IF of = "start" THEN "rollback" ELSE "stopping",
         group.started = 0
  PROVE  GroupInv'
<1> USE DEF OwnsStart, OwnsStop, WaitsForStart, WaitsForStop, CallerAt
<1>1. /\ group.active /\ group.epoch \in Nat \ {0} /\ call[p].epoch = group.epoch
      /\ \A q \in GroupCallers \ {p} : call[q].phase \notin OwnsStart \union OwnsStop
      /\ IF of = "start" THEN group.starting = group.epoch /\ group.stopping = 0
         ELSE group.stopping = group.epoch /\ group.starting = 0
  BY OwnerAlone
<1>2. /\ GroupStays({"active", "stopRequested", "starting", "stopping"})
      /\ group'.active = FALSE /\ group'.stopRequested = FALSE
      /\ group'.starting = IF of = "start" THEN 0 ELSE group.starting
      /\ group'.stopping = IF of = "stop" THEN 0 ELSE group.stopping
      /\ OnlyMoves(p) /\ call'[p].phase = "idle"
  BY <1>1, AttemptEnds DEF GroupInv, GroupConsistent
<1>3. group'.starting = 0 /\ group'.stopping = 0 /\ group'.epoch = group.epoch
  BY <1>1, <1>2 DEF GroupStays
<1>4. /\ ended' = ended \union {[of |-> of, epoch |-> group.epoch, ok |-> ok]}
      /\ UNCHANGED <<runCancelled, runningIn>>
  BY <1>1 DEF EndAttempt
<1>5. \A i \in GroupComponents : runningIn[i] = 0
  BY DEF GroupInv, GroupConsistent, OwnerKnowsWhatRuns, RunningUpTo, GroupComponents
<1>6. \A q \in GroupCallers : call'[q].phase \notin OwnsStart \union OwnsStop
  BY <1>1, <1>2 DEF OnlyMoves
<1>7. GroupTypeOK'
  BY <1>1, <1>2, <1>4 DEF GroupInv, GroupConsistent, GroupTypeOK, GroupStays, OnlyMoves, Attempts
<1>8. OneAttempt'
  BY <1>2, <1>3, <1>6 DEF OneAttempt
<1>9. OwnerKnowsWhatRuns'
  BY <1>6 DEF OwnerKnowsWhatRuns
<1>10. (StopRequestStaysInEpoch /\ StartedRecorded)'
  BY <1>2 DEF StopRequestStaysInEpoch, StartedRecorded, GroupStays
<1>11. AttemptsEnd'
  <2>1. \A a \in ended' : a.epoch <= group'.epoch
    BY <1>1, <1>3, <1>4 DEF GroupInv, GroupConsistent, AttemptsEnd
  <2>2. \A q \in GroupCallers : call'[q].phase \in WaitsForStart \union WaitsForStop =>
          call'[q].epoch \in 1..group'.epoch
    BY <1>2, <1>3 DEF GroupInv, GroupConsistent, AttemptsEnd, OnlyMoves
  <2> QED
    BY <1>2, <1>3, <2>1, <2>2 DEF AttemptsEnd
<1>12. NothingLeftRunning'
  BY <1>2, <1>4, <1>5 DEF NothingLeftRunning
<1> QED
  BY <1>7, <1>8, <1>9, <1>10, <1>11, <1>12 DEF GroupInv, GroupConsistent

(* A Stop of a started group, with no attempt under way, owns the stop. *)
LEMMA OwnStopKeeps ==
  ASSUME GroupInv, NEW p \in GroupCallers, group.active, runCancelled' = TRUE,
         group.starting = 0, group.stopping = 0,
         group' = [group EXCEPT !.stopRequested = TRUE, !.stopping = group.epoch],
         Wait(p, "ownStop", group.epoch), UNCHANGED <<ended, runningIn>>
  PROVE  GroupInv'
<1> USE DEF OwnsStart, OwnsStop, WaitsForStart, WaitsForStop, CallerAt
<1>0. group.epoch \in Nat
  BY DEF GroupInv, GroupConsistent, GroupTypeOK, Groups
<1>1. OnlyMoves(p) /\ call'[p].phase = "ownStop" /\ call'[p].epoch = group.epoch
  BY <1>0, CallerWaits DEF OnlyMoves, GroupInv, GroupConsistent, GroupTypeOK
<1>2. /\ GroupStays({"stopRequested", "stopping"})
      /\ group'.stopRequested = TRUE /\ group'.stopping = group.epoch
  BY <1>0 DEF GroupStays, GroupInv, GroupConsistent, GroupTypeOK, Groups
<1>3. /\ group'.active = TRUE /\ group'.starting = 0 /\ group'.epoch = group.epoch
      /\ group'.started = group.started
  BY <1>2 DEF GroupStays
<1>4. \A q \in GroupCallers : call'[q].phase \in OwnsStart \union OwnsStop => q = p
  BY <1>1 DEF OnlyMoves, GroupInv, GroupConsistent, OneAttempt
<1>5. /\ group.epoch # 0 /\ group.started = GroupSize
      /\ \A i \in GroupComponents : runningIn[i] = group.epoch
  BY DEF GroupInv, GroupConsistent, OneAttempt, StartedRecorded, NothingLeftRunning
<1>6. GroupTypeOK'
  BY <1>1, <1>2 DEF GroupInv, GroupConsistent, GroupTypeOK, OnlyMoves, GroupStays
<1>7. OneAttempt'
  BY <1>1, <1>2, <1>3, <1>4, <1>5 DEF OneAttempt
<1>8. OwnerKnowsWhatRuns'
  BY <1>1, <1>3, <1>4, <1>5, GroupAssumption DEF OwnerKnowsWhatRuns, RunningUpTo, GroupComponents
<1>9. (StopRequestStaysInEpoch /\ StartedRecorded)'
  BY <1>2, <1>3, <1>5 DEF StopRequestStaysInEpoch, StartedRecorded
<1>10. AttemptsEnd'
  BY <1>1, <1>2, <1>3 DEF GroupInv, GroupConsistent, AttemptsEnd, OnlyMoves
<1>11. NothingLeftRunning'
  BY <1>2, <1>3, <1>5 DEF NothingLeftRunning
<1> QED
  BY <1>6, <1>7, <1>8, <1>9, <1>10, <1>11 DEF GroupInv, GroupConsistent

(* A start that has come to its place runs exactly the components before it. *)
LEMMA PlaceOfStart ==
  ASSUME GroupInv, NEW p \in GroupCallers, call[p].phase \in {"start", "starting"}
  PROVE  /\ group.started \in 0..GroupSize /\ call[p].at = group.started + 1
         /\ call[p].phase = "starting" => call[p].at <= GroupSize
         /\ \A i \in GroupComponents :
              runningIn[i] = IF i <= group.started THEN group.epoch ELSE 0
         /\ call[p].epoch = group.epoch /\ group.epoch \in Nat
<1>1. /\ group.started = call[p].at - 1 /\ RunningUpTo(group.started)
      /\ call[p].phase = "starting" => call[p].at <= GroupSize
  BY DEF GroupInv, GroupConsistent, OwnerKnowsWhatRuns, CallerAt
<1>2. group.started \in 0..GroupSize /\ call[p].at \in 0..GroupSize + 1
  BY DEF GroupInv, GroupConsistent, GroupTypeOK, Groups, Calls
<1>3. call[p].at = group.started + 1
  BY <1>1, <1>2, GroupAssumption
<1> QED
  BY <1>1, <1>2, <1>3, OwnerAlone DEF RunningUpTo, OwnsStart, OwnsStop

(* A start that ends well, with no stop requested, leaves everything running. *)
LEMMA AllStartedKeeps ==
  ASSUME GroupInv, NEW p \in GroupCallers, AllStarted(p), ~(group.stopRequested \/ runCancelled)
  PROVE  GroupInv'
<1> USE DEF OwnsStart, OwnsStop, WaitsForStart, WaitsForStop, CallerAt
<1>1. /\ call[p].phase = "start" /\ call[p].at > GroupSize
      /\ group' = [group EXCEPT !.starting = 0]
      /\ ended' = ended \union {[of |-> "start", epoch |-> call[p].epoch, ok |-> TRUE]}
      /\ GoTo(p, IdleCaller) /\ UNCHANGED <<runCancelled, runningIn>>
  BY DEF AllStarted
<1>2. /\ group.active /\ group.epoch \in Nat \ {0} /\ call[p].epoch = group.epoch
      /\ \A q \in GroupCallers \ {p} : call[q].phase \notin OwnsStart \union OwnsStop
      /\ group.stopping = 0
  BY <1>1, OwnerAlone
<1>3. OnlyMoves(p) /\ call'[p].phase = "idle"
  BY <1>1, CallerGoes, IdleIsCaller DEF OnlyMoves, GroupInv, GroupConsistent, GroupTypeOK
<1>4. GroupStays({"starting"}) /\ group'.starting = 0
  BY <1>1 DEF GroupStays, GroupInv, GroupConsistent, GroupTypeOK, Groups
<1>5. /\ group'.active = group.active /\ group'.stopping = 0 /\ group'.epoch = group.epoch
      /\ group'.started = group.started /\ group'.stopRequested = group.stopRequested
  BY <1>2, <1>4 DEF GroupStays
<1>6. group.started = GroupSize /\ \A i \in GroupComponents : runningIn[i] = group.epoch
  <2>1. /\ group.started \in 0..GroupSize /\ group.started + 1 > GroupSize
        /\ \A i \in GroupComponents :
             runningIn[i] = IF i <= group.started THEN group.epoch ELSE 0
    BY <1>1, PlaceOfStart
  <2> QED
    BY <2>1, GroupAssumption DEF GroupComponents
<1>7. \A q \in GroupCallers : call'[q].phase \notin OwnsStart \union OwnsStop
  BY <1>2, <1>3 DEF OnlyMoves
<1>8. GroupTypeOK'
  <2>1. ended' \subseteq Attempts
    <3>1. ended \subseteq Attempts
      BY DEF GroupInv, GroupConsistent, GroupTypeOK
    <3>2. [of |-> "start", epoch |-> group.epoch, ok |-> TRUE] \in Attempts
      BY <1>2 DEF Attempts
    <3> QED
      BY <1>1, <1>2, <3>1, <3>2
  <2> QED
    BY <1>1, <1>3, <1>4, <2>1 DEF GroupInv, GroupConsistent, GroupTypeOK, OnlyMoves, GroupStays
<1>9. OneAttempt'
  BY <1>2, <1>4, <1>5, <1>7 DEF OneAttempt
<1>10. OwnerKnowsWhatRuns'
  BY <1>7 DEF OwnerKnowsWhatRuns
<1>11. (StopRequestStaysInEpoch /\ StartedRecorded)'
  BY <1>1, <1>2, <1>5, <1>6
     DEF GroupInv, GroupConsistent, StopRequestStaysInEpoch, StartedRecorded
<1>12. AttemptsEnd'
  <2>1. AttemptsEnd
    BY DEF GroupInv, GroupConsistent
  <2>2. \A a \in ended' : /\ a.epoch <= group'.epoch
                          /\ a.epoch = group'.epoch =>
                               IF a.of = "start" THEN group'.starting = 0 ELSE ~group'.active
    BY <1>1, <1>2, <1>4, <1>5, <2>1 DEF AttemptsEnd
  <2>3. \A q \in GroupCallers \ {p} :
          ~(call[q].phase = "awaitRollback" /\ call[q].epoch = group.epoch)
    BY <1>2, <2>1 DEF AttemptsEnd
  <2> QED
    BY <1>3, <1>5, <2>1, <2>2, <2>3 DEF AttemptsEnd, OnlyMoves
<1>13. NothingLeftRunning'
  BY <1>1, <1>2, <1>5, <1>6 DEF NothingLeftRunning
<1> QED
  BY <1>8, <1>9, <1>10, <1>11, <1>12, <1>13 DEF GroupInv, GroupConsistent

(* Every step keeps the invariant. *)
LEMMA NextGroupInv == GroupInv /\ [GroupNext]_groupVars => GroupInv'
<1> SUFFICES ASSUME GroupInv, [GroupNext]_groupVars PROVE GroupInv'
  OBVIOUS
<1>0. /\ GroupTypeOK /\ OneAttempt /\ OwnerKnowsWhatRuns /\ StopRequestStaysInEpoch
      /\ StartedRecorded /\ AttemptsEnd
  BY DEF GroupInv, GroupConsistent
<1>00. runCancelled \in BOOLEAN /\ group \in Groups /\ runningIn \in [GroupComponents -> Nat]
  BY <1>0 DEF GroupTypeOK
<1> USE DEF CallerAt
<1>1. ASSUME NEW p \in GroupCallers, Start(p) PROVE GroupInv'
  BY <1>1, EnterKeeps DEF Start
<1>2. ASSUME NEW p \in GroupCallers, StopAwaited(p) PROVE GroupInv'
  <2>1. CASE Enter(p)
    BY <1>2, <2>1, EnterKeeps DEF StopAwaited
  <2>2. CASE GoTo(p, IdleCaller) /\ UNCHANGED <<group, runCancelled>>
    BY <1>2, <2>2, ReturnKeeps DEF StopAwaited
  <2> QED
    BY <1>2, <2>1, <2>2 DEF StopAwaited
<1>3. ASSUME NEW p \in GroupCallers, WaitEnds(p) \/ GiveUp(p) PROVE GroupInv'
  BY <1>3, ReturnKeeps DEF WaitEnds, GiveUp
<1>4. ASSUME NEW p \in GroupCallers, Stop(p) PROVE GroupInv'
  <2>1. CASE group.starting # 0 \/ group.stopping # 0
    <3>1. /\ group.active /\ runCancelled' = TRUE /\ call[p].phase = "idle"
          /\ group' = [group EXCEPT !.stopRequested = TRUE]
          /\ UNCHANGED <<ended, runningIn>>
      BY <1>4, <2>1 DEF Stop
    <3>2. \/ group.starting # 0 /\ Wait(p, "awaitRollback", group.starting)
          \/ group.stopping # 0 /\ Wait(p, "joinStop", group.stopping)
      BY <1>4, <2>1 DEF Stop
    <3> QED
      BY <3>1, <3>2, AskStopKeeps
  <2>2. CASE group.starting = 0 /\ group.stopping = 0
    <3>1. /\ group.active /\ runCancelled' = TRUE /\ UNCHANGED <<ended, runningIn>>
          /\ group' = [group EXCEPT !.stopRequested = TRUE, !.stopping = group.epoch]
          /\ Wait(p, "ownStop", group.epoch)
      BY <1>4, <2>2 DEF Stop
    <3> QED
      BY <2>2, <3>1, OwnStopKeeps
  <2> QED
    BY <2>1, <2>2
<1>5. ASSUME NEW p \in GroupCallers, StopStarted(p) PROVE GroupInv'
  <2>1. /\ group.active /\ group.epoch \in Nat \ {0} /\ call[p].epoch = group.epoch
        /\ call[p].phase = "ownStop" /\ group.started = GroupSize
        /\ RunningUpTo(GroupSize)
    BY <1>0, <1>5, OwnerAlone DEF StopStarted, OwnsStop, OwnerKnowsWhatRuns
  <2>2. /\ group' = [group EXCEPT !.started = 0]
        /\ GoTo(p, [call[p] EXCEPT !.phase = "stopping", !.left = GroupSize])
        /\ UNCHANGED <<runCancelled, ended, runningIn>>
    BY <1>5, <2>1 DEF StopStarted
  <2>3. GroupStays({"started"}) /\ group'.started = 0
    BY <1>00, <2>2, GroupAssumption DEF GroupStays, Groups
  <2>5. GroupSize \in 0..GroupSize
    BY GroupAssumption
  <2>4. /\ OnlyMoves(p) /\ call'[p].phase = "stopping" /\ call'[p].left = GroupSize
        /\ call'[p].epoch = call[p].epoch
    <3>1. /\ [call[p] EXCEPT !.phase = "stopping", !.left = GroupSize] \in Calls
          /\ [call[p] EXCEPT !.phase = "stopping", !.left = GroupSize].phase = "stopping"
          /\ [call[p] EXCEPT !.phase = "stopping", !.left = GroupSize].left = GroupSize
          /\ [call[p] EXCEPT !.phase = "stopping", !.left = GroupSize].epoch = call[p].epoch
      BY <1>0, <2>5 DEF GroupTypeOK, Calls
    <3> QED
      BY <1>0, <2>2, <3>1, CallerGoes DEF GroupTypeOK, OnlyMoves
  <2> QED
    BY <1>00, <2>1, <2>2, <2>3, <2>4, <2>5, OwnerKeeps DEF OwnsStart, OwnsStop, RunningUpTo
<1>6. ASSUME NEW p \in GroupCallers, NextComponent(p) PROVE GroupInv'
  <2>1. /\ call[p].phase = "start" /\ call[p].at <= GroupSize
        /\ group.started \in 0..GroupSize /\ call[p].at = group.started + 1
        /\ \A i \in GroupComponents : runningIn[i] = IF i <= group.started THEN group.epoch ELSE 0
    BY <1>6, PlaceOfStart DEF NextComponent
  <2>2. CASE runCancelled
    BY <1>00, <1>6, <2>1, <2>2, RollbackKeeps DEF NextComponent
  <2>3. CASE ~runCancelled
    <3>1. /\ GoTo(p, [call[p] EXCEPT !.phase = "starting"])
          /\ UNCHANGED <<group, runCancelled, ended, runningIn>>
      BY <1>6, <2>3 DEF NextComponent
    <3>2. /\ OnlyMoves(p) /\ call'[p].phase = "starting" /\ call'[p].epoch = call[p].epoch
          /\ call'[p].at = call[p].at
      <4>1. /\ [call[p] EXCEPT !.phase = "starting"] \in Calls
            /\ [call[p] EXCEPT !.phase = "starting"].phase = "starting"
            /\ [call[p] EXCEPT !.phase = "starting"].epoch = call[p].epoch
            /\ [call[p] EXCEPT !.phase = "starting"].at = call[p].at
        BY <1>0 DEF GroupTypeOK, Calls
      <4> QED
        BY <1>0, <3>1, <4>1, CallerGoes DEF GroupTypeOK, OnlyMoves
    <3>3. GroupStays({"started"}) /\ group'.started = group.started
      BY <1>00, <3>1 DEF GroupStays
    <3>4. group.started < GroupSize
      BY <2>1, GroupAssumption
    <3> QED
      BY <1>00, <2>1, <3>1, <3>2, <3>3, <3>4, OwnerKeeps DEF OwnsStart, OwnsStop
  <2> QED
    BY <2>2, <2>3
<1>7. ASSUME NEW p \in GroupCallers, ComponentStarts(p) PROVE GroupInv'
  <2> DEFINE n == group.started + 1
  <2>1. /\ call[p].phase = "starting" /\ call[p].at <= GroupSize
        /\ group.started \in 0..GroupSize /\ call[p].at = n
        /\ \A i \in GroupComponents : runningIn[i] = IF i <= group.started THEN group.epoch ELSE 0
        /\ call[p].epoch = group.epoch /\ group.epoch \in Nat
    BY <1>7, PlaceOfStart DEF ComponentStarts
  <2>2. n \in 0..GroupSize /\ n \in GroupComponents
    BY <2>1, GroupAssumption DEF GroupComponents
  <2>3. runningIn' = [runningIn EXCEPT ![n] = group.epoch] /\ UNCHANGED ended
    BY <1>7, <2>1 DEF ComponentStarts
  <2>4. /\ runningIn' \in [GroupComponents -> Nat]
        /\ \A i \in GroupComponents : runningIn'[i] = IF i <= n THEN group.epoch ELSE 0
    BY <1>00, <2>1, <2>2, <2>3 DEF GroupComponents
  <2>5. CASE group.stopRequested \/ runCancelled
    BY <1>7, <2>1, <2>2, <2>3, <2>4, <2>5, RollbackKeeps DEF ComponentStarts
  <2>6. CASE ~(group.stopRequested \/ runCancelled)
    <3>1. /\ group' = [group EXCEPT !.started = n] /\ UNCHANGED runCancelled
          /\ GoTo(p, [call[p] EXCEPT !.phase = "start", !.at = @ + 1])
      BY <1>7, <2>1, <2>6 DEF ComponentStarts
    <3>2. /\ OnlyMoves(p) /\ call'[p].phase = "start" /\ call'[p].epoch = call[p].epoch
          /\ call'[p].at = n + 1
      <4>1. call[p].at + 1 \in 0..GroupSize + 1
        BY <2>1, GroupAssumption
      <4>2. /\ [call[p] EXCEPT !.phase = "start", !.at = @ + 1] \in Calls
            /\ [call[p] EXCEPT !.phase = "start", !.at = @ + 1].phase = "start"
            /\ [call[p] EXCEPT !.phase = "start", !.at = @ + 1].epoch = call[p].epoch
            /\ [call[p] EXCEPT !.phase = "start", !.at = @ + 1].at = call[p].at + 1
        BY <1>0, <4>1 DEF GroupTypeOK, Calls
      <4> QED
        BY <1>0, <2>1, <3>1, <4>2, CallerGoes DEF GroupTypeOK, OnlyMoves
    <3>3. GroupStays({"started"}) /\ group'.started = n
      BY <1>00, <2>2, <3>1 DEF GroupStays, Groups
    <3> HIDE DEF n
    <3> QED
      BY <1>00, <2>1, <2>2, <2>3, <2>4, <3>1, <3>2, <3>3, OwnerKeeps DEF OwnsStart, OwnsStop
  <2> QED
    BY <2>5, <2>6
<1>8. ASSUME NEW p \in GroupCallers, ComponentFailsToStart(p) PROVE GroupInv'
  BY <1>00, <1>8, PlaceOfStart, RollbackKeeps DEF ComponentFailsToStart
<1>9. ASSUME NEW p \in GroupCallers, AllStarted(p) PROVE GroupInv'
  <2>1. CASE group.stopRequested \/ runCancelled
    BY <1>00, <1>9, <2>1, PlaceOfStart, RollbackKeeps DEF AllStarted
  <2>2. CASE ~(group.stopRequested \/ runCancelled)
    BY <1>9, <2>2, AllStartedKeeps
  <2> QED
    BY <2>1, <2>2
<1>10. ASSUME NEW p \in GroupCallers, RolledBack(p) PROVE GroupInv'
  BY <1>0, <1>10, EndKeeps DEF RolledBack, OwnerKnowsWhatRuns
<1>11. ASSUME NEW p \in GroupCallers, StopEnds(p) PROVE GroupInv'
  BY <1>0, <1>11, EndKeeps DEF StopEnds, OwnerKnowsWhatRuns
<1>12. ASSUME NEW p \in GroupCallers, ComponentStops(p) PROVE GroupInv'
  <2> DEFINE n == call[p].left - 1
  <2>1. /\ call[p].phase \in {"rollback", "stopping"} /\ call[p].left \in 1..GroupSize
        /\ group.started = 0 /\ call[p].epoch = group.epoch /\ group.epoch \in Nat
        /\ \A i \in GroupComponents :
             runningIn[i] = IF i <= call[p].left THEN group.epoch ELSE 0
    <3>1. call[p].left \in 0..GroupSize /\ call[p].left > 0
      BY <1>0, <1>12 DEF ComponentStops, GroupTypeOK, Calls
    <3>2. call[p].left \in 1..GroupSize
      BY <3>1, GroupAssumption
    <3> QED
      BY <1>0, <1>12, <3>2, OwnerAlone
         DEF ComponentStops, OwnerKnowsWhatRuns, RunningUpTo, OwnsStart, OwnsStop
  <2>2. n \in 0..GroupSize
    BY <2>1, GroupAssumption
  <2>3. /\ runningIn' = [runningIn EXCEPT ![call[p].left] = 0]
        /\ GoTo(p, [call[p] EXCEPT !.left = n])
        /\ UNCHANGED <<group, runCancelled, ended>>
    BY <1>12 DEF ComponentStops
  <2>4. /\ runningIn' \in [GroupComponents -> Nat]
        /\ \A i \in GroupComponents : runningIn'[i] = IF i <= n THEN group.epoch ELSE 0
    BY <1>00, <2>1, <2>3, GroupAssumption DEF GroupComponents
  <2>5. /\ OnlyMoves(p) /\ call'[p].phase = call[p].phase /\ call'[p].epoch = call[p].epoch
        /\ call'[p].left = n
    <3>1. /\ [call[p] EXCEPT !.left = n] \in Calls
          /\ [call[p] EXCEPT !.left = n].phase = call[p].phase
          /\ [call[p] EXCEPT !.left = n].epoch = call[p].epoch
          /\ [call[p] EXCEPT !.left = n].left = n
      BY <1>0, <2>2 DEF GroupTypeOK, Calls
    <3> QED
      BY <1>0, <2>3, <3>1, CallerGoes DEF GroupTypeOK, OnlyMoves
  <2>6. GroupStays({"started"}) /\ group'.started = 0
    BY <1>00, <2>1, <2>3 DEF GroupStays
  <2> HIDE DEF n
  <2> QED
    BY <1>00, <2>1, <2>2, <2>3, <2>4, <2>5, <2>6, OwnerKeeps DEF OwnsStart, OwnsStop
<1>13. CASE StartContextEnds
  <2>1. runCancelled' = TRUE /\ UNCHANGED <<group, ended, call, runningIn>>
    BY <1>13 DEF StartContextEnds
  <2> QED
    BY <1>0, <2>1 DEF GroupInv, GroupConsistent, GroupTypeOK, OneAttempt, OwnerKnowsWhatRuns,
       StopRequestStaysInEpoch, StartedRecorded, AttemptsEnd, NothingLeftRunning, RunningUpTo
<1>14. CASE UNCHANGED groupVars
  BY <1>14 DEF groupVars, GroupInv, GroupConsistent, GroupTypeOK, OneAttempt,
     OwnerKnowsWhatRuns, StopRequestStaysInEpoch, StartedRecorded, AttemptsEnd,
     NothingLeftRunning, RunningUpTo
<1> QED
  BY <1>1, <1>2, <1>3, <1>4, <1>5, <1>6, <1>7, <1>8, <1>9, <1>10, <1>11, <1>12, <1>13, <1>14
     DEF GroupNext, GroupStep

(* The invariant holds in every state that can be reached. *)
THEOREM GroupInvariance == GroupSpec => []GroupInv
BY InitGroupInv, NextGroupInv, PTL DEF GroupSpec

(* The group stays well typed, with at most one owner of at most one attempt. *)
THEOREM GroupStaysConsistent == GroupSpec => []GroupConsistent
BY GroupInvariance, PTL DEF GroupInv

(* No start, stop, failure or rollback leaves a component behind: a free group
   has nothing running and a started group everything. *)
THEOREM NothingStaysBehind == GroupSpec => []NothingLeftRunning
BY GroupInvariance, PTL DEF GroupInv

(* What runs changes one component at a time, by the owner of an attempt. *)
LEMMA RunningChanges ==
  ASSUME GroupInv, [GroupNext]_groupVars
  PROVE  \/ UNCHANGED runningIn
         \/ \E p \in GroupCallers :
              ComponentStarts(p) /\ runningIn' = [runningIn EXCEPT ![call[p].at] = call[p].epoch]
         \/ \E p \in GroupCallers :
              ComponentStops(p) /\ runningIn' = [runningIn EXCEPT ![call[p].left] = 0]
<1>1. ASSUME NEW p \in GroupCallers, GroupStep(p) \/ Start(p) \/ Stop(p) \/ GiveUp(p)
      PROVE  UNCHANGED runningIn \/ ComponentStarts(p) \/ ComponentStops(p)
  BY <1>1 DEF GroupStep, StopAwaited, NextComponent, ComponentFailsToStart, AllStarted,
     RolledBack, StopStarted, StopEnds, WaitEnds, Start, Stop, GiveUp, EndAttempt
<1>2. StartContextEnds \/ UNCHANGED groupVars => UNCHANGED runningIn
  BY DEF StartContextEnds, groupVars
<1> QED
  BY <1>1, <1>2 DEF GroupNext, ComponentStarts, ComponentStops

(* Components start in the order of the list and stop in the reverse order. *)
THEOREM StartsAndStopsInOrder == GroupSpec => StackOrder
<1> DEFINE Ordered ==
      \A i \in GroupComponents :
        /\ runningIn[i] = 0 /\ runningIn'[i] # 0
             => \A j \in 1..i - 1 : runningIn[j] = runningIn'[i]
        /\ runningIn[i] # 0 /\ runningIn'[i] = 0
             => \A j \in i + 1..GroupSize : runningIn[j] = 0
<1>1. ASSUME GroupInv, [GroupNext]_groupVars PROVE Ordered
  <2>0. runningIn \in [GroupComponents -> Nat]
    BY <1>1 DEF GroupInv, GroupConsistent, GroupTypeOK
  <2>1. CASE UNCHANGED runningIn
    BY <2>1
  <2>2. ASSUME NEW p \in GroupCallers, ComponentStarts(p),
               runningIn' = [runningIn EXCEPT ![call[p].at] = call[p].epoch]
        PROVE  Ordered
    <3>1. /\ group.started \in 0..GroupSize /\ call[p].at = group.started + 1
          /\ \A i \in GroupComponents :
               runningIn[i] = IF i <= group.started THEN group.epoch ELSE 0
          /\ call[p].epoch = group.epoch /\ call[p].at <= GroupSize
      BY <1>1, <2>2, PlaceOfStart DEF ComponentStarts, CallerAt
    <3> QED
      BY <2>0, <2>2, <3>1, GroupAssumption DEF GroupComponents
  <2>3. ASSUME NEW p \in GroupCallers, ComponentStops(p),
               runningIn' = [runningIn EXCEPT ![call[p].left] = 0]
        PROVE  Ordered
    <3>1. /\ call[p].left \in 1..GroupSize
          /\ \A i \in GroupComponents :
               runningIn[i] = IF i <= call[p].left THEN group.epoch ELSE 0
      BY <1>1, <2>3, GroupAssumption
         DEF ComponentStops, GroupInv, GroupConsistent, GroupTypeOK, Calls, OwnerKnowsWhatRuns,
             RunningUpTo
    <3> QED
      BY <2>0, <2>3, <3>1, GroupAssumption DEF GroupComponents
  <2> QED
    BY <1>1, <2>1, <2>2, <2>3, RunningChanges
<1>2. GroupInv /\ [GroupNext]_groupVars => [Ordered]_groupVars
  BY <1>1
<1> QED
  BY <1>2, GroupInvariance, PTL DEF GroupSpec, StackOrder

(* A Stop that waited for an attempt to end: of an earlier epoch nothing is left,
   and of the current one the attempt has left the group free. *)
LEMMA WaitedStopStopped ==
  ASSUME GroupInv, NEW p \in GroupCallers, WaitEnds(p),
         call[p].phase \in {"awaitRollback", "joinStop"}
  PROVE  \A i \in GroupComponents : runningIn[i] # call[p].epoch
<1>0. GroupTypeOK /\ OneAttempt /\ AttemptsEnd /\ NothingLeftRunning
  BY DEF GroupInv, GroupConsistent
<1>1. group.epoch \in Nat /\ call[p].epoch \in 1..group.epoch
  BY <1>0 DEF GroupTypeOK, Groups, AttemptsEnd, WaitsForStart, WaitsForStop
<1>2. CASE call[p].epoch # group.epoch
  BY <1>0, <1>1, <1>2 DEF NothingLeftRunning
<1>3. CASE call[p].epoch = group.epoch
  <2>1. PICK a \in ended : /\ a.epoch = call[p].epoch
                           /\ a.of = IF CallerAt(p, "joinStop") THEN "stop" ELSE "start"
    BY DEF WaitEnds
  <2>2. IF a.of = "start" THEN group.starting = 0 ELSE ~group.active
    BY <1>0, <1>3, <2>1 DEF AttemptsEnd
  <2>3. ~group.active
    BY <1>0, <1>3, <2>1, <2>2 DEF AttemptsEnd, CallerAt
  <2> QED
    BY <1>0, <1>1, <1>3, <2>3 DEF NothingLeftRunning
<1> QED
  BY <1>2, <1>3

(* Components stop in order, and a Stop that returns without having given up
   has ended the epoch it was called in. *)
THEOREM StopsAreOrderly == GroupSpec => OrderlyStops
<1> DEFINE Stopped ==
      \A p \in GroupCallers : StopReturns(p)
        => \A i \in GroupComponents : runningIn[i] # call[p].epoch
<1>1. ASSUME GroupInv PROVE Stopped
  <2> SUFFICES ASSUME NEW p \in GroupCallers, StopReturns(p)
               PROVE  \A i \in GroupComponents : runningIn[i] # call[p].epoch
    OBVIOUS
  <2>1. CASE StopEnds(p)
    <3>1. call[p].epoch = group.epoch /\ group.epoch \in Nat \ {0} /\ call[p].left = 0
      BY <1>1, <2>1, OwnerAlone DEF StopEnds, CallerAt, OwnsStop
    <3>2. RunningUpTo(0)
      BY <1>1, <2>1, <3>1
         DEF StopEnds, CallerAt, GroupInv, GroupConsistent, OwnerKnowsWhatRuns
    <3> QED
      BY <3>1, <3>2 DEF RunningUpTo, GroupComponents
  <2>2. CASE StopStarted(p) /\ call'[p] = IdleCaller
    <3>1. call[p].epoch = group.epoch
      BY <1>1, <2>2, OwnerAlone DEF StopStarted, CallerAt, OwnsStop
    <3>2. /\ call' = [call EXCEPT ![p] = [call[p] EXCEPT !.phase = "stopping", !.left = group.started]]
          /\ call \in [GroupCallers -> Calls]
      BY <1>1, <2>2, <3>1 DEF StopStarted, GoTo, GroupInv, GroupConsistent, GroupTypeOK
    <3>3. call'[p].phase = "stopping"
      BY <3>2 DEF Calls
    <3> QED
      BY <2>2, <3>3, IdleIsCaller
  <2>3. CASE WaitEnds(p) /\ call[p].phase \in {"awaitRollback", "joinStop"}
    BY <1>1, <2>3, WaitedStopStopped
  <2> QED
    BY <2>1, <2>2, <2>3 DEF StopReturns
<1>2. GroupInv => [Stopped]_groupVars
  BY <1>1
<1>3. GroupSpec => StopReturnsStopped
  BY <1>2, GroupInvariance, PTL DEF GroupSpec, StopReturnsStopped
<1> QED
  BY <1>3, StartsAndStopsInOrder DEF OrderlyStops

-----------------------------------------------------------------------------
(* The components that keep durable rows, side by side                     *)

(* A step of one of them is a step of that one and leaves the others alone. *)
LEMMA DurableSteps ==
  [MCNext]_mcVars => /\ [RefreshNext]_refreshVars /\ [RetentionNext]_retentionVars
                     /\ [DataNext]_dataVars /\ [GroupNext]_groupVars
<1>1. FocusDataNext => DataNext
  BY DEF FocusDataNext, DataNext
<1> QED
  BY <1>1 DEF MCNext, mcVars

(* Refresh runs, retention, managed data and the lifecycle group keep their *)
(* types and their bookkeeping beside each other (refresh/run, retention,   *)
(* manageddata, lifecycle): each by its own inductive invariant, which the  *)
(* others' steps do not touch.                                              *)
THEOREM DurableStaysConsistent == MCSpec => []DurableConsistent
<1> DEFINE DurableInv == RefreshInv /\ RetentionConsistent /\ DataInv /\ GroupInv
<1>1. MCInit => DurableInv
  BY InitRefreshInv, InitRetention, InitDataInv, InitGroupInv DEF MCInit
<1>2. DurableInv /\ [MCNext]_mcVars => DurableInv'
  BY DurableSteps, NextRefreshInv, NextRetention, NextDataInv, NextGroupInv
<1>3. DurableInv => DurableConsistent
  BY RefreshInvSuffices DEF DurableConsistent, DataInv, GroupInv
<1> QED
  BY <1>1, <1>2, <1>3, PTL DEF MCSpec
=============================================================================
