---------------------------- MODULE ManagedData -----------------------------
(***************************************************************************)
(* Managed data: upload sessions, their finalization into immutable        *)
(* revisions, the staging of the resumable transport, and the maintenance  *)
(* pass that expires sessions and collects unreachable blobs               *)
(* (internal/manageddata/control/service.go, sqlite/repository.go,         *)
(* sqlite/queries/managed_data.sql, maintenance/gc.go,                     *)
(* maintenance/sqlite/source.go, module/jobs.go, module/maintenance.go,    *)
(* storage/filesystem/store.go, storage/tus/engine.go).                    *)
(*                                                                         *)
(* A manifest is its set of blobs and a blob is its digest.  An uploader   *)
(* is a goroutine inside one service call; the keeper is the maintenance   *)
(* worker.  Every transaction and every call to the blob store is a step.  *)
(***************************************************************************)
EXTENDS Naturals, FiniteSets

CONSTANTS Uploads,      \* identities of upload sessions
          Blobs,        \* digests
          ManifestOf,   \* ManifestOf[u]: the blobs the manifest of u names
          RevisionOf,   \* RevisionOf[u]: the collection and the digest of the manifest
          Uploaders,    \* goroutines that serve calls and finalization jobs
          MaxFaults     \* bound on storage errors and crashes

ASSUME ManagedDataAssumption ==
  /\ ManifestOf \in [Uploads -> SUBSET Blobs] /\ MaxFaults \in Nat
  /\ \A u, v \in Uploads : RevisionOf[u] = RevisionOf[v] => ManifestOf[u] = ManifestOf[v]

VARIABLES
  upload,        \* rows of managed_data_upload_sessions
  blobs,         \* the blobs the store holds
  aged,          \* those not modified within the grace age
  staging,       \* staging[u]: the blobs with a staged transport upload
  finalizeJob,   \* finalizeJob[u]: the finalization job of u may still be claimed
  uploader,      \* what each uploader does
  keeper,        \* what the maintenance worker does
  faults

dataVars == <<upload, blobs, aged, staging, finalizeJob, uploader, keeper, faults>>

Finished == {"complete", "failed", "aborted", "expired"}
UploadStatus == {"absent", "open", "committing"} \union Finished
UploadOps == {"begin", "recover", "finalize", "complete", "abort"}

UploadRows == [status : UploadStatus, lapsed : BOOLEAN, cleaned : BOOLEAN]
UploadCalls ==
  [op : UploadOps \union {"none"},
   step : {"idle", "expire", "queue", "stat", "commit", "publish", "fail", "abort",
           "cleanup", "acknowledge"},
   upload : Uploads \union {"none"}, seen : UploadStatus,
   todo : SUBSET Blobs, found : SUBSET Blobs]
Keepers == [step : {"idle", "cleanup", "acknowledge", "walk", "lock", "delete"},
            sessions : SUBSET Uploads, cleaning : Uploads \union {"none"},
            generation : SUBSET (Uploads \X UploadStatus), candidates : SUBSET Blobs]

DataTypeOK ==
  /\ upload \in [Uploads -> UploadRows]
  /\ blobs \subseteq Blobs /\ aged \subseteq blobs
  /\ staging \in [Uploads -> SUBSET Blobs]
  /\ \A u \in Uploads : staging[u] \subseteq ManifestOf[u]
  /\ finalizeJob \in [Uploads -> BOOLEAN]
  /\ uploader \in [Uploaders -> UploadCalls]
  /\ keeper \in Keepers
  /\ faults \in 0..MaxFaults

IdleUploader == [op |-> "none", step |-> "idle", upload |-> "none", seen |-> "absent",
                 todo |-> {}, found |-> {}]
IdleKeeper == [step |-> "idle", sessions |-> {}, cleaning |-> "none", generation |-> {}, candidates |-> {}]

(* Any blobs may be left over from sessions long gone. *)
DataInit ==
  /\ upload = [u \in Uploads |-> [status |-> "absent", lapsed |-> FALSE, cleaned |-> FALSE]]
  /\ blobs \in SUBSET Blobs /\ aged = blobs
  /\ staging = [u \in Uploads |-> {}]
  /\ finalizeJob = [u \in Uploads |-> FALSE]
  /\ uploader = [c \in Uploaders |-> IdleUploader]
  /\ keeper = IdleKeeper
  /\ faults = 0

(***************************************************************************)
(* The database.                                                           *)
(***************************************************************************)

Status(u) == upload[u].status

(* WithStableSnapshot deletes under BEGIN IMMEDIATE: no transaction writes. *)
Writable == keeper.step # "delete"

(* Defective: a session being finalized no longer protects its blobs. *)
ReachabilityOpenOnly == {<<u, Status(u)>> : u \in {v \in Uploads : Status(v) \in {"open", "complete"}}}

(* ListManagedDataReachabilitySources: the rows that protect blobs.  Their hash
   is the generation, so the set of rows stands for it. *)
Reachability == {<<u, Status(u)>> : u \in {v \in Uploads : Status(v) \in {"open", "committing", "complete"}}}

ReachableBlobs == UNION {ManifestOf[r[1]] : r \in Reachability}

(* Defective: an expired session may still be finalized. *)
FinalizableLapsed(u) == Status(u) \in {"open", "committing", "expired"}

(* BeginUploadFinalization: open and not past its expiry, or committing already. *)
Finalizable(u) == (Status(u) = "open" /\ ~upload[u].lapsed) \/ Status(u) = "committing"

(* ExpireUploadSessions. *)
Expired == [u \in Uploads |->
              IF Status(u) = "open" /\ upload[u].lapsed THEN [upload[u] EXCEPT !.status = "expired"]
              ELSE upload[u]]

(* MarkUploadCleanupComplete. *)
Acknowledged(u) ==
  IF Status(u) \in Finished THEN [upload EXCEPT ![u].cleaned = TRUE] ELSE upload

(***************************************************************************)
(* Service calls.                                                          *)
(***************************************************************************)

CallAt(c, step) == uploader[c].step = step

Goes(c, op, step, u) ==
  uploader' = [uploader EXCEPT ![c] =
    [IdleUploader EXCEPT !.op = op, !.step = step, !.upload = u]]

(* The call inspects the blobs of u, whose row it saw with the given status. *)
Inspects(c, op, u, seen) ==
  uploader' = [uploader EXCEPT ![c] =
    [IdleUploader EXCEPT !.op = op, !.step = "stat", !.upload = u, !.seen = seen,
                         !.todo = ManifestOf[u]]]

(* A finalization job that ends is over, on an error too; only a worker that
   lost its lease leaves it to be claimed again. *)
CallEnds(c) ==
  /\ uploader' = [uploader EXCEPT ![c] = IdleUploader]
  /\ IF uploader[c].op # "complete" THEN UNCHANGED finalizeJob
     ELSE \E again \in {FALSE, finalizeJob[uploader[c].upload]} :
            finalizeJob' = [finalizeJob EXCEPT ![uploader[c].upload] = again]

(* BeginUpload: the row is inserted, or a row of the same identity is read. *)
BeginUpload(c, u) ==
  /\ CallAt(c, "idle") /\ Writable
  /\ upload' = IF Status(u) = "absent" THEN [upload EXCEPT ![u].status = "open"] ELSE upload
  /\ Inspects(c, "begin", u, upload'[u].status)
  /\ UNCHANGED <<blobs, aged, staging, finalizeJob, keeper, faults>>

(* RecoverUpload. *)
RecoverUpload(c, u) ==
  /\ CallAt(c, "idle") /\ Status(u) # "absent"
  /\ \/ Status(u) = "open" /\ upload[u].lapsed /\ Goes(c, "recover", "expire", u)
     \/ Status(u) \in {"failed", "aborted", "expired"} /\ Goes(c, "recover", "cleanup", u)
     \/ /\ Status(u) \in {"committing", "complete"} \/ (Status(u) = "open" /\ ~upload[u].lapsed)
        /\ Inspects(c, "recover", u, Status(u))
  /\ UNCHANGED <<upload, blobs, aged, staging, finalizeJob, keeper, faults>>

(* BeginFinalizeUpload; the other statuses are refused. *)
BeginFinalizeUpload(c, u) ==
  /\ CallAt(c, "idle")
  /\ \/ Status(u) = "open" /\ upload[u].lapsed /\ Goes(c, "recover", "expire", u)
     \/ Status(u) = "committing" /\ Goes(c, "finalize", "queue", u)
     \/ /\ Status(u) = "complete" \/ (Status(u) = "open" /\ ~upload[u].lapsed)
        /\ Inspects(c, "finalize", u, Status(u))
  /\ UNCHANGED <<upload, blobs, aged, staging, finalizeJob, keeper, faults>>

(* A worker claims the job of u: CompleteFinalizeUpload. *)
CompleteFinalizeUpload(c, u) ==
  /\ CallAt(c, "idle") /\ finalizeJob[u]
  /\ \/ /\ Status(u) \in {"committing", "complete"}
        /\ Inspects(c, "complete", u, Status(u))
        /\ UNCHANGED finalizeJob
     \/ /\ Status(u) \notin {"committing", "complete"}
        /\ finalizeJob' = [finalizeJob EXCEPT ![u] = FALSE]
        /\ UNCHANGED uploader
  /\ UNCHANGED <<upload, blobs, aged, staging, keeper, faults>>

(* AbortUpload; the other statuses are refused. *)
AbortUpload(c, u) ==
  /\ CallAt(c, "idle")
  /\ \/ Status(u) = "open" /\ Goes(c, "abort", "abort", u)
     \/ Status(u) \in {"aborted", "expired"} /\ Goes(c, "abort", "cleanup", u)
  /\ UNCHANGED <<upload, blobs, aged, staging, finalizeJob, keeper, faults>>

(* AbortUploadSession, and the reload that follows it. *)
AbortSession(c) ==
  LET u == uploader[c].upload IN
  /\ CallAt(c, "abort") /\ Writable
  /\ upload' = IF Status(u) = "open" THEN [upload EXCEPT ![u].status = "aborted"] ELSE upload
  /\ IF upload'[u].status \in {"aborted", "expired"}
       THEN Goes(c, "abort", "cleanup", u) /\ UNCHANGED finalizeJob
       ELSE CallEnds(c)
  /\ UNCHANGED <<blobs, aged, staging, keeper, faults>>

(* ExpireUploadSessions of RecoverUpload. *)
ExpireSession(c) ==
  /\ CallAt(c, "expire") /\ Writable
  /\ upload' = Expired
  /\ Goes(c, "recover", "cleanup", uploader[c].upload)
  /\ UNCHANGED <<blobs, aged, staging, finalizeJob, keeper, faults>>

(* inspect: one Stat of the blob store. *)
StatBlob(c) ==
  /\ CallAt(c, "stat")
  /\ \E b \in uploader[c].todo :
       uploader' = [uploader EXCEPT ![c].todo = @ \ {b}, ![c].found = @ \union ({b} \intersect blobs)]
  /\ UNCHANGED <<upload, blobs, aged, staging, finalizeJob, keeper, faults>>

(* inspect with describe: the transport stages what is missing.  A complete
   session is inspected without, except by BeginUpload. *)
Described(c) ==
  IF uploader[c].op # "begin" /\ uploader[c].seen = "complete" THEN staging
  ELSE [staging EXCEPT ![uploader[c].upload] =
          @ \union (ManifestOf[uploader[c].upload] \ uploader[c].found)]

(* Where each call goes once its inspection is done. *)
Continuation(op, seen, missing) ==
  IF op = "finalize" /\ seen = "open" /\ ~missing THEN "commit"
  ELSE IF op = "complete"
    THEN IF seen = "complete" THEN "cleanup" ELSE IF missing THEN "fail" ELSE "publish"
  ELSE IF op = "recover" /\ seen = "complete" /\ ~missing THEN "cleanup"
  ELSE "end"

Inspected(c) ==
  LET i == uploader[c]
      next == Continuation(i.op, i.seen, i.found # ManifestOf[i.upload])
  IN /\ CallAt(c, "stat") /\ i.todo = {}
     /\ staging' = Described(c)
     /\ IF next = "end" THEN CallEnds(c)
        ELSE Goes(c, i.op, next, i.upload) /\ UNCHANGED finalizeJob
     /\ UNCHANGED <<upload, blobs, aged, keeper, faults>>

(* A Stat fails for another reason than absence. *)
StatFails(c) ==
  /\ CallAt(c, "stat") /\ uploader[c].todo # {} /\ faults < MaxFaults
  /\ faults' = faults + 1
  /\ IF uploader[c].op = "complete" /\ uploader[c].seen = "committing"
       THEN Goes(c, "complete", "fail", uploader[c].upload) /\ UNCHANGED finalizeJob
       ELSE CallEnds(c)
  /\ UNCHANGED <<upload, blobs, aged, staging, keeper>>

(* BeginUploadFinalization: the session commits and its job, whose identity is
   that of the upload, is recorded once.  A session that already commits is
   inspected again; on a conflict the call fails. *)
BeginUploadFinalization(c) ==
  LET u == uploader[c].upload
      inserts == Status(u) = "open"
  IN /\ uploader[c].step \in {"commit", "queue"} /\ Writable
     /\ IF ~Finalizable(u)
          THEN UNCHANGED upload /\ CallEnds(c)
          ELSE /\ upload' = [upload EXCEPT ![u].status = "committing"]
               /\ finalizeJob' = [finalizeJob EXCEPT ![u] = @ \/ inserts]
               /\ IF CallAt(c, "queue") THEN Inspects(c, "finalize", u, "committing")
                  ELSE uploader' = [uploader EXCEPT ![c] = IdleUploader]
     /\ UNCHANGED <<blobs, aged, staging, keeper, faults>>

(* The revision of u was made by another session: UNIQUE(collection_id, digest). *)
RevisionTaken(u) ==
  \E v \in Uploads \ {u} : RevisionOf[v] = RevisionOf[u] /\ Status(v) = "complete"

(* CompleteUpload: the revision becomes ready with the session.  On a conflict,
   because the session ended otherwise or another one made its revision, the
   call waits for its own session in vain and leaves it as it is. *)
CompleteUpload(c) ==
  LET u == uploader[c].upload IN
  /\ CallAt(c, "publish") /\ Writable
  /\ IF Status(u) = "complete" \/ (Status(u) \in {"open", "committing"} /\ ~RevisionTaken(u))
       THEN /\ upload' = [upload EXCEPT ![u].status = "complete"]
            /\ Goes(c, "complete", "cleanup", u) /\ UNCHANGED finalizeJob
       ELSE UNCHANGED upload /\ CallEnds(c)
  /\ UNCHANGED <<blobs, aged, staging, keeper, faults>>

(* Defective: the failure is reported to the caller and not recorded. *)
FailedUnrecorded(u) == upload

(* FailUploadFinalization changes a committing session only. *)
Failed(u) ==
  IF Status(u) = "committing" THEN [upload EXCEPT ![u].status = "failed"] ELSE upload

FailFinalizeUpload(c) ==
  /\ CallAt(c, "fail") /\ Writable
  /\ upload' = Failed(uploader[c].upload)
  /\ CallEnds(c)
  /\ UNCHANGED <<blobs, aged, staging, keeper, faults>>

(* cleanupTransport. *)
CleanupTransport(c) ==
  /\ CallAt(c, "cleanup")
  /\ \/ /\ staging' = [staging EXCEPT ![uploader[c].upload] = {}]
        /\ Goes(c, uploader[c].op, "acknowledge", uploader[c].upload)
        /\ UNCHANGED <<finalizeJob, faults>>
     \/ /\ faults < MaxFaults /\ faults' = faults + 1
        /\ CallEnds(c)
        /\ UNCHANGED staging
  /\ UNCHANGED <<upload, blobs, aged, keeper>>

AcknowledgeCleanup(c) ==
  /\ CallAt(c, "acknowledge") /\ Writable
  /\ upload' = Acknowledged(uploader[c].upload)
  /\ CallEnds(c)
  /\ UNCHANGED <<blobs, aged, staging, keeper, faults>>

(***************************************************************************)
(* The transport and time.                                                 *)
(***************************************************************************)

(* A staged upload receives its last bytes: Put links the blob, or finds it.
   The staged data stays until the session is cleaned up. *)
PutBlob(u, b) ==
  /\ b \in staging[u] /\ b \notin blobs
  /\ blobs' = blobs \union {b}
  /\ UNCHANGED <<upload, aged, staging, finalizeJob, uploader, keeper, faults>>

Ages(b) ==
  /\ b \in blobs \ aged
  /\ aged' = aged \union {b}
  /\ UNCHANGED <<upload, blobs, staging, finalizeJob, uploader, keeper, faults>>

Lapses(u) ==
  /\ Status(u) = "open" /\ ~upload[u].lapsed
  /\ upload' = [upload EXCEPT ![u].lapsed = TRUE]
  /\ UNCHANGED <<blobs, aged, staging, finalizeJob, uploader, keeper, faults>>

(* The process dies: the calls and the maintenance pass are gone, the lock of
   the database with them; jobs whose lease runs out are claimed again. *)
ProcessCrash ==
  /\ faults < MaxFaults /\ faults' = faults + 1
  /\ uploader' = [c \in Uploaders |-> IdleUploader]
  /\ keeper' = IdleKeeper
  /\ UNCHANGED <<upload, blobs, aged, staging, finalizeJob>>

(***************************************************************************)
(* The maintenance pass: expire, clean up, collect.                        *)
(***************************************************************************)

ExpireUploads ==
  /\ keeper.step = "idle"
  /\ upload' = Expired
  /\ keeper' = [keeper EXCEPT !.step = "cleanup",
       !.sessions = {u \in Uploads : upload'[u].status \in Finished /\ ~upload[u].cleaned}]
  /\ UNCHANGED <<blobs, aged, staging, finalizeJob, uploader, faults>>

(* One session of CleanupTerminalUploads; a failure leaves it for a later pass. *)
CleanupTerminalUpload ==
  /\ keeper.step = "cleanup"
  /\ \E u \in keeper.sessions :
       \/ /\ staging' = [staging EXCEPT ![u] = {}]
          /\ keeper' = [keeper EXCEPT !.step = "acknowledge", !.cleaning = u, !.sessions = @ \ {u}]
          /\ UNCHANGED faults
       \/ /\ faults < MaxFaults /\ faults' = faults + 1
          /\ keeper' = [keeper EXCEPT !.sessions = @ \ {u}]
          /\ UNCHANGED staging
  /\ UNCHANGED <<upload, blobs, aged, finalizeJob, uploader>>

AcknowledgeTerminalUpload ==
  /\ keeper.step = "acknowledge"
  /\ upload' = Acknowledged(keeper.cleaning)
  /\ keeper' = [keeper EXCEPT !.step = "cleanup", !.cleaning = "none"]
  /\ UNCHANGED <<blobs, aged, staging, finalizeJob, uploader, faults>>

(* BlobCollector.Run: the first snapshot, *)
ReachabilitySnapshot ==
  /\ keeper.step = "cleanup" /\ keeper.sessions = {}
  /\ keeper' = [keeper EXCEPT !.step = "walk", !.generation = Reachability,
                              !.candidates = Blobs \ ReachableBlobs]
  /\ UNCHANGED <<upload, blobs, aged, staging, finalizeJob, uploader, faults>>

(* the walk over the inventory, which keeps what is old enough, *)
WalkBlobs ==
  /\ keeper.step = "walk"
  /\ keeper' = IF keeper.candidates \intersect aged = {} THEN IdleKeeper
               ELSE [keeper EXCEPT !.step = "lock", !.candidates = @ \intersect aged]
  /\ UNCHANGED <<upload, blobs, aged, staging, finalizeJob, uploader, faults>>

(* The comparison of the two generations. *)
Stable == keeper.generation = Reachability

(* WithStableSnapshot, which defers the collection when anything changed, *)
WithStableSnapshot ==
  /\ keeper.step = "lock"
  /\ keeper' = IF Stable THEN [keeper EXCEPT !.step = "delete", !.generation = {}] ELSE IdleKeeper
  /\ UNCHANGED <<upload, blobs, aged, staging, finalizeJob, uploader, faults>>

(* and DeleteBlobs, one blob at a time; an error ends the pass half way. *)
DeleteBlob ==
  /\ keeper.step = "delete"
  /\ \/ \E b \in keeper.candidates :
          /\ blobs' = blobs \ {b} /\ aged' = aged \ {b}
          /\ keeper' = [keeper EXCEPT !.candidates = @ \ {b}]
          /\ UNCHANGED faults
     \/ /\ keeper.candidates = {}
        /\ keeper' = IdleKeeper
        /\ UNCHANGED <<blobs, aged, faults>>
     \/ /\ keeper.candidates # {} /\ faults < MaxFaults /\ faults' = faults + 1
        /\ keeper' = IdleKeeper
        /\ UNCHANGED <<blobs, aged>>
  /\ UNCHANGED <<upload, staging, finalizeJob, uploader>>

(***************************************************************************)
(* The specification.                                                      *)
(***************************************************************************)

UploaderStep(c) ==
  \/ AbortSession(c) \/ ExpireSession(c) \/ StatBlob(c) \/ Inspected(c) \/ StatFails(c)
  \/ BeginUploadFinalization(c) \/ CompleteUpload(c) \/ FailFinalizeUpload(c)
  \/ CleanupTransport(c) \/ AcknowledgeCleanup(c)

KeeperStep ==
  \/ CleanupTerminalUpload \/ AcknowledgeTerminalUpload
  \/ ReachabilitySnapshot \/ WalkBlobs \/ WithStableSnapshot \/ DeleteBlob

(* A request or a worker turns to session u. *)
CallBegins(c, u) ==
  \/ BeginUpload(c, u) \/ RecoverUpload(c, u) \/ BeginFinalizeUpload(c, u)
  \/ CompleteFinalizeUpload(c, u) \/ AbortUpload(c, u)

(* The client's transfers, and the lifetime of its session. *)
TransferStep(u) == Lapses(u) \/ \E b \in Blobs : PutBlob(u, b)

(* What is not about one session. *)
StoreStep ==
  \/ \E b \in Blobs : Ages(b)
  \/ ProcessCrash
  \/ ExpireUploads \/ KeeperStep

DataNext ==
  \/ \E c \in Uploaders : UploaderStep(c) \/ \E u \in Uploads : CallBegins(c, u)
  \/ \E u \in Uploads : TransferStep(u)
  \/ StoreStep

(* Calls and passes go on, queued jobs are claimed and the maintenance worker
   ticks; clients, time and the transport promise nothing. *)
DataFairness ==
  /\ \A c \in Uploaders : WF_dataVars(UploaderStep(c))
  /\ \A u \in Uploads : SF_dataVars(\E c \in Uploaders : CompleteFinalizeUpload(c, u))
  /\ WF_dataVars(ExpireUploads) /\ WF_dataVars(KeeperStep)

DataSpec == DataInit /\ [][DataNext]_dataVars /\ DataFairness

(***************************************************************************)
(* Properties.                                                             *)
(***************************************************************************)

(* Whatever the collector, expiry, aborts, failed deletions and crashes do
   meanwhile, every blob of a ready revision, and of a session that is being
   finalized, is in the store: deduplicated blobs left over from old sessions
   are protected from the moment a new session names them. *)
PublishedBlobsExist ==
  \A u \in Uploads : Status(u) \in {"committing", "complete"} => ManifestOf[u] \subseteq blobs

(* The blobs a call found present while its session protects them are still
   there when the call acts on what it found. *)
FoundBlobsExist ==
  \A c \in Uploaders :
    LET u == uploader[c].upload IN
    uploader[c].step \in {"stat", "commit", "publish"} =>
      \/ Status(u) \notin {"open", "committing", "complete"}
      \/ (IF CallAt(c, "stat") THEN uploader[c].found ELSE ManifestOf[u]) \subseteq blobs

(* A call in progress is about a session that has a row; it queues a session
   only once that session commits. *)
CallsFollowRows ==
  \A c \in Uploaders :
    LET u == uploader[c].upload IN
    ~CallAt(c, "idle") =>
      /\ u \in Uploads /\ Status(u) # "absent"
      /\ CallAt(c, "queue") => Status(u) # "open"
      /\ CallAt(c, "stat") => uploader[c].todo \union uploader[c].found \subseteq ManifestOf[u]

(* What the collector may yet delete is named by no row of the snapshot it took,
   and, once it deletes, by no row at all. *)
CollectorSpares ==
  /\ keeper.step = "acknowledge" => keeper.cleaning \in Uploads
  /\ keeper.step \in {"walk", "lock"} =>
       \A r \in keeper.generation : keeper.candidates \intersect ManifestOf[r[1]] = {}
  /\ keeper.step = "delete" => keeper.candidates \intersect ReachableBlobs = {}

(* The types, that what calls have found is still there, and what the calls and
   the collector rely on between their steps. *)
DataConsistent == DataTypeOK /\ FoundBlobsExist /\ CallsFollowRows /\ CollectorSpares

(* A session has one outcome: no call, however late, turns an aborted, expired
   or failed upload into a revision, or takes a revision back. *)
OneOutcome ==
  [][\A u \in Uploads : Status(u) \in Finished => upload'[u].status = Status(u)]_dataVars

(* Sessions come to their end although workers die and the store fails now and
   then: a finalization that was accepted is completed or failed by its job,
   unless another session of the collection has made the revision of its
   manifest; and the staging of a session that ended is acknowledged as
   cleaned. *)
SessionsEnd ==
  \A u \in Uploads :
    /\ Status(u) = "committing" ~> Status(u) \in {"complete", "failed"} \/ RevisionTaken(u)
    /\ Status(u) \in Finished ~> upload[u].cleaned
=============================================================================
