------------------------- MODULE SnapshotRetention -------------------------
(***************************************************************************)
(* Retention passes against the life of a snapshot: a refresh commits it   *)
(* to the catalog, records it, opens a runtime on it, leases it and        *)
(* publishes its state; the replaced runtime drains and gives its lease    *)
(* back; a pass reads what is protected, lists the catalog and expires the *)
(* rest.                                                                   *)
(*                                                                         *)
(* Snapshots are numbered in commit order.  The process starts with the    *)
(* state of snapshot 1 active: a first pass, then the same steps that open *)
(* a refreshed runtime.  Refreshes are admitted one at a time (class       *)
(* refresh), passes run beside them (class maintenance, or a refresh's own *)
(* last step).                                                             *)
(* States of other environments are left out: they only add to what is     *)
(* protected.                                                              *)
(***************************************************************************)
EXTENDS Integers, FiniteSets

CONSTANTS
  MaxSnapshots,   \* bound on commits
  Passes,         \* retention passes that may run at once
  MaxPasses,      \* bound on passes
  MaxLapses       \* bound on leases whose heartbeat misses the TTL

ASSUME RetentionAssumption ==
  MaxSnapshots \in Nat \ {0} /\ MaxPasses \in Nat /\ MaxLapses \in Nat

VARIABLES
  catalog,     \* snapshots in the DuckLake catalog
  state,       \* state[s]: status of the serving state that records s
  lease,       \* lease[s]: the lease row of the runtime opened on s
  runtime,     \* runtime[s]: the runtime opened on s
  refresher,   \* the refresh in progress: where it is and its snapshot
  pass,        \* pass[p]: a retention pass
  known,       \* known[p]: snapshots protected when p began (history)
  begun,       \* passes begun
  lapses       \* heartbeats missed

retentionVars == <<catalog, state, lease, runtime, refresher, pass, known,
                   begun, lapses>>

-----------------------------------------------------------------------------
SnapshotIds == 1..MaxSnapshots

NoPass == [at |-> "idle", protected |-> {}, doomed |-> {}]

Startup == [at |-> "recorded", on |-> 1]

InUse(s) == runtime[s] \in {"prepared", "current", "retired"}

ActiveSnapshots == {s \in SnapshotIds : state[s] = "active"}

(* A row that is neither released nor past its expiry.                     *)
LeasedRows == {s \in SnapshotIds : lease[s] \in {"live", "revived"}}

(* Registry.LeasedSnapshots: the runtimes in memory that hold a lease.     *)
LeasedInMemory ==
  {s \in SnapshotIds : runtime[s] \in {"current", "retired"}}

Latest == refresher.on

RetentionInit ==
  /\ catalog = {1}
  /\ state = [s \in SnapshotIds |-> IF s = 1 THEN "active" ELSE "none"]
  /\ lease = [s \in SnapshotIds |-> "none"]
  /\ runtime = [s \in SnapshotIds |-> "none"]
  /\ refresher = Startup
  /\ pass = [p \in Passes |-> NoPass]
  /\ known = [p \in Passes |-> {}]
  /\ begun = 0
  /\ lapses = 0

-----------------------------------------------------------------------------
(* CommitTransaction adds a snapshot under the catalog lock.               *)
Commit ==
  /\ refresher.at = "idle"
  /\ Latest < MaxSnapshots
  /\ refresher' = [at |-> "committed", on |-> Latest + 1]
  /\ catalog' = catalog \cup {Latest + 1}
  /\ UNCHANGED <<state, lease, runtime, pass, known, begun, lapses>>

(* RecordSnapshot: the validated candidate names the snapshot.             *)
Record ==
  /\ refresher.at = "committed"
  /\ refresher' = [refresher EXCEPT !.at = "recorded"]
  /\ state' = [state EXCEPT ![Latest] = "validated"]
  /\ UNCHANGED <<catalog, lease, runtime, pass, known, begun, lapses>>

(* The factory opens the runtime; a snapshot that is gone fails the run.   *)
(* At startup the first pass has ended by then.                            *)
Open ==
  /\ refresher.at = "recorded"
  /\ refresher = Startup => \A p \in Passes : pass[p].at = "idle"
  /\ IF Latest \in catalog
     THEN /\ refresher' = [refresher EXCEPT !.at = "opened"]
          /\ runtime' = [runtime EXCEPT ![Latest] = "prepared"]
          /\ UNCHANGED state
     ELSE /\ refresher' = [refresher EXCEPT !.at = "idle"]
          /\ state' = [state EXCEPT ![Latest] = "failed"]
          /\ UNCHANGED runtime
  /\ UNCHANGED <<catalog, lease, pass, known, begun, lapses>>

(* createPersistentLease, after the runtime is open.                       *)
Lease ==
  /\ refresher.at = "opened"
  /\ refresher' = [refresher EXCEPT !.at = "leased"]
  /\ lease' = [lease EXCEPT ![Latest] = "live"]
  /\ UNCHANGED <<catalog, state, runtime, pass, known, begun, lapses>>

(* ActivatePrepared: the publication, then the swap in memory.             *)
Serve ==
  /\ refresher.at = "leased"
  /\ refresher' = [refresher EXCEPT !.at = "idle"]
  /\ state' = [s \in SnapshotIds |->
       IF s = Latest THEN "active"
       ELSE IF state[s] = "active" THEN "draining" ELSE state[s]]
  /\ runtime' = [s \in SnapshotIds |->
       IF s = Latest THEN "current"
       ELSE IF runtime[s] = "current" THEN "retired" ELSE runtime[s]]
  /\ UNCHANGED <<catalog, lease, pass, known, begun, lapses>>

(* The last reader of a retired runtime leaves and it is closed ...        *)
Drain(s) ==
  /\ runtime[s] = "retired"
  /\ runtime' = [runtime EXCEPT ![s] = "closed"]
  /\ UNCHANGED <<catalog, state, lease, refresher, pass, known, begun, lapses>>

(* ... its lease release is queued and written later.                      *)
ReleaseLease(s) ==
  /\ runtime[s] = "closed"
  /\ lease[s] # "released"
  /\ lease' = [lease EXCEPT ![s] = "released"]
  /\ UNCHANGED <<catalog, state, runtime, refresher, pass, known, begun,
                 lapses>>

(* The heartbeat misses the TTL; a renewal that comes after revives the    *)
(* row unless a pass has released it.                                      *)
Lapse(s) ==
  /\ lease[s] \in {"live", "revived"}
  /\ lapses < MaxLapses
  /\ lapses' = lapses + 1
  /\ lease' = [lease EXCEPT ![s] = "lapsed"]
  /\ UNCHANGED <<catalog, state, runtime, refresher, pass, known, begun>>

Revive(s) ==
  /\ lease[s] = "lapsed"
  /\ runtime[s] # "closed"
  /\ lease' = [lease EXCEPT ![s] = "revived"]
  /\ UNCHANGED <<catalog, state, runtime, refresher, pass, known, begun,
                 lapses>>

-----------------------------------------------------------------------------
Reaches(p, at) == pass' = [pass EXCEPT ![p].at = at]

(* A pass begins after a refresh, a drain or at startup: lapsed leases are *)
(* released, draining states deleted.  A pass a drain starts is also given *)
(* the snapshots leased in memory.                                         *)
BeginPass(p) ==
  /\ pass[p].at = "idle"
  /\ begun < MaxPasses
  /\ begun' = begun + 1
  /\ lease' = [s \in SnapshotIds |->
       IF lease[s] = "lapsed" THEN "released" ELSE lease[s]]
  /\ state' = [s \in SnapshotIds |->
       IF state[s] = "draining" THEN "deleted" ELSE state[s]]
  /\ known' = [known EXCEPT ![p] = ActiveSnapshots \cup LeasedRows]
  /\ \E additional \in {{}, LeasedInMemory} :
       pass' = [pass EXCEPT ![p] =
         [at |-> "active", protected |-> additional, doomed |-> {}]]
  /\ UNCHANGED <<catalog, runtime, refresher, lapses>>

(* protectedSnapshots: the active states first ...                         *)
ReadActive(p) ==
  /\ pass[p].at = "active"
  /\ pass' = [pass EXCEPT ![p].at = "leased",
                          ![p].protected = @ \cup ActiveSnapshots]
  /\ UNCHANGED <<catalog, state, lease, runtime, refresher, known, begun,
                 lapses>>

(* Defective: a lease is taken to belong to an active state.               *)
ReadNoLeases(p) ==
  /\ pass[p].at = "leased"
  /\ Reaches(p, "list")
  /\ UNCHANGED <<catalog, state, lease, runtime, refresher, known, begun,
                 lapses>>

(* ... then the leases.                                                    *)
ReadLeased(p) ==
  /\ pass[p].at = "leased"
  /\ pass' = [pass EXCEPT ![p].at = "list", ![p].protected = @ \cup LeasedRows]
  /\ UNCHANGED <<catalog, state, lease, runtime, refresher, known, begun,
                 lapses>>

(* A protected snapshot missing from the catalog ends the pass.            *)
ListCatalog(p) ==
  /\ pass[p].at = "list"
  /\ IF pass[p].protected \subseteq catalog
     THEN Reaches(p, "choose")
     ELSE pass' = [pass EXCEPT ![p] = NoPass]
  /\ UNCHANGED <<catalog, state, lease, runtime, refresher, known, begun,
                 lapses>>

(* RetentionCandidates lists the catalog again.                            *)
Choose(p) ==
  /\ pass[p].at = "choose"
  /\ pass' = [pass EXCEPT ![p].at = "expire",
                          ![p].doomed = catalog \ pass[p].protected]
  /\ UNCHANGED <<catalog, state, lease, runtime, refresher, known, begun,
                 lapses>>

(* ExpireSnapshots under the catalog lock, then the physical cleanup.      *)
Expire(p) ==
  /\ pass[p].at = "expire"
  /\ catalog' = catalog \ pass[p].doomed
  /\ pass' = [pass EXCEPT ![p] = NoPass]
  /\ UNCHANGED <<state, lease, runtime, refresher, known, begun, lapses>>

RetentionNext ==
  \/ Commit \/ Record \/ Open \/ Lease \/ Serve
  \/ \E s \in SnapshotIds :
       Drain(s) \/ ReleaseLease(s) \/ Lapse(s) \/ Revive(s)
  \/ \E p \in Passes :
       \/ BeginPass(p) \/ ReadActive(p) \/ ReadLeased(p)
       \/ ListCatalog(p) \/ Choose(p) \/ Expire(p)

RetentionSpec == RetentionInit /\ [][RetentionNext]_retentionVars

-----------------------------------------------------------------------------
PassRows == [at : {"idle", "active", "leased", "list", "choose", "expire"},
             protected : SUBSET SnapshotIds, doomed : SUBSET SnapshotIds]

(* Types.                                                                  *)
RetentionTypeOK ==
  /\ catalog \subseteq SnapshotIds
  /\ state \in [SnapshotIds ->
       {"none", "validated", "active", "draining", "deleted", "failed"}]
  /\ lease \in [SnapshotIds -> {"none", "live", "lapsed", "revived", "released"}]
  /\ runtime \in [SnapshotIds -> {"none", "prepared", "current", "retired", "closed"}]
  /\ refresher \in [at : {"idle", "committed", "recorded", "opened", "leased"},
                    on : SnapshotIds]
  /\ pass \in [Passes -> PassRows]
  /\ known \in [Passes -> SUBSET SnapshotIds]
  /\ begun \in 0..MaxPasses
  /\ lapses \in 0..MaxLapses

(* The snapshots a refresh has leased, and the one of the startup.         *)
Leasable(s) ==
  s < Latest \/ s = 1 \/ (s = Latest /\ refresher.at \in {"leased", "idle"})

(* Rows and runtimes are those of snapshots a refresh has come to, and the *)
(* state the process starts with stays active until a refresh follows it.  *)
FollowRefreshes ==
  /\ refresher.at = "committed" => Latest > 1
  /\ \A s \in SnapshotIds :
       /\ state[s] = "active" \/ lease[s] # "none" => Leasable(s)
       /\ runtime[s] \in {"current", "retired", "closed"} => Leasable(s)
       /\ runtime[s] = "prepared" <=> s = Latest /\ refresher.at \in {"opened", "leased"}
  /\ Latest = 1 => /\ state[1] = "active" /\ 1 \in catalog
                   /\ lease[1] # "none" => refresher.at \in {"leased", "idle"}
                   /\ runtime[1] # "none" => refresher.at \in {"opened", "leased", "idle"}

(* As long as no heartbeat misses its TTL, the runtime of an active state  *)
(* is current and every runtime that serves holds a live lease.            *)
HealthyLeases ==
  lapses = 0 =>
    /\ refresher.at = "leased" => lease[Latest] = "live"
    /\ \A s \in SnapshotIds :
         /\ lease[s] \in {"none", "live", "released"}
         /\ runtime[s] \in {"current", "retired"} => lease[s] = "live"
         /\ state[s] = "active" =>
              runtime[s] = "current" \/ (s = 1 /\ Latest = 1 /\ refresher.at # "idle")

(* What was protected when a pass began and is not protected once it has   *)
(* read the leases has no live lease, and will not get one.                *)
PassesProtect ==
  \A p \in Passes :
    /\ pass[p].at # "idle" => \A s \in known[p] : Leasable(s)
    /\ pass[p].at \in {"leased", "list", "choose", "expire"} /\ Latest = 1 =>
         1 \in pass[p].protected
    /\ pass[p].at \in {"list", "choose", "expire"} =>
         \A s \in known[p] \ pass[p].protected : lease[s] # "live"
    /\ pass[p].at = "expire" => pass[p].doomed \cap pass[p].protected = {}

(* The types, and what the rows, the runtimes and the passes rely on.      *)
RetentionConsistent ==
  RetentionTypeOK /\ FollowRefreshes /\ HealthyLeases /\ PassesProtect

(* A snapshot protected when a pass began is not expired by that pass      *)
(* while its lease is live; and as long as no heartbeat missed its TTL, it *)
(* is not expired while a runtime uses it or its state is active, however  *)
(* publication and drain move it between the two during the pass's reads.  *)
EstablishedSnapshotsKept ==
  [][\A p \in Passes : pass[p].at = "expire" /\ pass'[p].at # "expire" =>
       \A s \in known[p] \cap pass[p].doomed :
         /\ lease[s] # "live"
         /\ lapses = 0 => ~InUse(s) /\ state[s] # "active"]_retentionVars

(* What the storage specification says: retention never deletes a snapshot *)
(* protected by an active runtime lease.                                   *)
LeasedSnapshotsExist ==
  \A s \in SnapshotIds : lease[s] = "live" => s \in catalog

=============================================================================
