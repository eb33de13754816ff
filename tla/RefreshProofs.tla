---------------------------- MODULE RefreshProofs ----------------------------
(***************************************************************************)
(* Machine-checked facts about refresh runs and about the retention of the *)
(* snapshots they publish, for any number of runs, workers, snapshots and  *)
(* passes.  The two share no variable.                                     *)
(***************************************************************************)
EXTENDS RefreshRun, SnapshotRetention, FiniteSetTheorems, TLAPS

-----------------------------------------------------------------------------
(* Snapshot retention                                                      *)

(* At startup nothing is leased, and the active state is the first.        *)
LEMMA InitRetention == RetentionInit => RetentionConsistent
<1> SUFFICES ASSUME RetentionInit PROVE RetentionConsistent
  OBVIOUS
<1>1. 1 \in SnapshotIds /\ refresher = [at |-> "recorded", on |-> 1]
  BY RetentionAssumption DEF RetentionInit, Startup, SnapshotIds
<1>2. RetentionTypeOK
  <2>1. NoPass \in PassRows
    BY DEF NoPass, PassRows
  <2> QED
    BY <1>1, <2>1, RetentionAssumption DEF RetentionInit, RetentionTypeOK
<1>3. FollowRefreshes
  BY <1>1 DEF RetentionInit, FollowRefreshes, Leasable, Latest, SnapshotIds
<1>4. HealthyLeases
  BY <1>1 DEF RetentionInit, HealthyLeases, Latest
<1>5. PassesProtect
  BY <1>1 DEF RetentionInit, PassesProtect, NoPass
<1> QED
  BY <1>2, <1>3, <1>4, <1>5 DEF RetentionConsistent

(* Every step keeps the types. *)
LEMMA RetentionTypesKept ==
  ASSUME RetentionTypeOK, [RetentionNext]_retentionVars PROVE RetentionTypeOK'
<1> USE RetentionAssumption DEF RetentionTypeOK, SnapshotIds, Latest
<1>1. CASE Commit
  <2>1. refresher.on + 1 \in 1..MaxSnapshots
    BY <1>1 DEF Commit
  <2> QED
    BY <1>1, <2>1 DEF Commit
<1>2. CASE Record
  BY <1>2 DEF Record
<1>3. CASE Open
  BY <1>3 DEF Open
<1>4. CASE Lease
  BY <1>4 DEF Lease
<1>5. CASE Serve
  BY <1>5 DEF Serve
<1>6. ASSUME NEW s \in SnapshotIds, Drain(s) \/ ReleaseLease(s) \/ Revive(s)
      PROVE  RetentionTypeOK'
  BY <1>6 DEF Drain, ReleaseLease, Revive
<1>7. ASSUME NEW s \in SnapshotIds, Lapse(s) PROVE RetentionTypeOK'
  <2>1. lapses + 1 \in 0..MaxLapses
    BY <1>7 DEF Lapse
  <2> QED
    BY <1>7, <2>1 DEF Lapse
<1>8. ASSUME NEW p \in Passes, BeginPass(p) PROVE RetentionTypeOK'
  BY <1>8 DEF BeginPass, PassRows, ActiveSnapshots, LeasedRows, LeasedInMemory
<1>9. ASSUME NEW p \in Passes, NEW row \in PassRows, pass' = [pass EXCEPT ![p] = row],
             catalog' \subseteq catalog,
             UNCHANGED <<state, lease, runtime, refresher, known, begun, lapses>>
      PROVE  RetentionTypeOK'
  BY <1>9
<1>10. ASSUME NEW p \in Passes,
              ReadActive(p) \/ ReadLeased(p) \/ ListCatalog(p) \/ Choose(p) \/ Expire(p)
       PROVE  \E row \in PassRows : pass' = [pass EXCEPT ![p] = row]
  <2>0. pass[p] \in PassRows /\ NoPass \in PassRows
    BY DEF NoPass, PassRows
  <2>1. /\ [pass[p] EXCEPT !.at = "leased", !.protected = @ \cup ActiveSnapshots] \in PassRows
        /\ [pass[p] EXCEPT !.at = "list", !.protected = @ \cup LeasedRows] \in PassRows
        /\ [pass[p] EXCEPT !.at = "choose"] \in PassRows
        /\ [pass[p] EXCEPT !.at = "expire", !.doomed = catalog \ pass[p].protected] \in PassRows
    BY <2>0 DEF PassRows, ActiveSnapshots, LeasedRows
  <2> QED
    BY <1>10, <2>0, <2>1 DEF ReadActive, ReadLeased, ListCatalog, Choose, Expire, Reaches
<1>11. ASSUME NEW p \in Passes,
              ReadActive(p) \/ ReadLeased(p) \/ ListCatalog(p) \/ Choose(p) \/ Expire(p)
       PROVE  RetentionTypeOK'
  <2>1. PICK row \in PassRows : pass' = [pass EXCEPT ![p] = row]
    BY <1>10, <1>11
  <2>2. /\ catalog' \subseteq catalog
        /\ UNCHANGED <<state, lease, runtime, refresher, known, begun, lapses>>
    BY <1>11 DEF ReadActive, ReadLeased, ListCatalog, Choose, Expire
  <2> QED
    BY <1>9, <2>1, <2>2
<1>12. CASE UNCHANGED retentionVars
  BY <1>12 DEF retentionVars
<1> QED
  BY <1>1, <1>2, <1>3, <1>4, <1>5, <1>6, <1>7, <1>8, <1>11, <1>12 DEF RetentionNext

(* What was leasable stays so: refreshes only go on. *)
LEMMA LeasableStays ==
  ASSUME RetentionConsistent, [RetentionNext]_retentionVars, NEW s \in SnapshotIds, Leasable(s)
  PROVE  Leasable(s)' /\ Latest <= Latest'
<1> USE RetentionAssumption
    DEF RetentionConsistent, RetentionTypeOK, SnapshotIds, Latest, Leasable
<1>1. CASE Commit \/ Record \/ Open \/ Lease \/ Serve
  BY <1>1 DEF Commit, Record, Open, Lease, Serve
<1>2. UNCHANGED refresher \/ Commit \/ Record \/ Open \/ Lease \/ Serve
  BY DEF RetentionNext, retentionVars, Drain, ReleaseLease, Lapse, Revive, BeginPass, ReadActive,
     ReadLeased, ListCatalog, Choose, Expire
<1> QED
  BY <1>1, <1>2

(* Rows and runtimes stay those of the snapshots refreshes have come to. *)
LEMMA FollowKept ==
  ASSUME RetentionConsistent, [RetentionNext]_retentionVars PROVE FollowRefreshes'
<1>0. RetentionTypeOK /\ FollowRefreshes /\ PassesProtect
  BY DEF RetentionConsistent
<1> USE RetentionAssumption, <1>0 DEF RetentionTypeOK, FollowRefreshes, SnapshotIds, Latest, Leasable
<1>1. CASE Commit
  <2>1. /\ refresher.at = "idle" /\ refresher'.at = "committed"
        /\ refresher.on \in 1..MaxSnapshots /\ refresher'.on = refresher.on + 1
        /\ catalog \subseteq catalog' /\ UNCHANGED <<state, lease, runtime>>
    BY <1>1 DEF Commit
  <2>2. \A s \in SnapshotIds : Leasable(s) => Leasable(s)'
    BY <2>1
  <2>3. \A s \in SnapshotIds : runtime[s] # "prepared"
    BY <2>1
  <2>4. refresher'.on > 1
    BY <2>1
  <2> QED
    BY <2>1, <2>2, <2>3, <2>4
<1>2. CASE Record
  BY <1>2 DEF Record
<1>3. CASE Open
  BY <1>3 DEF Open
<1>4. CASE Lease
  BY <1>4 DEF Lease
<1>5. CASE Serve
  BY <1>5 DEF Serve
<1>6. ASSUME NEW s \in SnapshotIds, Drain(s) \/ ReleaseLease(s) \/ Lapse(s) \/ Revive(s)
      PROVE  FollowRefreshes'
  <2>1. CASE Drain(s)
    BY <2>1 DEF Drain
  <2>2. CASE ReleaseLease(s)
    BY <2>2 DEF ReleaseLease
  <2>3. CASE Lapse(s)
    BY <2>3 DEF Lapse
  <2>4. CASE Revive(s)
    BY <2>4 DEF Revive
  <2> QED
    BY <1>6, <2>1, <2>2, <2>3, <2>4
<1>7. ASSUME NEW p \in Passes, BeginPass(p) PROVE FollowRefreshes'
  BY <1>7 DEF BeginPass
<1>8. ASSUME NEW p \in Passes, Expire(p) PROVE FollowRefreshes'
  BY <1>8 DEF Expire, PassesProtect
<1>9. ASSUME NEW p \in Passes, ReadActive(p) \/ ReadLeased(p) \/ ListCatalog(p) \/ Choose(p)
      PROVE  FollowRefreshes'
  BY <1>9 DEF ReadActive, ReadLeased, ListCatalog, Choose
<1>10. CASE UNCHANGED retentionVars
  BY <1>10 DEF retentionVars
<1> QED
  BY <1>1, <1>2, <1>3, <1>4, <1>5, <1>6, <1>7, <1>8, <1>9, <1>10 DEF RetentionNext

(* Without a missed heartbeat, what serves keeps its live lease. *)
LEMMA HealthyKept ==
  ASSUME RetentionConsistent, [RetentionNext]_retentionVars PROVE HealthyLeases'
<1>0. RetentionTypeOK /\ FollowRefreshes /\ HealthyLeases
  BY DEF RetentionConsistent
<1> SUFFICES ASSUME lapses' = 0 PROVE HealthyLeases'
  BY DEF HealthyLeases
<1>00. lapses \in Nat /\ ~\E s \in SnapshotIds : Lapse(s)
  BY <1>0 DEF RetentionTypeOK, Lapse
<1>000. lapses = 0
  BY <1>00 DEF RetentionNext, retentionVars, Commit, Record, Open, Lease, Serve, Drain,
     ReleaseLease, Revive, BeginPass, ReadActive, ReadLeased, ListCatalog, Choose, Expire
<1> USE RetentionAssumption, <1>0, <1>000
    DEF RetentionTypeOK, FollowRefreshes, HealthyLeases, SnapshotIds, Latest, Leasable
<1>1. CASE Commit
  BY <1>1 DEF Commit
<1>2. CASE Record
  BY <1>2 DEF Record
<1>3. CASE Open
  BY <1>3 DEF Open
<1>4. CASE Lease
  BY <1>4 DEF Lease
<1>5. CASE Serve
  BY <1>5 DEF Serve
<1>6. ASSUME NEW s \in SnapshotIds, Drain(s) PROVE HealthyLeases'
  BY <1>6 DEF Drain
<1>7. ASSUME NEW s \in SnapshotIds, ReleaseLease(s) PROVE HealthyLeases'
  BY <1>7 DEF ReleaseLease
<1>8. ASSUME NEW s \in SnapshotIds PROVE ~Revive(s)
  BY DEF Revive
<1>9. ASSUME NEW p \in Passes, BeginPass(p) PROVE HealthyLeases'
  BY <1>9 DEF BeginPass
<1>10. ASSUME NEW p \in Passes,
              ReadActive(p) \/ ReadLeased(p) \/ ListCatalog(p) \/ Choose(p) \/ Expire(p)
       PROVE  HealthyLeases'
  BY <1>10 DEF ReadActive, ReadLeased, ListCatalog, Choose, Expire
<1>11. CASE UNCHANGED retentionVars
  BY <1>11 DEF retentionVars
<1> QED
  BY <1>00, <1>1, <1>2, <1>3, <1>4, <1>5, <1>6, <1>7, <1>8, <1>9, <1>10, <1>11 DEF RetentionNext

(* A live lease is new only for the snapshot of the refresh under way. *)
LEMMA LiveLeasesAreNew ==
  ASSUME RetentionConsistent, [RetentionNext]_retentionVars, NEW s \in SnapshotIds,
         lease[s] # "live", lease'[s] = "live"
  PROVE  s = Latest /\ (Leasable(s) => Latest = 1)
<1> USE DEF RetentionConsistent, RetentionTypeOK, SnapshotIds
<1>1. Lease
  <2>1. UNCHANGED lease \/ Lease \/ (\E p \in Passes : BeginPass(p))
          \/ \E r \in SnapshotIds : ReleaseLease(r) \/ Lapse(r) \/ Revive(r)
    BY DEF RetentionNext, retentionVars, Commit, Record, Open, Serve, Drain, ReadActive,
       ReadLeased, ListCatalog, Choose, Expire
  <2> QED
    BY <2>1, ZenonT(60) DEF ReleaseLease, Lapse, Revive, BeginPass
<1>2. s = Latest /\ refresher.at = "opened"
  BY <1>1 DEF Lease, Latest
<1> QED
  BY <1>2 DEF Leasable, Latest

(* What one pass relies on. *)
PassProtects(p) ==
  /\ pass[p].at # "idle" => \A s \in known[p] : Leasable(s)
  /\ pass[p].at \in {"leased", "list", "choose", "expire"} /\ Latest = 1 =>
       1 \in pass[p].protected
  /\ pass[p].at \in {"list", "choose", "expire"} =>
       \A s \in known[p] \ pass[p].protected : lease[s] # "live"
  /\ pass[p].at = "expire" => pass[p].doomed \cap pass[p].protected = {}

(* A pass that does not move keeps what it relies on. *)
LEMMA OtherPassesKept ==
  ASSUME RetentionConsistent, [RetentionNext]_retentionVars, NEW p \in Passes, PassProtects(p),
         pass'[p] = pass[p], known'[p] = known[p]
  PROVE  PassProtects(p)'
<1>0. known[p] \subseteq SnapshotIds /\ Latest \in SnapshotIds /\ 1 \in SnapshotIds
  BY RetentionAssumption DEF RetentionConsistent, RetentionTypeOK, SnapshotIds, Latest
<1>1. pass[p].at # "idle" => \A s \in known[p] : Leasable(s)'
  BY <1>0, LeasableStays DEF PassProtects
<1>2. Latest' = 1 => Latest = 1
  <2>1. Leasable(1) /\ Latest \in Nat \ {0}
    BY <1>0 DEF Leasable, SnapshotIds
  <2>2. Latest <= Latest'
    BY <1>0, <2>1, LeasableStays
  <2> QED
    BY <2>1, <2>2
<1>3. ASSUME pass[p].at \in {"list", "choose", "expire"}, NEW s \in known[p] \ pass[p].protected
      PROVE  lease'[s] # "live"
  <2>1. lease[s] # "live" /\ Leasable(s) /\ s \in SnapshotIds
    BY <1>0, <1>3 DEF PassProtects
  <2>2. CASE lease'[s] = "live"
    BY <1>3, <2>1, <2>2, LiveLeasesAreNew DEF PassProtects
  <2> QED
    BY <2>2
<1> QED
  BY <1>1, <1>2, <1>3 DEF PassProtects

(* The passes keep what they rely on, reading by reading. *)
LEMMA PassesKept ==
  ASSUME RetentionConsistent, [RetentionNext]_retentionVars PROVE PassesProtect'
<1>0. /\ RetentionTypeOK /\ FollowRefreshes /\ \A p \in Passes : PassProtects(p)
      /\ 1 \in SnapshotIds
  BY RetentionAssumption DEF RetentionConsistent, PassesProtect, PassProtects, SnapshotIds
<1> SUFFICES ASSUME NEW p \in Passes PROVE PassProtects(p)'
  BY DEF PassesProtect, PassProtects
<1>1. CASE pass'[p] = pass[p] /\ known'[p] = known[p]
  BY <1>0, <1>1, OtherPassesKept
<1>2. ASSUME NEW q \in Passes,
             \/ BeginPass(q) \/ ReadActive(q) \/ ReadLeased(q)
             \/ ListCatalog(q) \/ Choose(q) \/ Expire(q)
      PROVE  q = p \/ (pass'[p] = pass[p] /\ known'[p] = known[p])
  BY <1>0, <1>2 DEF RetentionTypeOK, BeginPass, ReadActive, ReadLeased, ListCatalog, Choose,
     Expire, Reaches
<1> USE <1>0 DEF RetentionTypeOK, PassRows
<1>3. CASE BeginPass(p)
  <2>1. \A s \in ActiveSnapshots \cup LeasedRows : Leasable(s)
    BY DEF ActiveSnapshots, LeasedRows, FollowRefreshes
  <2>2. /\ pass'[p].at = "active" /\ known'[p] = ActiveSnapshots \cup LeasedRows
        /\ UNCHANGED refresher
    BY <1>3 DEF BeginPass
  <2> QED
    BY <2>1, <2>2 DEF PassProtects, Leasable, Latest
<1>4. CASE ReadActive(p)
  <2>1. /\ pass[p].at = "active" /\ pass'[p].at = "leased" /\ known'[p] = known[p]
        /\ pass'[p].protected = pass[p].protected \cup ActiveSnapshots
        /\ UNCHANGED <<refresher, lease>>
    BY <1>4 DEF ReadActive
  <2>2. Latest = 1 => 1 \in ActiveSnapshots
    BY DEF FollowRefreshes, ActiveSnapshots
  <2> QED
    BY <2>1, <2>2 DEF PassProtects, Leasable, Latest
<1>5. CASE ReadLeased(p)
  <2>1. /\ pass[p].at = "leased" /\ pass'[p].at = "list" /\ known'[p] = known[p]
        /\ pass'[p].protected = pass[p].protected \cup LeasedRows
        /\ UNCHANGED <<refresher, lease>> /\ known[p] \subseteq SnapshotIds
    BY <1>5 DEF ReadLeased
  <2>2. \A s \in SnapshotIds : lease[s] = "live" => s \in LeasedRows
    BY DEF LeasedRows
  <2> QED
    BY <2>1, <2>2 DEF PassProtects, Leasable, Latest
<1>6. CASE ListCatalog(p)
  <2>1. /\ pass[p].at = "list" /\ known'[p] = known[p] /\ UNCHANGED <<refresher, lease>>
        /\ \/ pass'[p].at = "choose" /\ pass'[p].protected = pass[p].protected
           \/ pass'[p].at = "idle"
    BY <1>6 DEF ListCatalog, Reaches, NoPass
  <2> QED
    BY <2>1 DEF PassProtects, Leasable, Latest
<1>7. CASE Choose(p)
  <2>1. /\ pass[p].at = "choose" /\ pass'[p].at = "expire" /\ known'[p] = known[p]
        /\ pass'[p].protected = pass[p].protected
        /\ pass'[p].doomed = catalog \ pass[p].protected
        /\ UNCHANGED <<refresher, lease>>
    BY <1>7 DEF Choose
  <2> QED
    BY <2>1 DEF PassProtects, Leasable, Latest
<1>8. CASE Expire(p)
  <2>1. pass'[p].at = "idle"
    BY <1>8 DEF Expire, NoPass
  <2> QED
    BY <2>1 DEF PassProtects
<1>9. \/ UNCHANGED <<pass, known>>
      \/ \E q \in Passes : \/ BeginPass(q) \/ ReadActive(q) \/ ReadLeased(q)
                          \/ ListCatalog(q) \/ Choose(q) \/ Expire(q)
  BY DEF RetentionNext, retentionVars, Commit, Record, Open, Lease, Serve, Drain, ReleaseLease,
     Lapse, Revive
<1> QED
  BY <1>1, <1>2, <1>3, <1>4, <1>5, <1>6, <1>7, <1>8, <1>9

LEMMA NextRetention ==
  RetentionConsistent /\ [RetentionNext]_retentionVars => RetentionConsistent'
BY RetentionTypesKept, FollowKept, HealthyKept, PassesKept DEF RetentionConsistent

(* The rows, runtimes and passes of retention stay of their types and      *)
(* consistent through every commit, publication, drain and pass.           *)
THEOREM RetentionStaysConsistent == RetentionSpec => []RetentionConsistent
BY InitRetention, NextRetention, PTL DEF RetentionSpec

(* Retention does not expire what was protected when its pass began and is *)
(* leased still; nor, unless a heartbeat missed its TTL, what is in use or *)
(* active, whichever way it moved between the two while the pass read.     *)
THEOREM EstablishedStay == RetentionSpec => EstablishedSnapshotsKept
<1> DEFINE Kept ==
      \A p \in Passes : pass[p].at = "expire" /\ pass'[p].at # "expire" =>
        \A s \in known[p] \cap pass[p].doomed :
          /\ lease[s] # "live"
          /\ lapses = 0 => ~InUse(s) /\ state[s] # "active"
<1>1. ASSUME RetentionConsistent PROVE Kept
  <2> SUFFICES ASSUME NEW p \in Passes, pass[p].at = "expire",
                      NEW s \in known[p] \cap pass[p].doomed
               PROVE  /\ lease[s] # "live"
                      /\ lapses = 0 => ~InUse(s) /\ state[s] # "active"
    OBVIOUS
  <2>1. /\ s \in SnapshotIds /\ s \notin pass[p].protected /\ Leasable(s)
        /\ lease[s] # "live" /\ (Latest = 1 => s # 1)
    BY <1>1 DEF RetentionConsistent, RetentionTypeOK, PassesProtect
  <2>2. CASE lapses = 0
    <3>1. runtime[s] \notin {"current", "retired"} /\ state[s] # "active"
      BY <1>1, <2>1, <2>2 DEF RetentionConsistent, HealthyLeases
    <3>2. runtime[s] # "prepared"
      BY <1>1, <2>1, <2>2
         DEF RetentionConsistent, HealthyLeases, FollowRefreshes, Leasable, RetentionTypeOK,
             SnapshotIds, Latest
    <3> QED
      BY <2>1, <3>1, <3>2 DEF InUse
  <2> QED
    BY <2>1, <2>2
<1>2. RetentionConsistent => [Kept]_retentionVars
  BY <1>1
<1> QED
  BY <1>2, RetentionStaysConsistent, PTL DEF RetentionSpec, EstablishedSnapshotsKept

-----------------------------------------------------------------------------
(* Refresh runs                                                            *)

Succeeded == {g \in RunGenerations : root[g].run = "succeeded"}

(* The inductive invariant: RefreshConsistent, with what it says of the    *)
(* pointer stated without a maximum.                                       *)
RefreshInv ==
  /\ RefreshTypeOK /\ RunAndJobAgree /\ UnsettledTreesWhole
  /\ OnlyNewestOpen /\ DeadCandidatesSettled /\ PointerNamesLiveState
  /\ pointer \in {0} \cup Succeeded
  /\ \A g \in Succeeded : g <= pointer

(* A number of the set that none exceeds is its maximum. *)
LEMMA MaxIs ==
  ASSUME NEW S \in SUBSET Int, NEW m \in S, \A x \in S : x <= m PROVE m = Max(S)
<1>1. \A x \in S : m >= x
  OBVIOUS
<1>2. Max(S) \in S /\ \A x \in S : Max(S) >= x
  BY <1>1 DEF Max
<1>3. m \in Int /\ Max(S) \in Int /\ m >= Max(S) /\ Max(S) >= m
  BY <1>1, <1>2
<1> QED
  BY <1>3

(* The invariant says what the runs check. *)
LEMMA RefreshInvSuffices == RefreshInv => RefreshConsistent
<1> SUFFICES ASSUME RefreshInv PROVE ActiveIsNewestSuccess
  BY DEF RefreshInv, RefreshConsistent
<1>1. {0} \cup Succeeded \subseteq Int /\ pointer \in {0} \cup Succeeded
  BY DEF RefreshInv, Succeeded, RunGenerations
<1>2. \A x \in {0} \cup Succeeded : x <= pointer
  BY RefreshAssumption DEF RefreshInv, RefreshTypeOK
<1> QED
  BY <1>1, <1>2, MaxIs DEF ActiveIsNewestSuccess, Succeeded

(* Before the first submission there is no run. *)
LEMMA InitRefreshInv == RefreshInit => RefreshInv
<1> SUFFICES ASSUME RefreshInit PROVE RefreshInv
  OBVIOUS
<1> USE RefreshAssumption DEF RefreshInit
<1>1. NoRoot \in Roots /\ NoRoot.run = "none" /\ NoRoot.job = "none"
  BY DEF NoRoot, Roots, RunStatus, JobStatus
<1>2. NoExecution \in Executions /\ NoExecution.at = "idle"
  BY DEF NoExecution, Executions
<1>3. [status |-> "none", snapshot |-> NoWorker] \in CandidateRows
  BY DEF CandidateRows
<1>4. RefreshTypeOK
  BY <1>1, <1>2, <1>3 DEF RefreshTypeOK, JobStatus
<1>5. RunAndJobAgree /\ UnsettledTreesWhole /\ PointerNamesLiveState
  BY <1>1 DEF RunAndJobAgree, UnsettledTreesWhole, PointerNamesLiveState, Unsettled, OpenStatus
<1>6. OnlyNewestOpen
  <2>1. Existing = {} /\ 0 \in 0..MaxRuns /\ 1..0 = {}
    BY <1>1 DEF Existing
  <2> QED
    BY <1>1, <2>1 DEF OnlyNewestOpen, Unsettled, OpenStatus
<1>7. DeadCandidatesSettled
  BY <1>2 DEF DeadCandidatesSettled
<1>8. Succeeded = {} /\ pointer = 0
  BY <1>1 DEF Succeeded
<1> QED
  BY <1>4, <1>5, <1>6, <1>7, <1>8 DEF RefreshInv

(* What a step may do to the root of generation g, short of creating it: a *)
(* settled one keeps its status, and no step makes it unsettled again.     *)
RowMoves(g, row) ==
  /\ row \in Roots /\ row.run # "none"
  /\ row.run = row.job \/ (row.run = "prepared" /\ row.job = "running")
  /\ root[g].run \in SettledStatus => row.run = root[g].run

(* A settled row is settled in both columns. *)
LEMMA SettledRow ==
  ASSUME NEW row \in Roots, NEW outcome \in SettledStatus
  PROVE  /\ Settle(row, outcome) \in Roots
         /\ Settle(row, outcome).run = outcome /\ Settle(row, outcome).job = outcome
BY DEF Settle, Roots, RunStatus, JobStatus, SettledStatus

(* Recovery finds no run to fail: whatever gave up a candidate has settled *)
(* its run before.                                                         *)
LEMMA RecoveryKeepsRoots ==
  ASSUME RefreshInv, RestartProcess PROVE root' = root
<1>0. root \in [RunGenerations -> Roots] /\ RunAndJobAgree /\ DeadCandidatesSettled
  BY DEF RefreshInv, RefreshTypeOK
<1>1. ASSUME NEW g \in RunGenerations
      PROVE  Recovered(g, root[g].run) = root[g].run /\ Recovered(g, root[g].job) = root[g].job
  BY <1>0 DEF Recovered, DeadCandidatesSettled, RunAndJobAgree, SettledStatus
<1>2. \A g \in RunGenerations : [root[g] EXCEPT !.run = root[g].run, !.job = root[g].job] = root[g]
  BY <1>0 DEF Roots
<1>3. root' = [g \in RunGenerations |->
                 [root[g] EXCEPT !.run = Recovered(g, @), !.job = Recovered(g, @)]]
  BY DEF RestartProcess
<1>4. \A g \in RunGenerations :
        [root[g] EXCEPT !.run = Recovered(g, @), !.job = Recovered(g, @)] = root[g]
  BY <1>1, <1>2
<1> QED
  BY <1>0, <1>3, <1>4

(* Every step but a submission changes at most one root, as RowMoves says. *)
LEMMA RootsMove ==
  ASSUME RefreshInv, [RefreshNext]_refreshVars
  PROVE  \/ root' = root
         \/ \E g \in RunGenerations : Submit(g)
         \/ \E g \in Existing, row \in Roots :
              RowMoves(g, row) /\ root' = [root EXCEPT ![g] = row]
<1>0. RefreshTypeOK /\ RunAndJobAgree /\ DeadCandidatesSettled
  BY DEF RefreshInv
<1>00. root \in [RunGenerations -> Roots] /\ \A w \in Workers : executor[w].at # "idle" => executor[w].run \in Existing
  BY <1>0 DEF RefreshTypeOK, DeadCandidatesSettled
<1> DEFINE Goal == \/ root' = root
                   \/ \E g \in RunGenerations : Submit(g)
                   \/ \E g \in Existing, row \in Roots :
                        RowMoves(g, row) /\ root' = [root EXCEPT ![g] = row]
<1>1. ASSUME NEW g \in RunGenerations, Unsettled(g), NEW outcome \in SettledStatus,
             root' = [root EXCEPT ![g] = Settle(@, outcome)]
      PROVE  Goal
  <2>1. g \in Existing /\ root[g].run \notin SettledStatus
    BY <1>1 DEF Unsettled, Existing, OpenStatus, SettledStatus
  <2>2. /\ Settle(root[g], outcome) \in Roots /\ RowMoves(g, Settle(root[g], outcome))
        /\ root' = [root EXCEPT ![g] = Settle(root[g], outcome)]
    BY <1>00, <1>1, <2>1, SettledRow DEF RowMoves, SettledStatus
  <2> QED
    BY <2>1, <2>2
<1>2. ASSUME NEW g \in RunGenerations, InsertFails(g) \/ CancelRun(g) PROVE Goal
  BY <1>1, <1>2 DEF InsertFails, CancelRun, Unsettled, OpenStatus, SettledStatus
<1>3. ASSUME NEW g \in RunGenerations, LeaseLapses(g) PROVE Goal
  <2>1. [root[g] EXCEPT !.lease = "lapsed"] \in Roots
    BY <1>00 DEF Roots
  <2>2. /\ [root[g] EXCEPT !.lease = "lapsed"].run = root[g].run
        /\ [root[g] EXCEPT !.lease = "lapsed"].job = root[g].job
    BY <1>00 DEF Roots
  <2>3. root[g].run # "none" /\ root' = [root EXCEPT ![g] = [root[g] EXCEPT !.lease = "lapsed"]]
    BY <1>0, <1>3 DEF LeaseLapses, RunAndJobAgree
  <2> QED
    BY <1>0, <2>1, <2>2, <2>3 DEF RowMoves, Existing, RunAndJobAgree
<1>4. ASSUME NEW w \in Workers, Claim(w) PROVE Goal
  <2> DEFINE g == executor[w].run
             row == [run |-> "running", job |-> "running", owner |-> w,
                     lease |-> "live", claims |-> root[g].claims + 1]
  <2>1. g \in Existing /\ g \in RunGenerations
    BY <1>00, <1>4 DEF Claim, Existing
  <2>2. CASE Claimable(g)
    <3>1. root[g].claims + 1 \in 0..MaxRunClaims
      BY <1>00, <1>4, <2>1, RefreshAssumption DEF Claim, Roots
    <3>2. row \in Roots
      BY <3>1 DEF Roots, RunStatus, JobStatus, OpenStatus
    <3>3. root[g].run \notin SettledStatus
      BY <1>0, <2>1, <2>2 DEF Claimable, RunAndJobAgree, SettledStatus
    <3>4. root' = [root EXCEPT ![g] = row]
      BY <1>4, <2>2 DEF Claim
    <3> QED
      BY <2>1, <3>2, <3>3, <3>4 DEF RowMoves
  <2>3. CASE ~Claimable(g)
    BY <1>4, <2>3 DEF Claim
  <2> QED
    BY <2>2, <2>3
<1>5. ASSUME NEW w \in Workers, PrepareRun(w) PROVE Goal
  <2> DEFINE g == executor[w].run
             row == [root[g] EXCEPT !.run = "prepared"]
  <2>1. g \in Existing /\ g \in RunGenerations
    BY <1>00, <1>5 DEF PrepareRun, Existing
  <2>2. CASE Fenced(w) /\ root[g].run = "running"
    <3>1. row \in Roots /\ row.run = "prepared" /\ row.job = "running"
      BY <1>00, <2>1, <2>2 DEF Roots, Fenced, RunStatus, OpenStatus
    <3>2. root' = [root EXCEPT ![g] = row]
      BY <1>5, <2>2 DEF PrepareRun
    <3> QED
      BY <2>1, <2>2, <3>1, <3>2 DEF RowMoves, SettledStatus
  <2>3. CASE ~(Fenced(w) /\ root[g].run = "running")
    BY <1>5, <2>3 DEF PrepareRun
  <2> QED
    BY <2>2, <2>3
<1>6. ASSUME NEW w \in Workers, Publish(w) \/ FailJob(w) \/ BeginFails(w) PROVE Goal
  <2>1. executor[w].run \in RunGenerations
    BY <1>00, <1>6 DEF Publish, FailJob, BeginFails, Existing
  <2> QED
    BY <1>1, <1>6, <2>1
       DEF Publish, MayPublish, FailJob, BeginFails, FailTree, MayFail, TreeOpen, Unsettled,
           OpenStatus, SettledStatus
<1>7. ASSUME RestartProcess PROVE Goal
  BY <1>7, RecoveryKeepsRoots
<1>8. ASSUME NEW g \in RunGenerations, SubmitterStep(g) PROVE Goal
  BY <1>8 DEF SubmitterStep, SubmissionFails, InsertChild
<1>9. ASSUME NEW w \in Workers,
             \/ BeginExecution(w) \/ Materialize(w) \/ RecordSnapshot(w) \/ FailCandidate(w)
             \/ (\E t \in Tables : MarkChild(w, t)) \/ ExecutionFails(w) \/ Abandon(w)
             \/ \E g \in RunGenerations : List(w, g)
      PROVE  Goal
  BY <1>9 DEF BeginExecution, Materialize, RecordSnapshot, FailCandidate, MarkChild,
     ExecutionFails, Abandon, List
<1>10. ASSUME UNCHANGED refreshVars PROVE Goal
  BY <1>10 DEF refreshVars
<1> HIDE DEF Goal
<1>11. Goal
  <2>1. ASSUME NEW g \in RunGenerations, Submit(g) PROVE Goal
    BY <2>1 DEF Goal
  <2>2. ASSUME NEW w \in Workers, ExecutorStep(w) PROVE Goal
    BY <1>4, <1>5, <1>6, <1>9, <2>2 DEF ExecutorStep
  <2>3. ASSUME NEW w \in Workers,
               \/ ExecutorStep(w) \/ ExecutionFails(w) \/ BeginFails(w) \/ Abandon(w)
               \/ \E g \in RunGenerations : List(w, g)
        PROVE  Goal
    BY <1>6, <1>9, <2>2, <2>3
  <2>4. ASSUME NEW g \in RunGenerations,
               Submit(g) \/ SubmitterStep(g) \/ InsertFails(g) \/ CancelRun(g) \/ LeaseLapses(g)
        PROVE  Goal
    BY <1>2, <1>3, <1>8, <2>1, <2>4
  <2>5. \/ \E g \in RunGenerations :
             Submit(g) \/ SubmitterStep(g) \/ InsertFails(g) \/ CancelRun(g) \/ LeaseLapses(g)
        \/ \E w \in Workers :
             \/ ExecutorStep(w) \/ ExecutionFails(w) \/ BeginFails(w) \/ Abandon(w)
             \/ \E g \in RunGenerations : List(w, g)
        \/ RestartProcess \/ UNCHANGED refreshVars
    BY DEF RefreshNext
  <2> QED
    BY <1>7, <1>10, <2>3, <2>4, <2>5
<1> QED
  BY <1>11 DEF Goal

(* A submission takes the generation after the ones there are. *)
LEMMA SubmitCreates ==
  ASSUME RefreshInv, NEW g \in RunGenerations, Submit(g)
  PROVE  /\ g \notin Existing /\ Existing' = Existing \cup {g} /\ Existing' = 1..g
         /\ \A h \in Existing : h < g
         /\ root' \in [RunGenerations -> Roots]
         /\ root'[g].run = "queued" /\ root'[g].job = "queued"
         /\ \A h \in RunGenerations \ {g} :
              IF Unsettled(h) THEN root'[h].run = "superseded" /\ root'[h].job = "superseded"
              ELSE root'[h] = root[h]
<1>1. PICK n \in 0..MaxRuns : Existing = 1..n
  BY DEF RefreshInv, OnlyNewestOpen
<1>2. g = n + 1
  <2>1. n \in Int /\ n \in Nat /\ 1 \in Int
    BY RefreshAssumption
  <2>2. Cardinality(1..n) = IF 1 > n THEN 0 ELSE n - 1 + 1
    BY <2>1, FS_Interval
  <2> QED
    BY <1>1, <2>1, <2>2 DEF Submit
<1>3. root \in [RunGenerations -> Roots]
  BY DEF RefreshInv, RefreshTypeOK
<1>4. /\ [NoRoot EXCEPT !.run = "queued", !.job = "queued"] \in Roots
      /\ [NoRoot EXCEPT !.run = "queued", !.job = "queued"].run = "queued"
      /\ [NoRoot EXCEPT !.run = "queued", !.job = "queued"].job = "queued"
  <2>1. NoRoot \in Roots
    BY RefreshAssumption DEF NoRoot, Roots, RunStatus, JobStatus
  <2> QED
    BY <2>1 DEF Roots, RunStatus, JobStatus, OpenStatus
<1>5. \A h \in RunGenerations :
        /\ Settle(root[h], "superseded") \in Roots
        /\ Settle(root[h], "superseded").run = "superseded"
        /\ Settle(root[h], "superseded").job = "superseded"
  BY <1>3, SettledRow DEF SettledStatus
<1>6. root' = [h \in RunGenerations |->
                IF h = g THEN [NoRoot EXCEPT !.run = "queued", !.job = "queued"]
                ELSE IF Unsettled(h) THEN Settle(root[h], "superseded")
                ELSE root[h]]
  BY DEF Submit, Superseded
<1>7. /\ root' \in [RunGenerations -> Roots]
      /\ root'[g].run = "queued" /\ root'[g].job = "queued"
      /\ \A h \in RunGenerations \ {g} :
           IF Unsettled(h) THEN root'[h].run = "superseded" /\ root'[h].job = "superseded"
           ELSE root'[h] = root[h]
  BY <1>3, <1>4, <1>5, <1>6
<1>8. g \notin Existing /\ (\A h \in Existing : h < g) /\ Existing \cup {g} = 1..g
  BY <1>1, <1>2, RefreshAssumption
<1>9. Existing' = Existing \cup {g}
  BY <1>7 DEF Existing, Unsettled, OpenStatus
<1> QED
  BY <1>7, <1>8, <1>9

(* What every step does to the roots. *)
RootsFollow ==
  /\ root' \in [RunGenerations -> Roots]
  /\ RunAndJobAgree'
  /\ Existing \subseteq Existing'
  /\ \A g \in RunGenerations :
       /\ root[g].run \in SettledStatus => root'[g].run = root[g].run
       /\ root'[g].run \in OpenStatus => Unsettled(g) \/ Submit(g)

LEMMA RootsKept ==
  ASSUME RefreshInv, [RefreshNext]_refreshVars PROVE RootsFollow
<1>0. root \in [RunGenerations -> Roots] /\ RunAndJobAgree
  BY DEF RefreshInv, RefreshTypeOK
<1>1. CASE root' = root
  BY <1>0, <1>1 DEF RootsFollow, RunAndJobAgree, Existing, Unsettled
<1>2. ASSUME NEW g \in RunGenerations, Submit(g) PROVE RootsFollow
  <2>1. \A h \in RunGenerations : root[h].run \in SettledStatus => h # g /\ ~Unsettled(h)
    BY <1>2, SubmitCreates DEF SettledStatus, Unsettled, OpenStatus, Existing
  <2> QED
    BY <1>0, <1>2, <2>1, SubmitCreates DEF RootsFollow, RunAndJobAgree, Unsettled, OpenStatus
<1>3. ASSUME NEW g \in Existing, NEW row \in Roots, RowMoves(g, row),
             root' = [root EXCEPT ![g] = row]
      PROVE  RootsFollow
  <2>1. g \in RunGenerations /\ root[g].run \in OpenStatus \cup SettledStatus
    BY <1>0 DEF Existing, Roots, RunStatus
  <2>2. row.run \in OpenStatus => Unsettled(g)
    BY <1>3, <2>1 DEF RowMoves, Unsettled, SettledStatus, OpenStatus
  <2> QED
    BY <1>0, <1>3, <2>1, <2>2 DEF RootsFollow, RunAndJobAgree, Existing, Unsettled, RowMoves
<1> QED
  BY <1>1, <1>2, <1>3, RootsMove

(* Only the newest run can be unsettled after a step. *)
LEMMA NewestKept ==
  ASSUME RefreshInv, [RefreshNext]_refreshVars
  PROVE  /\ \E n \in 0..MaxRuns : Existing' = 1..n
         /\ \A g \in RunGenerations : Unsettled(g)' => \A h \in Existing' : h <= g
<1>0. OnlyNewestOpen /\ root \in [RunGenerations -> Roots]
  BY DEF RefreshInv, RefreshTypeOK
<1>1. ASSUME NEW g \in RunGenerations, Submit(g)
      PROVE  /\ \E n \in 0..MaxRuns : Existing' = 1..n
             /\ \A f \in RunGenerations : Unsettled(f)' => \A h \in Existing' : h <= f
  <2>1. \A f \in RunGenerations : Unsettled(f)' => f = g
    BY <1>1, SubmitCreates DEF Unsettled, OpenStatus
  <2>2. g \in 0..MaxRuns /\ Existing' = 1..g
    BY <1>1, SubmitCreates, RefreshAssumption DEF RunGenerations
  <2> QED
    BY <2>1, <2>2
<1>2. CASE Existing' = Existing /\ ~\E g \in RunGenerations : Submit(g)
  <2>1. \A g \in RunGenerations : Unsettled(g)' => Unsettled(g)
    BY <1>2, RootsKept DEF RootsFollow, Unsettled
  <2> QED
    BY <1>0, <1>2, <2>1 DEF OnlyNewestOpen
<1>3. Existing' = Existing \/ \E g \in RunGenerations : Submit(g)
  <2>1. ASSUME NEW g \in Existing, NEW row \in Roots, RowMoves(g, row),
               root' = [root EXCEPT ![g] = row]
        PROVE  Existing' = Existing
    BY <1>0, <2>1 DEF RowMoves, Existing
  <2>2. root' = root => Existing' = Existing
    BY DEF Existing
  <2> QED
    BY <2>1, <2>2, RootsMove
<1> QED
  BY <1>1, <1>2, <1>3

(* Claims, marks and retries touch the rows of runs that exist. *)
LEMMA WorkersOnExisting ==
  ASSUME RefreshInv
  PROVE  /\ \A w \in Workers : executor[w].at # "idle" =>
              executor[w].run \in Existing /\ executor[w].run \in RunGenerations
         /\ \A g \in RunGenerations : submitter[g] # "none" => g \in Existing
         /\ \A g \in RunGenerations : root[g].job # "none" => g \in Existing
BY DEF RefreshInv, DeadCandidatesSettled, OnlyNewestOpen, Existing, RunAndJobAgree

(* The rows of dependencies stay rows. *)
LEMMA ChildTypes ==
  ASSUME RefreshInv, [RefreshNext]_refreshVars
  PROVE  child' \in [RunGenerations -> [Tables -> JobStatus]]
<1>0. child \in [RunGenerations -> [Tables -> JobStatus]]
  BY DEF RefreshInv, RefreshTypeOK
<1>1. /\ {"queued", "running", "cancelled", "failed", "succeeded", "superseded"} \subseteq JobStatus
      /\ \A g \in RunGenerations, outcome \in SettledStatus :
           SettleOpen(outcome, child[g]) \in [Tables -> JobStatus]
      /\ \A g \in RunGenerations, t \in Tables : Recovered(g, child[g][t]) \in JobStatus
  BY <1>0 DEF JobStatus, SettledStatus, SettleOpen, Recovered
<1>2. ASSUME NEW g \in RunGenerations, Submit(g)
      PROVE  child' \in [RunGenerations -> [Tables -> JobStatus]]
  BY <1>0, <1>1, <1>2 DEF Submit, Superseded, SettledStatus
<1>3. ASSUME NEW g \in RunGenerations, NEW t \in Tables, InsertChild(g, t)
      PROVE  child' \in [RunGenerations -> [Tables -> JobStatus]]
  BY <1>0, <1>1, <1>3 DEF InsertChild
<1>4. ASSUME NEW g \in RunGenerations, CancelRun(g)
      PROVE  child' \in [RunGenerations -> [Tables -> JobStatus]]
  <2>1. [t \in Tables |-> IF child[g][t] = "queued" THEN "cancelled" ELSE child[g][t]]
          \in [Tables -> JobStatus]
    BY <1>0, <1>1
  <2> QED
    BY <1>0, <1>4, <2>1 DEF CancelRun
<1>5. ASSUME NEW w \in Workers, NEW t \in Tables, MarkChild(w, t)
      PROVE  child' \in [RunGenerations -> [Tables -> JobStatus]]
  BY <1>0, <1>1, <1>5 DEF MarkChild
<1>6. ASSUME NEW w \in Workers, Publish(w) \/ FailJob(w) \/ BeginFails(w)
      PROVE  child' \in [RunGenerations -> [Tables -> JobStatus]]
  <2>1. CASE Publish(w)
    BY <1>0, <1>1, <2>1 DEF Publish, SettledStatus
  <2>2. CASE FailTree(w)
    BY <1>0, <1>1, <2>2 DEF FailTree, SettledStatus
  <2> QED
    BY <1>6, <2>1, <2>2 DEF FailJob, BeginFails
<1>7. CASE RestartProcess
  BY <1>0, <1>1, <1>7 DEF RestartProcess
<1>8. \/ child' = child \/ RestartProcess
      \/ \E g \in RunGenerations :
           Submit(g) \/ CancelRun(g) \/ \E t \in Tables : InsertChild(g, t)
      \/ \E w \in Workers :
           \/ Publish(w) \/ FailJob(w) \/ BeginFails(w)
           \/ \E t \in Tables : MarkChild(w, t)
  BY DEF RefreshNext, refreshVars, ExecutorStep, SubmitterStep, SubmissionFails, InsertFails,
     LeaseLapses, Claim, BeginExecution, Materialize, RecordSnapshot, PrepareRun, FailCandidate,
     ExecutionFails, Abandon, List
<1> QED
  BY <1>0, <1>2, <1>3, <1>4, <1>5, <1>6, <1>7, <1>8

(* A dependency settles only together with its root. *)
LEMMA TreesKept ==
  ASSUME RefreshInv, [RefreshNext]_refreshVars PROVE UnsettledTreesWhole'
<1>0. /\ root \in [RunGenerations -> Roots] /\ child \in [RunGenerations -> [Tables -> JobStatus]]
      /\ UnsettledTreesWhole /\ RootsFollow
  BY RootsKept DEF RefreshInv, RefreshTypeOK
<1> SUFFICES ASSUME NEW g \in RunGenerations, root'[g].run \in OpenStatus, NEW t \in Tables
             PROVE  child'[g][t] \in OpenStatus \cup {"none"}
  BY DEF UnsettledTreesWhole, Unsettled, TreeOpen
<1>1. child[g][t] \in OpenStatus \cup {"none"}
  <2>1. CASE Unsettled(g)
    BY <1>0, <2>1 DEF UnsettledTreesWhole, TreeOpen
  <2>2. CASE Submit(g)
    BY <2>2, SubmitCreates DEF RefreshInv, OnlyNewestOpen
  <2> QED
    BY <1>0, <2>1, <2>2 DEF RootsFollow
<1>2. ASSUME NEW h \in RunGenerations, Submit(h) PROVE child'[g] = child[g]
  <2>1. ~Unsettled(g)
    BY <1>2, SubmitCreates DEF Unsettled, OpenStatus, Existing
  <2> QED
    BY <1>2, <2>1 DEF Submit, Superseded
<1>3. ASSUME NEW h \in RunGenerations, NEW u \in Tables, InsertChild(h, u)
      PROVE  child'[g][t] \in {child[g][t], "queued"}
  BY <1>0, <1>3 DEF InsertChild
<1>4. ASSUME NEW h \in RunGenerations, CancelRun(h) PROVE child'[g] = child[g]
  <2>1. root'[h].run = "cancelled"
    BY <1>0, <1>4, SettledRow DEF CancelRun, SettledStatus
  <2> QED
    BY <1>0, <1>4, <2>1 DEF CancelRun, OpenStatus
<1>5. ASSUME NEW w \in Workers, NEW u \in Tables, MarkChild(w, u)
      PROVE  child'[g][t] \in {child[g][t], "running"}
  BY <1>0, <1>5, WorkersOnExisting DEF MarkChild
<1>6. ASSUME NEW w \in Workers, Publish(w) \/ FailJob(w) \/ BeginFails(w)
      PROVE  child'[g] = child[g]
  <2>1. executor[w].run \in RunGenerations
    BY <1>6, WorkersOnExisting DEF Publish, FailJob, BeginFails
  <2>2. CASE executor[w].run = g
    <3>1. /\ root'[g].run \notin {"succeeded", "failed"}
          /\ Settle(root[g], "succeeded").run = "succeeded"
          /\ Settle(root[g], "failed").run = "failed"
      BY <1>0, SettledRow DEF OpenStatus, SettledStatus
    <3> QED
      BY <1>0, <1>6, <2>2, <3>1 DEF Publish, FailJob, BeginFails, FailTree
  <2>3. CASE executor[w].run # g
    BY <1>0, <1>6, <2>3 DEF Publish, FailJob, BeginFails, FailTree
  <2> QED
    BY <2>2, <2>3
<1>7. CASE RestartProcess
  <2>1. root'[g].run = Recovered(g, root[g].run)
    BY <1>0, <1>7 DEF RestartProcess, Roots
  <2>2. candidate[g].status \notin {"failed", "deleted"}
    BY <2>1 DEF Recovered, RefreshInv, DeadCandidatesSettled, OpenStatus, SettledStatus
  <2>3. child'[g][t] = child[g][t]
    BY <1>7, <2>2 DEF RestartProcess, Recovered
  <2> QED
    BY <1>1, <2>3
<1>8. \/ child' = child \/ RestartProcess
      \/ \E h \in RunGenerations :
           Submit(h) \/ CancelRun(h) \/ \E u \in Tables : InsertChild(h, u)
      \/ \E w \in Workers :
           \/ Publish(w) \/ FailJob(w) \/ BeginFails(w)
           \/ \E u \in Tables : MarkChild(w, u)
  BY DEF RefreshNext, refreshVars, ExecutorStep, SubmitterStep, SubmissionFails, InsertFails,
     LeaseLapses, Claim, BeginExecution, Materialize, RecordSnapshot, PrepareRun, FailCandidate,
     ExecutionFails, Abandon, List
<1>9. "queued" \in OpenStatus /\ "running" \in OpenStatus
  BY DEF OpenStatus
<1> QED
  BY <1>1, <1>2, <1>3, <1>4, <1>5, <1>6, <1>7, <1>8, <1>9

(* Nothing exists of the generations to come. *)
LEMMA FutureKept ==
  ASSUME RefreshInv, [RefreshNext]_refreshVars, NEW g \in RunGenerations \ Existing'
  PROVE  submitter'[g] = "none" /\ \A t \in Tables : child'[g][t] = "none"
<1>0. /\ g \in RunGenerations \ Existing
      /\ submitter[g] = "none" /\ \A t \in Tables : child[g][t] = "none"
      /\ submitter \in [RunGenerations ->
                        {"none", "inserting", "failing", "done", "failed", "lost"}]
      /\ child \in [RunGenerations -> [Tables -> JobStatus]]
      /\ root[g].run = "none"
  BY RootsKept DEF RootsFollow, RefreshInv, RefreshTypeOK, OnlyNewestOpen, Existing
<1>1. ASSUME NEW h \in RunGenerations, Submit(h)
      PROVE  submitter'[g] = submitter[g] /\ child'[g] = child[g]
  <2>1. h # g /\ ~Unsettled(g)
    BY <1>0, <1>1, SubmitCreates DEF Unsettled, OpenStatus
  <2> QED
    BY <1>0, <1>1, <2>1 DEF Submit, Superseded
<1>2. ASSUME NEW h \in RunGenerations,
             InsertFails(h) \/ CancelRun(h) \/ SubmitterStep(h) \/ LeaseLapses(h)
      PROVE  submitter'[g] = submitter[g] /\ child'[g] = child[g]
  <2>1. h # g
    BY <1>0, <1>2
       DEF InsertFails, CancelRun, SubmitterStep, SubmissionFails, InsertChild, LeaseLapses,
           RefreshInv, RunAndJobAgree
  <2> QED
    BY <1>0, <1>2, <2>1
       DEF InsertFails, CancelRun, SubmitterStep, SubmissionFails, InsertChild, LeaseLapses
<1>3. ASSUME NEW w \in Workers,
             \/ Publish(w) \/ FailJob(w) \/ BeginFails(w) \/ \E t \in Tables : MarkChild(w, t)
      PROVE  submitter'[g] = submitter[g] /\ child'[g] = child[g]
  <2>1. executor[w].run # g
    BY <1>0, <1>3, WorkersOnExisting DEF Publish, FailJob, BeginFails, MarkChild
  <2> QED
    BY <1>0, <1>3, <2>1 DEF Publish, FailJob, BeginFails, FailTree, MarkChild
<1>4. CASE RestartProcess
  BY <1>0, <1>4 DEF RestartProcess, Recovered
<1>5. \/ UNCHANGED <<submitter, child>> \/ RestartProcess
      \/ \E h \in RunGenerations :
           Submit(h) \/ InsertFails(h) \/ CancelRun(h) \/ SubmitterStep(h) \/ LeaseLapses(h)
      \/ \E w \in Workers :
           \/ Publish(w) \/ FailJob(w) \/ BeginFails(w) \/ \E t \in Tables : MarkChild(w, t)
  BY DEF RefreshNext, refreshVars, ExecutorStep, Claim, BeginExecution, Materialize,
     RecordSnapshot, PrepareRun, FailCandidate, ExecutionFails, Abandon, List
<1> QED
  BY <1>0, <1>1, <1>2, <1>3, <1>4, <1>5

(* Whatever a step does to a candidate: it is given up or replaced only once *)
(* its run is settled.                                                     *)
LEMMA CandidatesMove ==
  ASSUME RefreshInv, [RefreshNext]_refreshVars
  PROVE  /\ candidate' \in [RunGenerations -> CandidateRows]
         /\ \A g \in RunGenerations :
              candidate'[g].status \in {"active", "draining", "deleted", "failed"}
                => root'[g].run \in SettledStatus
<1>0. /\ candidate \in [RunGenerations -> CandidateRows] /\ RootsFollow /\ DeadCandidatesSettled
      /\ root \in [RunGenerations -> Roots]
  BY RootsKept DEF RefreshInv, RefreshTypeOK
<1> DEFINE Dead == {"active", "draining", "deleted", "failed"}
           Goal == /\ candidate' \in [RunGenerations -> CandidateRows]
                   /\ \A g \in RunGenerations :
                        candidate'[g].status \in Dead => root'[g].run \in SettledStatus
<1>1. \A g \in RunGenerations :
        candidate[g].status \in Dead => root'[g].run \in SettledStatus
  BY <1>0 DEF DeadCandidatesSettled, RootsFollow
<1>2. ASSUME NEW g \in RunGenerations, NEW row \in CandidateRows,
             candidate' = [candidate EXCEPT ![g] = row],
             row.status \in Dead => root'[g].run \in SettledStatus
      PROVE  Goal
  BY <1>0, <1>1, <1>2
<1>3. \A g \in RunGenerations :
        /\ [candidate[g] EXCEPT !.status = "validated"] \in CandidateRows
        /\ [candidate[g] EXCEPT !.status = "validated"].status = "validated"
        /\ [candidate[g] EXCEPT !.status = "failed"] \in CandidateRows
        /\ [candidate[g] EXCEPT !.status = "active"] \in CandidateRows
        /\ [candidate[g] EXCEPT !.status = "draining"] \in CandidateRows
        /\ [candidate[g] EXCEPT !.status = "deleted"] \in CandidateRows
        /\ \A w \in Workers : /\ [candidate[g] EXCEPT !.snapshot = w] \in CandidateRows
                             /\ [candidate[g] EXCEPT !.snapshot = w].status = candidate[g].status
  BY <1>0 DEF CandidateRows
<1> HIDE DEF Goal
<1>4. ASSUME NEW g \in RunGenerations, Submit(g) PROVE Goal
  <2>1. candidate' = [candidate EXCEPT ![g] = [candidate[g] EXCEPT !.status = "validated"]]
    BY <1>4 DEF Submit
  <2> QED
    BY <1>2, <1>3, <2>1
<1>5. ASSUME NEW g \in RunGenerations, SubmissionFails(g) PROVE Goal
  <2>1. candidate' = [candidate EXCEPT ![g] = [candidate[g] EXCEPT !.status = "failed"]]
    BY <1>5 DEF SubmissionFails
  <2>2. root'[g].run \in SettledStatus
    BY <1>0, <1>5 DEF SubmissionFails, DeadCandidatesSettled
  <2> QED
    BY <1>2, <1>3, <2>1, <2>2
<1>6. ASSUME NEW g \in RunGenerations, CancelRun(g) PROVE Goal
  <2>1. candidate' = [candidate EXCEPT ![g] = [candidate[g] EXCEPT !.status = "failed"]]
    BY <1>6 DEF CancelRun
  <2>2. root'[g].run \in SettledStatus
    BY <1>0, <1>6, SettledRow DEF CancelRun, SettledStatus
  <2> QED
    BY <1>2, <1>3, <2>1, <2>2
<1>7. ASSUME NEW w \in Workers, RecordSnapshot(w) PROVE Goal
  <2> DEFINE g == executor[w].run
  <2>1. /\ g \in RunGenerations
        /\ candidate' = [candidate EXCEPT ![g] = [candidate[g] EXCEPT !.snapshot = w]]
    BY <1>7, WorkersOnExisting DEF RecordSnapshot
  <2> QED
    BY <1>1, <1>2, <1>3, <2>1
<1>8. ASSUME NEW w \in Workers, FailCandidate(w) PROVE Goal
  <2> DEFINE g == executor[w].run
  <2>1. /\ g \in RunGenerations
        /\ candidate' = [candidate EXCEPT ![g] = [candidate[g] EXCEPT !.status = "failed"]]
    BY <1>8, WorkersOnExisting DEF FailCandidate
  <2>2. root'[g].run \in SettledStatus
    BY <1>0, <1>8 DEF FailCandidate, DeadCandidatesSettled, SettledStatus
  <2> QED
    BY <1>2, <1>3, <2>1, <2>2
<1>9. ASSUME NEW w \in Workers, Publish(w), candidate' # candidate PROVE Goal
  <2> DEFINE g == executor[w].run
  <2>1. /\ g \in RunGenerations
        /\ candidate' = Activated(g) /\ root' = [root EXCEPT ![g] = Settle(@, "succeeded")]
    BY <1>9, WorkersOnExisting DEF Publish
  <2>2. root'[g].run \in SettledStatus
    BY <1>0, <2>1, SettledRow DEF SettledStatus
  <2>3. candidate' \in [RunGenerations -> CandidateRows]
    BY <1>0, <1>3, <2>1 DEF Activated
  <2>4. \A h \in RunGenerations \ {g} :
          candidate'[h] = candidate[h] \/ candidate[h].status \in Dead
    BY <2>1 DEF Activated
  <2> QED
    BY <1>1, <2>2, <2>3, <2>4 DEF Goal
<1>10. ASSUME RestartProcess PROVE Goal
  <2>1. candidate' = [g \in RunGenerations |->
                        IF candidate[g].status = "draining"
                        THEN [candidate[g] EXCEPT !.status = "deleted"] ELSE candidate[g]]
    BY <1>10 DEF RestartProcess
  <2> QED
    BY <1>0, <1>1, <1>3, <2>1 DEF Goal
<1>11. ASSUME UNCHANGED candidate PROVE Goal
  BY <1>0, <1>1, <1>11 DEF Goal
<1>12. \/ UNCHANGED candidate \/ RestartProcess
       \/ \E g \in RunGenerations : Submit(g) \/ SubmissionFails(g) \/ CancelRun(g)
       \/ \E w \in Workers :
            RecordSnapshot(w) \/ FailCandidate(w) \/ (Publish(w) /\ candidate' # candidate)
  BY DEF RefreshNext, refreshVars, ExecutorStep, SubmitterStep, InsertChild, InsertFails,
     LeaseLapses, Claim, BeginExecution, MarkChild, Materialize, PrepareRun, FailJob, BeginFails,
     ExecutionFails, Abandon, List
<1>13. Goal
  BY <1>4, <1>5, <1>6, <1>7, <1>8, <1>9, <1>10, <1>11, <1>12
<1> QED
  BY <1>13 DEF Goal

(* A submission that failed to insert a dependency has failed its run first. *)
LEMMA SubmittersMove ==
  ASSUME RefreshInv, [RefreshNext]_refreshVars
  PROVE  /\ submitter' \in [RunGenerations ->
                           {"none", "inserting", "failing", "done", "failed", "lost"}]
         /\ \A g \in RunGenerations :
              /\ submitter[g] = "failed" => submitter'[g] = "failed"
              /\ submitter'[g] \in {"failing", "failed"} => root'[g].run \in SettledStatus
<1>0. /\ submitter \in [RunGenerations ->
                        {"none", "inserting", "failing", "done", "failed", "lost"}]
      /\ RootsFollow /\ DeadCandidatesSettled
      /\ root \in [RunGenerations -> Roots]
  BY RootsKept DEF RefreshInv, RefreshTypeOK
<1> DEFINE Goal == /\ submitter' \in [RunGenerations ->
                          {"none", "inserting", "failing", "done", "failed", "lost"}]
                   /\ \A g \in RunGenerations :
                        /\ submitter[g] = "failed" => submitter'[g] = "failed"
                        /\ submitter'[g] \in {"failing", "failed"} =>
                             root'[g].run \in SettledStatus
<1>1. \A g \in RunGenerations :
        submitter[g] \in {"failing", "failed"} => root'[g].run \in SettledStatus
  BY <1>0 DEF DeadCandidatesSettled, RootsFollow
<1>2. ASSUME NEW g \in RunGenerations, Submit(g) PROVE Goal
  <2>1. submitter[g] = "none"
    BY <1>2, SubmitCreates DEF RefreshInv, OnlyNewestOpen
  <2> QED
    BY <1>0, <1>1, <1>2, <2>1 DEF Submit
<1>3. ASSUME NEW g \in RunGenerations, InsertFails(g) PROVE Goal
  <2>1. root'[g].run \in SettledStatus
    <3>1. CASE Unsettled(g)
      BY <1>0, <1>3, <3>1, SettledRow DEF InsertFails, SettledStatus
    <3>2. CASE ~Unsettled(g)
      BY <1>0, <1>3, <3>2, WorkersOnExisting
         DEF InsertFails, Unsettled, Roots, RunStatus, Existing
    <3> QED
      BY <3>1, <3>2
  <2> QED
    BY <1>0, <1>1, <1>3, <2>1 DEF InsertFails
<1>4. ASSUME NEW g \in RunGenerations, SubmitterStep(g) PROVE Goal
  BY <1>0, <1>1, <1>4 DEF SubmitterStep, SubmissionFails, InsertChild
<1>5. ASSUME RestartProcess PROVE Goal
  BY <1>0, <1>1, <1>5 DEF RestartProcess
<1>6. ASSUME UNCHANGED submitter PROVE Goal
  BY <1>0, <1>1, <1>6
<1>7. \/ UNCHANGED submitter \/ RestartProcess
      \/ \E g \in RunGenerations : Submit(g) \/ InsertFails(g) \/ SubmitterStep(g)
  BY DEF RefreshNext, refreshVars, ExecutorStep, CancelRun, LeaseLapses, Claim, BeginExecution,
     MarkChild, Materialize, RecordSnapshot, PrepareRun, Publish, FailJob, FailCandidate,
     BeginFails, ExecutionFails, Abandon, List
<1> HIDE DEF Goal
<1>8. Goal
  BY <1>2, <1>3, <1>4, <1>5, <1>6, <1>7
<1> QED
  BY <1>8 DEF Goal

(* A worker is on a run that exists, and one that has failed its tree is on a *)
(* failed run.                                                             *)
LEMMA ExecutorsMove ==
  ASSUME RefreshInv, [RefreshNext]_refreshVars
  PROVE  /\ executor' \in [Workers -> Executions]
         /\ \A w \in Workers :
              /\ executor'[w].at # "idle" => executor'[w].run \in Existing'
              /\ executor'[w].at = "failed" => root'[executor'[w].run].run = "failed"
<1>0. /\ executor \in [Workers -> Executions] /\ RootsFollow /\ DeadCandidatesSettled
      /\ root \in [RunGenerations -> Roots] /\ child \in [RunGenerations -> [Tables -> JobStatus]]
  BY RootsKept DEF RefreshInv, RefreshTypeOK
<1>1. \A w \in Workers :
        /\ executor[w].at # "idle" => executor[w].run \in Existing'
        /\ executor[w].at = "failed" => root'[executor[w].run].run = "failed"
  BY <1>0, WorkersOnExisting DEF DeadCandidatesSettled, RootsFollow, SettledStatus
<1> DEFINE Place(c) == /\ c \in Executions
                       /\ c.at # "idle" => c.run \in Existing'
                       /\ c.at = "failed" => root'[c.run].run = "failed"
<1>2. NoExecution \in Executions /\ Place(NoExecution)
  BY RefreshAssumption DEF NoExecution, Executions
<1>3. \A w \in Workers : Place(executor[w])
  BY <1>0, <1>1
<1>4. ASSUME NEW w \in Workers, executor[w].at # "idle",
             NEW at \in {"claimed", "marking", "materialized", "recorded", "prepared", "failing"}
      PROVE  Place([executor[w] EXCEPT !.at = at])
  <2>1. /\ [executor[w] EXCEPT !.at = at] \in Executions
        /\ [executor[w] EXCEPT !.at = at].at = at
        /\ [executor[w] EXCEPT !.at = at].run = executor[w].run
    BY <1>0 DEF Executions
  <2> QED
    BY <1>1, <1>4, <2>1
<1>5. ASSUME NEW w \in Workers, Claim(w)
      PROVE  \E c \in Executions : Place(c) /\ executor' = [executor EXCEPT ![w] = c]
  <2> DEFINE c == [executor[w] EXCEPT !.at = "claimed", !.claim = @ + 1]
  <2>0. executor[w] \in Executions /\ executor[w].claim + 1 \in Nat
    BY <1>0 DEF Executions
  <2>1. /\ c \in Executions /\ c.at = "claimed" /\ c.run = executor[w].run
    BY <2>0 DEF Executions
  <2>2. executor[w].at # "idle"
    BY <1>5 DEF Claim
  <2>3. Place(c)
    BY <1>1, <2>1, <2>2
  <2>4. executor' = [executor EXCEPT ![w] = c] \/ executor' = [executor EXCEPT ![w] = NoExecution]
    BY <1>5 DEF Claim, Leaves
  <2> QED
    BY <1>2, <2>1, <2>3, <2>4
<1>6. ASSUME NEW w \in Workers, BeginExecution(w)
      PROVE  \E c \in Executions : Place(c) /\ executor' = [executor EXCEPT ![w] = c]
  <2> DEFINE todo == {t \in Tables : child[executor[w].run][t] # "none"}
             c == [executor[w] EXCEPT !.at = "marking", !.todo = todo]
  <2>1. /\ c \in Executions /\ c.at = "marking" /\ c.run = executor[w].run
    BY <1>0 DEF Executions
  <2>2. executor[w].at # "idle" /\ executor' = [executor EXCEPT ![w] = c]
    BY <1>6 DEF BeginExecution
  <2> QED
    BY <1>1, <2>1, <2>2
<1>7. ASSUME NEW w \in Workers, NEW t \in Tables, MarkChild(w, t)
      PROVE  \E c \in Executions : Place(c) /\ executor' = [executor EXCEPT ![w] = c]
  <2> DEFINE c == [executor[w] EXCEPT !.todo = @ \ {t}]
  <2>1. /\ c \in Executions /\ c.at = executor[w].at /\ c.run = executor[w].run
    BY <1>0 DEF Executions
  <2>2. executor' = [executor EXCEPT ![w] = c]
    BY <1>7 DEF MarkChild
  <2> QED
    BY <1>1, <2>1, <2>2
<1>8. ASSUME NEW w \in Workers, NEW g \in RunGenerations, List(w, g)
      PROVE  \E c \in Executions : Place(c) /\ executor' = [executor EXCEPT ![w] = c]
  <2> DEFINE c == [at |-> "listed", run |-> g, claim |-> root[g].claims, todo |-> {}]
  <2>1. c \in Executions
    BY <1>0, RefreshAssumption DEF Executions, Roots, RunGenerations
  <2>2. g \in Existing /\ executor' = [executor EXCEPT ![w] = c]
    BY <1>8, WorkersOnExisting DEF List, Executable
  <2>3. g \in Existing'
    BY <1>0, <2>2 DEF RootsFollow
  <2> QED
    BY <2>1, <2>2, <2>3
<1>9. ASSUME NEW w \in Workers, FailJob(w)
      PROVE  \E c \in Executions : Place(c) /\ executor' = [executor EXCEPT ![w] = c]
  <2>1. CASE MayFail(w)
    <3> DEFINE g == executor[w].run
               c == [executor[w] EXCEPT !.at = "failed"]
    <3>1. c \in Executions /\ c.at = "failed" /\ c.run = g
      BY <1>0 DEF Executions
    <3>2. g \in RunGenerations /\ g \in Existing'
      BY <1>0, <1>9, WorkersOnExisting DEF FailJob, RootsFollow
    <3>3. root' = [root EXCEPT ![g] = Settle(@, "failed")]
      BY <1>9, <2>1 DEF FailJob, FailTree
    <3>4. root'[g].run = "failed"
      BY <1>0, <3>2, <3>3, SettledRow DEF SettledStatus
    <3>5. executor' = [executor EXCEPT ![w] = c]
      BY <1>9, <2>1 DEF FailJob, ExecutorGoes
    <3> QED
      BY <3>1, <3>2, <3>4, <3>5
  <2>2. CASE ~MayFail(w)
    BY <1>2, <1>9, <2>2 DEF FailJob, Leaves
  <2> QED
    BY <2>1, <2>2
<1>10. ASSUME NEW w \in Workers,
              \/ Materialize(w) \/ RecordSnapshot(w) \/ PrepareRun(w) \/ Publish(w)
              \/ FailCandidate(w) \/ ExecutionFails(w) \/ BeginFails(w) \/ Abandon(w)
       PROVE  \E c \in Executions : Place(c) /\ executor' = [executor EXCEPT ![w] = c]
  <2>1. /\ executor[w].at # "idle"
        /\ \/ executor' = [executor EXCEPT ![w] = NoExecution]
           \/ \E at \in {"materialized", "recorded", "prepared", "failing"} :
                executor' = [executor EXCEPT ![w] = [executor[w] EXCEPT !.at = at]]
    BY <1>10 DEF Materialize, RecordSnapshot, PrepareRun, Publish, FailCandidate, ExecutionFails,
       BeginFails, Abandon, Leaves, ExecutorGoes, Executing
  <2> QED
    BY <1>2, <1>4, <2>1
<1>11. \/ UNCHANGED executor \/ RestartProcess
       \/ \E w \in Workers :
            \/ Claim(w) \/ BeginExecution(w) \/ FailJob(w)
            \/ (\E t \in Tables : MarkChild(w, t)) \/ (\E g \in RunGenerations : List(w, g))
            \/ Materialize(w) \/ RecordSnapshot(w) \/ PrepareRun(w) \/ Publish(w)
            \/ FailCandidate(w) \/ ExecutionFails(w) \/ BeginFails(w) \/ Abandon(w)
  BY DEF RefreshNext, refreshVars, ExecutorStep, SubmitterStep, Submit, SubmissionFails,
     InsertChild, InsertFails, CancelRun, LeaseLapses
<1>12. RestartProcess => executor' = [w \in Workers |-> NoExecution]
  BY DEF RestartProcess
<1> HIDE DEF Place
<1>13. \/ executor' = executor \/ executor' = [w \in Workers |-> NoExecution]
       \/ \E w \in Workers, c \in Executions :
            Place(c) /\ executor' = [executor EXCEPT ![w] = c]
  BY <1>5, <1>6, <1>7, <1>8, <1>9, <1>10, <1>11, <1>12
<1>14. executor' \in [Workers -> Executions] /\ \A w \in Workers : Place(executor'[w])
  BY <1>0, <1>2, <1>3, <1>13
<1> QED
  BY <1>14 DEF Place

(* The pointer moves only by a publication, to the newest generation, which *)
(* succeeds with it; and nothing else makes a run succeed.                 *)
LEMMA PointerMoves ==
  ASSUME RefreshInv, [RefreshNext]_refreshVars
  PROVE  \/ UNCHANGED pointer /\ Succeeded' = Succeeded
         \/ \E w \in Workers :
              /\ Publish(w) /\ executor[w].run \in Existing
              /\ pointer' = executor[w].run
              /\ Succeeded' = Succeeded \cup {executor[w].run}
              /\ candidate' = Activated(executor[w].run)
              /\ \A h \in Existing : h <= executor[w].run
<1>0. root \in [RunGenerations -> Roots] /\ RootsFollow
  BY RootsKept DEF RefreshInv, RefreshTypeOK
<1>1. ASSUME NEW w \in Workers, Publish(w), root' # root
      PROVE  /\ Publish(w) /\ executor[w].run \in Existing
             /\ pointer' = executor[w].run
             /\ Succeeded' = Succeeded \cup {executor[w].run}
             /\ candidate' = Activated(executor[w].run)
             /\ \A h \in Existing : h <= executor[w].run
  <2> DEFINE g == executor[w].run
  <2>1. g \in RunGenerations /\ g \in Existing
    BY <1>1, WorkersOnExisting DEF Publish
  <2>2. /\ pointer' = g /\ root' = [root EXCEPT ![g] = Settle(@, "succeeded")]
        /\ candidate' = Activated(g) /\ MayPublish(w)
    BY <1>1 DEF Publish
  <2>3. Succeeded' = Succeeded \cup {g}
    BY <1>0, <2>1, <2>2, SettledRow DEF Succeeded, SettledStatus
  <2> QED
    BY <1>1, <2>1, <2>2, <2>3 DEF MayPublish
<1>2. ASSUME root' = root \/ (UNCHANGED pointer /\ \A g \in RunGenerations :
                                 root'[g].run = "succeeded" => root[g].run = "succeeded")
      PROVE  Succeeded' = Succeeded
  BY <1>0, <1>2 DEF Succeeded, RootsFollow, SettledStatus
<1>3. ASSUME NEW w \in Workers, Publish(w), root' = root PROVE UNCHANGED pointer
  <2>1. executor[w].run \in RunGenerations
    BY <1>3, WorkersOnExisting DEF Publish
  <2>2. CASE MayPublish(w) /\ Publishable(w)
    <3>1. root' = [root EXCEPT ![executor[w].run] = Settle(@, "succeeded")]
      BY <1>3, <2>2 DEF Publish
    <3>2. root'[executor[w].run].run = "succeeded" /\ root[executor[w].run].run = "prepared"
      BY <1>0, <2>1, <2>2, <3>1, SettledRow DEF MayPublish, SettledStatus
    <3> QED
      BY <1>3, <3>2
  <2>3. CASE ~(MayPublish(w) /\ Publishable(w))
    BY <1>3, <2>3 DEF Publish
  <2> QED
    BY <2>2, <2>3
<1>4. ASSUME NEW g \in RunGenerations, Submit(g) PROVE UNCHANGED pointer /\ Succeeded' = Succeeded
  <2>1. \A h \in RunGenerations : root'[h].run = "succeeded" => root[h].run = "succeeded"
    BY <1>4, SubmitCreates
  <2> QED
    BY <1>2, <1>4, <2>1 DEF Submit
<1>5. ASSUME NEW g \in RunGenerations,
             InsertFails(g) \/ CancelRun(g) \/ LeaseLapses(g) \/ SubmitterStep(g)
      PROVE  UNCHANGED pointer /\ Succeeded' = Succeeded
  <2>1. \A h \in RunGenerations : root'[h].run = "succeeded" => root[h].run = "succeeded"
    <3>1. /\ Settle(root[g], "failed").run = "failed"
          /\ Settle(root[g], "cancelled").run = "cancelled"
          /\ [root[g] EXCEPT !.lease = "lapsed"].run = root[g].run
      BY <1>0, SettledRow DEF SettledStatus, Roots
    <3> QED
      BY <1>0, <1>5, <3>1
         DEF InsertFails, CancelRun, LeaseLapses, SubmitterStep, SubmissionFails, InsertChild
  <2>2. UNCHANGED pointer
    BY <1>5 DEF InsertFails, CancelRun, LeaseLapses, SubmitterStep, SubmissionFails, InsertChild
  <2> QED
    BY <1>2, <2>1, <2>2
<1>6. ASSUME NEW w \in Workers, Claim(w) \/ PrepareRun(w) \/ FailTree(w), UNCHANGED pointer
      PROVE  Succeeded' = Succeeded
  <2>1. \A h \in RunGenerations : root'[h].run = "succeeded" => root[h].run = "succeeded"
    <3>1. \A h \in RunGenerations :
            /\ Settle(root[h], "failed").run = "failed"
            /\ [root[h] EXCEPT !.run = "prepared"].run = "prepared"
      BY <1>0, SettledRow DEF SettledStatus, Roots
    <3>2. CASE Claim(w)
      BY <1>0, <3>2 DEF Claim
    <3>3. CASE PrepareRun(w)
      BY <1>0, <3>1, <3>3 DEF PrepareRun
    <3>4. CASE FailTree(w)
      BY <1>0, <3>1, <3>4 DEF FailTree
    <3> QED
      BY <1>6, <3>2, <3>3, <3>4
  <2> QED
    BY <1>2, <1>6, <2>1
<1>7. ASSUME RestartProcess PROVE UNCHANGED pointer /\ Succeeded' = Succeeded
  <2>1. \A g \in RunGenerations : root'[g].run = Recovered(g, root[g].run)
    BY <1>0, <1>7 DEF RestartProcess, Roots
  <2>2. \A g \in RunGenerations : root'[g].run = "succeeded" <=> root[g].run = "succeeded"
    BY <2>1 DEF Recovered
  <2> QED
    BY <1>7, <2>2 DEF RestartProcess, Succeeded
<1>8. \/ UNCHANGED <<pointer, root>> \/ RestartProcess
      \/ \E g \in RunGenerations :
           Submit(g) \/ InsertFails(g) \/ CancelRun(g) \/ LeaseLapses(g) \/ SubmitterStep(g)
      \/ \E w \in Workers :
           \/ Publish(w)
           \/ (Claim(w) \/ PrepareRun(w) \/ FailTree(w)) /\ UNCHANGED pointer
  BY DEF RefreshNext, refreshVars, ExecutorStep, Claim, BeginExecution, MarkChild, Materialize,
     RecordSnapshot, PrepareRun, FailJob, FailCandidate, BeginFails, ExecutionFails, Abandon, List
<1> QED
  BY <1>1, <1>2, <1>3, <1>4, <1>5, <1>6, <1>7, <1>8

(* The pointer goes on naming an active state, or one whose submission failed. *)
LEMMA PointerKept ==
  ASSUME RefreshInv, [RefreshNext]_refreshVars PROVE PointerNamesLiveState'
<1>0. /\ PointerNamesLiveState /\ DeadCandidatesSettled
      /\ candidate \in [RunGenerations -> CandidateRows]
      /\ pointer # 0 => pointer \in RunGenerations /\ root[pointer].run = "succeeded"
  BY DEF RefreshInv, RefreshTypeOK, Succeeded
<1>1. ASSUME NEW w \in Workers, executor[w].run \in Existing, pointer' = executor[w].run,
             candidate' = Activated(executor[w].run)
      PROVE  PointerNamesLiveState'
  BY <1>0, <1>1 DEF PointerNamesLiveState, Activated, Existing, CandidateRows
<1>2. ASSUME UNCHANGED pointer, pointer # 0, submitter[pointer] = "failed"
      PROVE  PointerNamesLiveState'
  BY <1>0, <1>2, SubmittersMove DEF PointerNamesLiveState
<1>3. ASSUME UNCHANGED pointer, pointer # 0, candidate[pointer].status = "active",
             Succeeded' = Succeeded
      PROVE  PointerNamesLiveState'
  <2>1. ASSUME NEW g \in RunGenerations, Submit(g) PROVE candidate'[pointer] = candidate[pointer]
    BY <1>0, <1>3, <2>1, SubmitCreates DEF Submit, Existing
  <2>2. ASSUME NEW g \in RunGenerations, CancelRun(g) PROVE candidate'[pointer] = candidate[pointer]
    BY <1>0, <1>3, <2>2 DEF CancelRun
  <2>3. ASSUME NEW g \in RunGenerations, SubmissionFails(g)
        PROVE  candidate'[pointer] = candidate[pointer] \/ submitter'[pointer] = "failed"
    BY <1>0, <1>3, <2>3 DEF SubmissionFails, RefreshInv, RefreshTypeOK
  <2>4. ASSUME NEW w \in Workers, RecordSnapshot(w) PROVE candidate'[pointer].status = "active"
    BY <1>0, <1>3, <2>4 DEF RecordSnapshot, CandidateRows
  <2>5. ASSUME NEW w \in Workers, FailCandidate(w) PROVE candidate'[pointer] = candidate[pointer]
    BY <1>0, <1>3, <2>5 DEF FailCandidate, DeadCandidatesSettled
  <2>6. CASE RestartProcess
    BY <1>0, <1>3, <2>6 DEF RestartProcess, PointerNamesLiveState
  <2>7. ASSUME NEW w \in Workers, Publish(w), candidate' # candidate PROVE FALSE
    <3>1. executor[w].run \in RunGenerations /\ root[executor[w].run].run = "prepared"
      BY <2>7, WorkersOnExisting DEF Publish, MayPublish
    <3>2. pointer' = executor[w].run
      BY <2>7 DEF Publish
    <3> QED
      BY <1>0, <1>3, <3>1, <3>2
  <2>8. \/ UNCHANGED candidate \/ RestartProcess
        \/ \E g \in RunGenerations : Submit(g) \/ SubmissionFails(g) \/ CancelRun(g)
        \/ \E w \in Workers :
             RecordSnapshot(w) \/ FailCandidate(w) \/ (Publish(w) /\ candidate' # candidate)
    BY DEF RefreshNext, refreshVars, ExecutorStep, SubmitterStep, InsertChild, InsertFails,
       LeaseLapses, Claim, BeginExecution, MarkChild, Materialize, PrepareRun, FailJob, BeginFails,
       ExecutionFails, Abandon, List
  <2>9. CASE candidate'[pointer] = candidate[pointer]
    BY <1>3, <2>9 DEF PointerNamesLiveState
  <2>10. CASE candidate'[pointer].status = "active" \/ submitter'[pointer] = "failed"
    BY <1>3, <2>10 DEF PointerNamesLiveState
  <2> QED
    BY <1>3, <2>1, <2>2, <2>3, <2>4, <2>5, <2>6, <2>7, <2>8, <2>9, <2>10
<1>4. CASE UNCHANGED pointer /\ pointer = 0
  BY <1>4 DEF PointerNamesLiveState
<1> QED
  BY <1>0, <1>1, <1>2, <1>3, <1>4, PointerMoves DEF PointerNamesLiveState

(* Every step keeps the invariant. *)
LEMMA NextRefreshInv == RefreshInv /\ [RefreshNext]_refreshVars => RefreshInv'
<1> SUFFICES ASSUME RefreshInv, [RefreshNext]_refreshVars PROVE RefreshInv'
  OBVIOUS
<1>1. RootsFollow
  BY RootsKept
<1>2. mishaps' \in 0..MaxMishaps
  <2>1. mishaps \in 0..MaxMishaps
    BY DEF RefreshInv, RefreshTypeOK
  <2>2. mishaps' = mishaps \/ (mishaps < MaxMishaps /\ mishaps' = mishaps + 1)
    BY DEF RefreshNext, refreshVars, ExecutorStep, SubmitterStep, Submit, SubmissionFails,
       InsertChild, InsertFails, CancelRun, LeaseLapses, Claim, BeginExecution, MarkChild,
       Materialize, RecordSnapshot, PrepareRun, Publish, FailJob, FailCandidate, BeginFails,
       ExecutionFails, Abandon, List, RestartProcess
  <2> QED
    BY <2>1, <2>2, RefreshAssumption
<1>3. /\ pointer' \in 0..MaxRuns /\ pointer' \in {0} \cup Succeeded'
      /\ \A g \in Succeeded' : g <= pointer'
  <2>1. /\ pointer \in {0} \cup Succeeded /\ Succeeded \subseteq Existing
        /\ Existing \subseteq RunGenerations
        /\ \A g \in Succeeded : g <= pointer
    BY DEF RefreshInv, Succeeded, Existing
  <2>2. CASE UNCHANGED pointer /\ Succeeded' = Succeeded
    BY <2>1, <2>2, RefreshAssumption DEF RunGenerations
  <2>3. ASSUME NEW g \in Existing, pointer' = g, Succeeded' = Succeeded \cup {g},
               \A h \in Existing : h <= g
        PROVE  /\ pointer' \in 0..MaxRuns /\ pointer' \in {0} \cup Succeeded'
               /\ \A h \in Succeeded' : h <= pointer'
    BY <2>1, <2>3, RefreshAssumption DEF RunGenerations
  <2> QED
    BY <2>2, <2>3, PointerMoves
<1>4. RefreshTypeOK'
  BY <1>1, <1>2, <1>3, ChildTypes, CandidatesMove, SubmittersMove, ExecutorsMove
     DEF RefreshTypeOK, RootsFollow
<1>5. OnlyNewestOpen'
  BY NewestKept, FutureKept DEF OnlyNewestOpen
<1>6. DeadCandidatesSettled'
  BY CandidatesMove, SubmittersMove, ExecutorsMove DEF DeadCandidatesSettled
<1> QED
  BY <1>1, <1>3, <1>4, <1>5, <1>6, TreesKept, PointerKept DEF RefreshInv, RootsFollow

(* The invariant holds in every state that can be reached. *)
THEOREM RefreshInvariance == RefreshSpec => []RefreshInv
BY InitRefreshInv, NextRefreshInv, PTL DEF RefreshSpec

(* Run and job rows agree, the tree of an unsettled run is whole, only the  *)
(* newest run is unsettled, and the pointer names the newest success.      *)
THEOREM RefreshStaysConsistent == RefreshSpec => []RefreshConsistent
BY RefreshInvariance, RefreshInvSuffices, PTL

(* A settled run keeps its status, whatever claims, retries and restarts    *)
(* come after.                                                             *)
THEOREM SettledStay == RefreshSpec => SettledRootsStaySettled
<1> DEFINE Stay ==
      \A g \in RunGenerations :
        root[g].run \in SettledStatus => root'[g].run = root[g].run
<1>1. RefreshInv /\ [RefreshNext]_refreshVars => [Stay]_refreshVars
  BY RootsKept DEF RootsFollow
<1> QED
  BY <1>1, RefreshInvariance, PTL DEF RefreshSpec, SettledRootsStaySettled

(* A publication moves the pointer forward, to a run that no newer one has  *)
(* superseded.                                                             *)
THEOREM PublicationsOnlyAdvance == RefreshSpec => PublicationsAdvance
<1> DEFINE Advance ==
      pointer' # pointer => pointer' > pointer /\ \A h \in Existing : h <= pointer'
<1>1. ASSUME RefreshInv, [RefreshNext]_refreshVars PROVE Advance
  <2>1. /\ pointer \in {0} \cup Succeeded /\ Succeeded \subseteq Existing
        /\ Existing \subseteq Nat \ {0}
    BY <1>1 DEF RefreshInv, Succeeded, Existing, RunGenerations
  <2>2. ASSUME NEW g \in Existing, pointer' = g, \A h \in Existing : h <= g PROVE Advance
    BY <2>1, <2>2
  <2> QED
    BY <1>1, <2>2, PointerMoves
<1>2. RefreshInv /\ [RefreshNext]_refreshVars => [Advance]_refreshVars
  BY <1>1
<1> QED
  BY <1>2, RefreshInvariance, PTL DEF RefreshSpec, PublicationsAdvance

-----------------------------------------------------------------------------
(* Refinement of LatestRefresh.  A worker holds the refresh while it       *)
(* executes and its fence would pass.                                      *)

(* At most one run is unsettled, and it is the newest. *)
LEMMA OneUnsettled ==
  ASSUME RefreshInv, NEW g \in RunGenerations, Unsettled(g)
  PROVE  /\ LatestOpen /\ g \in Existing /\ Existing = 1..g
         /\ \A h \in RunGenerations : Unsettled(h) => h = g
<1>1. PICK n \in 0..MaxRuns : Existing = 1..n
  BY DEF RefreshInv, OnlyNewestOpen
<1>2. \A h \in RunGenerations : Unsettled(h) => h \in Existing /\ \A f \in Existing : f <= h
  BY DEF RefreshInv, OnlyNewestOpen, Unsettled, OpenStatus, Existing
<1>3. n \in Int /\ RunGenerations \subseteq Int
  BY RefreshAssumption DEF RunGenerations
<1>4. g \in Existing /\ g = n
  BY <1>1, <1>2, <1>3
<1>5. \A h \in RunGenerations : Unsettled(h) => h = g
  BY <1>2, <1>3, <1>4
<1> QED
  BY <1>1, <1>4, <1>5 DEF LatestOpen

(* A worker whose fence passes executes the run that is unsettled. *)
LEMMA FencedOnOpen ==
  ASSUME RefreshInv, NEW w \in FencedWorkers
  PROVE  /\ w \in Workers /\ executor[w].run \in RunGenerations
         /\ Unsettled(executor[w].run) /\ root[executor[w].run].owner = w
         /\ root[executor[w].run].lease = "live"
<1>1. w \in Workers /\ Executing(w) /\ Fenced(w) /\ RunAndJobAgree
  BY DEF FencedWorkers, RefreshInv
<1>2. executor[w].run \in RunGenerations
  BY <1>1, WorkersOnExisting DEF Executing
<1>3. root[executor[w].run].job = "running"
  BY <1>1 DEF Fenced
<1>4. Unsettled(executor[w].run)
  BY <1>1, <1>2, <1>3 DEF RunAndJobAgree, Unsettled, OpenStatus
<1> QED
  BY <1>1, <1>2, <1>4 DEF Fenced

HeldIsOpen == FencedWorkers # {} => LatestOpen

(* Nobody holds a refresh that is not open, ... *)
LEMMA OnlyOpenHeld == RefreshInv => HeldIsOpen
BY FencedOnOpen DEF LatestOpen, HeldIsOpen

(* ... and never two workers one. *)
LEMMA OneHolder == ASSUME RefreshInv PROVE \A v, w \in FencedWorkers : v = w
<1>1. ASSUME NEW v \in FencedWorkers, NEW w \in FencedWorkers PROVE v = w
  <2>1. executor[v].run = executor[w].run
    BY FencedOnOpen, OneUnsettled
  <2> QED
    BY <2>1, FencedOnOpen
<1> QED
  BY <1>1

(* The pipeline's moves as LatestRefresh sees them. *)
LatestStep == [LatestWins!Next]_(LatestWins!latestVars)

(* A step that gives nobody a hold and opens or closes nothing. *)
LEMMA HoldsOnlyLost ==
  ASSUME RefreshInv, FencedWorkers' \subseteq FencedWorkers,
         LatestOpen' <=> LatestOpen, Existing' = Existing, pointer' = pointer
  PROVE  LatestStep
<1>1. LatestOpen' = LatestOpen
  BY DEF LatestOpen
<1>2. CASE FencedWorkers' = {}
  BY <1>1, <1>2 DEF LatestStep, LatestWins!Next, LatestWins!Lose
<1>3. CASE FencedWorkers' # {}
  <2>1. FencedWorkers' = FencedWorkers
    BY <1>3, OneHolder
  <2> QED
    BY <1>1, <2>1 DEF LatestStep, LatestWins!latestVars
<1> QED
  BY <1>2, <1>3

(* Workers that move on with the rows as they are. *)
LEMMA WorkersMoveOn ==
  ASSUME RefreshInv, root' = root, pointer' = pointer,
         \A w \in Workers :
           Executing(w)' => /\ Executing(w)
                            /\ executor'[w].run = executor[w].run
                            /\ executor'[w].claim = executor[w].claim
  PROVE  LatestStep
<1>1. \A w \in Workers : Executing(w)' /\ Fenced(w)' => Executing(w) /\ Fenced(w)
  BY DEF Fenced
<1>2. FencedWorkers' \subseteq FencedWorkers
  BY <1>1 DEF FencedWorkers
<1>3. Existing' = Existing /\ (LatestOpen' <=> LatestOpen)
  BY DEF Existing, LatestOpen, Unsettled
<1> QED
  BY <1>2, <1>3, HoldsOnlyLost

(* A run is settled without being published. *)
LEMMA SettlingGivesUp ==
  ASSUME RefreshInv, RefreshInv', NEW g \in RunGenerations, Unsettled(g),
         NEW outcome \in SettledStatus, root' = [root EXCEPT ![g] = Settle(@, outcome)]
  PROVE  /\ LatestOpen /\ LatestOpen' = FALSE /\ FencedWorkers' = {} /\ Existing' = Existing
         /\ pointer' = pointer => LatestStep
<1>0. root \in [RunGenerations -> Roots]
  BY DEF RefreshInv, RefreshTypeOK
<1>1. /\ root'[g].run = outcome
      /\ \A h \in RunGenerations \ {g} : root'[h] = root[h]
  BY <1>0, SettledRow
<1>2. LatestOpen /\ \A h \in RunGenerations : Unsettled(h) => h = g
  BY OneUnsettled
<1>3. LatestOpen' = FALSE
  BY <1>1, <1>2 DEF LatestOpen, Unsettled, SettledStatus, OpenStatus
<1>4. FencedWorkers' = {}
  <2>1. HeldIsOpen'
    BY OnlyOpenHeld, PTL
  <2> QED
    BY <1>3, <2>1 DEF HeldIsOpen
<1>5. Existing' = Existing
  BY <1>1 DEF Existing, Unsettled, SettledStatus, OpenStatus
<1>6. LatestOpen = TRUE
  BY <1>2 DEF LatestOpen
<1>7. pointer' = pointer => LatestStep
  BY <1>3, <1>4, <1>5, <1>6 DEF LatestStep, LatestWins!Next, LatestWins!GiveUp
<1> QED
  BY <1>3, <1>4, <1>5, <1>6, <1>7

(* The number of the runs is the newest of them. *)
LEMMA NewestCounts ==
  ASSUME NEW g \in RunGenerations PROVE Cardinality(1..g) = g
<1>1. g \in Nat \ {0}
  BY RefreshAssumption DEF RunGenerations
<1>2. Cardinality(1..g) = IF 1 > g THEN 0 ELSE g - 1 + 1
  BY <1>1, FS_Interval
<1> QED
  BY <1>1, <1>2

(* A submission offers a refresh in place of the open one. *)
LEMMA SubmitOffers ==
  ASSUME RefreshInv, RefreshInv', NEW g \in RunGenerations, Submit(g) PROVE LatestStep
<1>1. /\ Existing' = 1..g /\ root'[g].run = "queued" /\ root'[g].job = "queued"
      /\ UNCHANGED <<pointer, executor>> /\ g = Cardinality(Existing) + 1
  BY SubmitCreates DEF Submit
<1>2. Cardinality(Existing') = Cardinality(Existing) + 1
  BY <1>1, NewestCounts
<1>3. LatestOpen' = TRUE
  BY <1>1 DEF LatestOpen, Unsettled, OpenStatus
<1>4. FencedWorkers' = {}
  <2> SUFFICES ASSUME NEW w \in Workers, Executing(w)', Fenced(w)' PROVE FALSE
    BY DEF FencedWorkers
  <2>1. executor'[w] = executor[w] /\ executor[w].run \in Existing /\ executor[w].run \in RunGenerations
    BY <1>1, WorkersOnExisting DEF Executing
  <2>2. root'[executor[w].run].job = "running"
    BY <2>1 DEF Fenced
  <2>3. executor[w].run # g
    BY <1>1, <2>2
  <2>4. root'[executor[w].run] = root[executor[w].run] /\ ~Unsettled(executor[w].run)
    BY <2>1, <2>2, <2>3, SubmitCreates
  <2> QED
    BY <2>1, <2>2, <2>4 DEF RefreshInv, RunAndJobAgree, Unsettled, OpenStatus
<1>5. LatestWins!Offer
  BY <1>1, <1>2, <1>3, <1>4 DEF LatestWins!Offer
<1> QED
  BY <1>5 DEF LatestStep, LatestWins!Next

(* A claim takes a refresh nobody holds; one made from a stale listing has *)
(* the wrong number and takes nothing.                                     *)
LEMMA ClaimTakesRefresh ==
  ASSUME RefreshInv, NEW w \in Workers, Claim(w) PROVE LatestStep
<1> DEFINE g == executor[w].run
<1>0. /\ root \in [RunGenerations -> Roots] /\ executor \in [Workers -> Executions]
      /\ RunAndJobAgree /\ pointer' = pointer
  BY DEF RefreshInv, RefreshTypeOK, Claim
<1>1. g \in RunGenerations /\ g \in Existing /\ executor[w].at = "listed"
  BY WorkersOnExisting DEF Claim
<1>2. CASE ~Claimable(g)
  <2>1. root' = root /\ executor' = [executor EXCEPT ![w] = NoExecution]
    BY <1>2 DEF Claim, Leaves
  <2>2. \A v \in Workers : Executing(v)' => executor'[v] = executor[v] /\ Executing(v)
    BY <1>0, <2>1 DEF Executing, NoExecution
  <2> QED
    BY <1>0, <2>1, <2>2, WorkersMoveOn
<1>3. CASE Claimable(g)
  <2>1. Unsettled(g) /\ root[g].run # "none" /\ ~(root[g].job = "running" /\ root[g].lease = "live")
    BY <1>0, <1>1, <1>3 DEF Claimable, RunAndJobAgree, Unsettled, OpenStatus
  <2>2. FencedWorkers = {}
    <3> SUFFICES ASSUME NEW v \in FencedWorkers PROVE FALSE
      OBVIOUS
    <3>1. executor[v].run = g
      BY <1>1, <2>1, FencedOnOpen, OneUnsettled
    <3> QED
      BY <2>1, <3>1 DEF FencedWorkers, Fenced
  <2>3. /\ \A h \in RunGenerations \ {g} : root'[h] = root[h]
        /\ root'[g].run = "running" /\ root'[g].owner = w
        /\ \A v \in Workers \ {w} : executor'[v] = executor[v]
    BY <1>0, <1>1, <1>3 DEF Claim
  <2>4. FencedWorkers' \subseteq {w}
    <3> SUFFICES ASSUME NEW v \in Workers, v # w, Executing(v)', Fenced(v)' PROVE FALSE
      BY DEF FencedWorkers
    <3>1. executor'[v] = executor[v] /\ executor[v].run \in RunGenerations /\ Executing(v)
      BY <2>3, WorkersOnExisting DEF Executing
    <3>2. CASE executor[v].run = g
      BY <2>3, <3>1, <3>2 DEF Fenced
    <3>3. CASE executor[v].run # g
      <4>1. Fenced(v)
        BY <2>3, <3>1, <3>3 DEF Fenced
      <4> QED
        BY <2>2, <3>1, <4>1 DEF FencedWorkers
    <3> QED
      BY <3>2, <3>3
  <2>5. LatestOpen = TRUE /\ LatestOpen' = TRUE
    BY <1>1, <2>1, <2>3 DEF LatestOpen, Unsettled, OpenStatus
  <2>6. Existing' = Existing
    BY <2>1, <2>3 DEF Existing
  <2>7. CASE FencedWorkers' = {}
    BY <1>0, <2>2, <2>5, <2>6, <2>7, HoldsOnlyLost
  <2>8. CASE FencedWorkers' = {w}
    <3>1. LatestWins!Take(w)
      BY <1>0, <2>2, <2>5, <2>6, <2>8 DEF LatestWins!Take
    <3> QED
      BY <3>1 DEF LatestStep, LatestWins!Next
  <2> QED
    BY <2>4, <2>7, <2>8
<1> QED
  BY <1>2, <1>3

(* A lapse loses the hold, and a preparation keeps it. *)
LEMMA RowsMoveOn ==
  ASSUME RefreshInv, pointer' = pointer, NEW g \in RunGenerations, NEW row \in Roots,
         root' = [root EXCEPT ![g] = row], Unsettled(g), row.run \in OpenStatus,
         row.job = root[g].job, row.owner = root[g].owner, row.claims = root[g].claims,
         row.lease = "live" => root[g].lease = "live",
         \A w \in Workers :
           Executing(w)' => /\ Executing(w)
                            /\ executor'[w].run = executor[w].run
                            /\ executor'[w].claim = executor[w].claim
  PROVE  LatestStep
<1>0. root \in [RunGenerations -> Roots]
  BY DEF RefreshInv, RefreshTypeOK
<1>1. root'[g] = row /\ \A h \in RunGenerations \ {g} : root'[h] = root[h]
  BY <1>0
<1>2. ASSUME NEW w \in Workers, Executing(w)', Fenced(w)' PROVE Executing(w) /\ Fenced(w)
  <2>1. executor[w].run \in RunGenerations /\ Executing(w) /\ executor'[w].run = executor[w].run
    BY <1>2, WorkersOnExisting DEF Executing
  <2> QED
    BY <1>1, <1>2, <2>1 DEF Fenced
<1>3. FencedWorkers' \subseteq FencedWorkers
  BY <1>2 DEF FencedWorkers
<1>4. Existing' = Existing /\ (LatestOpen' <=> LatestOpen)
  BY <1>1 DEF Existing, LatestOpen, Unsettled, OpenStatus
<1> QED
  BY <1>3, <1>4, HoldsOnlyLost

(* A worker publishes the refresh it holds, or leaves what is served alone. *)
LEMMA PublishPublishes ==
  ASSUME RefreshInv, RefreshInv', NEW w \in Workers, Publish(w) PROVE LatestStep
<1> DEFINE g == executor[w].run
<1>0. executor \in [Workers -> Executions] /\ executor[w].at = "prepared"
  BY DEF RefreshInv, RefreshTypeOK, Publish
<1>1. g \in RunGenerations
  BY <1>0, WorkersOnExisting
<1>2. CASE ~(MayPublish(w) /\ Publishable(w))
  <2>1. UNCHANGED <<root, pointer>> /\ (Leaves(w) \/ ExecutorGoes(w, "failing"))
    BY <1>2 DEF Publish
  <2>2. \A v \in Workers : Executing(v)' => /\ Executing(v)
                                            /\ executor'[v].run = executor[v].run
                                            /\ executor'[v].claim = executor[v].claim
    BY <1>0, <2>1 DEF Leaves, ExecutorGoes, NoExecution, Executing, Executions
  <2> QED
    BY <2>1, <2>2, WorkersMoveOn
<1>3. CASE MayPublish(w) /\ Publishable(w)
  <2>1. /\ pointer' = g /\ root' = [root EXCEPT ![g] = Settle(@, "succeeded")]
        /\ Fenced(w) /\ root[g].run = "prepared"
    BY <1>3 DEF Publish, MayPublish
  <2>2. Unsettled(g) /\ "succeeded" \in SettledStatus
    BY <2>1 DEF Unsettled, OpenStatus, SettledStatus
  <2>3. /\ LatestOpen /\ LatestOpen' = FALSE /\ FencedWorkers' = {} /\ Existing' = Existing
    BY <1>1, <2>1, <2>2, SettlingGivesUp
  <2>4. Cardinality(Existing) = g
    BY <1>1, <2>2, OneUnsettled, NewestCounts
  <2>5. w \in FencedWorkers
    BY <1>0, <2>1 DEF FencedWorkers, Executing
  <2>6. FencedWorkers = {w}
    BY <2>5, OneHolder
  <2>7. LatestWins!Publish(w)
    BY <2>1, <2>3, <2>4, <2>6 DEF LatestWins!Publish
  <2> QED
    BY <2>7 DEF LatestStep, LatestWins!Next
<1> QED
  BY <1>2, <1>3

(* Every step of the pipeline is a step of LatestRefresh or leaves it alone. *)
LEMMA NextIsLatest ==
  ASSUME RefreshInv, RefreshInv', [RefreshNext]_refreshVars PROVE LatestStep
<1>0. root \in [RunGenerations -> Roots] /\ executor \in [Workers -> Executions]
  BY DEF RefreshInv, RefreshTypeOK
<1>1. ASSUME UNCHANGED <<root, pointer, executor>> PROVE LatestStep
  BY <1>1, WorkersMoveOn DEF Executing
<1>2. ASSUME NEW g \in RunGenerations, SubmitterStep(g) PROVE LatestStep
  BY <1>1, <1>2 DEF SubmitterStep, SubmissionFails, InsertChild
<1>3. ASSUME NEW g \in RunGenerations, InsertFails(g) \/ CancelRun(g) PROVE LatestStep
  <2>1. /\ UNCHANGED <<pointer, executor>>
        /\ \/ root' = root
           \/ Unsettled(g) /\ \E outcome \in SettledStatus :
                                 root' = [root EXCEPT ![g] = Settle(@, outcome)]
    BY <1>3 DEF InsertFails, CancelRun, Unsettled, OpenStatus, SettledStatus
  <2> QED
    BY <1>1, <2>1, SettlingGivesUp
<1>4. ASSUME NEW g \in RunGenerations, LeaseLapses(g) PROVE LatestStep
  <2> DEFINE row == [root[g] EXCEPT !.lease = "lapsed"]
  <2>1. /\ row \in Roots /\ row.run = root[g].run /\ row.job = root[g].job
        /\ row.owner = root[g].owner /\ row.claims = root[g].claims /\ row.lease = "lapsed"
    BY <1>0 DEF Roots
  <2>2. /\ root[g].job = "running" /\ root' = [root EXCEPT ![g] = row]
        /\ UNCHANGED <<pointer, executor>>
    BY <1>4 DEF LeaseLapses
  <2>3. root[g].run \in OpenStatus
    BY <2>2 DEF RefreshInv, RunAndJobAgree, OpenStatus
  <2>4. \A w \in Workers : Executing(w)' => Executing(w)
    BY <2>2 DEF Executing
  <2> HIDE DEF row
  <2> QED
    BY <2>1, <2>2, <2>3, <2>4, RowsMoveOn DEF Unsettled
<1>5. ASSUME NEW w \in Workers, PrepareRun(w) PROVE LatestStep
  <2> DEFINE g == executor[w].run
             row == [root[g] EXCEPT !.run = "prepared"]
  <2>1. g \in RunGenerations /\ executor[w].at = "recorded" /\ pointer' = pointer
    BY <1>5, WorkersOnExisting DEF PrepareRun
  <2>2. \A v \in Workers : Executing(v)' => /\ Executing(v)
                                            /\ executor'[v].run = executor[v].run
                                            /\ executor'[v].claim = executor[v].claim
    BY <1>0, <1>5 DEF PrepareRun, Leaves, ExecutorGoes, NoExecution, Executing, Executions
  <2>3. CASE root' = root
    BY <2>1, <2>2, <2>3, WorkersMoveOn
  <2>4. CASE root[g].run = "running" /\ root' = [root EXCEPT ![g] = row]
    <3>1. /\ row \in Roots /\ row.run = "prepared" /\ row.job = root[g].job
          /\ row.owner = root[g].owner /\ row.claims = root[g].claims
          /\ row.lease = root[g].lease
      BY <1>0, <2>1 DEF Roots, RunStatus, OpenStatus
    <3> HIDE DEF row
    <3> QED
      BY <2>1, <2>2, <2>4, <3>1, RowsMoveOn DEF Unsettled, OpenStatus
  <2>5. root' = root \/ (root[g].run = "running" /\ root' = [root EXCEPT ![g] = row])
    BY <1>5 DEF PrepareRun
  <2> QED
    BY <2>3, <2>4, <2>5
<1>6. ASSUME NEW w \in Workers, FailJob(w) \/ BeginFails(w) PROVE LatestStep
  <2>1. executor[w].run \in RunGenerations /\ pointer' = pointer /\ Executing(w)
    BY <1>6, WorkersOnExisting DEF FailJob, BeginFails, Executing
  <2>2. CASE MayFail(w)
    <3>1. /\ root' = [root EXCEPT ![executor[w].run] = Settle(@, "failed")]
          /\ Unsettled(executor[w].run)
      BY <1>6, <2>2 DEF FailJob, BeginFails, FailTree, MayFail, TreeOpen, Unsettled
    <3> QED
      BY <2>1, <3>1, SettlingGivesUp DEF SettledStatus
  <2>3. CASE ~MayFail(w)
    <3>1. root' = root /\ Leaves(w)
      BY <1>6, <2>3 DEF FailJob, BeginFails, FailTree
    <3>2. \A v \in Workers : Executing(v)' => executor'[v] = executor[v] /\ Executing(v)
      BY <1>0, <3>1 DEF Leaves, NoExecution, Executing
    <3> QED
      BY <2>1, <3>1, <3>2, WorkersMoveOn
  <2> QED
    BY <2>2, <2>3
<1>7. ASSUME NEW w \in Workers,
             \/ BeginExecution(w) \/ Materialize(w) \/ RecordSnapshot(w) \/ FailCandidate(w)
             \/ (\E t \in Tables : MarkChild(w, t)) \/ ExecutionFails(w) \/ Abandon(w)
             \/ \E g \in RunGenerations : List(w, g)
      PROVE  LatestStep
  <2>1. UNCHANGED <<root, pointer>>
    BY <1>7 DEF BeginExecution, Materialize, RecordSnapshot, FailCandidate, MarkChild,
       ExecutionFails, Abandon, List
  <2>2. \A v \in Workers : Executing(v)' => /\ Executing(v)
                                            /\ executor'[v].run = executor[v].run
                                            /\ executor'[v].claim = executor[v].claim
    <3>1. \A v \in Workers \ {w} : executor'[v] = executor[v]
      BY <1>0, <1>7 DEF BeginExecution, Materialize, RecordSnapshot, FailCandidate, MarkChild,
         ExecutionFails, Abandon, List, Leaves, ExecutorGoes
    <3>2. Executing(w)' => /\ Executing(w)
                           /\ executor'[w].run = executor[w].run
                           /\ executor'[w].claim = executor[w].claim
      <4>1. CASE FailCandidate(w) \/ Abandon(w) \/ \E g \in RunGenerations : List(w, g)
        BY <1>0, <4>1 DEF FailCandidate, Abandon, List, Leaves, NoExecution, Executing
      <4>2. CASE Materialize(w) \/ RecordSnapshot(w) \/ ExecutionFails(w)
        BY <1>0, <4>2
           DEF Materialize, RecordSnapshot, ExecutionFails, ExecutorGoes, Executing, Executions
      <4>3. CASE BeginExecution(w)
        BY <1>0, <4>3 DEF BeginExecution, Executing, Executions
      <4>4. CASE \E t \in Tables : MarkChild(w, t)
        BY <1>0, <4>4 DEF MarkChild, Executing, Executions
      <4> QED
        BY <1>7, <4>1, <4>2, <4>3, <4>4
    <3> QED
      BY <3>1, <3>2 DEF Executing
  <2> QED
    BY <2>1, <2>2, WorkersMoveOn
<1>8. ASSUME RestartProcess PROVE LatestStep
  <2>1. root' = root /\ pointer' = pointer /\ executor' = [w \in Workers |-> NoExecution]
    BY <1>8, RecoveryKeepsRoots DEF RestartProcess
  <2>2. \A w \in Workers : ~Executing(w)'
    BY <2>1 DEF NoExecution, Executing
  <2> QED
    BY <2>1, <2>2, WorkersMoveOn
<1>9. ASSUME UNCHANGED refreshVars PROVE LatestStep
  BY <1>1, <1>9 DEF refreshVars
<1>10. ASSUME NEW w \in Workers, ExecutorStep(w) PROVE LatestStep
  BY <1>5, <1>6, <1>7, <1>10, ClaimTakesRefresh, PublishPublishes DEF ExecutorStep
<1>11. ASSUME NEW w \in Workers,
              \/ ExecutorStep(w) \/ ExecutionFails(w) \/ BeginFails(w) \/ Abandon(w)
              \/ \E g \in RunGenerations : List(w, g)
       PROVE  LatestStep
  BY <1>6, <1>7, <1>10, <1>11
<1>12. ASSUME NEW g \in RunGenerations,
              Submit(g) \/ SubmitterStep(g) \/ InsertFails(g) \/ CancelRun(g) \/ LeaseLapses(g)
       PROVE  LatestStep
  BY <1>2, <1>3, <1>4, <1>12, SubmitOffers
<1> QED
  BY <1>8, <1>9, <1>11, <1>12 DEF RefreshNext

(* Before the first submission nothing is open, held or published. *)
LEMMA InitIsLatest == RefreshInit => LatestWins!Init
<1> SUFFICES ASSUME RefreshInit PROVE LatestWins!Init
  OBVIOUS
<1>1. \A g \in RunGenerations : root[g].run = "none"
  BY DEF RefreshInit, NoRoot
<1>2. Existing = {} /\ LatestOpen = FALSE
  BY <1>1 DEF Existing, LatestOpen, Unsettled, OpenStatus
<1>3. FencedWorkers = {}
  BY DEF RefreshInit, NoExecution, FencedWorkers, Executing
<1>4. Cardinality(Existing) = 0
  BY <1>2, FS_EmptySet
<1> QED
  BY <1>2, <1>3, <1>4 DEF LatestWins!Init, RefreshInit

(* A refresh pipeline implements LatestRefresh: through claims made from    *)
(* stale listings, lapsed leases, failed submissions and restarts, what is *)
(* served changes only to the newest run, while it is unsettled, and by    *)
(* the one worker that holds it.                                           *)
THEOREM PipelineRefinement == RefreshSpec => ImplementsLatestRefresh
<1>1. RefreshInv /\ RefreshInv' /\ [RefreshNext]_refreshVars
        => [LatestWins!Next]_(LatestWins!latestVars)
  BY NextIsLatest DEF LatestStep
<1> QED
  BY <1>1, InitIsLatest, RefreshInvariance, PTL
     DEF RefreshSpec, ImplementsLatestRefresh, LatestWins!Spec
=============================================================================
