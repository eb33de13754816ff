-------------------------- MODULE ConnectionPools ---------------------------
(***************************************************************************)
(* The pools of one target connection: the stored binding, the directory   *)
(* that owns one pool manager per binding, the credential rotation of a    *)
(* manager and the leases on its pool generations                          *)
(* (internal/analytics/connectionbinding: rotation.go, pool_directory.go,  *)
(* administration.go, runtime_bindings.go, binding.go).                    *)
(*                                                                         *)
(* A manager's refresh, its disabling and its retirement exclude one       *)
(* another (refreshMu); a flight is the one under way.  Clients that ask   *)
(* for a refresh while one is under way share its result (singleflight).   *)
(* A client works with the binding it read from the store some time ago.   *)
(* Closing a pool after the unlock is part of the step that decides it:    *)
(* nobody else can reach the pool by then.                                 *)
(***************************************************************************)
EXTENDS Naturals, FiniteSets

CONSTANTS PoolClients,      \* goroutines of the runtime and of administration
          Managers, Pools,  \* identities for managers and pool generations
          MaxConcurrent,    \* PoolDirectoryConfig.MaxConcurrent
          MaxRevision,      \* bound on the revisions of the stored binding
          MaxVersion        \* bound on the provider's credential versions

ASSUME PoolsAssumption ==
  /\ Managers \subseteq Nat \ {0} /\ Pools \subseteq Nat \ {0}
  /\ MaxConcurrent \in Nat \ {0} /\ MaxRevision \in Nat /\ MaxVersion \in Nat

VARIABLES
  stored,      \* the row of the binding
  provider,    \* the credential version the provider would return
  directory,   \* PoolDirectory: the manager in pools[id], closed, and what Close still retires
  manager,     \* PoolManager by identity
  pool,        \* poolGeneration by identity
  client,      \* what each client does
  disabled     \* history: a Disable has returned, and no Enable was saved after it

poolVars == <<stored, provider, directory, manager, pool, client, disabled>>

(* cfg numbers the endpoint and credential reference; version 0 is none. *)
Bindings == [rev : Nat, cfg : Nat, version : Nat,
             health : {"pending", "healthy", "degraded", "disabled"}]
Enabled(b) == b.health # "disabled"

(* What a flight does is known once the credentials are resolved. *)
Flights == [step : {"none", "resolve", "prepare", "save", "install"},
            does : {"refresh", "activate", "unchanged", "degrade", "disable"},
            from : Bindings, next : Bindings, version : Nat, pool : Pools \union {0}]

ClientPhases == {"idle", "read", "pool", "retire", "gate", "refresh", "leaseAgain", "disabling", "leased"}
(* Administration.Health asks for the manager and no more: a refresh that
   times out at the gate. *)
Uses == {"none", "acquire", "refresh", "disable"}

PoolTypeOK ==
  /\ stored \in Bindings /\ provider \in Nat /\ disabled \in BOOLEAN
  /\ directory \in [current : Managers \union {0}, closed : BOOLEAN, retiring : Managers \union {0}]
  /\ manager \in [Managers -> [binding : Bindings, active : Pools \union {0},
                               retired : BOOLEAN, flight : Flights]]
  /\ pool \in [Pools -> [cfg : Nat, version : Nat, leases : Nat, draining : BOOLEAN,
                         closes : 0..1]]
  /\ client \in [PoolClients -> [phase : ClientPhases, use : Uses, binding : Bindings,
                                 manager : Managers \union {0}, pool : Pools \union {0}]]

FirstBinding == [rev |-> 1, cfg |-> 1, version |-> 1, health |-> "healthy"]
NoFlight == [step |-> "none", does |-> "refresh", from |-> FirstBinding, next |-> FirstBinding,
             version |-> 0, pool |-> 0]
IdleClient == [phase |-> "idle", use |-> "none", binding |-> FirstBinding, manager |-> 0, pool |-> 0]

NewManager(b) == [binding |-> b, active |-> 0, retired |-> FALSE, flight |-> NoFlight]
NewPool(c, v) == [cfg |-> c, version |-> v, leases |-> 0, draining |-> FALSE, closes |-> 0]

(* A target that restarts: a validated binding in the store, no pool in memory. *)
PoolInit ==
  /\ stored = FirstBinding /\ provider = 1 /\ disabled = FALSE
  /\ directory = [current |-> 0, closed |-> FALSE, retiring |-> 0]
  /\ manager = [m \in Managers |-> [NewManager(FirstBinding) EXCEPT !.retired = TRUE]]
  /\ pool = [g \in Pools |-> [NewPool(0, 0) EXCEPT !.closes = 1]]
  /\ client = [p \in PoolClients |-> IdleClient]

(* TargetBinding.MarkValidated, MarkDegraded, Disable, Enable, UpdateConfiguration. *)
MarkValidated(b, v) == [b EXCEPT !.rev = @ + 1, !.version = v, !.health = "healthy"]
MarkDegraded(b) == [b EXCEPT !.rev = @ + 1, !.health = "degraded"]
Disabled(b) == [b EXCEPT !.rev = @ + 1, !.health = "disabled"]
Reset(b) == [b EXCEPT !.rev = @ + 1, !.version = 0, !.health = "pending"]

ClientAt(p, phase) == client[p].phase = phase
Busy(m) == manager[m].flight # NoFlight

(* Identities that nothing refers to (any more) can be given out. *)
UnusedManagers ==
  {m \in Managers : /\ manager[m].retired /\ m # directory.retiring
                    /\ \A p \in PoolClients : client[p].manager # m}
UnusedPools == {g \in Pools : pool[g].closes = 1 /\ \A p \in PoolClients : client[p].pool # g}

(* Defective: a generation is closed as soon as it drains. *)
DrainAndClose(g) ==
  IF g = 0 THEN pool ELSE [pool EXCEPT ![g].draining = TRUE, ![g].closes = @ + 1]

(* markDraining and the Close that follows when nobody holds a lease. *)
Drain(g) ==
  IF g = 0 THEN pool
  ELSE [pool EXCEPT ![g].draining = TRUE,
                    ![g].closes = IF pool[g].leases = 0 THEN @ + 1 ELSE @]

(***************************************************************************)
(* Administration and provider.                                            *)
(***************************************************************************)

(* Administration.UpdateConfiguration and Enable: read, check, Save with the
   revision that was read. *)
UpdateConfiguration ==
  /\ stored.rev < MaxRevision /\ Enabled(stored)
  /\ stored' = [Reset(stored) EXCEPT !.cfg = @ + 1]
  /\ UNCHANGED <<provider, directory, manager, pool, client, disabled>>

Enable ==
  /\ stored.rev < MaxRevision /\ ~Enabled(stored)
  /\ stored' = Reset(stored)
  /\ disabled' = FALSE
  /\ UNCHANGED <<provider, directory, manager, pool, client>>

ProviderRotates ==
  /\ provider < MaxVersion
  /\ provider' = provider + 1
  /\ UNCHANGED <<stored, directory, manager, pool, client, disabled>>

(***************************************************************************)
(* The directory.                                                          *)
(***************************************************************************)

(* A request starts by reading the stored binding; acquisition refuses a
   disabled one (CompatibleEvidence). *)
ReadBinding(p, use) ==
  /\ ClientAt(p, "idle")
  /\ use = "acquire" => Enabled(stored)
  /\ client' = [client EXCEPT ![p] = [IdleClient EXCEPT !.phase = "read", !.use = use, !.binding = stored]]
  /\ UNCHANGED <<stored, provider, directory, manager, pool, disabled>>

ClientFails(p) == client' = [client EXCEPT ![p] = IdleClient]

(* What a client does with the manager the directory gave it. *)
PhaseFor(use) ==
  IF use = "acquire" THEN "pool" ELSE IF use = "refresh" THEN "gate"
  ELSE "disabling"

GotManager(p, m) ==
  client' = [client EXCEPT ![p].manager = m, ![p].phase = PhaseFor(client[p].use)]

DirectoryUnlocked == ~\E q \in PoolClients : ClientAt(q, "retire")

(* Retire the manager of another revision and build one for the caller's. *)
Replace(p, m) ==
  LET old == directory.current IN
  /\ m \in UnusedManagers /\ \A x \in UnusedManagers : m <= x
  /\ directory' = [directory EXCEPT !.current = m]
  /\ manager' = [x \in Managers |->
       IF x = m THEN NewManager(client[p].binding)
       ELSE IF x = old THEN [manager[x] EXCEPT !.retired = TRUE, !.active = 0]
       ELSE manager[x]]
  /\ pool' = IF old = 0 THEN pool ELSE Drain(manager[old].active)
  /\ GotManager(p, m)

(* PoolDirectory.Pool.  The directory stays locked while the old manager's
   flight ends, and the revision is not looked at again afterwards. *)
Pool(p) ==
  /\ ClientAt(p, "read") /\ DirectoryUnlocked
  /\ \/ directory.closed /\ ClientFails(p) /\ UNCHANGED <<directory, manager, pool>>
     \/ /\ directory.current # 0
        /\ manager[directory.current].binding.rev = client[p].binding.rev
        /\ GotManager(p, directory.current)
        /\ UNCHANGED <<directory, manager, pool>>
     \/ /\ directory.current # 0
        /\ manager[directory.current].binding.rev # client[p].binding.rev
        /\ client' = [client EXCEPT ![p].phase = "retire"]
        /\ UNCHANGED <<directory, manager, pool>>
     \/ /\ ~directory.closed /\ directory.current = 0
        /\ \E m \in Managers : Replace(p, m)
  /\ UNCHANGED <<stored, provider, disabled>>

RetireAndBuild(p) ==
  /\ ClientAt(p, "retire") /\ ~Busy(directory.current)
  /\ \E m \in Managers : Replace(p, m)
  /\ UNCHANGED <<stored, provider, disabled>>

(* PoolDirectory.Close, and its Retire of what was there. *)
CloseDirectory ==
  /\ DirectoryUnlocked /\ ~directory.closed
  /\ directory' = [current |-> 0, closed |-> TRUE, retiring |-> directory.current]
  /\ UNCHANGED <<stored, provider, manager, pool, client, disabled>>

CloseRetires ==
  /\ directory.retiring # 0 /\ ~Busy(directory.retiring)
  /\ pool' = Drain(manager[directory.retiring].active)
  /\ manager' = [manager EXCEPT ![directory.retiring].retired = TRUE,
                                ![directory.retiring].active = 0]
  /\ directory' = [directory EXCEPT !.retiring = 0]
  /\ UNCHANGED <<stored, provider, client, disabled>>

(***************************************************************************)
(* Leases.                                                                 *)
(***************************************************************************)

(* The conditions of Lease, apart from staleness. *)
Leasable(m) ==
  ~manager[m].retired /\ Enabled(manager[m].binding) /\ manager[m].active # 0

(* PoolManager.Lease succeeds; the evidence is part of the generation. *)
Lease(p) ==
  LET g == manager[client[p].manager].active IN
  /\ client[p].phase \in {"pool", "leaseAgain"} /\ Leasable(client[p].manager)
  /\ pool' = [pool EXCEPT ![g].leases = @ + 1]
  /\ client' = [client EXCEPT ![p].phase = "leased", ![p].pool = g, ![p].manager = 0]
  /\ UNCHANGED <<stored, provider, directory, manager, disabled>>

(* Lease refuses: nothing to lease, or degraded for too long.  Only a missing
   pool, and only the first time, sends AcquireValidated to a refresh. *)
LeaseRefused(p) ==
  LET m == client[p].manager IN
  /\ client[p].phase \in {"pool", "leaseAgain"}
  /\ \/ /\ ~Leasable(m) \/ manager[m].binding.health = "degraded"
        /\ ClientFails(p)
     \/ /\ ClientAt(p, "pool")
        /\ ~manager[m].retired /\ Enabled(manager[m].binding) /\ manager[m].active = 0
        /\ client' = [client EXCEPT ![p].phase = "gate"]
  /\ UNCHANGED <<stored, provider, directory, manager, pool, disabled>>

(* PoolLease.Release. *)
Release(p) ==
  LET g == client[p].pool IN
  /\ ClientAt(p, "leased")
  /\ pool' = [pool EXCEPT ![g].leases = @ - 1,
                          ![g].closes = IF pool[g].draining /\ pool[g].leases = 1 THEN @ + 1 ELSE @]
  /\ ClientFails(p)
  /\ UNCHANGED <<stored, provider, directory, manager, disabled>>

(***************************************************************************)
(* Flights: refresh and Disable, under refreshMu.                          *)
(***************************************************************************)

(* boundedAdministrationPool.Refresh: a place in the gate, then the flight of
   the manager, a new one or the one under way; or the timeout. *)
Refresh(p) ==
  LET m == client[p].manager IN
  /\ ClientAt(p, "gate")
  /\ Cardinality({q \in PoolClients : ClientAt(q, "refresh")}) < MaxConcurrent
  /\ \/ /\ Busy(m) /\ manager[m].flight.does # "disable"
        /\ client' = [client EXCEPT ![p].phase = "refresh"]
        /\ UNCHANGED manager
     \/ /\ ~Busy(m) /\ (manager[m].retired \/ ~Enabled(manager[m].binding))
        /\ ClientFails(p)
        /\ UNCHANGED manager
     \/ /\ ~Busy(m) /\ ~manager[m].retired /\ Enabled(manager[m].binding)
        /\ manager' = [manager EXCEPT ![m].flight =
             [NoFlight EXCEPT !.step = "resolve", !.from = manager[m].binding]]
        /\ client' = [client EXCEPT ![p].phase = "refresh"]
  /\ UNCHANGED <<stored, provider, directory, pool, disabled>>

GateTimesOut(p) ==
  /\ ClientAt(p, "gate")
  /\ ClientFails(p)
  /\ UNCHANGED <<stored, provider, directory, manager, pool, disabled>>

(* PoolManager.Disable up to its Save. *)
Disable(p) ==
  LET m == client[p].manager IN
  /\ ClientAt(p, "disabling") /\ ~Busy(m)
  /\ \/ /\ manager[m].retired \/ ~Enabled(manager[m].binding)
        /\ ClientFails(p)
        /\ UNCHANGED manager
     \/ /\ ~manager[m].retired /\ Enabled(manager[m].binding)
        /\ manager' = [manager EXCEPT ![m].flight =
             [NoFlight EXCEPT !.step = "save", !.does = "disable", !.from = manager[m].binding,
                              !.next = Disabled(manager[m].binding)]]
        /\ UNCHANGED client
  /\ UNCHANGED <<stored, provider, directory, pool, disabled>>

(* The flight of m is over: Refresh or Disable returns, to all that joined. *)
Land(m, ok) ==
  client' = [p \in PoolClients |->
    IF client[p].manager # m \/ client[p].phase \notin {"refresh", "disabling"}
         \/ (ClientAt(p, "disabling") /\ manager[m].flight.does # "disable")
      THEN client[p]
      ELSE IF ok /\ client[p].use = "acquire" THEN [client[p] EXCEPT !.phase = "leaseAgain"]
      ELSE IdleClient]

Fails(m) ==
  /\ Land(m, FALSE)
  /\ manager' = [manager EXCEPT ![m].flight = NoFlight]

(* degrade: the reason is saved unless it is the one already recorded. *)
Degrade(m) ==
  \/ /\ manager' = [manager EXCEPT ![m].flight.step = "save", ![m].flight.does = "degrade",
                                    ![m].flight.next = MarkDegraded(manager[m].binding)]
     /\ UNCHANGED client
  \/ manager[m].binding.health = "degraded" /\ Fails(m)

(* resolver.Resolve returns the provider's version, or fails. *)
Resolve(m) ==
  LET active == manager[m].active
      same == active # 0 /\ pool[active].version = provider IN
  /\ manager[m].flight.step = "resolve"
  /\ \/ Fails(m)
     \/ Degrade(m)
     \/ /\ same
        /\ manager' = [manager EXCEPT ![m].flight.step = "save", ![m].flight.does = "unchanged",
                         ![m].flight.next = MarkValidated(manager[m].flight.from, provider)]
        /\ UNCHANGED client
     \/ /\ ~same
        /\ manager' = [manager EXCEPT ![m].flight.step = "prepare", ![m].flight.version = provider]
        /\ UNCHANGED client
  /\ UNCHANGED <<stored, provider, directory, pool, disabled>>

(* factory.Prepare and HealthCheck; a pool that is not healthy is closed. *)
Prepare(m) ==
  LET f == manager[m].flight IN
  /\ f.step = "prepare"
  /\ \/ Degrade(m) /\ UNCHANGED pool
     \/ \E g \in UnusedPools :
          /\ \A x \in UnusedPools : g <= x
          /\ pool' = [pool EXCEPT ![g] = NewPool(f.from.cfg, f.version)]
          /\ manager' = [manager EXCEPT ![m].flight =
               [f EXCEPT !.step = "save", !.does = "activate", !.pool = g,
                         !.next = MarkValidated(f.from, f.version)]]
          /\ UNCHANGED client
  /\ UNCHANGED <<stored, provider, directory, disabled>>

(* A replacement that is not installed is closed. *)
Discard(g) == IF g = 0 THEN pool ELSE [pool EXCEPT ![g].closes = @ + 1]

(* Defective: the row is updated whatever its revision. *)
SaveUnconditionally(m) ==
  LET f == manager[m].flight IN
  /\ f.step = "save" /\ stored.rev < MaxRevision
  /\ stored' = f.next
  /\ manager' = [manager EXCEPT ![m].flight.step = "install"]
  /\ UNCHANGED <<client, pool, provider, directory, disabled>>

(* store.Save updates the row of the expected revision, or fails. *)
Save(m) ==
  LET f == manager[m].flight IN
  /\ f.step = "save"
  /\ \/ /\ stored.rev = f.from.rev /\ stored.rev < MaxRevision
        /\ stored' = f.next
        /\ manager' = [manager EXCEPT ![m].flight.step = "install"]
        /\ UNCHANGED <<client, pool>>
     \/ /\ Fails(m)
        /\ pool' = Discard(f.pool)
        /\ UNCHANGED stored
  /\ UNCHANGED <<provider, directory, disabled>>

(* The saved binding and, on a rotation, the replacement become the manager's. *)
Install(m) ==
  LET f == manager[m].flight
      mine == manager[m].binding.rev = f.from.rev
      rotates == f.does = "activate" /\ Enabled(manager[m].binding) /\ mine IN
  /\ f.step = "install"
  /\ manager' = [manager EXCEPT
       ![m].flight = NoFlight,
       ![m].binding = IF mine \/ f.does = "disable" THEN f.next ELSE @,
       ![m].active = IF rotates THEN f.pool ELSE IF f.does = "disable" THEN 0 ELSE @]
  /\ pool' = IF rotates \/ f.does = "disable" THEN Drain(manager[m].active) ELSE Discard(f.pool)
  /\ Land(m, rotates \/ f.does \in {"unchanged", "disable"})
  /\ disabled' = (disabled \/ (f.does = "disable" /\ stored = f.next))
  /\ UNCHANGED <<stored, provider, directory>>

ClientStep(p) ==
  \/ Pool(p) \/ RetireAndBuild(p) \/ Lease(p) \/ LeaseRefused(p)
  \/ Refresh(p) \/ GateTimesOut(p) \/ Disable(p)

FlightStep(m) == Resolve(m) \/ Prepare(m) \/ Save(m) \/ Install(m)

PoolNext ==
  \/ \E p \in PoolClients :
       \/ ClientStep(p) \/ Release(p)
       \/ \E use \in Uses \ {"none"} : ReadBinding(p, use)
  \/ \E m \in Managers : FlightStep(m)
  \/ UpdateConfiguration \/ Enable \/ ProviderRotates \/ CloseDirectory \/ CloseRetires

(* A call goes on, and the calls to the provider, the pool factory and the
   store return: each runs under the refresh timeout.  Go's mutexes do not
   starve a waiter, hence strong fairness for the steps that lock one. *)
PoolFairness ==
  /\ \A p \in PoolClients : SF_poolVars(ClientStep(p))
  /\ \A m \in Managers : WF_poolVars(FlightStep(m))

PoolSafety == PoolInit /\ [][PoolNext]_poolVars
PoolSpec == PoolSafety /\ PoolFairness

(***************************************************************************)
(* Properties.                                                             *)
(***************************************************************************)

(* A generation that somebody leases, or that its manager would lease out, is
   open, and the count decides it: it is the number of outstanding leases. *)
LeasedPoolsOpen ==
  /\ \A g \in Pools :
       /\ pool[g].leases = Cardinality({p \in PoolClients : client[p].pool = g})
       /\ pool[g].leases > 0 => pool[g].closes = 0
  /\ \A m \in Managers : manager[m].active # 0 => pool[manager[m].active].closes = 0

(* No pool is forgotten: one that is open is leased, or active in a manager
   that the directory still answers for, or the replacement of a flight. *)
NoPoolForgotten ==
  \A g \in Pools : pool[g].closes = 0 =>
    \/ pool[g].leases > 0
    \/ \E m \in Managers :
         \/ manager[m].active = g /\ m \in {directory.current, directory.retiring}
         \/ manager[m].flight.pool = g

(* New work never leases a generation prepared from another configuration
   than the one the work was admitted with, however far the binding, the
   directory and the managers have moved since it was read. *)
LeaseMatchesBinding ==
  \A p \in PoolClients : ClientAt(p, "leased") =>
    pool[client[p].pool].cfg = client[p].binding.cfg

(* After Disable has returned, no lease is granted until the binding is
   enabled again, also not to a client that read it before. *)
DisabledGrantsNothing ==
  disabled => \A p \in PoolClients :
                client[p].phase \in {"pool", "leaseAgain"} => ~Leasable(client[p].manager)

(* The types, and what is open, leased and leasable at any moment. *)
PoolConsistent ==
  PoolTypeOK /\ NoPoolForgotten /\ LeaseMatchesBinding /\ DisabledGrantsNothing

(* No manager is ahead of the store; one at the stored revision holds the
   stored binding; and a healthy one serves the version it was validated with. *)
PoolsFollowStore ==
  \A m \in Managers : ~manager[m].retired =>
    /\ manager[m].binding.rev <= stored.rev
    /\ manager[m].binding.rev = stored.rev => manager[m].binding = stored
    /\ manager[m].active # 0 /\ manager[m].binding.health = "healthy"
         => pool[manager[m].active].version = manager[m].binding.version

(* Every call on the connection returns: neither the directory's lock, held
   while a flight ends, nor a shared flight nor the gate blocks one for ever. *)
PoolCallsReturn ==
  \A p \in PoolClients : client[p].phase \notin {"idle", "leased"}
                            ~> client[p].phase \in {"idle", "leased"}
=============================================================================
