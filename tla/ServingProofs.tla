---------------------------- MODULE ServingProofs ----------------------------
(***************************************************************************)
(* Machine-checked facts about the components that serve dashboards: the   *)
(* pools of a target connection, for any clients, managers, generations    *)
(* and bounds, and the page stream of a dashboard, for any handlers and    *)
(* any number of requests and attempts.                                    *)
(***************************************************************************)
EXTENDS DashboardStream, ConnectionPools,
        FiniteSetTheorems, NaturalsInduction, WellFoundedInduction, TLAPS

-----------------------------------------------------------------------------
(* Connection pools: the inductive invariant                               *)

ManagerRows == [binding : Bindings, active : Pools \union {0}, retired : BOOLEAN, flight : Flights]
PoolRows == [cfg : Nat, version : Nat, leases : Nat, draining : BOOLEAN, closes : 0..1]
ClientRows == [phase : ClientPhases, use : Uses, binding : Bindings,
               manager : Managers \union {0}, pool : Pools \union {0}]
Directories == [current : Managers \union {0}, closed : BOOLEAN, retiring : Managers \union {0}]

(* The phases in which a client works with the manager it was given. *)
ManagerPhases == {"pool", "gate", "refresh", "leaseAgain", "disabling"}

(* A client has a manager or a lease exactly in the phases that use one, and
   its manager was made for the configuration that it read. *)
ClientOK(p) ==
  /\ client[p].phase \in ManagerPhases <=> client[p].manager # 0
  /\ client[p].phase = "leased" <=> client[p].pool # 0
  /\ client[p].manager # 0 => manager[client[p].manager].binding.cfg = client[p].binding.cfg

(* The managers that are not retired are the directory's: the current one, or
   the one that Close still retires.  One client at a time holds the
   directory's lock while it waits for a flight. *)
DirectoryOK ==
  /\ \A m \in Managers : ~manager[m].retired <=> m \in {directory.current, directory.retiring}
  /\ directory.closed => directory.current = 0
  /\ directory.retiring # 0 => directory.closed
  /\ \A p \in PoolClients : ClientAt(p, "retire") => directory.current # 0
  /\ \A p, q \in PoolClients : ClientAt(p, "retire") /\ ClientAt(q, "retire") => p = q

(* What a flight of m has decided: the binding it began with is still the
   manager's, and the one it saves is its successor and describes the pool that
   will serve. *)
FlightOK(m) ==
  LET f == manager[m].flight IN
  /\ f.step = "none" => f = NoFlight
  /\ manager[m].retired => f.step = "none" /\ manager[m].active = 0
  /\ f.step # "none" => f.from = manager[m].binding /\ Enabled(f.from)
  /\ f.step \in {"resolve", "prepare"} => f.pool = 0
  /\ f.step \in {"save", "install"} =>
       /\ f.next.rev = f.from.rev + 1 /\ f.next.cfg = f.from.cfg
       /\ f.does # "refresh" /\ (f.pool # 0 <=> f.does = "activate")
       /\ f.does = "disable" => f.next.health = "disabled"
       /\ f.does = "degrade" => f.next.health = "degraded"
       /\ f.does = "unchanged" => /\ manager[m].active # 0
                                  /\ f.next.version = pool[manager[m].active].version
       /\ f.does = "activate" => /\ f.next.version = pool[f.pool].version
                                 /\ pool[f.pool].cfg = f.from.cfg

(* What m serves, and what its flight has prepared, is open. *)
OwnedOK(m) ==
  LET a == manager[m].active
      g == manager[m].flight.pool IN
  /\ a # 0 => /\ pool[a].closes = 0 /\ ~pool[a].draining
              /\ pool[a].cfg = manager[m].binding.cfg
              /\ manager[m].binding.health = "healthy"
                   => pool[a].version = manager[m].binding.version
  /\ g # 0 => pool[g].closes = 0 /\ ~pool[g].draining /\ pool[g].leases = 0 /\ g # a

Owns(m, g) == manager[m].active = g \/ manager[m].flight.pool = g

(* An open generation that does not drain has an owner, one that drains has a
   lease, and a leased one is open. *)
PoolOK(g) ==
  /\ pool[g].closes = 0 /\ ~pool[g].draining => \E m \in Managers : Owns(m, g)
  /\ pool[g].closes = 0 /\ pool[g].draining => pool[g].leases > 0
  /\ pool[g].leases > 0 => pool[g].closes = 0

LeaseHolders(g) == {p \in PoolClients : client[p].pool = g}

(* The count of a generation is the number of its lease holders. *)
LeasesOK ==
  \A g \in Pools : /\ IsFiniteSet(LeaseHolders(g))
                   /\ pool[g].leases = Cardinality(LeaseHolders(g))

(* The bindings somebody works with: the stored one, those the clients have
   read, those of the managers in service and those their flights have saved. *)
Known(b) ==
  \/ b = stored
  \/ \E p \in PoolClients : client[p].phase # "idle" /\ client[p].binding = b
  \/ \E m \in Managers :
       /\ ~manager[m].retired
       /\ \/ manager[m].binding = b
          \/ manager[m].flight.step = "install" /\ manager[m].flight.next = b

(* No known binding is ahead of the store, and a revision names one binding. *)
KnownOK ==
  /\ \A b \in Bindings : Known(b) => b.rev <= stored.rev
  /\ \A a, b \in Bindings : Known(a) /\ Known(b) /\ a.rev = b.rev => a = b

(* While the connection is disabled no manager serves or is about to. *)
DisabledOK ==
  disabled => /\ ~Enabled(stored)
              /\ \A m \in Managers : manager[m].active = 0 /\ manager[m].flight.step # "install"

PoolsInv ==
  /\ PoolTypeOK
  /\ \A p \in PoolClients : ClientOK(p)
  /\ DirectoryOK
  /\ \A m \in Managers : FlightOK(m)
  /\ \A m \in Managers : OwnedOK(m)
  /\ \A g \in Pools : PoolOK(g)
  /\ LeasesOK
  /\ LeaseMatchesBinding
  /\ KnownOK
  /\ DisabledOK

-----------------------------------------------------------------------------
(* Frames                                                                  *)

LEMMA PoolTypes ==
  PoolTypeOK <=> /\ stored \in Bindings /\ provider \in Nat /\ disabled \in BOOLEAN
                 /\ directory \in Directories
                 /\ manager \in [Managers -> ManagerRows]
                 /\ pool \in [Pools -> PoolRows]
                 /\ client \in [PoolClients -> ClientRows]
BY DEF PoolTypeOK, ManagerRows, PoolRows, ClientRows, Directories

LEMMA PoolTypesNext ==
  PoolTypeOK' <=> /\ stored' \in Bindings /\ provider' \in Nat /\ disabled' \in BOOLEAN
                  /\ directory' \in Directories
                  /\ manager' \in [Managers -> ManagerRows]
                  /\ pool' \in [Pools -> PoolRows]
                  /\ client' \in [PoolClients -> ClientRows]
BY DEF PoolTypeOK, ManagerRows, PoolRows, ClientRows, Directories

LEMMA ZeroIsNobody == 0 \notin Managers /\ 0 \notin Pools
BY PoolsAssumption

(* At most one manager is in service. *)
LEMMA OneServes ==
  ASSUME DirectoryOK, directory \in Directories, NEW m \in Managers, NEW n \in Managers,
         ~manager[m].retired, ~manager[n].retired
  PROVE  m = n
<1>1. m \in {directory.current, directory.retiring} /\ n \in {directory.current, directory.retiring}
  BY DEF DirectoryOK
<1>2. directory.current = 0 \/ directory.retiring = 0
  BY DEF DirectoryOK
<1> QED
  BY <1>1, <1>2, ZeroIsNobody

(* The known bindings stay consistent when the new ones are the stored one, and
   the stored one stays or advances. *)
LEMMA KnownKept ==
  ASSUME KnownOK, stored \in Bindings, stored' \in Bindings,
         stored' = stored \/ stored'.rev > stored.rev,
         \A b \in Bindings : Known(b)' => Known(b) \/ b = stored'
  PROVE  KnownOK'
<1>1. \A b \in Bindings : b.rev \in Nat
  BY DEF Bindings
<1>2. Known(stored)
  BY DEF Known
<1>3. \A b \in Bindings : Known(b)' => b.rev <= stored'.rev
  BY <1>1 DEF KnownOK
<1>4. ASSUME NEW a \in Bindings, NEW b \in Bindings, Known(a)', Known(b)', a.rev = b.rev
      PROVE  a = b
  <2>1. CASE Known(a) /\ Known(b)
    BY <1>4, <2>1 DEF KnownOK
  <2>2. CASE stored' = stored
    BY <1>2, <1>4, <2>2 DEF KnownOK
  <2>3. CASE stored'.rev > stored.rev /\ ~(Known(a) /\ Known(b))
    <3>1. a = stored' \/ b = stored'
      BY <1>4, <2>3
    <3>2. a.rev = stored'.rev /\ b.rev = stored'.rev
      BY <1>4, <3>1
    <3>3. ~(a.rev <= stored.rev) /\ ~(b.rev <= stored.rev)
      BY <1>1, <2>3, <3>2
    <3> QED
      BY <1>4, <3>3 DEF KnownOK
  <2> QED
    BY <2>1, <2>2, <2>3
<1> QED
  BY <1>3, <1>4 DEF KnownOK

(* Nothing changes for the counts when nobody begins or ends a lease. *)
LEMMA HoldersKept ==
  ASSUME \A p \in PoolClients : client'[p].pool = client[p].pool
  PROVE  \A g \in Pools : LeaseHolders(g)' = LeaseHolders(g)
BY DEF LeaseHolders

(* Clients whose call ends, or goes on with the same manager. *)
ClientsQuiet ==
  /\ client' \in [PoolClients -> ClientRows]
  /\ \A p \in PoolClients :
       \/ client'[p] = client[p]
       \/ client[p].phase \in ManagerPhases /\ client'[p] = IdleClient
       \/ /\ client[p].phase \in ManagerPhases /\ client'[p].phase \in ManagerPhases
          /\ client'[p].manager = client[p].manager /\ client'[p].pool = client[p].pool
          /\ client'[p].binding = client[p].binding

LEMMA IdleIsARow ==
  /\ IdleClient \in ClientRows
  /\ IdleClient.phase = "idle" /\ IdleClient.manager = 0 /\ IdleClient.pool = 0
BY DEF IdleClient, ClientRows, ClientPhases, Uses, Bindings, FirstBinding

LEMMA QuietClients ==
  ASSUME client \in [PoolClients -> ClientRows], \A p \in PoolClients : ClientOK(p), ClientsQuiet,
         \A m \in Managers : manager'[m].binding.cfg = manager[m].binding.cfg
  PROVE  \A p \in PoolClients :
           /\ ClientOK(p)'
           /\ client'[p].pool = client[p].pool
           /\ client'[p].phase # "idle" => /\ client[p].phase # "idle"
                                           /\ client'[p].binding = client[p].binding
           /\ ClientAt(p, "retire")' <=> ClientAt(p, "retire")
           /\ ClientAt(p, "leased")' <=> ClientAt(p, "leased")
           /\ ClientAt(p, "leased") => client'[p] = client[p]
<1> TAKE p \in PoolClients
<1>1. ClientOK(p) /\ client[p] \in ClientRows
  OBVIOUS
<1>2. client[p].manager \in Managers \union {0}
  BY <1>1 DEF ClientRows
<1>3. CASE client'[p] = client[p]
  BY <1>1, <1>2, <1>3 DEF ClientOK, ClientAt
<1>4. CASE client[p].phase \in ManagerPhases /\ client'[p] = IdleClient
  BY <1>1, <1>4, IdleIsARow DEF ClientOK, ClientAt, ManagerPhases
<1>5. CASE /\ client[p].phase \in ManagerPhases /\ client'[p].phase \in ManagerPhases
           /\ client'[p].manager = client[p].manager /\ client'[p].pool = client[p].pool
           /\ client'[p].binding = client[p].binding
  BY <1>1, <1>2, <1>5 DEF ClientOK, ClientAt, ManagerPhases
<1> QED
  BY <1>3, <1>4, <1>5 DEF ClientsQuiet

-----------------------------------------------------------------------------
(* Steps that change one component                                         *)

(* One client goes to record c, and nothing else changes. *)
LEMMA ClientMoves ==
  ASSUME PoolsInv, NEW p \in PoolClients, NEW c \in ClientRows,
         client' = [client EXCEPT ![p] = c],
         UNCHANGED <<stored, provider, directory, manager, pool, disabled>>,
         ~ClientAt(p, "leased"), c.phase # "leased", c.pool = 0,
         c.phase \in ManagerPhases <=> c.manager # 0,
         c.manager # 0 => manager[c.manager].binding.cfg = c.binding.cfg,
         c.phase # "idle" => Known(c.binding),
         c.phase = "retire" => directory.current # 0 /\ DirectoryUnlocked
  PROVE  PoolsInv'
<1>1. /\ client \in [PoolClients -> ClientRows] /\ stored \in Bindings
      /\ client' \in [PoolClients -> ClientRows]
      /\ client'[p] = c /\ \A q \in PoolClients \ {p} : client'[q] = client[q]
  BY PoolTypes DEF PoolsInv
<1>2. PoolTypeOK'
  BY <1>1, PoolTypes, PoolTypesNext DEF PoolsInv
<1>3. \A q \in PoolClients : ClientOK(q)'
  BY <1>1 DEF PoolsInv, ClientOK, ManagerPhases
<1>4. \A q \in PoolClients : client'[q].pool = client[q].pool
  BY <1>1 DEF PoolsInv, ClientOK, ClientAt
<1>5. DirectoryOK'
  BY <1>1 DEF PoolsInv, DirectoryOK, ClientAt, DirectoryUnlocked
<1>6. (\A m \in Managers : FlightOK(m)') /\ (\A m \in Managers : OwnedOK(m)')
  BY DEF PoolsInv, FlightOK, OwnedOK
<1>7. \A g \in Pools : PoolOK(g)'
  BY DEF PoolsInv, PoolOK, Owns
<1>8. LeasesOK'
  BY <1>4, HoldersKept DEF PoolsInv, LeasesOK
<1>9. LeaseMatchesBinding'
  BY <1>1 DEF PoolsInv, LeaseMatchesBinding, ClientAt
<1>10. KnownOK'
  <2>1. \A b \in Bindings : Known(b)' => Known(b)
    BY <1>1 DEF Known
  <2> QED
    BY <1>1, <2>1, KnownKept DEF PoolsInv
<1>11. DisabledOK'
  BY DEF PoolsInv, DisabledOK
<1> QED
  BY <1>2, <1>3, <1>5, <1>6, <1>7, <1>8, <1>9, <1>10, <1>11 DEF PoolsInv

(* The stored binding gets its next revision. *)
LEMMA StoreMoves ==
  ASSUME PoolsInv, stored' \in Bindings, stored'.rev > stored.rev,
         UNCHANGED <<provider, directory, manager, pool, client>>,
         disabled' = FALSE \/ (disabled' = disabled /\ Enabled(stored))
  PROVE  PoolsInv'
<1>1. PoolTypeOK'
  BY PoolTypes, PoolTypesNext DEF PoolsInv
<1>2. (\A p \in PoolClients : ClientOK(p)') /\ DirectoryOK'
  BY DEF PoolsInv, ClientOK, DirectoryOK, ClientAt
<1>3. (\A m \in Managers : FlightOK(m)') /\ (\A m \in Managers : OwnedOK(m)')
  BY DEF PoolsInv, FlightOK, OwnedOK
<1>4. (\A g \in Pools : PoolOK(g)') /\ LeasesOK' /\ LeaseMatchesBinding'
  BY HoldersKept DEF PoolsInv, PoolOK, Owns, LeasesOK, LeaseMatchesBinding, ClientAt
<1>5. KnownOK'
  <2>1. \A b \in Bindings : Known(b)' => Known(b) \/ b = stored'
    BY DEF Known
  <2>2. stored \in Bindings
    BY PoolTypes DEF PoolsInv
  <2> QED
    BY <2>1, <2>2, KnownKept DEF PoolsInv
<1>6. DisabledOK'
  BY DEF PoolsInv, DisabledOK
<1> QED
  BY <1>1, <1>2, <1>3, <1>4, <1>5, <1>6 DEF PoolsInv

(* The flight of a manager in service goes on, ends, or begins, without saving
   a binding and without a replacement. *)
LEMMA FlightMoves ==
  ASSUME PoolsInv, NEW m \in Managers, NEW f \in Flights,
         manager' = [manager EXCEPT ![m].flight = f], ClientsQuiet,
         UNCHANGED <<stored, provider, directory, pool, disabled>>,
         ~manager[m].retired, manager[m].flight.pool = 0, f.pool = 0, f.step # "install",
         f.step = "none" => f = NoFlight,
         f.step # "none" => f.from = manager[m].binding /\ Enabled(f.from),
         f.step = "save" =>
           /\ f.next.rev = f.from.rev + 1 /\ f.next.cfg = f.from.cfg
           /\ f.does \notin {"refresh", "activate"}
           /\ f.does = "disable" => f.next.health = "disabled"
           /\ f.does = "degrade" => f.next.health = "degraded"
           /\ f.does = "unchanged" => /\ manager[m].active # 0
                                      /\ f.next.version = pool[manager[m].active].version
  PROVE  PoolsInv'
<1>1. /\ client \in [PoolClients -> ClientRows] /\ stored \in Bindings
      /\ manager \in [Managers -> ManagerRows]
      /\ client' \in [PoolClients -> ClientRows]
  BY PoolTypes DEF PoolsInv, ClientsQuiet
<1>2. /\ manager' \in [Managers -> ManagerRows]
      /\ manager'[m].flight = f
      /\ \A n \in Managers : /\ manager'[n].binding = manager[n].binding
                             /\ manager'[n].active = manager[n].active
                             /\ manager'[n].retired = manager[n].retired
      /\ \A n \in Managers \ {m} : manager'[n] = manager[n]
  BY <1>1 DEF ManagerRows
<1>3. PoolTypeOK'
  BY <1>1, <1>2, PoolTypes, PoolTypesNext DEF PoolsInv
<1>4. \A p \in PoolClients :
        /\ ClientOK(p)'
        /\ client'[p].pool = client[p].pool
        /\ client'[p].phase # "idle" => /\ client[p].phase # "idle"
                                        /\ client'[p].binding = client[p].binding
        /\ ClientAt(p, "retire")' <=> ClientAt(p, "retire")
        /\ ClientAt(p, "leased")' <=> ClientAt(p, "leased")
        /\ ClientAt(p, "leased") => client'[p] = client[p]
  BY <1>1, <1>2, QuietClients DEF PoolsInv
<1>5. DirectoryOK'
  BY <1>2, <1>4 DEF PoolsInv, DirectoryOK
<1>6. ASSUME NEW n \in Managers PROVE FlightOK(n)' /\ OwnedOK(n)'
  <2>1. FlightOK(n) /\ OwnedOK(n)
    BY DEF PoolsInv
  <2>2. CASE n # m
    BY <1>2, <2>1, <2>2 DEF FlightOK, OwnedOK
  <2>3. CASE n = m
    <3>1. FlightOK(n)'
      BY <1>2, <2>1, <2>3 DEF FlightOK
    <3>2. OwnedOK(n)'
      BY <1>2, <2>1, <2>3 DEF OwnedOK
    <3> QED
      BY <3>1, <3>2
  <2> QED
    BY <2>2, <2>3
<1>7. \A g \in Pools : PoolOK(g)'
  <2>1. \A n \in Managers, g \in Pools : Owns(n, g) => Owns(n, g)'
    BY <1>2, ZeroIsNobody DEF Owns
  <2> QED
    BY <2>1 DEF PoolsInv, PoolOK
<1>8. LeasesOK'
  BY <1>4, HoldersKept DEF PoolsInv, LeasesOK
<1>9. LeaseMatchesBinding'
  BY <1>4 DEF PoolsInv, LeaseMatchesBinding
<1>10. KnownOK'
  <2>1. \A b \in Bindings : Known(b)' => Known(b)
    BY <1>2, <1>4 DEF Known
  <2> QED
    BY <1>1, <2>1, KnownKept DEF PoolsInv
<1>11. DisabledOK'
  BY <1>2 DEF PoolsInv, DisabledOK
<1> QED
  BY <1>3, <1>4, <1>5, <1>6, <1>7, <1>8, <1>9, <1>10, <1>11 DEF PoolsInv

-----------------------------------------------------------------------------
(* The store and the directory                                             *)

(* A successor of a binding has the next revision and, unless the configuration
   is updated, its configuration. *)
LEMMA Successors ==
  ASSUME NEW b \in Bindings, NEW v \in Nat
  PROVE  /\ \A n \in {MarkValidated(b, v), MarkDegraded(b), Disabled(b), Reset(b)} :
              n \in Bindings /\ n.rev = b.rev + 1 /\ n.cfg = b.cfg
         /\ [Reset(b) EXCEPT !.cfg = @ + 1] \in Bindings
         /\ [Reset(b) EXCEPT !.cfg = @ + 1].rev = b.rev + 1
         /\ MarkValidated(b, v).health = "healthy" /\ MarkValidated(b, v).version = v
         /\ MarkDegraded(b).health = "degraded" /\ Disabled(b).health = "disabled"
<1>1. b.rev + 1 \in Nat /\ b.cfg + 1 \in Nat
  BY DEF Bindings
<1>2. /\ MarkValidated(b, v) \in Bindings /\ MarkValidated(b, v).rev = b.rev + 1
      /\ MarkValidated(b, v).cfg = b.cfg /\ MarkValidated(b, v).health = "healthy"
      /\ MarkValidated(b, v).version = v
  BY <1>1 DEF MarkValidated, Bindings
<1>3. /\ MarkDegraded(b) \in Bindings /\ MarkDegraded(b).rev = b.rev + 1
      /\ MarkDegraded(b).cfg = b.cfg /\ MarkDegraded(b).health = "degraded"
  BY <1>1 DEF MarkDegraded, Bindings
<1>4. /\ Disabled(b) \in Bindings /\ Disabled(b).rev = b.rev + 1
      /\ Disabled(b).cfg = b.cfg /\ Disabled(b).health = "disabled"
  BY <1>1 DEF Disabled, Bindings
<1>5. Reset(b) \in Bindings /\ Reset(b).rev = b.rev + 1 /\ Reset(b).cfg = b.cfg
  BY <1>1 DEF Reset, Bindings
<1>6. /\ [Reset(b) EXCEPT !.cfg = @ + 1] \in Bindings
      /\ [Reset(b) EXCEPT !.cfg = @ + 1].rev = b.rev + 1
  BY <1>1, <1>5 DEF Bindings
<1> QED
  BY <1>2, <1>3, <1>4, <1>5, <1>6

LEMMA StoreSteps ==
  ASSUME PoolsInv, UpdateConfiguration \/ Enable
  PROVE  PoolsInv'
<1>1. stored \in Bindings
  BY PoolTypes DEF PoolsInv
<1>2. CASE UpdateConfiguration
  <2>1. stored' \in Bindings /\ stored'.rev > stored.rev
    <3>1. stored' \in Bindings /\ stored'.rev = stored.rev + 1
      BY <1>1, <1>2, Successors, 0 \in Nat DEF UpdateConfiguration
    <3>2. stored.rev \in Nat
      BY <1>1 DEF Bindings
    <3> QED
      BY <3>1, <3>2
  <2> QED
    BY <1>2, <2>1, StoreMoves DEF UpdateConfiguration
<1>3. CASE Enable
  <2>1. stored' \in Bindings /\ stored'.rev > stored.rev
    <3>1. stored' \in Bindings /\ stored'.rev = stored.rev + 1
      BY <1>1, <1>3, Successors, 0 \in Nat DEF Enable
    <3>2. stored.rev \in Nat
      BY <1>1 DEF Bindings
    <3> QED
      BY <3>1, <3>2
  <2> QED
    BY <1>3, <2>1, StoreMoves DEF Enable
<1> QED
  BY <1>2, <1>3

LEMMA ProviderSteps ==
  ASSUME PoolsInv, ProviderRotates
  PROVE  PoolsInv'
<1>1. provider' \in Nat /\ UNCHANGED <<stored, directory, manager, pool, client, disabled>>
  BY PoolTypes DEF PoolsInv, ProviderRotates
<1>2. PoolTypeOK'
  BY <1>1, PoolTypes, PoolTypesNext DEF PoolsInv
<1>3. (\A p \in PoolClients : ClientOK(p)') /\ DirectoryOK'
  BY <1>1 DEF PoolsInv, ClientOK, DirectoryOK, ClientAt
<1>4. (\A m \in Managers : FlightOK(m)') /\ (\A m \in Managers : OwnedOK(m)')
  BY <1>1 DEF PoolsInv, FlightOK, OwnedOK
<1>5. (\A g \in Pools : PoolOK(g)') /\ LeasesOK' /\ LeaseMatchesBinding'
  BY <1>1, HoldersKept DEF PoolsInv, PoolOK, Owns, LeasesOK, LeaseMatchesBinding, ClientAt
<1>6. KnownOK' /\ DisabledOK'
  BY <1>1 DEF PoolsInv, KnownOK, Known, DisabledOK
<1> QED
  BY <1>2, <1>3, <1>4, <1>5, <1>6 DEF PoolsInv

LEMMA ReadBindingKeeps ==
  ASSUME PoolsInv, NEW p \in PoolClients, NEW use \in Uses \ {"none"}, ReadBinding(p, use)
  PROVE  PoolsInv'
<1> DEFINE c == [IdleClient EXCEPT !.phase = "read", !.use = use, !.binding = stored]
<1>1. stored \in Bindings
  BY PoolTypes DEF PoolsInv
<1>2. c \in ClientRows
  BY <1>1, IdleIsARow DEF ClientRows, ClientPhases
<1>3. c.phase = "read" /\ c.pool = 0 /\ c.manager = 0 /\ c.binding = stored
  BY IdleIsARow DEF ClientRows
<1>4. client' = [client EXCEPT ![p] = c] /\ ~ClientAt(p, "leased")
      /\ UNCHANGED <<stored, provider, directory, manager, pool, disabled>>
  BY DEF ReadBinding, ClientAt
<1>5. Known(c.binding)
  BY <1>3 DEF Known
<1>6. c.phase \notin ManagerPhases
  BY <1>3 DEF ManagerPhases
<1> HIDE DEF c
<1> QED
  BY <1>2, <1>3, <1>4, <1>5, <1>6, ClientMoves

(* A client whose call fails. *)
LEMMA FailingKeeps ==
  ASSUME PoolsInv, NEW p \in PoolClients, ClientFails(p), ~ClientAt(p, "leased"),
         UNCHANGED <<stored, provider, directory, manager, pool, disabled>>
  PROVE  PoolsInv'
<1>1. IdleClient.phase \notin ManagerPhases
  BY IdleIsARow DEF ManagerPhases
<1> QED
  BY <1>1, IdleIsARow, ClientMoves DEF ClientFails

(* A client that goes to another phase with what it has. *)
LEMMA PhaseKeeps ==
  ASSUME PoolsInv, NEW p \in PoolClients, NEW phase \in ClientPhases,
         client' = [client EXCEPT ![p].phase = phase],
         ~ClientAt(p, "leased"), ~ClientAt(p, "idle"), phase \notin {"leased", "idle"},
         client[p].phase \in ManagerPhases <=> phase \in ManagerPhases,
         phase = "retire" => directory.current # 0 /\ DirectoryUnlocked,
         UNCHANGED <<stored, provider, directory, manager, pool, disabled>>
  PROVE  PoolsInv'
<1> DEFINE c == [client[p] EXCEPT !.phase = phase]
<1>1. client[p] \in ClientRows /\ ClientOK(p)
  BY PoolTypes DEF PoolsInv
<1>2. /\ c \in ClientRows /\ c.phase = phase /\ c.pool = client[p].pool
      /\ c.manager = client[p].manager /\ c.binding = client[p].binding
  BY <1>1 DEF ClientRows
<1>3. client' = [client EXCEPT ![p] = c]
  BY PoolTypes DEF PoolsInv
<1>4. c.pool = 0 /\ (c.phase \in ManagerPhases <=> c.manager # 0)
  BY <1>1, <1>2 DEF ClientOK, ClientAt
<1>5. c.manager # 0 => manager[c.manager].binding.cfg = c.binding.cfg
  BY <1>1, <1>2 DEF ClientOK
<1>6. Known(c.binding)
  BY <1>2 DEF Known, ClientAt
<1> HIDE DEF c
<1> QED
  BY <1>2, <1>3, <1>4, <1>5, <1>6, ClientMoves

(* What Drain does to the generation a of a manager (0 for none). *)
LEMMA DrainFacts ==
  ASSUME pool \in [Pools -> PoolRows], NEW a \in Pools \union {0},
         a # 0 => pool[a].closes = 0, pool' = Drain(a)
  PROVE  /\ pool' \in [Pools -> PoolRows]
         /\ \A g \in Pools : /\ pool'[g].leases = pool[g].leases /\ pool'[g].cfg = pool[g].cfg
                             /\ pool'[g].version = pool[g].version
                             /\ g # a => pool'[g] = pool[g]
         /\ a # 0 => /\ pool'[a].draining = TRUE
                     /\ pool'[a].closes = 0 => pool'[a].leases > 0
                     /\ pool'[a].leases > 0 => pool'[a].closes = 0
<1>1. CASE a = 0
  BY <1>1, ZeroIsNobody DEF Drain
<1>2. CASE a # 0
  <2> DEFINE r == [pool[a] EXCEPT !.draining = TRUE,
                                  !.closes = IF pool[a].leases = 0 THEN @ + 1 ELSE @]
  <2>1. pool' = [pool EXCEPT ![a] = r]
    BY <1>2 DEF Drain
  <2>2. pool[a] \in PoolRows /\ pool[a].closes = 0 /\ pool[a].leases \in Nat
    BY <1>2 DEF PoolRows
  <2>3. /\ r \in PoolRows /\ r.draining = TRUE /\ r.leases = pool[a].leases
        /\ r.cfg = pool[a].cfg /\ r.version = pool[a].version
        /\ r.closes = IF pool[a].leases = 0 THEN 1 ELSE 0
    <3>1. PICK k \in 0..1 : k = IF pool[a].leases = 0 THEN 1 ELSE 0
      OBVIOUS
    <3>2. r = [pool[a] EXCEPT !.draining = TRUE, !.closes = k]
      BY <2>2, <3>1 DEF PoolRows
    <3> HIDE DEF r
    <3> QED
      BY <2>2, <3>1, <3>2 DEF PoolRows
  <2> HIDE DEF r
  <2>4. /\ pool' \in [Pools -> PoolRows] /\ pool'[a] = r
        /\ \A g \in Pools \ {a} : pool'[g] = pool[g]
    BY <1>2, <2>1, <2>3
  <2> QED
    BY <1>2, <2>2, <2>3, <2>4
<1> QED
  BY <1>1, <1>2

(* Without a flight at the manager in service there is none. *)
LEMMA NobodyFlies ==
  ASSUME PoolsInv, \A n \in Managers : manager[n].retired \/ manager[n].flight = NoFlight
  PROVE  \A n \in Managers : /\ manager[n].flight = NoFlight /\ manager[n].flight.pool = 0
                             /\ manager[n].retired => manager[n].active = 0
<1> TAKE n \in Managers
<1>1. FlightOK(n)
  BY DEF PoolsInv
<1>2. manager[n].retired => manager[n].flight = NoFlight /\ manager[n].active = 0
  BY <1>1 DEF FlightOK
<1>3. manager[n].flight = NoFlight
  BY <1>2
<1>4. NoFlight.pool = 0
  BY DEF NoFlight
<1> QED
  BY <1>2, <1>3, <1>4

(* The manager old (0 for none) leaves service: it has no flight, and its
   generation drains.  What remains of the invariant for the generations. *)
LEMMA LeavesService ==
  ASSUME PoolsInv, NEW old \in Managers \union {0}, NEW a \in Pools \union {0},
         old # 0 => ~manager[old].retired /\ ~Busy(old) /\ a = manager[old].active,
         old = 0 => a = 0,
         \A n \in Managers : ~manager[n].retired => n = old,
         pool' = Drain(a)
  PROVE  /\ pool' \in [Pools -> PoolRows]
         /\ \A g \in Pools : /\ pool'[g].leases = pool[g].leases /\ pool'[g].cfg = pool[g].cfg
                             /\ PoolOK(g)'
<1>1. pool \in [Pools -> PoolRows]
  BY PoolTypes DEF PoolsInv
<1>2. a # 0 => pool[a].closes = 0
  BY DEF PoolsInv, OwnedOK
<1>3. /\ pool' \in [Pools -> PoolRows]
      /\ \A g \in Pools : /\ pool'[g].leases = pool[g].leases /\ pool'[g].cfg = pool[g].cfg
                          /\ pool'[g].version = pool[g].version
                          /\ g # a => pool'[g] = pool[g]
      /\ a # 0 => /\ pool'[a].draining = TRUE
                  /\ pool'[a].closes = 0 => pool'[a].leases > 0
                  /\ pool'[a].leases > 0 => pool'[a].closes = 0
  BY <1>1, <1>2, DrainFacts
<1>4. \A n \in Managers : manager[n].flight.pool = 0 /\ manager[n].active \in {0, a}
  <2>1. \A n \in Managers :
          /\ manager[n].retired \/ manager[n].flight = NoFlight
          /\ manager[n].retired \/ a = manager[n].active
    BY ZeroIsNobody DEF Busy
  <2>2. \A n \in Managers : /\ manager[n].flight = NoFlight /\ manager[n].flight.pool = 0
                            /\ manager[n].retired => manager[n].active = 0
    BY <2>1, NobodyFlies
  <2> QED
    BY <2>1, <2>2
<1>5. ASSUME NEW g \in Pools, g # a PROVE PoolOK(g)'
  <2>1. \A n \in Managers : ~Owns(n, g)
    BY <1>4, <1>5, ZeroIsNobody DEF Owns
  <2>2. PoolOK(g) /\ pool'[g] = pool[g]
    BY <1>3, <1>5 DEF PoolsInv
  <2> QED
    BY <2>1, <2>2 DEF PoolOK
<1>6. ASSUME a # 0 PROVE PoolOK(a)'
  BY <1>3, <1>6 DEF PoolOK
<1> QED
  BY <1>3, <1>5, <1>6, ZeroIsNobody

(* The directory builds a manager for client p in place of the current one. *)
LEMMA ReplaceKeeps ==
  ASSUME PoolsInv, NEW p \in PoolClients, NEW m \in Managers, Replace(p, m),
         ~ClientAt(p, "leased"), ~ClientAt(p, "idle"), client[p].manager = 0,
         ~directory.closed, directory.current # 0 => ~Busy(directory.current),
         UNCHANGED <<stored, provider, disabled>>
  PROVE  PoolsInv'
<1> DEFINE old == directory.current
           b == client[p].binding
           a == IF old = 0 THEN 0 ELSE manager[old].active
           c == [client[p] EXCEPT !.manager = m, !.phase = PhaseFor(client[p].use)]
<1>1. /\ client \in [PoolClients -> ClientRows] /\ stored \in Bindings
      /\ manager \in [Managers -> ManagerRows] /\ directory \in Directories
      /\ pool \in [Pools -> PoolRows] /\ provider \in Nat /\ disabled \in BOOLEAN
      /\ client[p] \in ClientRows /\ b \in Bindings /\ old \in Managers \union {0}
      /\ DirectoryOK
  <2>1. /\ client \in [PoolClients -> ClientRows] /\ stored \in Bindings
        /\ manager \in [Managers -> ManagerRows] /\ directory \in Directories
        /\ pool \in [Pools -> PoolRows] /\ provider \in Nat /\ disabled \in BOOLEAN
        /\ DirectoryOK
    BY PoolTypes DEF PoolsInv
  <2> QED
    BY <2>1 DEF ClientRows, Directories
<1>2. a \in Pools \union {0}
  BY <1>1 DEF ManagerRows
<1>3. /\ manager[m].retired /\ m # directory.retiring
      /\ \A q \in PoolClients : client[q].manager # m
  BY Zenon DEF Replace, UnusedManagers
<1>4. directory.retiring = 0 /\ (old # 0 => ~manager[old].retired) /\ m # old
  BY <1>1, <1>3 DEF DirectoryOK
<1>5. \A n \in Managers : ~manager[n].retired => n = old
  BY <1>1, <1>4, ZeroIsNobody DEF DirectoryOK
<1>6. directory' = [directory EXCEPT !.current = m]
  BY Zenon DEF Replace
<1>7. client' = [client EXCEPT ![p] = c]
  BY <1>1, Zenon DEF Replace, GotManager
<1>8. /\ c \in ClientRows /\ c.manager = m /\ c.phase = PhaseFor(client[p].use)
      /\ c.binding = b /\ c.pool = client[p].pool
  <2>1. PhaseFor(client[p].use) \in ClientPhases
    BY DEF PhaseFor, ClientPhases
  <2> QED
    BY <1>1, <2>1 DEF ClientRows
<1>9. c.phase \in ManagerPhases /\ c.phase # "leased" /\ c.phase # "retire" /\ c.phase # "idle" /\ c.pool = 0
  <2>1. c.phase \in {"pool", "gate", "disabling"}
    BY <1>8 DEF PhaseFor
  <2>2. ClientOK(p)
    BY DEF PoolsInv
  <2> QED
    BY <1>8, <2>1, <2>2 DEF ManagerPhases, ClientOK, ClientAt
<1> HIDE DEF c
<1>10. /\ client' \in [PoolClients -> ClientRows] /\ client'[p] = c
       /\ \A q \in PoolClients \ {p} : client'[q] = client[q]
  BY <1>1, <1>7, <1>8
<1>11. /\ NewManager(b) \in ManagerRows /\ NewManager(b).binding = b /\ NewManager(b).active = 0
       /\ NewManager(b).retired = FALSE /\ NewManager(b).flight = NoFlight
  <2>1. NoFlight \in Flights
    BY DEF NoFlight, Flights, FirstBinding, Bindings
  <2> QED
    BY <1>1, <2>1 DEF NewManager, ManagerRows
<1>12. /\ manager'[m] = NewManager(b)
       /\ \A n \in Managers \ {m} : manager'[n] = IF n = old THEN [manager[n] EXCEPT !.retired = TRUE, !.active = 0]
                                                  ELSE manager[n]
  BY Zenon DEF Replace
<1>13. \A n \in Managers \ {m} :
         /\ manager'[n] \in ManagerRows /\ manager'[n].binding = manager[n].binding
         /\ manager'[n].flight = manager[n].flight
         /\ manager'[n].retired = TRUE /\ manager'[n].active = 0
  <2> TAKE n \in Managers \ {m}
  <2>1. CASE n = old
    <3>1. manager[n] \in ManagerRows /\ manager'[n] = [manager[n] EXCEPT !.retired = TRUE, !.active = 0]
      BY <1>1, <1>12, <2>1, Zenon
    <3> HIDE DEF old
    <3> QED
      BY <3>1 DEF ManagerRows
  <2>2. CASE n # old
    <3>1. manager[n].retired = TRUE
      BY <1>1, <1>5, <2>2 DEF ManagerRows
    <3>2. manager[n].active = 0
      BY <3>1 DEF PoolsInv, FlightOK
    <3> QED
      BY <1>1, <1>12, <2>2, <3>1, <3>2, Zenon
  <2> QED
    BY <2>1, <2>2
<1>14. manager' \in [Managers -> ManagerRows]
  <2>1. \A n \in Managers : manager'[n] \in ManagerRows
    BY <1>11, <1>12, <1>13, Zenon
  <2>2. manager' = [n \in Managers |-> manager'[n]]
    BY ZenonT(60) DEF Replace
  <2> QED
    BY <2>1, <2>2
<1>15. pool' = Drain(a)
  BY Zenon DEF Replace, Drain
<1>16. /\ pool' \in [Pools -> PoolRows]
       /\ \A g \in Pools : /\ pool'[g].leases = pool[g].leases /\ pool'[g].cfg = pool[g].cfg
                           /\ PoolOK(g)'
  <2>1. old # 0 => ~Busy(old) /\ a = manager[old].active
    OBVIOUS
  <2>2. old = 0 => a = 0
    OBVIOUS
  <2> HIDE DEF a, old
  <2> QED
    BY <1>1, <1>2, <1>4, <1>5, <1>15, <2>1, <2>2, LeavesService
<1>17. PoolTypeOK'
  <2>1. directory' \in Directories
    BY <1>1, <1>6 DEF Directories
  <2> QED
    BY <1>1, <1>10, <1>14, <1>16, <2>1, PoolTypesNext
<1>18. \A q \in PoolClients : ClientOK(q)'
  <2> TAKE q \in PoolClients
  <2>1. CASE q = p
    BY <1>8, <1>9, <1>10, <1>11, <1>12, <2>1, ZeroIsNobody, Zenon DEF ClientOK
  <2>2. CASE q # p
    <3>1. client'[q] = client[q] /\ client[q] \in ClientRows /\ client[q].manager # m /\ ClientOK(q)
      BY <1>1, <1>3, <1>10, <2>2 DEF PoolsInv
    <3>2. client[q].manager # 0 => manager'[client[q].manager].binding = manager[client[q].manager].binding
      BY <1>13, <3>1 DEF ClientRows
    <3> QED
      BY <3>1, <3>2 DEF ClientOK
  <2> QED
    BY <2>1, <2>2
<1>19. DirectoryOK'
  <2>1. directory'.current = m /\ directory'.retiring = 0 /\ directory'.closed = FALSE
    BY <1>1, <1>4, <1>6 DEF Directories
  <2>2. \A q \in PoolClients : ClientAt(q, "retire")' => ClientAt(q, "retire")
    BY <1>9, <1>10 DEF ClientAt
  <2>3. \A n \in Managers : ~manager'[n].retired <=> n \in {m, 0}
    BY <1>11, <1>12, <1>13, ZeroIsNobody, Zenon
  <2> QED
    BY <1>1, <2>1, <2>2, <2>3, ZeroIsNobody DEF DirectoryOK
<1>20. \A n \in Managers : manager'[n].active = 0 /\ manager'[n].flight = NoFlight
  <2> TAKE n \in Managers
  <2>1. CASE n = m
    BY <1>11, <1>12, <2>1, Zenon
  <2>2. CASE n # m
    <3>1. \A x \in Managers : manager[x].retired \/ manager[x].flight = NoFlight
      BY <1>5, ZeroIsNobody DEF Busy
    <3>2. manager[n].flight = NoFlight
      BY <3>1, NobodyFlies
    <3> QED
      BY <1>13, <2>2, <3>2
  <2> QED
    BY <2>1, <2>2
<1>21. (\A n \in Managers : FlightOK(n)') /\ (\A n \in Managers : OwnedOK(n)') /\ DisabledOK'
  <2>1. NoFlight.step = "none" /\ NoFlight.pool = 0
    BY DEF NoFlight
  <2> QED
    BY <1>20, <2>1 DEF FlightOK, OwnedOK, DisabledOK, PoolsInv
<1>22. LeasesOK'
  <2>1. \A q \in PoolClients : client'[q].pool = client[q].pool
    BY <1>8, <1>10
  <2> QED
    BY <1>16, <2>1, HoldersKept DEF PoolsInv, LeasesOK
<1>23. LeaseMatchesBinding'
  <2>1. \A q \in PoolClients : ClientAt(q, "leased") =>
          client[q].pool \in Pools /\ pool[client[q].pool].cfg = client[q].binding.cfg
    <3>1. \A q \in PoolClients : client[q].pool \in Pools \union {0} /\ ClientOK(q)
      BY <1>1 DEF ClientRows, PoolsInv
    <3> QED
      BY <3>1 DEF PoolsInv, LeaseMatchesBinding, ClientOK, ClientAt
  <2> QED
    BY <1>9, <1>10, <1>16, <2>1 DEF LeaseMatchesBinding, ClientAt
<1>24. KnownOK'
  <2>1. Known(b)
    BY DEF Known, ClientAt
  <2>2. \A q \in PoolClients : client'[q].phase # "idle" =>
          client[q].phase # "idle" /\ client'[q].binding = client[q].binding
    BY <1>8, <1>10 DEF ClientAt
  <2>3. \A n \in Managers : ~manager'[n].retired => n = m
    BY <1>13
  <2>4. manager'[m].binding = b /\ manager'[m].flight.step = "none"
    <3>1. NoFlight.step = "none"
      BY DEF NoFlight
    <3> QED
      BY <1>11, <1>12, <3>1, Zenon
  <2>5. \A x \in Bindings : Known(x)' => Known(x)
    <3> SUFFICES ASSUME NEW x \in Bindings, Known(x)' PROVE Known(x)
      OBVIOUS
    <3> HIDE DEF b
    <3>1. CASE x = stored'
      BY <3>1 DEF Known
    <3>2. CASE \E q \in PoolClients : client'[q].phase # "idle" /\ client'[q].binding = x
      BY <2>2, <3>2 DEF Known
    <3>3. CASE \E n \in Managers :
                 /\ ~manager'[n].retired
                 /\ \/ manager'[n].binding = x
                    \/ manager'[n].flight.step = "install" /\ manager'[n].flight.next = x
      BY <2>1, <2>3, <2>4, <3>3
    <3> QED
      BY <3>1, <3>2, <3>3 DEF Known
  <2> QED
    BY <1>1, <2>5, KnownKept DEF PoolsInv
<1> QED
  BY <1>16, <1>17, <1>18, <1>19, <1>21, <1>22, <1>23, <1>24 DEF PoolsInv

LEMMA PoolKeeps ==
  ASSUME PoolsInv, NEW p \in PoolClients, Pool(p)
  PROVE  PoolsInv'
<1>1. /\ ClientAt(p, "read") /\ DirectoryUnlocked /\ UNCHANGED <<stored, provider, disabled>>
      /\ client[p].phase = "read"
  BY DEF Pool, ClientAt
<1>2. /\ client \in [PoolClients -> ClientRows] /\ client[p] \in ClientRows
      /\ manager \in [Managers -> ManagerRows] /\ directory \in Directories
      /\ ClientOK(p) /\ DirectoryOK
  BY PoolTypes DEF PoolsInv
<1>3. /\ client[p].manager = 0 /\ ~ClientAt(p, "leased") /\ ~ClientAt(p, "idle")
      /\ client[p].pool = 0 /\ Known(client[p].binding) /\ client[p].binding \in Bindings
  BY <1>1, <1>2 DEF ClientOK, ClientAt, ManagerPhases, Known, ClientRows
<1>4. CASE ClientFails(p) /\ UNCHANGED <<directory, manager, pool>>
  BY <1>1, <1>3, <1>4, FailingKeeps
<1>5. CASE /\ directory.current # 0
           /\ manager[directory.current].binding.rev = client[p].binding.rev
           /\ GotManager(p, directory.current)
           /\ UNCHANGED <<directory, manager, pool>>
  <2> DEFINE m == directory.current
             c == [client[p] EXCEPT !.manager = m, !.phase = PhaseFor(client[p].use)]
  <2>1. m \in Managers /\ m # 0
    BY <1>2, <1>5 DEF Directories
  <2>2. ~manager[m].retired
    BY <1>2, <2>1 DEF DirectoryOK
  <2>3. manager[m].binding = client[p].binding
    <3>1. manager[m].binding \in Bindings /\ Known(manager[m].binding)
      BY <1>2, <2>1, <2>2 DEF ManagerRows, Known
    <3> QED
      BY <1>3, <1>5, <3>1 DEF PoolsInv, KnownOK
  <2>4. client' = [client EXCEPT ![p] = c]
    BY <1>2, <1>5 DEF GotManager
  <2>5. PhaseFor(client[p].use) \in {"pool", "gate", "disabling"}
    BY DEF PhaseFor
  <2>6. /\ c \in ClientRows /\ c.manager = m /\ c.phase \in {"pool", "gate", "disabling"}
        /\ c.pool = client[p].pool /\ c.binding = client[p].binding
    <3>1. PhaseFor(client[p].use) \in ClientPhases
      BY <2>5 DEF ClientPhases
    <3> HIDE DEF m
    <3> QED
      BY <1>2, <2>1, <2>5, <3>1 DEF ClientRows
  <2> HIDE DEF c, m
  <2>7. c.phase \in ManagerPhases /\ c.phase # "leased" /\ c.phase # "retire"
    BY <2>6 DEF ManagerPhases
  <2>8. c.manager # 0 => manager[c.manager].binding.cfg = c.binding.cfg
    BY <2>3, <2>6
  <2> QED
    BY <1>1, <1>3, <1>5, <2>1, <2>4, <2>6, <2>7, <2>8, ClientMoves
<1>6. CASE /\ directory.current # 0
           /\ client' = [client EXCEPT ![p].phase = "retire"]
           /\ UNCHANGED <<directory, manager, pool>>
  <2>1. "retire" \in ClientPhases /\ "retire" \notin ManagerPhases /\ client[p].phase \notin ManagerPhases
    BY <1>1 DEF ClientPhases, ManagerPhases
  <2> QED
    BY <1>1, <1>3, <1>6, <2>1, PhaseKeeps
<1>7. CASE ~directory.closed /\ directory.current = 0 /\ \E m \in Managers : Replace(p, m)
  BY <1>1, <1>3, <1>7, ReplaceKeeps
<1> QED
  BY <1>4, <1>5, <1>6, <1>7 DEF Pool

LEMMA RetireAndBuildKeeps ==
  ASSUME PoolsInv, NEW p \in PoolClients, RetireAndBuild(p)
  PROVE  PoolsInv'
<1>1. /\ ClientAt(p, "retire") /\ ~Busy(directory.current)
      /\ UNCHANGED <<stored, provider, disabled>>
  BY DEF RetireAndBuild
<1>2. ClientOK(p) /\ DirectoryOK
  BY DEF PoolsInv
<1>3. client[p].manager = 0 /\ ~ClientAt(p, "leased") /\ ~ClientAt(p, "idle")
  BY <1>1, <1>2 DEF ClientOK, ClientAt, ManagerPhases
<1>4. ~directory.closed
  BY <1>1, <1>2 DEF DirectoryOK
<1> QED
  BY <1>1, <1>3, <1>4, ReplaceKeeps DEF RetireAndBuild

LEMMA CloseDirectoryKeeps ==
  ASSUME PoolsInv, CloseDirectory
  PROVE  PoolsInv'
<1>1. /\ DirectoryUnlocked /\ ~directory.closed
      /\ directory' = [current |-> 0, closed |-> TRUE, retiring |-> directory.current]
      /\ UNCHANGED <<stored, provider, manager, pool, client, disabled>>
  BY DEF CloseDirectory
<1>2. directory \in Directories /\ DirectoryOK
  BY PoolTypes DEF PoolsInv
<1>3. /\ directory' \in Directories /\ directory'.current = 0 /\ directory'.closed = TRUE
      /\ directory'.retiring = directory.current
  BY <1>1, <1>2 DEF Directories
<1>4. PoolTypeOK'
  BY <1>1, <1>3, PoolTypes, PoolTypesNext DEF PoolsInv
<1>5. DirectoryOK'
  BY <1>1, <1>2, <1>3, ZeroIsNobody DEF DirectoryOK, DirectoryUnlocked, ClientAt
<1>6. \A p \in PoolClients : ClientOK(p)'
  BY <1>1 DEF PoolsInv, ClientOK
<1>7. (\A m \in Managers : FlightOK(m)') /\ (\A m \in Managers : OwnedOK(m)')
  BY <1>1, SMTT(60) DEF PoolsInv, FlightOK, OwnedOK
<1>8. (\A g \in Pools : PoolOK(g)') /\ LeasesOK' /\ LeaseMatchesBinding'
  BY <1>1, HoldersKept DEF PoolsInv, PoolOK, Owns, LeasesOK, LeaseMatchesBinding, ClientAt
<1>9. KnownOK' /\ DisabledOK'
  BY <1>1 DEF PoolsInv, KnownOK, Known, DisabledOK
<1> QED
  BY <1>4, <1>5, <1>6, <1>7, <1>8, <1>9 DEF PoolsInv

(* Close retires the manager that was current. *)
LEMMA CloseRetiresKeeps ==
  ASSUME PoolsInv, CloseRetires
  PROVE  PoolsInv'
<1> DEFINE old == directory.retiring
           a == manager[old].active
<1>1. /\ old # 0 /\ ~Busy(old) /\ pool' = Drain(a)
      /\ manager' = [manager EXCEPT ![old].retired = TRUE, ![old].active = 0]
      /\ directory' = [directory EXCEPT !.retiring = 0]
      /\ UNCHANGED <<stored, provider, client, disabled>>
  BY DEF CloseRetires
<1>2. /\ directory \in Directories /\ manager \in [Managers -> ManagerRows] /\ DirectoryOK
      /\ pool \in [Pools -> PoolRows] /\ client \in [PoolClients -> ClientRows]
      /\ stored \in Bindings
  BY PoolTypes DEF PoolsInv
<1>3. old \in Managers /\ directory.closed /\ directory.current = 0
  BY <1>1, <1>2 DEF Directories, DirectoryOK
<1>4. /\ ~manager[old].retired /\ \A n \in Managers : ~manager[n].retired => n = old
  BY <1>2, <1>3, ZeroIsNobody DEF DirectoryOK
<1>5. a \in Pools \union {0}
  BY <1>2, <1>3 DEF ManagerRows
<1> HIDE DEF a, old
<1>6. /\ pool' \in [Pools -> PoolRows]
      /\ \A g \in Pools : /\ pool'[g].leases = pool[g].leases /\ pool'[g].cfg = pool[g].cfg
                          /\ PoolOK(g)'
  <2>1. old # 0 => ~manager[old].retired /\ ~Busy(old) /\ a = manager[old].active
    BY <1>1, <1>4 DEF a
  <2> QED
    BY <1>1, <1>3, <1>4, <1>5, <2>1, LeavesService
<1>7. \A n \in Managers : manager[n].flight = NoFlight /\ (manager[n].retired => manager[n].active = 0)
  <2>1. \A n \in Managers : manager[n].retired \/ manager[n].flight = NoFlight
    BY <1>1, <1>4 DEF Busy
  <2> QED
    BY <2>1, NobodyFlies
<1>8. /\ manager' \in [Managers -> ManagerRows]
      /\ \A n \in Managers : /\ manager'[n].binding = manager[n].binding
                             /\ manager'[n].flight = manager[n].flight
      /\ manager'[old].retired = TRUE /\ manager'[old].active = 0
      /\ \A n \in Managers \ {old} : manager'[n] = manager[n]
  BY <1>1, <1>2, <1>3 DEF ManagerRows
<1>9. \A n \in Managers : manager'[n].retired = TRUE /\ manager'[n].active = 0 /\ manager'[n].flight = NoFlight
  <2> TAKE n \in Managers
  <2>1. CASE n = old
    BY <1>7, <1>8, <2>1
  <2>2. CASE n # old
    <3>1. manager[n].retired = TRUE
      BY <1>2, <1>4, <2>2 DEF ManagerRows
    <3> QED
      BY <1>7, <1>8, <2>2, <3>1
  <2> QED
    BY <2>1, <2>2
<1>10. /\ directory' \in Directories /\ directory'.current = 0 /\ directory'.retiring = 0
       /\ directory'.closed = directory.closed
  BY <1>1, <1>2, <1>3 DEF Directories
<1>11. PoolTypeOK'
  BY <1>1, <1>2, <1>6, <1>8, <1>10, PoolTypes, PoolTypesNext DEF PoolsInv
<1>12. \A p \in PoolClients : ClientOK(p)'
  <2>1. \A p \in PoolClients : client[p].manager \in Managers \union {0}
    BY <1>2 DEF ClientRows
  <2> QED
    BY <1>1, <1>8, <2>1 DEF PoolsInv, ClientOK
<1>13. DirectoryOK'
  BY <1>1, <1>2, <1>3, <1>9, <1>10, ZeroIsNobody, SMTT(60) DEF DirectoryOK, ClientAt
<1>14. (\A n \in Managers : FlightOK(n)') /\ (\A n \in Managers : OwnedOK(n)') /\ DisabledOK'
  <2>1. NoFlight.step = "none" /\ NoFlight.pool = 0
    BY DEF NoFlight
  <2> QED
    BY <1>1, <1>9, <2>1, Zenon DEF FlightOK, OwnedOK, DisabledOK, PoolsInv
<1>15. LeasesOK' /\ LeaseMatchesBinding'
  <2>1. \A q \in PoolClients : client[q].pool \in Pools \union {0} /\ ClientOK(q)
    BY <1>2 DEF ClientRows, PoolsInv
  <2>2. LeasesOK'
    BY <1>1, <1>6, HoldersKept DEF PoolsInv, LeasesOK
  <2>3. LeaseMatchesBinding'
    BY <1>1, <1>6, <2>1 DEF PoolsInv, LeaseMatchesBinding, ClientAt, ClientOK
  <2> QED
    BY <2>2, <2>3
<1>16. KnownOK'
  <2>1. \A b \in Bindings : Known(b)' => Known(b)
    BY <1>1, <1>9 DEF Known
  <2> QED
    BY <1>1, <1>2, <2>1, KnownKept DEF PoolsInv
<1> QED
  BY <1>6, <1>11, <1>12, <1>13, <1>14, <1>15, <1>16 DEF PoolsInv

-----------------------------------------------------------------------------
(* Leases                                                                  *)

(* A generation's holder counts. *)
LEMMA HolderCounts ==
  ASSUME PoolsInv, NEW g \in Pools, NEW p \in PoolClients, client[p].pool = g
  PROVE  pool[g].leases > 0 /\ pool[g].closes = 0
<1>1. IsFiniteSet(LeaseHolders(g)) /\ pool[g].leases = Cardinality(LeaseHolders(g)) /\ PoolOK(g)
  BY DEF PoolsInv, LeasesOK
<1>2. LeaseHolders(g) # {}
  BY DEF LeaseHolders
<1>3. Cardinality(LeaseHolders(g)) \in Nat /\ Cardinality(LeaseHolders(g)) # 0
  BY <1>1, <1>2, FS_EmptySet, FS_CardinalityType
<1> QED
  BY <1>1, <1>3 DEF PoolOK

(* A flight relies only on what generations were prepared from. *)
LEMMA FlightKept ==
  ASSUME manager \in [Managers -> ManagerRows], UNCHANGED manager,
         NEW n \in Managers, FlightOK(n),
         \A h \in Pools : pool'[h].cfg = pool[h].cfg /\ pool'[h].version = pool[h].version
  PROVE  FlightOK(n)'
<1> DEFINE a == manager[n].active
           g == manager[n].flight.pool
<1>1. a \in Pools \union {0} /\ g \in Pools \union {0}
  BY DEF ManagerRows, Flights
<1>2. a # 0 => pool'[a].version = pool[a].version
  BY <1>1
<1>3. g # 0 => pool'[g].version = pool[g].version /\ pool'[g].cfg = pool[g].cfg
  BY <1>1
<1> QED
  BY <1>2, <1>3 DEF FlightOK

(* What a manager owns stays in order while others use other generations. *)
LEMMA OwnedKept ==
  ASSUME manager \in [Managers -> ManagerRows], UNCHANGED manager,
         NEW n \in Managers, OwnedOK(n), NEW h \in Pools, h # manager[n].flight.pool,
         \A x \in Pools \ {h} : pool'[x] = pool[x],
         /\ pool'[h].cfg = pool[h].cfg /\ pool'[h].version = pool[h].version
         /\ pool'[h].draining = pool[h].draining,
         manager[n].active = h => pool'[h].closes = 0
  PROVE  OwnedOK(n)'
<1> DEFINE a == manager[n].active
           g == manager[n].flight.pool
<1>1. a \in Pools \union {0} /\ g \in Pools \union {0}
  BY DEF ManagerRows, Flights
<1>2. g # 0 => pool'[g] = pool[g]
  BY <1>1
<1>3. CASE a = h
  BY <1>2, <1>3 DEF OwnedOK
<1>4. CASE a # h
  <2>1. a # 0 => pool'[a] = pool[a]
    BY <1>1, <1>4
  <2> QED
    BY <1>2, <2>1 DEF OwnedOK
<1> QED
  BY <1>3, <1>4

(* A lease is granted on generation g. *)
LEMMA GrantKeeps ==
  ASSUME PoolsInv, NEW p \in PoolClients, Lease(p),
         NEW g \in Pools, g = manager[client[p].manager].active
  PROVE  PoolsInv'
<1> DEFINE m == client[p].manager
           c == [client[p] EXCEPT !.phase = "leased", !.pool = g, !.manager = 0]
           r == [pool[g] EXCEPT !.leases = @ + 1]
<1>1. /\ client[p].phase \in {"pool", "leaseAgain"} /\ Leasable(m)
      /\ pool' = [pool EXCEPT ![g].leases = @ + 1]
      /\ client' = [client EXCEPT ![p].phase = "leased", ![p].pool = g, ![p].manager = 0]
      /\ UNCHANGED <<stored, provider, directory, manager, disabled>>
  BY DEF Lease
<1>2. /\ client \in [PoolClients -> ClientRows] /\ client[p] \in ClientRows
      /\ manager \in [Managers -> ManagerRows] /\ pool \in [Pools -> PoolRows]
      /\ directory \in Directories /\ stored \in Bindings
      /\ ClientOK(p) /\ DirectoryOK
  BY PoolTypes DEF PoolsInv
<1>3. m \in Managers /\ client[p].pool = 0
  BY <1>1, <1>2 DEF ClientOK, ClientRows, ManagerPhases
<1>4. g # 0 /\ ~manager[m].retired
  BY <1>1, <1>2, <1>3, ZeroIsNobody DEF Leasable
<1>5. /\ pool[g].closes = 0 /\ ~pool[g].draining /\ pool[g].cfg = manager[m].binding.cfg
      /\ manager[m].flight.pool # g /\ FlightOK(m)
  BY <1>3, <1>4 DEF PoolsInv, OwnedOK
<1>6. manager[m].binding.cfg = client[p].binding.cfg
  BY <1>2, <1>3, ZeroIsNobody DEF ClientOK
<1>7. client' = [client EXCEPT ![p] = c] /\ pool' = [pool EXCEPT ![g] = r]
  BY <1>1, <1>2, <1>4
<1>8. /\ c \in ClientRows /\ c.phase = "leased" /\ c.pool = g /\ c.manager = 0
      /\ c.binding = client[p].binding
  <2>1. "leased" \in ClientPhases
    BY DEF ClientPhases
  <2> QED
    BY <1>2, <1>4, <2>1 DEF ClientRows
<1>9. /\ r \in PoolRows /\ r.leases = pool[g].leases + 1 /\ r.cfg = pool[g].cfg
      /\ r.version = pool[g].version /\ r.draining = pool[g].draining /\ r.closes = pool[g].closes
      /\ pool[g].leases \in Nat
  <2>1. pool[g] \in PoolRows /\ pool[g].leases + 1 \in Nat
    BY <1>2, <1>4 DEF PoolRows
  <2> QED
    BY <2>1 DEF PoolRows
<1> HIDE DEF c, r
<1>10. /\ client' \in [PoolClients -> ClientRows] /\ client'[p] = c
       /\ \A q \in PoolClients \ {p} : client'[q] = client[q]
  BY <1>2, <1>7, <1>8, SMTT(60)
<1>11. /\ pool' \in [Pools -> PoolRows] /\ pool'[g] = r
       /\ \A h \in Pools \ {g} : pool'[h] = pool[h]
  BY <1>2, <1>4, <1>7, <1>9, ZenonT(60)
<1>12. PoolTypeOK'
  BY <1>1, <1>10, <1>11, PoolTypes, PoolTypesNext, ZenonT(60) DEF PoolsInv
<1>13. \A q \in PoolClients : ClientOK(q)'
  <2>1. "leased" \notin ManagerPhases
    BY DEF ManagerPhases
  <2> QED
    BY <1>1, <1>4, <1>8, <1>10, <2>1, ZenonT(60) DEF PoolsInv, ClientOK
<1>14. DirectoryOK'
  BY <1>1, <1>2, <1>8, <1>10 DEF DirectoryOK, ClientAt
<1>15. \A h \in Pools : /\ pool'[h].cfg = pool[h].cfg /\ pool'[h].version = pool[h].version
                        /\ pool'[h].draining = pool[h].draining /\ pool'[h].closes = pool[h].closes
  BY <1>9, <1>11
<1>16. \A n \in Managers : /\ manager[n].active \in Pools \union {0}
                           /\ manager[n].flight.pool \in Pools \union {0}
  BY <1>2, SMTT(60) DEF ManagerRows, Flights
<1>17. \A n \in Managers : FlightOK(n)'
  <2> TAKE n \in Managers
  <2>1. FlightOK(n)
    BY DEF PoolsInv
  <2>2. UNCHANGED manager
    BY <1>1
  <2>3. \A h \in Pools : pool'[h].cfg = pool[h].cfg /\ pool'[h].version = pool[h].version
    BY <1>15
  <2> QED
    BY <1>2, <2>1, <2>2, <2>3, FlightKept
<1>18. \A n \in Managers : OwnedOK(n)'
  <2> TAKE n \in Managers
  <2>1. OwnedOK(n) /\ FlightOK(n)
    BY DEF PoolsInv
  <2>2. manager[n].flight.pool # g
    <3>1. CASE n = m
      BY <1>5, <3>1
    <3>2. CASE n # m
      <4>1. manager[n].retired
        BY <1>2, <1>3, <1>4, <3>2, OneServes
      <4>2. manager[n].flight = NoFlight
        BY <2>1, <4>1 DEF FlightOK
      <4>3. NoFlight.pool = 0
        BY SMTT(60) DEF NoFlight
      <4> QED
        BY <1>4, <4>2, <4>3
    <3> QED
      BY <3>1, <3>2
  <2> QED
    BY <1>1, <1>2, <1>5, <1>11, <1>15, <2>1, <2>2, OwnedKept, Zenon
<1>19. \A h \in Pools : PoolOK(h)'
  <2>1. \A h \in Pools : h # g => pool'[h].leases = pool[h].leases
    BY <1>11
  <2>2. PoolOK(g)'
    BY <1>1, <1>3, <1>5, <1>9, <1>11, <1>15, <1>4, Zenon DEF PoolOK, Owns
  <2> QED
    BY <1>1, <1>15, <2>1, <2>2, ZenonT(60) DEF PoolsInv, PoolOK, Owns
<1>20. LeasesOK'
  <2>1. LeaseHolders(g)' = LeaseHolders(g) \union {p} /\ p \notin LeaseHolders(g)
    BY <1>3, <1>4, <1>8, <1>10 DEF LeaseHolders
  <2>2. \A h \in Pools \ {g} : LeaseHolders(h)' = LeaseHolders(h)
    BY <1>3, <1>8, <1>10, ZeroIsNobody DEF LeaseHolders
  <2>3. IsFiniteSet(LeaseHolders(g)) /\ pool[g].leases = Cardinality(LeaseHolders(g))
    BY <1>4 DEF PoolsInv, LeasesOK
  <2>4. /\ IsFiniteSet(LeaseHolders(g) \union {p})
        /\ Cardinality(LeaseHolders(g) \union {p}) = Cardinality(LeaseHolders(g)) + 1
    BY <2>1, <2>3, FS_AddElement
  <2>5. IsFiniteSet(LeaseHolders(g)') /\ pool'[g].leases = Cardinality(LeaseHolders(g)')
    BY <1>9, <1>11, <2>1, <2>3, <2>4, Zenon
  <2>6. \A h \in Pools \ {g} : IsFiniteSet(LeaseHolders(h)') /\ pool'[h].leases = Cardinality(LeaseHolders(h)')
    BY <1>11, <2>2 DEF PoolsInv, LeasesOK
  <2> QED
    BY <2>5, <2>6 DEF LeasesOK
<1>21. LeaseMatchesBinding'
  <2>1. \A q \in PoolClients : ClientAt(q, "leased") =>
          client[q].pool \in Pools /\ pool[client[q].pool].cfg = client[q].binding.cfg
    <3>1. \A q \in PoolClients : client[q].pool \in Pools \union {0} /\ ClientOK(q)
      BY <1>2 DEF ClientRows, PoolsInv
    <3> QED
      BY <3>1 DEF PoolsInv, LeaseMatchesBinding, ClientOK, ClientAt
  <2>2. pool'[c.pool].cfg = c.binding.cfg
    BY <1>4, <1>5, <1>6, <1>8, <1>15
  <2> QED
    BY <1>10, <1>15, <2>1, <2>2 DEF LeaseMatchesBinding, ClientAt
<1>22. KnownOK'
  <2>1. \A q \in PoolClients : client'[q].binding = client[q].binding
                               /\ (client'[q].phase # "idle" => client[q].phase # "idle")
    BY <1>1, <1>8, <1>10, ZenonT(60)
  <2>2. \A b \in Bindings : Known(b)' => Known(b)
    BY <1>1, <2>1, ZenonT(60) DEF Known
  <2> QED
    BY <1>1, <1>2, <2>2, KnownKept DEF PoolsInv
<1>23. DisabledOK'
  BY <1>1 DEF PoolsInv, DisabledOK
<1> QED
  BY <1>12, <1>13, <1>14, <1>17, <1>18, <1>19, <1>20, <1>21, <1>22, <1>23, SMTT(60) DEF PoolsInv

LEMMA LeaseKeeps ==
  ASSUME PoolsInv, NEW p \in PoolClients, Lease(p)
  PROVE  PoolsInv'
<1>1. client[p] \in ClientRows /\ ClientOK(p) /\ manager \in [Managers -> ManagerRows]
  BY PoolTypes, SMTT(60) DEF PoolsInv
<1>2. client[p].phase \in {"pool", "leaseAgain"} /\ Leasable(client[p].manager)
  BY DEF Lease
<1>3. client[p].manager \in Managers
  BY <1>1, <1>2 DEF ClientOK, ClientRows, ManagerPhases
<1>4. manager[client[p].manager].active \in Pools
  BY <1>1, <1>2, <1>3 DEF ManagerRows, Leasable
<1> QED
  BY <1>4, GrantKeeps

(* A lease on generation g is given back. *)
LEMMA ReturnKeeps ==
  ASSUME PoolsInv, NEW p \in PoolClients, Release(p), NEW g \in Pools, g = client[p].pool
  PROVE  PoolsInv'
<1> DEFINE k == IF pool[g].draining /\ pool[g].leases = 1 THEN pool[g].closes + 1 ELSE pool[g].closes
           r == [pool[g] EXCEPT !.leases = @ - 1, !.closes = k]
<1>1. /\ ClientAt(p, "leased") /\ client[p].phase = "leased"
      /\ pool' = [pool EXCEPT ![g].leases = @ - 1,
                              ![g].closes = IF pool[g].draining /\ pool[g].leases = 1 THEN @ + 1 ELSE @]
      /\ client' = [client EXCEPT ![p] = IdleClient]
      /\ UNCHANGED <<stored, provider, directory, manager, disabled>>
  BY DEF Release, ClientFails, ClientAt
<1>2. /\ client \in [PoolClients -> ClientRows] /\ client[p] \in ClientRows
      /\ manager \in [Managers -> ManagerRows] /\ pool \in [Pools -> PoolRows]
      /\ directory \in Directories /\ stored \in Bindings
      /\ ClientOK(p) /\ DirectoryOK
  BY PoolTypes DEF PoolsInv
<1>3. g # 0
  BY ZeroIsNobody
<1>4. pool[g].leases > 0 /\ pool[g].closes = 0 /\ pool[g] \in PoolRows
  BY <1>2, <1>3, HolderCounts
<1>5. pool' = [pool EXCEPT ![g] = r]
  BY <1>1, <1>2, <1>3
<1>6. /\ r \in PoolRows /\ r.leases = pool[g].leases - 1 /\ r.cfg = pool[g].cfg
      /\ r.version = pool[g].version /\ r.draining = pool[g].draining
      /\ r.closes = k /\ pool[g].leases \in Nat
  <2>1. pool[g].leases - 1 \in Nat /\ k \in 0..1 /\ pool[g].leases \in Nat
    BY <1>4 DEF PoolRows
  <2> HIDE DEF k
  <2> QED
    BY <1>4, <2>1 DEF PoolRows
<1> HIDE DEF r, k
<1>7. /\ client' \in [PoolClients -> ClientRows] /\ client'[p] = IdleClient
      /\ \A q \in PoolClients \ {p} : client'[q] = client[q]
  BY <1>1, <1>2, IdleIsARow
<1>8. /\ pool' \in [Pools -> PoolRows] /\ pool'[g] = r
      /\ \A h \in Pools \ {g} : pool'[h] = pool[h]
  BY <1>2, <1>3, <1>5, <1>6
<1>9. PoolTypeOK'
  BY <1>1, <1>7, <1>8, PoolTypes, PoolTypesNext DEF PoolsInv
<1>10. \A q \in PoolClients : ClientOK(q)'
  <2>1. "idle" \notin ManagerPhases
    BY DEF ManagerPhases
  <2> QED
    BY <1>1, <1>7, <2>1, IdleIsARow DEF PoolsInv, ClientOK
<1>11. DirectoryOK'
  BY <1>1, <1>2, <1>7, IdleIsARow DEF DirectoryOK, ClientAt
<1>12. \A h \in Pools : /\ pool'[h].cfg = pool[h].cfg /\ pool'[h].version = pool[h].version
                        /\ pool'[h].draining = pool[h].draining
  BY <1>6, <1>8
<1>13. \A n \in Managers : /\ manager[n].active \in Pools \union {0}
                           /\ manager[n].flight.pool \in Pools \union {0}
  BY <1>2 DEF ManagerRows, Flights
<1>14. \A n \in Managers : FlightOK(n)'
  <2> TAKE n \in Managers
  <2>1. FlightOK(n)
    BY DEF PoolsInv
  <2>2. UNCHANGED manager
    BY <1>1
  <2>3. \A h \in Pools : pool'[h].cfg = pool[h].cfg /\ pool'[h].version = pool[h].version
    BY <1>12
  <2> QED
    BY <1>2, <2>1, <2>2, <2>3, FlightKept
<1>15. \A n \in Managers : OwnedOK(n)'
  <2> TAKE n \in Managers
  <2>1. OwnedOK(n)
    BY DEF PoolsInv
  <2>2. manager[n].flight.pool # g
    BY <1>3, <1>4, <2>1 DEF OwnedOK
  <2>3. manager[n].active = g => pool'[g].closes = 0
    <3>1. manager[n].active = g => ~pool[g].draining
      BY <1>3, <2>1 DEF OwnedOK
    <3> QED
      BY <1>4, <1>6, <1>8, <3>1 DEF k
  <2> QED
    BY <1>1, <1>2, <1>8, <1>12, <2>1, <2>2, <2>3, OwnedKept, Zenon
<1>16. \A h \in Pools : PoolOK(h)'
  <2>1. PoolOK(g) /\ \A h \in Pools \ {g} : PoolOK(h)
    BY <1>3 DEF PoolsInv
  <2>2. PoolOK(g)'
    <3>1. CASE pool[g].draining /\ pool[g].leases = 1
      <4>1. pool'[g].closes = 1 /\ pool'[g].leases = 0
        BY <1>4, <1>6, <1>8, <3>1, SMTT(60) DEF k
      <4> QED
        BY <4>1 DEF PoolOK
    <3>2. CASE ~(pool[g].draining /\ pool[g].leases = 1)
      <4>1. pool'[g].closes = 0 /\ pool'[g].leases = pool[g].leases - 1 /\ pool'[g].draining = pool[g].draining
        BY <1>4, <1>6, <1>8, <3>2 DEF k
      <4>2. pool[g].draining => pool'[g].leases > 0
        BY <1>4, <1>6, <3>2, <4>1
      <4> QED
        BY <1>1, <1>4, <2>1, <4>1, <4>2 DEF PoolOK, Owns
    <3> QED
      BY <3>1, <3>2
  <2>3. ASSUME NEW h \in Pools \ {g} PROVE PoolOK(h)'
    <3>1. PoolOK(h) /\ pool'[h] = pool[h] /\ manager' = manager
      BY <1>1, <1>8, <2>1
    <3> QED
      BY <3>1, SMTT(60) DEF PoolOK, Owns
  <2> QED
    BY <2>2, <2>3
<1>17. LeasesOK'
  <2>1. LeaseHolders(g)' = LeaseHolders(g) \ {p} /\ p \in LeaseHolders(g)
    <3>1. p \in LeaseHolders(g)
      BY DEF LeaseHolders
    <3> QED
      BY <1>3, <1>7, <3>1, IdleIsARow DEF LeaseHolders
  <2>2. \A h \in Pools \ {g} : LeaseHolders(h)' = LeaseHolders(h)
    BY <1>7, IdleIsARow, ZeroIsNobody DEF LeaseHolders
  <2>3. IsFiniteSet(LeaseHolders(g)) /\ pool[g].leases = Cardinality(LeaseHolders(g))
    BY <1>3 DEF PoolsInv, LeasesOK
  <2>4. /\ IsFiniteSet(LeaseHolders(g) \ {p})
        /\ Cardinality(LeaseHolders(g) \ {p}) = Cardinality(LeaseHolders(g)) - 1
    BY <2>1, <2>3, FS_RemoveElement
  <2>5. IsFiniteSet(LeaseHolders(g)') /\ pool'[g].leases = Cardinality(LeaseHolders(g)')
    BY <1>6, <1>8, <2>1, <2>3, <2>4
  <2>6. \A h \in Pools \ {g} : IsFiniteSet(LeaseHolders(h)') /\ pool'[h].leases = Cardinality(LeaseHolders(h)')
    BY <1>8, <2>2 DEF PoolsInv, LeasesOK
  <2> QED
    BY <2>5, <2>6 DEF LeasesOK
<1>18. LeaseMatchesBinding'
  <2>1. \A q \in PoolClients : ClientAt(q, "leased") =>
          client[q].pool \in Pools /\ pool[client[q].pool].cfg = client[q].binding.cfg
    <3>1. \A q \in PoolClients : client[q].pool \in Pools \union {0} /\ ClientOK(q)
      BY <1>2 DEF ClientRows, PoolsInv
    <3> QED
      BY <3>1 DEF PoolsInv, LeaseMatchesBinding, ClientOK, ClientAt
  <2> QED
    BY <1>7, <1>12, <2>1, IdleIsARow DEF LeaseMatchesBinding, ClientAt
<1>19. KnownOK'
  <2>1. \A b \in Bindings : Known(b)' => Known(b)
    BY <1>1, <1>7, IdleIsARow DEF Known
  <2> QED
    BY <1>1, <1>2, <2>1, KnownKept DEF PoolsInv
<1>20. DisabledOK'
  BY <1>1 DEF PoolsInv, DisabledOK
<1> QED
  BY <1>9, <1>10, <1>11, <1>14, <1>15, <1>16, <1>17, <1>18, <1>19, <1>20 DEF PoolsInv

LEMMA ReleaseKeeps ==
  ASSUME PoolsInv, NEW p \in PoolClients, Release(p)
  PROVE  PoolsInv'
<1>1. client[p] \in ClientRows /\ ClientOK(p) /\ client[p].phase = "leased"
  BY PoolTypes DEF PoolsInv, Release, ClientAt
<1>2. client[p].pool \in Pools
  BY <1>1 DEF ClientOK, ClientRows
<1> QED
  BY <1>2, ReturnKeeps

LEMMA LeaseRefusedKeeps ==
  ASSUME PoolsInv, NEW p \in PoolClients, LeaseRefused(p)
  PROVE  PoolsInv'
<1>1. /\ client[p].phase \in {"pool", "leaseAgain"}
      /\ UNCHANGED <<stored, provider, directory, manager, pool, disabled>>
  BY DEF LeaseRefused
<1>2. ~ClientAt(p, "leased") /\ ~ClientAt(p, "idle")
  BY <1>1 DEF ClientAt
<1>3. ClientFails(p) \/ client' = [client EXCEPT ![p].phase = "gate"]
  BY DEF LeaseRefused
<1>4. CASE ClientFails(p)
  BY <1>1, <1>2, <1>4, FailingKeeps
<1>5. CASE client' = [client EXCEPT ![p].phase = "gate"]
  <2>1. "gate" \in ClientPhases /\ "gate" \in ManagerPhases /\ client[p].phase \in ManagerPhases
    BY <1>1 DEF ClientPhases, ManagerPhases
  <2> QED
    BY <1>1, <1>2, <1>5, <2>1, PhaseKeeps
<1> QED
  BY <1>3, <1>4, <1>5

LEMMA GateTimesOutKeeps ==
  ASSUME PoolsInv, NEW p \in PoolClients, GateTimesOut(p)
  PROVE  PoolsInv'
BY FailingKeeps DEF GateTimesOut, ClientAt

-----------------------------------------------------------------------------
(* Flights                                                                 *)

(* A manager with a flight is in service. *)
LEMMA FlyingServes ==
  ASSUME PoolsInv, NEW m \in Managers, manager[m].flight.step # "none"
  PROVE  /\ ~manager[m].retired /\ manager[m].flight \in Flights /\ manager[m].binding \in Bindings
         /\ manager[m].flight.from = manager[m].binding /\ Enabled(manager[m].flight.from)
         /\ FlightOK(m) /\ OwnedOK(m)
<1>1. manager \in [Managers -> ManagerRows] /\ FlightOK(m) /\ OwnedOK(m)
  BY PoolTypes DEF PoolsInv
<1> QED
  BY <1>1 DEF ManagerRows, FlightOK

(* The clients that share a flight return with it. *)
LEMMA LandIsQuiet ==
  ASSUME PoolsInv, NEW m \in Managers, NEW ok \in BOOLEAN, Land(m, ok)
  PROVE  ClientsQuiet
<1>1. client \in [PoolClients -> ClientRows]
  BY PoolTypes DEF PoolsInv
<1>2. ASSUME NEW p \in PoolClients
      PROVE  \/ client'[p] = client[p]
             \/ client[p].phase \in ManagerPhases /\ client'[p] = IdleClient
             \/ /\ client[p].phase \in ManagerPhases
                /\ client'[p] = [client[p] EXCEPT !.phase = "leaseAgain"]
  BY DEF Land, ManagerPhases
<1>3. ASSUME NEW p \in PoolClients, client'[p] = [client[p] EXCEPT !.phase = "leaseAgain"]
      PROVE  /\ client'[p] \in ClientRows /\ client'[p].phase \in ManagerPhases
             /\ client'[p].manager = client[p].manager /\ client'[p].pool = client[p].pool
             /\ client'[p].binding = client[p].binding
  BY <1>1, <1>3 DEF ClientRows, ClientPhases, ManagerPhases
<1>4. \A p \in PoolClients : client'[p] \in ClientRows
  BY <1>1, <1>2, <1>3, IdleIsARow
<1>5. client' = [p \in PoolClients |-> client'[p]]
  BY DEF Land
<1>6. client' \in [PoolClients -> ClientRows]
  BY <1>4, <1>5
<1> QED
  BY <1>2, <1>3, <1>6 DEF ClientsQuiet

LEMMA StillIsQuiet ==
  ASSUME PoolsInv, UNCHANGED client
  PROVE  ClientsQuiet
BY PoolTypes DEF PoolsInv, ClientsQuiet

LEMMA NoFlightFacts ==
  /\ NoFlight \in Flights /\ NoFlight.step = "none" /\ NoFlight.pool = 0
BY DEF NoFlight, Flights, FirstBinding, Bindings

(* A flight without a replacement fails. *)
LEMMA FailsKeeps ==
  ASSUME PoolsInv, NEW m \in Managers, Fails(m), manager[m].flight.step # "none",
         manager[m].flight.pool = 0,
         UNCHANGED <<stored, provider, directory, pool, disabled>>
  PROVE  PoolsInv'
<1>1. ~manager[m].retired
  BY FlyingServes
<1>2. ClientsQuiet /\ manager' = [manager EXCEPT ![m].flight = NoFlight]
  BY LandIsQuiet DEF Fails
<1> QED
  BY <1>1, <1>2, NoFlightFacts, FlightMoves

(* A flight saves that the connection is degraded. *)
LEMMA DegradeKeeps ==
  ASSUME PoolsInv, NEW m \in Managers, Degrade(m), manager[m].flight.step \in {"resolve", "prepare"},
         UNCHANGED <<stored, provider, directory, pool, disabled>>
  PROVE  PoolsInv'
<1> DEFINE f == [manager[m].flight EXCEPT !.step = "save", !.does = "degrade",
                                          !.next = MarkDegraded(manager[m].binding)]
<1>1. /\ ~manager[m].retired /\ manager[m].flight \in Flights /\ manager[m].binding \in Bindings
      /\ manager[m].flight.from = manager[m].binding /\ Enabled(manager[m].flight.from)
      /\ manager[m].flight.pool = 0
  BY FlyingServes DEF FlightOK
<1>2. CASE Fails(m)
  BY <1>1, <1>2, FailsKeeps
<1>3. CASE ~Fails(m)
  <2>1. manager' = [manager EXCEPT ![m].flight = f] /\ UNCHANGED client
    <3>1. manager \in [Managers -> ManagerRows]
      BY PoolTypes DEF PoolsInv
    <3>2. /\ manager' = [manager EXCEPT ![m].flight.step = "save", ![m].flight.does = "degrade",
                          ![m].flight.next = MarkDegraded(manager[m].binding)]
          /\ UNCHANGED client
      BY <1>3 DEF Degrade
    <3> QED
      BY <3>1, <3>2
  <2>2. /\ MarkDegraded(manager[m].binding) \in Bindings
        /\ MarkDegraded(manager[m].binding).rev = manager[m].binding.rev + 1
        /\ MarkDegraded(manager[m].binding).cfg = manager[m].binding.cfg
        /\ MarkDegraded(manager[m].binding).health = "degraded"
    BY <1>1, Successors, 0 \in Nat
  <2>3. /\ f \in Flights /\ f.step = "save" /\ f.does = "degrade"
        /\ f.next = MarkDegraded(manager[m].binding)
        /\ f.pool = 0 /\ f.from = manager[m].binding
    BY <1>1, <2>2 DEF Flights
  <2> HIDE DEF f
  <2>4. ClientsQuiet
    BY <2>1, StillIsQuiet
  <2> QED
    BY <1>1, <2>1, <2>2, <2>3, <2>4, FlightMoves
<1> QED
  BY <1>2, <1>3

LEMMA RefreshKeeps ==
  ASSUME PoolsInv, NEW p \in PoolClients, Refresh(p)
  PROVE  PoolsInv'
<1> DEFINE m == client[p].manager
<1>1. /\ client[p].phase = "gate" /\ UNCHANGED <<stored, provider, directory, pool, disabled>>
      /\ ~ClientAt(p, "leased") /\ ~ClientAt(p, "idle")
  BY DEF Refresh, ClientAt
<1>2. /\ client \in [PoolClients -> ClientRows] /\ client[p] \in ClientRows /\ ClientOK(p)
      /\ manager \in [Managers -> ManagerRows]
  BY PoolTypes DEF PoolsInv
<1>3. m \in Managers
  BY <1>1, <1>2 DEF ClientOK, ClientRows, ManagerPhases
<1>4. "refresh" \in ClientPhases /\ "refresh" \in ManagerPhases /\ client[p].phase \in ManagerPhases
  BY <1>1 DEF ClientPhases, ManagerPhases
<1>5. CASE client' = [client EXCEPT ![p].phase = "refresh"] /\ UNCHANGED manager
  BY <1>1, <1>4, <1>5, PhaseKeeps
<1>6. CASE ClientFails(p) /\ UNCHANGED manager
  BY <1>1, <1>6, FailingKeeps
<1>7. CASE /\ ~Busy(m) /\ ~manager[m].retired /\ Enabled(manager[m].binding)
           /\ manager' = [manager EXCEPT ![m].flight =
                [NoFlight EXCEPT !.step = "resolve", !.from = manager[m].binding]]
           /\ client' = [client EXCEPT ![p].phase = "refresh"]
  <2> DEFINE f == [NoFlight EXCEPT !.step = "resolve", !.from = manager[m].binding]
  <2>1. manager[m].binding \in Bindings /\ manager[m].flight = NoFlight
    BY <1>2, <1>3, <1>7 DEF ManagerRows, Busy
  <2>2. f \in Flights /\ f.step = "resolve" /\ f.from = manager[m].binding /\ f.pool = 0
    BY <2>1, NoFlightFacts DEF Flights
  <2>3. ClientsQuiet
    <3>1. /\ client'[p] \in ClientRows /\ client'[p].phase = "refresh"
          /\ client'[p].manager = m /\ client'[p].pool = client[p].pool
          /\ client'[p].binding = client[p].binding
      BY <1>2, <1>4, <1>7 DEF ClientRows
    <3>2. /\ client' \in [PoolClients -> ClientRows]
          /\ \A q \in PoolClients \ {p} : client'[q] = client[q]
      BY <1>2, <1>7, <3>1
    <3> QED
      BY <1>4, <3>1, <3>2 DEF ClientsQuiet
  <2>4. manager' = [manager EXCEPT ![m].flight = f]
    BY <1>7
  <2>5. Enabled(manager[m].binding) /\ ~manager[m].retired /\ manager[m].flight.pool = 0
    BY <1>7, <2>1, NoFlightFacts
  <2> HIDE DEF f, m
  <2> QED
    BY <1>1, <1>3, <2>2, <2>3, <2>4, <2>5, FlightMoves
<1> QED
  BY <1>5, <1>6, <1>7 DEF Refresh

LEMMA DisableKeeps ==
  ASSUME PoolsInv, NEW p \in PoolClients, Disable(p)
  PROVE  PoolsInv'
<1> DEFINE m == client[p].manager
           f == [NoFlight EXCEPT !.step = "save", !.does = "disable", !.from = manager[m].binding,
                                 !.next = Disabled(manager[m].binding)]
<1>1. /\ client[p].phase = "disabling" /\ UNCHANGED <<stored, provider, directory, pool, disabled>>
      /\ ~ClientAt(p, "leased") /\ ~Busy(m)
  BY DEF Disable, ClientAt
<1>2. /\ client \in [PoolClients -> ClientRows] /\ client[p] \in ClientRows /\ ClientOK(p)
      /\ manager \in [Managers -> ManagerRows]
  BY PoolTypes DEF PoolsInv
<1>3. m \in Managers
  BY <1>1, <1>2 DEF ClientOK, ClientRows, ManagerPhases
<1>4. CASE ClientFails(p) /\ UNCHANGED manager
  BY <1>1, <1>4, FailingKeeps
<1>5. CASE /\ ~manager[m].retired /\ Enabled(manager[m].binding)
           /\ manager' = [manager EXCEPT ![m].flight = f] /\ UNCHANGED client
  <2>1. manager[m].binding \in Bindings /\ manager[m].flight = NoFlight
    BY <1>1, <1>2, <1>3 DEF ManagerRows, Busy
  <2>2. /\ Disabled(manager[m].binding) \in Bindings
        /\ Disabled(manager[m].binding).rev = manager[m].binding.rev + 1
        /\ Disabled(manager[m].binding).cfg = manager[m].binding.cfg
        /\ Disabled(manager[m].binding).health = "disabled"
    BY <2>1, Successors, 0 \in Nat
  <2>3. /\ f \in Flights /\ f.step = "save" /\ f.does = "disable" /\ f.from = manager[m].binding
        /\ f.next = Disabled(manager[m].binding) /\ f.pool = 0
    BY <2>1, <2>2, NoFlightFacts DEF Flights
  <2>4. ClientsQuiet /\ ~manager[m].retired /\ manager[m].flight.pool = 0
    BY <1>5, <2>1, StillIsQuiet, NoFlightFacts
  <2>5. manager' = [manager EXCEPT ![m].flight = f] /\ Enabled(manager[m].binding)
    BY <1>5
  <2> HIDE DEF f, m
  <2> QED
    BY <1>1, <1>3, <2>2, <2>3, <2>4, <2>5, FlightMoves
<1> QED
  BY <1>4, <1>5 DEF Disable

LEMMA ResolveKeeps ==
  ASSUME PoolsInv, NEW m \in Managers, Resolve(m)
  PROVE  PoolsInv'
<1> DEFINE active == manager[m].active
           same == active # 0 /\ pool[active].version = provider
           b == manager[m].flight.from
<1>1. /\ manager[m].flight.step = "resolve"
      /\ UNCHANGED <<stored, provider, directory, pool, disabled>>
  BY DEF Resolve
<1>2. /\ ~manager[m].retired /\ manager[m].flight \in Flights /\ b \in Bindings
      /\ b = manager[m].binding /\ Enabled(b) /\ manager[m].flight.pool = 0
  BY <1>1, FlyingServes DEF FlightOK
<1>3. manager \in [Managers -> ManagerRows] /\ provider \in Nat
  BY PoolTypes DEF PoolsInv
<1>4. CASE Fails(m)
  BY <1>1, <1>2, <1>4, FailsKeeps
<1>5. CASE Degrade(m)
  BY <1>1, <1>5, DegradeKeeps
<1>6. CASE /\ same
           /\ manager' = [manager EXCEPT ![m].flight.step = "save", ![m].flight.does = "unchanged",
                            ![m].flight.next = MarkValidated(manager[m].flight.from, provider)]
           /\ UNCHANGED client
  <2> DEFINE f == [manager[m].flight EXCEPT !.step = "save", !.does = "unchanged",
                                            !.next = MarkValidated(b, provider)]
  <2>1. manager' = [manager EXCEPT ![m].flight = f]
    BY <1>3, <1>6
  <2>2. /\ MarkValidated(b, provider) \in Bindings
        /\ MarkValidated(b, provider).rev = b.rev + 1
        /\ MarkValidated(b, provider).cfg = b.cfg
        /\ MarkValidated(b, provider).version = provider
    BY <1>2, <1>3, Successors
  <2>3. /\ f \in Flights /\ f.step = "save" /\ f.does = "unchanged" /\ f.from = b
        /\ f.next = MarkValidated(b, provider) /\ f.pool = 0
    BY <1>2, <2>2 DEF Flights
  <2>4. ClientsQuiet /\ active # 0 /\ pool[active].version = provider
    BY <1>6, StillIsQuiet
  <2> HIDE DEF f
  <2> QED
    BY <1>1, <1>2, <2>1, <2>2, <2>3, <2>4, FlightMoves
<1>7. CASE /\ manager' = [manager EXCEPT ![m].flight.step = "prepare", ![m].flight.version = provider]
           /\ UNCHANGED client
  <2> DEFINE f == [manager[m].flight EXCEPT !.step = "prepare", !.version = provider]
  <2>1. manager' = [manager EXCEPT ![m].flight = f]
    BY <1>3, <1>7
  <2>2. f \in Flights /\ f.step = "prepare" /\ f.from = b /\ f.pool = 0
    BY <1>2, <1>3 DEF Flights
  <2>3. ClientsQuiet
    BY <1>7, StillIsQuiet
  <2> HIDE DEF f
  <2> QED
    BY <1>1, <1>2, <2>1, <2>2, <2>3, FlightMoves
<1> QED
  BY <1>4, <1>5, <1>6, <1>7 DEF Resolve

(* The others have no flight. *)
LEMMA OthersRest ==
  ASSUME PoolsInv, NEW m \in Managers, ~manager[m].retired, NEW n \in Managers, n # m
  PROVE  manager[n].retired /\ manager[n].active = 0 /\ manager[n].flight = NoFlight
<1>1. directory \in Directories /\ DirectoryOK /\ FlightOK(n)
  BY PoolTypes DEF PoolsInv
<1>2. manager[n].retired
  BY <1>1, OneServes
<1> QED
  BY <1>1, <1>2 DEF FlightOK

(* A manager that rests relies on no generation. *)
LEMMA RestingOK ==
  ASSUME NEW n \in Managers, manager'[n].active = 0, manager'[n].flight = NoFlight
  PROVE  FlightOK(n)' /\ OwnedOK(n)'
BY NoFlightFacts DEF FlightOK, OwnedOK

(* The factory prepares generation g, which nobody uses. *)
LEMMA PreparesKeeps ==
  ASSUME PoolsInv, NEW m \in Managers, NEW g \in UnusedPools,
         manager[m].flight.step = "prepare",
         pool' = [pool EXCEPT ![g] = NewPool(manager[m].flight.from.cfg, manager[m].flight.version)],
         manager' = [manager EXCEPT ![m].flight =
           [manager[m].flight EXCEPT !.step = "save", !.does = "activate", !.pool = g,
              !.next = MarkValidated(manager[m].flight.from, manager[m].flight.version)]],
         UNCHANGED <<stored, provider, directory, client, disabled>>
  PROVE  PoolsInv'
<1> DEFINE b == manager[m].flight.from
           v == manager[m].flight.version
           f == [manager[m].flight EXCEPT !.step = "save", !.does = "activate", !.pool = g,
                                          !.next = MarkValidated(b, v)]
<1>1. /\ ~manager[m].retired /\ manager[m].flight \in Flights /\ b \in Bindings
      /\ b = manager[m].binding /\ Enabled(b) /\ FlightOK(m) /\ OwnedOK(m)
      /\ manager[m].flight.pool = 0
  BY FlyingServes DEF FlightOK
<1>2. v \in Nat /\ b.cfg \in Nat
  BY <1>1 DEF Flights, Bindings
<1>3. /\ client \in [PoolClients -> ClientRows] /\ stored \in Bindings
      /\ manager \in [Managers -> ManagerRows] /\ pool \in [Pools -> PoolRows]
      /\ directory \in Directories /\ DirectoryOK
  BY PoolTypes DEF PoolsInv
<1>4. /\ g \in Pools /\ g # 0 /\ pool[g].closes = 1
      /\ \A p \in PoolClients : client[p].pool # g
  BY ZeroIsNobody DEF UnusedPools
<1>5. pool[g].leases = 0 /\ LeaseHolders(g) = {}
  BY <1>4, FS_EmptySet DEF PoolsInv, LeasesOK, LeaseHolders
<1>6. /\ MarkValidated(b, v) \in Bindings /\ MarkValidated(b, v).rev = b.rev + 1
      /\ MarkValidated(b, v).cfg = b.cfg /\ MarkValidated(b, v).version = v
  BY <1>1, <1>2, Successors
<1>7. /\ f \in Flights /\ f.step = "save" /\ f.does = "activate" /\ f.pool = g /\ f.from = b
      /\ f.next = MarkValidated(b, v)
  BY <1>1, <1>4, <1>6 DEF Flights
<1>8. /\ NewPool(b.cfg, v) \in PoolRows /\ NewPool(b.cfg, v).cfg = b.cfg
      /\ NewPool(b.cfg, v).version = v /\ NewPool(b.cfg, v).leases = 0
      /\ NewPool(b.cfg, v).draining = FALSE /\ NewPool(b.cfg, v).closes = 0
  BY <1>2 DEF NewPool, PoolRows
<1> HIDE DEF f
<1>9. /\ manager' \in [Managers -> ManagerRows] /\ manager'[m].flight = f
      /\ \A n \in Managers : /\ manager'[n].binding = manager[n].binding
                             /\ manager'[n].active = manager[n].active
                             /\ manager'[n].retired = manager[n].retired
      /\ \A n \in Managers \ {m} : manager'[n] = manager[n]
  <2>1. manager' = [manager EXCEPT ![m].flight = f]
    BY DEF f
  <2> QED
    BY <1>3, <1>7, <2>1 DEF ManagerRows
<1>10. /\ pool' \in [Pools -> PoolRows] /\ pool'[g] = NewPool(b.cfg, v)
       /\ \A h \in Pools \ {g} : pool'[h] = pool[h]
  BY <1>3, <1>4, <1>8
<1>11. PoolTypeOK'
  BY <1>9, <1>10, PoolTypes, PoolTypesNext DEF PoolsInv
<1>12. \A p \in PoolClients : ClientOK(p)'
  <2>1. \A p \in PoolClients : client[p].manager \in Managers \union {0}
    BY <1>3 DEF ClientRows
  <2> QED
    BY <1>9, <2>1 DEF PoolsInv, ClientOK
<1>13. DirectoryOK'
  BY <1>3, <1>9 DEF DirectoryOK, ClientAt
<1>14. manager[m].active # g /\ (manager[m].active # 0 => pool'[manager[m].active] = pool[manager[m].active])
  <2>1. manager[m].active \in Pools \union {0}
    BY <1>3 DEF ManagerRows
  <2> QED
    BY <1>1, <1>4, <1>10, <2>1 DEF OwnedOK
<1>15. FlightOK(m)'
  BY <1>1, <1>6, <1>7, <1>8, <1>9, <1>10, <1>4 DEF FlightOK
<1>16. OwnedOK(m)'
  BY <1>1, <1>4, <1>7, <1>8, <1>9, <1>10, <1>14 DEF OwnedOK
<1>17. \A n \in Managers : FlightOK(n)' /\ OwnedOK(n)'
  <2>1. \A n \in Managers \ {m} : manager'[n].active = 0 /\ manager'[n].flight = NoFlight
    BY <1>1, <1>9, OthersRest, SMTT(60)
  <2> QED
    BY <1>15, <1>16, <2>1, RestingOK
<1>18. \A h \in Pools : PoolOK(h)'
  <2>1. Owns(m, g)'
    BY <1>7, <1>9 DEF Owns
  <2>2. PoolOK(g)'
    BY <1>8, <1>10, <2>1 DEF PoolOK
  <2>3. \A n \in Managers, h \in Pools : Owns(n, h) => Owns(n, h)'
    BY <1>1, <1>9, ZeroIsNobody DEF Owns
  <2> QED
    BY <1>10, <2>2, <2>3 DEF PoolsInv, PoolOK
<1>19. LeasesOK'
  <2>1. \A h \in Pools : LeaseHolders(h)' = LeaseHolders(h)
    BY HoldersKept
  <2>2. \A h \in Pools : pool'[h].leases = pool[h].leases
    BY <1>5, <1>8, <1>10
  <2> QED
    BY <2>1, <2>2 DEF PoolsInv, LeasesOK
<1>20. LeaseMatchesBinding'
  <2>1. \A q \in PoolClients : ClientAt(q, "leased") => client[q].pool \in Pools \ {g}
    <3>1. \A q \in PoolClients : client[q].pool \in Pools \union {0} /\ ClientOK(q)
      BY <1>3 DEF ClientRows, PoolsInv
    <3> QED
      BY <1>4, <3>1 DEF ClientOK, ClientAt
  <2> QED
    BY <1>10, <2>1 DEF PoolsInv, LeaseMatchesBinding, ClientAt
<1>21. KnownOK'
  <2>1. \A x \in Bindings : Known(x)' => Known(x)
    BY <1>7, <1>9 DEF Known
  <2> QED
    BY <1>3, <2>1, KnownKept DEF PoolsInv
<1>22. DisabledOK'
  BY <1>7, <1>9, SMTT(60) DEF PoolsInv, DisabledOK
<1> QED
  BY <1>11, <1>12, <1>13, <1>17, <1>18, <1>19, <1>20, <1>21, <1>22 DEF PoolsInv

LEMMA PrepareKeeps ==
  ASSUME PoolsInv, NEW m \in Managers, Prepare(m)
  PROVE  PoolsInv'
<1>1. manager[m].flight.step = "prepare" /\ UNCHANGED <<stored, provider, directory, disabled>>
  BY Zenon DEF Prepare
<1>2. CASE Degrade(m) /\ UNCHANGED pool
  BY <1>1, <1>2, DegradeKeeps
<1>3. CASE \E g \in UnusedPools :
             /\ pool' = [pool EXCEPT ![g] = NewPool(manager[m].flight.from.cfg, manager[m].flight.version)]
             /\ manager' = [manager EXCEPT ![m].flight =
                  [manager[m].flight EXCEPT !.step = "save", !.does = "activate", !.pool = g,
                     !.next = MarkValidated(manager[m].flight.from, manager[m].flight.version)]]
             /\ UNCHANGED client
  BY <1>1, <1>3, PreparesKeeps, Zenon
<1> QED
  BY <1>2, <1>3, ZenonT(60) DEF Prepare

(* The store takes the binding that the flight decided on. *)
LEMMA SavesKeeps ==
  ASSUME PoolsInv, NEW m \in Managers, manager[m].flight.step = "save",
         stored.rev = manager[m].flight.from.rev, stored' = manager[m].flight.next,
         manager' = [manager EXCEPT ![m].flight.step = "install"],
         UNCHANGED <<client, pool, provider, directory, disabled>>
  PROVE  PoolsInv'
<1> DEFINE f == manager[m].flight
           i == [f EXCEPT !.step = "install"]
<1>1. /\ ~manager[m].retired /\ f \in Flights /\ manager[m].binding \in Bindings
      /\ f.from = manager[m].binding /\ Enabled(f.from) /\ FlightOK(m) /\ OwnedOK(m)
  BY FlyingServes
<1>2. /\ client \in [PoolClients -> ClientRows] /\ stored \in Bindings
      /\ manager \in [Managers -> ManagerRows] /\ pool \in [Pools -> PoolRows]
      /\ directory \in Directories /\ DirectoryOK
  BY PoolTypes DEF PoolsInv
<1>3. /\ f.next \in Bindings /\ f.next.rev = f.from.rev + 1 /\ f.next.rev > stored.rev
  <2>1. f.next \in Bindings /\ f.next.rev = f.from.rev + 1
    BY <1>1 DEF FlightOK, Flights
  <2>2. stored.rev \in Nat
    BY <1>2 DEF Bindings
  <2> QED
    BY <2>1, <2>2
<1>4. /\ i \in Flights /\ i.step = "install" /\ i.does = f.does /\ i.from = f.from
      /\ i.next = f.next /\ i.version = f.version /\ i.pool = f.pool
  BY <1>1 DEF Flights
<1>5. manager' = [manager EXCEPT ![m].flight = i]
  BY <1>2
<1> HIDE DEF i
<1>6. /\ manager' \in [Managers -> ManagerRows] /\ manager'[m].flight = i
      /\ \A n \in Managers : /\ manager'[n].binding = manager[n].binding
                             /\ manager'[n].active = manager[n].active
                             /\ manager'[n].retired = manager[n].retired
      /\ \A n \in Managers \ {m} : manager'[n] = manager[n]
  BY <1>2, <1>4, <1>5 DEF ManagerRows
<1>7. PoolTypeOK'
  BY <1>3, <1>6, PoolTypes, PoolTypesNext DEF PoolsInv
<1>8. \A p \in PoolClients : ClientOK(p)'
  <2>1. \A p \in PoolClients : client[p].manager \in Managers \union {0}
    BY <1>2 DEF ClientRows
  <2> QED
    BY <1>6, <2>1 DEF PoolsInv, ClientOK
<1>9. DirectoryOK'
  BY <1>2, <1>6 DEF DirectoryOK, ClientAt
<1>10. FlightOK(m)'
  BY <1>1, <1>4, <1>6 DEF FlightOK
<1>11. OwnedOK(m)'
  BY <1>1, <1>4, <1>6 DEF OwnedOK
<1>12. \A n \in Managers : FlightOK(n)' /\ OwnedOK(n)'
  <2>1. \A n \in Managers \ {m} : manager'[n].active = 0 /\ manager'[n].flight = NoFlight
    BY <1>1, <1>6, OthersRest
  <2> QED
    BY <1>10, <1>11, <2>1, RestingOK
<1>13. \A h \in Pools : PoolOK(h)'
  <2>1. \A n \in Managers, h \in Pools : Owns(n, h) => Owns(n, h)'
    BY <1>4, <1>6 DEF Owns
  <2> QED
    BY <2>1 DEF PoolsInv, PoolOK
<1>14. LeasesOK' /\ LeaseMatchesBinding'
  BY HoldersKept DEF PoolsInv, LeasesOK, LeaseMatchesBinding, ClientAt
<1>15. KnownOK'
  <2>1. \A x \in Bindings : Known(x)' => Known(x) \/ x = stored'
    BY <1>4, <1>6 DEF Known
  <2> QED
    BY <1>2, <1>3, <2>1, KnownKept DEF PoolsInv
<1>16. DisabledOK'
  <2>1. ~disabled
    <3>1. Known(stored) /\ Known(manager[m].binding)
      BY <1>1 DEF Known
    <3>2. stored = manager[m].binding
      BY <1>1, <1>2, <3>1 DEF PoolsInv, KnownOK
    <3> QED
      BY <1>1, <3>2 DEF PoolsInv, DisabledOK
  <2> QED
    BY <2>1 DEF DisabledOK
<1> QED
  BY <1>7, <1>8, <1>9, <1>12, <1>13, <1>14, <1>15, <1>16 DEF PoolsInv

(* The store refuses the binding, and replacement g is closed. *)
LEMMA DiscardsKeeps ==
  ASSUME PoolsInv, NEW m \in Managers, NEW g \in Pools, Fails(m), manager[m].flight.step # "none",
         manager[m].flight.pool = g, pool' = [pool EXCEPT ![g].closes = @ + 1],
         UNCHANGED <<stored, provider, directory, disabled>>
  PROVE  PoolsInv'
<1> DEFINE r == [pool[g] EXCEPT !.closes = 1]
<1>1. ~manager[m].retired /\ FlightOK(m) /\ OwnedOK(m)
  BY FlyingServes
<1>2. /\ client \in [PoolClients -> ClientRows] /\ stored \in Bindings
      /\ manager \in [Managers -> ManagerRows] /\ pool \in [Pools -> PoolRows]
      /\ directory \in Directories /\ DirectoryOK
  BY PoolTypes DEF PoolsInv
<1>3. ClientsQuiet /\ client' \in [PoolClients -> ClientRows]
  BY LandIsQuiet DEF Fails, ClientsQuiet
<1>4. /\ manager' \in [Managers -> ManagerRows] /\ manager'[m].flight = NoFlight
      /\ \A n \in Managers : /\ manager'[n].binding = manager[n].binding
                             /\ manager'[n].active = manager[n].active
                             /\ manager'[n].retired = manager[n].retired
      /\ \A n \in Managers \ {m} : manager'[n] = manager[n]
  BY <1>2, NoFlightFacts DEF Fails, ManagerRows
<1>5. /\ g # 0 /\ pool[g].closes = 0 /\ pool[g].leases = 0 /\ g # manager[m].active
  BY <1>1, ZeroIsNobody DEF OwnedOK
<1>6. /\ r \in PoolRows /\ r.closes = 1 /\ r.leases = pool[g].leases /\ r.cfg = pool[g].cfg
      /\ r.version = pool[g].version
  BY <1>2 DEF PoolRows
<1>7. pool' = [pool EXCEPT ![g] = r]
  BY <1>2, <1>5
<1> HIDE DEF r
<1>8. /\ pool' \in [Pools -> PoolRows] /\ pool'[g] = r
      /\ \A h \in Pools \ {g} : pool'[h] = pool[h]
  BY <1>2, <1>6, <1>7
<1>9. PoolTypeOK'
  BY <1>3, <1>4, <1>8, PoolTypes, PoolTypesNext DEF PoolsInv
<1>10. \A p \in PoolClients :
         /\ ClientOK(p)'
         /\ client'[p].pool = client[p].pool
         /\ client'[p].phase # "idle" => /\ client[p].phase # "idle"
                                         /\ client'[p].binding = client[p].binding
         /\ ClientAt(p, "retire")' <=> ClientAt(p, "retire")
         /\ ClientAt(p, "leased")' <=> ClientAt(p, "leased")
         /\ ClientAt(p, "leased") => client'[p] = client[p]
  BY <1>2, <1>3, <1>4, QuietClients DEF PoolsInv
<1>11. DirectoryOK'
  BY <1>2, <1>4, <1>10 DEF DirectoryOK
<1>12. OwnedOK(m)'
  <2>1. manager[m].active # 0 => pool'[manager[m].active] = pool[manager[m].active]
    BY <1>2, <1>5, <1>8 DEF ManagerRows
  <2> QED
    BY <1>1, <1>4, <2>1, NoFlightFacts DEF OwnedOK
<1>13. FlightOK(m)'
  BY <1>1, <1>4, NoFlightFacts DEF FlightOK
<1>14. \A n \in Managers : FlightOK(n)' /\ OwnedOK(n)'
  <2>1. \A n \in Managers \ {m} : manager'[n].active = 0 /\ manager'[n].flight = NoFlight
    BY <1>1, <1>4, OthersRest
  <2> QED
    BY <1>12, <1>13, <2>1, RestingOK
<1>15. \A h \in Pools : PoolOK(h)'
  <2>1. PoolOK(g)'
    BY <1>5, <1>6, <1>8 DEF PoolOK
  <2>2. \A n \in Managers, h \in Pools \ {g} : Owns(n, h) => Owns(n, h)'
    BY <1>4 DEF Owns
  <2> QED
    BY <1>8, <2>1, <2>2 DEF PoolsInv, PoolOK
<1>16. LeasesOK'
  <2>1. \A h \in Pools : pool'[h].leases = pool[h].leases
    BY <1>6, <1>8
  <2> QED
    BY <1>10, <2>1, HoldersKept DEF PoolsInv, LeasesOK
<1>17. LeaseMatchesBinding'
  <2>1. \A q \in PoolClients : ClientAt(q, "leased") => client[q].pool \in Pools
    <3>1. \A q \in PoolClients : client[q].pool \in Pools \union {0} /\ ClientOK(q)
      BY <1>2 DEF ClientRows, PoolsInv
    <3> QED
      BY <3>1 DEF ClientOK, ClientAt
  <2>2. \A h \in Pools : pool'[h].cfg = pool[h].cfg
    BY <1>6, <1>8
  <2> QED
    BY <1>10, <2>1, <2>2 DEF PoolsInv, LeaseMatchesBinding
<1>18. KnownOK'
  <2>1. \A x \in Bindings : Known(x)' => Known(x)
    BY <1>4, <1>10, NoFlightFacts DEF Known
  <2> QED
    BY <1>2, <2>1, KnownKept DEF PoolsInv
<1>19. DisabledOK'
  BY <1>4, NoFlightFacts DEF PoolsInv, DisabledOK
<1> QED
  BY <1>9, <1>10, <1>11, <1>14, <1>15, <1>16, <1>17, <1>18, <1>19 DEF PoolsInv

LEMMA SaveKeeps ==
  ASSUME PoolsInv, NEW m \in Managers, Save(m)
  PROVE  PoolsInv'
<1>1. manager[m].flight.step = "save" /\ UNCHANGED <<provider, directory, disabled>>
  BY DEF Save
<1>2. CASE /\ stored.rev = manager[m].flight.from.rev /\ stored' = manager[m].flight.next
           /\ manager' = [manager EXCEPT ![m].flight.step = "install"]
           /\ UNCHANGED <<client, pool>>
  BY <1>1, <1>2, SavesKeeps
<1>3. CASE Fails(m) /\ pool' = Discard(manager[m].flight.pool) /\ UNCHANGED stored
  <2>1. manager[m].flight.pool \in Pools \union {0}
    BY <1>1, FlyingServes DEF Flights
  <2>2. CASE manager[m].flight.pool = 0
    BY <1>1, <1>3, <2>2, FailsKeeps DEF Discard
  <2>3. CASE manager[m].flight.pool # 0
    BY <1>1, <1>3, <2>1, <2>3, DiscardsKeeps DEF Discard
  <2> QED
    BY <2>2, <2>3
<1> QED
  BY <1>2, <1>3 DEF Save

LEMMA InstallKeeps ==
  ASSUME PoolsInv, NEW m \in Managers, Install(m)
  PROVE  PoolsInv'
<1> DEFINE f == manager[m].flight
           a == manager[m].active
           next == IF f.does = "activate" THEN f.pool ELSE IF f.does = "disable" THEN 0 ELSE a
           gone == IF f.does \in {"activate", "disable"} THEN a ELSE 0
           row == [manager[m] EXCEPT !.flight = NoFlight, !.binding = f.next, !.active = next]
<1>1. f.step = "install" /\ UNCHANGED <<stored, provider, directory>>
  BY DEF Install
<1>2. /\ ~manager[m].retired /\ f \in Flights /\ manager[m].binding \in Bindings
      /\ f.from = manager[m].binding /\ Enabled(f.from) /\ FlightOK(m) /\ OwnedOK(m)
  BY <1>1, FlyingServes
<1>3. /\ client \in [PoolClients -> ClientRows] /\ stored \in Bindings
      /\ manager \in [Managers -> ManagerRows] /\ pool \in [Pools -> PoolRows]
      /\ directory \in Directories /\ DirectoryOK /\ provider \in Nat
  BY PoolTypes DEF PoolsInv
<1>4. /\ f.next \in Bindings /\ f.next.rev = f.from.rev + 1 /\ f.next.cfg = manager[m].binding.cfg
      /\ f.does # "refresh" /\ (f.pool # 0 <=> f.does = "activate")
      /\ f.does = "disable" => f.next.health = "disabled"
      /\ f.does = "degrade" => f.next.health = "degraded"
      /\ f.does = "unchanged" => a # 0 /\ f.next.version = pool[a].version
      /\ f.does = "activate" => f.next.version = pool[f.pool].version /\ pool[f.pool].cfg = f.from.cfg
  BY <1>1, <1>2 DEF FlightOK, Flights
<1>5. a \in Pools \union {0} /\ f.pool \in Pools \union {0} /\ f.does \in {"activate", "unchanged", "degrade", "disable"}
  BY <1>2, <1>3, <1>4 DEF ManagerRows, Flights
<1>6. manager' = [manager EXCEPT ![m] = row]
  <2>1. manager' = [manager EXCEPT ![m].flight = NoFlight, ![m].binding = f.next, ![m].active = next]
    BY <1>2, <1>4 DEF Install
  <2> HIDE DEF next, f
  <2> QED
    BY <1>3, <2>1
<1>7. pool' = Drain(gone)
  BY <1>2, <1>4, <1>5, Zenon DEF Install, Drain, Discard
<1>8. ClientsQuiet /\ client' \in [PoolClients -> ClientRows]
  <2>1. \E ok \in BOOLEAN : Land(m, ok)
    BY DEF Install
  <2> QED
    BY <2>1, LandIsQuiet DEF ClientsQuiet
<1>9. disabled' = (disabled \/ (f.does = "disable" /\ stored = f.next))
  BY DEF Install
<1>10. next \in Pools \union {0} /\ gone \in Pools \union {0}
  BY <1>5
<1>11. /\ row \in ManagerRows /\ row.flight = NoFlight /\ row.binding = f.next /\ row.active = next
       /\ row.retired = manager[m].retired
  <2> HIDE DEF next, f
  <2> QED
    BY <1>3, <1>4, <1>10, NoFlightFacts, ZenonT(60) DEF ManagerRows
<1> HIDE DEF row
<1>12. /\ manager' \in [Managers -> ManagerRows] /\ manager'[m] = row
       /\ \A n \in Managers \ {m} : manager'[n] = manager[n]
  BY <1>3, <1>6, <1>11
<1>13. \A n \in Managers : /\ manager'[n].binding.cfg = manager[n].binding.cfg
                           /\ manager'[n].retired = manager[n].retired
  BY <1>4, <1>11, <1>12
<1>14. /\ pool' \in [Pools -> PoolRows]
       /\ \A g \in Pools : /\ pool'[g].leases = pool[g].leases /\ pool'[g].cfg = pool[g].cfg
                           /\ pool'[g].version = pool[g].version
                           /\ g # gone => pool'[g] = pool[g]
       /\ gone # 0 => /\ pool'[gone].draining = TRUE
                      /\ pool'[gone].closes = 0 => pool'[gone].leases > 0
                      /\ pool'[gone].leases > 0 => pool'[gone].closes = 0
  <2>1. gone # 0 => pool[gone].closes = 0
    BY <1>2 DEF OwnedOK
  <2> HIDE DEF gone
  <2> QED
    BY <1>3, <1>7, <1>10, <2>1, DrainFacts
<1>15. PoolTypeOK'
  <2>1. disabled' \in BOOLEAN
    BY <1>9, PoolTypes DEF PoolsInv
  <2> QED
    BY <1>1, <1>3, <1>8, <1>12, <1>14, <2>1, PoolTypesNext
<1>16. \A p \in PoolClients :
         /\ ClientOK(p)'
         /\ client'[p].pool = client[p].pool
         /\ client'[p].phase # "idle" => /\ client[p].phase # "idle"
                                         /\ client'[p].binding = client[p].binding
         /\ ClientAt(p, "retire")' <=> ClientAt(p, "retire")
         /\ ClientAt(p, "leased")' <=> ClientAt(p, "leased")
         /\ ClientAt(p, "leased") => client'[p] = client[p]
  BY <1>3, <1>8, <1>13, QuietClients DEF PoolsInv
<1>17. DirectoryOK'
  BY <1>1, <1>3, <1>13, <1>16 DEF DirectoryOK
<1>18. FlightOK(m)'
  BY <1>2, <1>11, <1>12, NoFlightFacts DEF FlightOK
<1>19. OwnedOK(m)'
  <2>1. CASE f.does = "activate"
    <3>1. next = f.pool /\ f.pool # 0 /\ f.pool # a /\ gone = a
      BY <1>2, <1>4, <2>1 DEF OwnedOK
    <3>2. pool'[next] = pool[next] /\ pool[next].closes = 0 /\ ~pool[next].draining
      BY <1>2, <1>5, <1>14, <3>1 DEF OwnedOK
    <3>3. pool[next].cfg = f.next.cfg /\ pool[next].version = f.next.version
      BY <1>2, <1>4, <2>1, <3>1
    <3> HIDE DEF next, gone
    <3> QED
      BY <1>11, <1>12, <3>1, <3>2, <3>3, NoFlightFacts DEF OwnedOK
  <2>2. CASE f.does = "disable"
    <3>1. next = 0
      BY <2>2
    <3> HIDE DEF next
    <3> QED
      BY <1>11, <1>12, <3>1, NoFlightFacts DEF OwnedOK
  <2>3. CASE f.does \in {"unchanged", "degrade"}
    <3>1. next = a /\ gone = 0
      BY <2>3
    <3>2. a # 0 => pool'[a] = pool[a]
      BY <1>5, <1>14, <3>1
    <3>3. f.next.health = "healthy" => f.next.version = pool[a].version
      BY <1>4, <2>3
    <3>4. a # 0 => pool[a].closes = 0 /\ ~pool[a].draining /\ pool[a].cfg = f.next.cfg
      BY <1>2, <1>4 DEF OwnedOK
    <3> HIDE DEF next, gone
    <3> QED
      BY <1>11, <1>12, <3>1, <3>2, <3>3, <3>4, NoFlightFacts DEF OwnedOK
  <2> QED
    BY <1>5, <2>1, <2>2, <2>3
<1>20. \A n \in Managers \ {m} : /\ manager[n].active = 0 /\ manager[n].flight = NoFlight
                                /\ manager'[n].active = 0 /\ manager'[n].flight = NoFlight
  BY <1>2, <1>12, OthersRest
<1>21. \A n \in Managers : FlightOK(n)' /\ OwnedOK(n)'
  BY <1>18, <1>19, <1>20, RestingOK
<1>22. \A h \in Pools : PoolOK(h)'
  <2>1. ASSUME NEW h \in Pools, h # gone, \E n \in Managers : Owns(n, h)
        PROVE  \E n \in Managers : Owns(n, h)'
    <3>1. Owns(m, h)
      BY <1>20, <2>1, NoFlightFacts, ZeroIsNobody DEF Owns
    <3>2. next = h
      BY <1>4, <1>5, <2>1, <3>1, ZeroIsNobody DEF Owns
    <3> QED
      BY <1>11, <1>12, <3>2 DEF Owns
  <2>2. ASSUME NEW h \in Pools, h # gone PROVE PoolOK(h)'
    BY <1>14, <2>1, <2>2 DEF PoolsInv, PoolOK
  <2>3. ASSUME NEW h \in Pools, h = gone PROVE PoolOK(h)'
    <3>1. gone # 0
      BY <2>3, ZeroIsNobody
    <3> HIDE DEF gone
    <3> QED
      BY <1>14, <2>3, <3>1 DEF PoolOK
  <2> QED
    BY <2>2, <2>3
<1>23. LeasesOK'
  BY <1>14, <1>16, HoldersKept DEF PoolsInv, LeasesOK
<1>24. LeaseMatchesBinding'
  <2>1. \A q \in PoolClients : ClientAt(q, "leased") => client[q].pool \in Pools
    <3>1. \A q \in PoolClients : client[q].pool \in Pools \union {0} /\ ClientOK(q)
      BY <1>3 DEF ClientRows, PoolsInv
    <3> QED
      BY <3>1 DEF ClientOK, ClientAt
  <2> QED
    BY <1>14, <1>16, <2>1 DEF PoolsInv, LeaseMatchesBinding
<1>25. KnownOK'
  <2>1. Known(f.next)
    BY <1>1, <1>2 DEF Known
  <2>2. manager'[m].binding = f.next /\ manager'[m].flight.step = "none"
    BY <1>11, <1>12, NoFlightFacts
  <2>3. \A x \in Bindings : Known(x)' => Known(x)
    <3> HIDE DEF f
    <3> QED
      BY <1>1, <1>12, <1>16, <2>1, <2>2 DEF Known
  <2> QED
    BY <1>1, <1>3, <2>3, KnownKept DEF PoolsInv
<1>26. DisabledOK'
  <2>1. ~disabled
    BY <1>1 DEF PoolsInv, DisabledOK
  <2>2. CASE f.does = "disable" /\ stored = f.next
    <3>1. ~Enabled(stored)' /\ next = 0
      BY <1>1, <1>4, <2>2 DEF Enabled
    <3>2. \A n \in Managers : manager'[n].active = 0 /\ manager'[n].flight = NoFlight
      BY <1>11, <1>12, <1>20, <3>1
    <3> QED
      BY <3>1, <3>2, NoFlightFacts DEF DisabledOK
  <2>3. CASE ~(f.does = "disable" /\ stored = f.next)
    BY <1>9, <2>1, <2>3 DEF DisabledOK
  <2> QED
    BY <2>2, <2>3
<1> QED
  BY <1>15, <1>16, <1>17, <1>21, <1>22, <1>23, <1>24, <1>25, <1>26 DEF PoolsInv

-----------------------------------------------------------------------------
(* Connection pools: the theorems                                          *)

LEMMA PoolInitInv == PoolInit => PoolsInv
<1> SUFFICES ASSUME PoolInit PROVE PoolsInv
  OBVIOUS
<1>1. FirstBinding \in Bindings
  BY DEF FirstBinding, Bindings
<1>2. /\ stored = FirstBinding /\ provider = 1 /\ disabled = FALSE
      /\ directory = [current |-> 0, closed |-> FALSE, retiring |-> 0]
      /\ \A p \in PoolClients : client[p] = IdleClient
  BY DEF PoolInit
<1>3. \A m \in Managers : /\ manager[m] \in ManagerRows /\ manager[m].retired = TRUE
                          /\ manager[m].active = 0 /\ manager[m].flight = NoFlight
  <2> DEFINE x == [NewManager(FirstBinding) EXCEPT !.retired = TRUE]
  <2>1. x \in ManagerRows /\ x.retired = TRUE /\ x.active = 0 /\ x.flight = NoFlight
    BY <1>1, NoFlightFacts DEF NewManager, ManagerRows
  <2>2. \A m \in Managers : manager[m] = x
    BY DEF PoolInit
  <2> HIDE DEF x
  <2> QED
    BY <2>1, <2>2
<1>4. \A g \in Pools : pool[g] \in PoolRows /\ pool[g].closes = 1 /\ pool[g].leases = 0
  <2> DEFINE x == [NewPool(0, 0) EXCEPT !.closes = 1]
  <2>1. NewPool(0, 0) \in PoolRows /\ NewPool(0, 0).leases = 0
    BY DEF NewPool, PoolRows
  <2>2. x \in PoolRows /\ x.closes = 1 /\ x.leases = 0
    BY <2>1 DEF PoolRows
  <2>3. \A g \in Pools : pool[g] = x
    BY DEF PoolInit
  <2> HIDE DEF x
  <2> QED
    BY <2>2, <2>3
<1>5. /\ client \in [PoolClients -> ClientRows] /\ manager \in [Managers -> ManagerRows]
      /\ pool \in [Pools -> PoolRows]
  <2>1. manager \in [Managers -> ManagerRows]
    BY <1>3 DEF PoolInit
  <2>2. pool \in [Pools -> PoolRows]
    BY <1>4 DEF PoolInit
  <2>3. client \in [PoolClients -> ClientRows]
    BY <1>2, IdleIsARow DEF PoolInit
  <2> QED
    BY <2>1, <2>2, <2>3
<1>6. PoolTypeOK
  BY <1>1, <1>2, <1>5, PoolTypes DEF Directories
<1>7. \A p \in PoolClients : ClientOK(p)
  BY <1>2, IdleIsARow DEF ClientOK, ManagerPhases
<1>8. DirectoryOK
  BY <1>2, <1>3, IdleIsARow, ZeroIsNobody DEF DirectoryOK, ClientAt
<1>9. \A m \in Managers : FlightOK(m) /\ OwnedOK(m)
  BY <1>3, NoFlightFacts DEF FlightOK, OwnedOK
<1>10. \A g \in Pools : PoolOK(g)
  BY <1>4 DEF PoolOK
<1>11. LeasesOK
  <2>1. \A g \in Pools : LeaseHolders(g) = {}
    BY <1>2, IdleIsARow, ZeroIsNobody DEF LeaseHolders
  <2> QED
    BY <1>4, <2>1, FS_EmptySet DEF LeasesOK
<1>12. LeaseMatchesBinding /\ DisabledOK
  BY <1>2, IdleIsARow DEF LeaseMatchesBinding, ClientAt, DisabledOK
<1>13. KnownOK
  <2>1. \A b \in Bindings : Known(b) => b = stored
    BY <1>2, <1>3, IdleIsARow DEF Known
  <2>2. stored.rev \in Nat
    BY <1>1, <1>2 DEF Bindings
  <2>3. \A b \in Bindings : Known(b) => b.rev <= stored.rev
    BY <2>1, <2>2
  <2>4. \A a, b \in Bindings : Known(a) /\ Known(b) => a = b
    BY <2>1
  <2> QED
    BY <2>3, <2>4 DEF KnownOK
<1> QED
  BY <1>6, <1>7, <1>8, <1>9, <1>10, <1>11, <1>12, <1>13 DEF PoolsInv

LEMMA PoolNextInv == PoolsInv /\ [PoolNext]_poolVars => PoolsInv'
<1> SUFFICES ASSUME PoolsInv, [PoolNext]_poolVars PROVE PoolsInv'
  OBVIOUS
<1>1. ASSUME NEW p \in PoolClients, ClientStep(p) PROVE PoolsInv'
  BY <1>1, PoolKeeps, RetireAndBuildKeeps, LeaseKeeps, LeaseRefusedKeeps, RefreshKeeps,
     GateTimesOutKeeps, DisableKeeps DEF ClientStep
<1>2. ASSUME NEW p \in PoolClients, Release(p) PROVE PoolsInv'
  BY <1>2, ReleaseKeeps
<1>3. ASSUME NEW p \in PoolClients, NEW use \in Uses \ {"none"}, ReadBinding(p, use) PROVE PoolsInv'
  BY <1>3, ReadBindingKeeps
<1>4. ASSUME NEW m \in Managers, FlightStep(m) PROVE PoolsInv'
  BY <1>4, ResolveKeeps, PrepareKeeps, SaveKeeps, InstallKeeps DEF FlightStep
<1>5. CASE UpdateConfiguration \/ Enable
  BY <1>5, StoreSteps
<1>6. CASE ProviderRotates
  BY <1>6, ProviderSteps
<1>7. CASE CloseDirectory \/ CloseRetires
  BY <1>7, CloseDirectoryKeeps, CloseRetiresKeeps
<1>8. CASE UNCHANGED poolVars
  <2>1. UNCHANGED <<stored, provider, directory, manager, pool, client, disabled>>
    BY <1>8 DEF poolVars
  <2>2. PoolTypeOK'
    BY <2>1, PoolTypes, PoolTypesNext DEF PoolsInv
  <2>3. (\A p \in PoolClients : ClientOK(p)') /\ DirectoryOK'
    BY <2>1 DEF PoolsInv, ClientOK, DirectoryOK, ClientAt
  <2>4. (\A m \in Managers : FlightOK(m)') /\ (\A m \in Managers : OwnedOK(m)')
    BY <2>1 DEF PoolsInv, FlightOK, OwnedOK
  <2>5. (\A g \in Pools : PoolOK(g)') /\ LeasesOK' /\ LeaseMatchesBinding'
    BY <2>1, HoldersKept DEF PoolsInv, PoolOK, Owns, LeasesOK, LeaseMatchesBinding, ClientAt
  <2>6. KnownOK' /\ DisabledOK'
    BY <2>1 DEF PoolsInv, KnownOK, Known, DisabledOK
  <2> QED
    BY <2>2, <2>3, <2>4, <2>5, <2>6 DEF PoolsInv
<1> QED
  BY <1>1, <1>2, <1>3, <1>4, <1>5, <1>6, <1>7, <1>8 DEF PoolNext

(* The inductive invariant holds of every behaviour of the pools: any clients,
   managers and generations, a binding that changes, rotates, is disabled and
   enabled meanwhile, and a directory that may close. *)
THEOREM PoolsInvariance == PoolSafety => []PoolsInv
BY PoolInitInv, PoolNextInv, PTL DEF PoolSafety

(* No generation is closed under a lease or while its manager would lease it
   out, and its count is the number of its leases (rotation.go: Lease,
   Release, markDraining). *)
THEOREM NoPoolClosesUnderALease == PoolSafety => []LeasedPoolsOpen
<1>1. PoolsInv => LeasedPoolsOpen
  <2> SUFFICES ASSUME PoolsInv PROVE LeasedPoolsOpen
    OBVIOUS
  <2>1. \A g \in Pools : /\ pool[g].leases = Cardinality({p \in PoolClients : client[p].pool = g})
                         /\ pool[g].leases > 0 => pool[g].closes = 0
    BY DEF PoolsInv, LeasesOK, LeaseHolders, PoolOK
  <2>2. \A m \in Managers : manager[m].active # 0 => pool[manager[m].active].closes = 0
    BY DEF PoolsInv, OwnedOK
  <2> QED
    BY <2>1, <2>2 DEF LeasedPoolsOpen
<1> QED
  BY <1>1, PoolsInvariance, PTL

(* No manager in service is ahead of the store or differs from it at the same
   revision, and a healthy one serves the version it was validated with
   (rotation.go: refresh, install; administration.go: Save by revision). *)
THEOREM ManagersFollowTheStore == PoolSafety => []PoolsFollowStore
<1>1. PoolsInv => PoolsFollowStore
  <2> SUFFICES ASSUME PoolsInv, NEW m \in Managers, ~manager[m].retired
               PROVE  /\ manager[m].binding.rev <= stored.rev
                      /\ manager[m].binding.rev = stored.rev => manager[m].binding = stored
                      /\ manager[m].active # 0 /\ manager[m].binding.health = "healthy"
                           => pool[manager[m].active].version = manager[m].binding.version
    BY DEF PoolsFollowStore
  <2>1. stored \in Bindings /\ manager \in [Managers -> ManagerRows]
    BY PoolTypes DEF PoolsInv
  <2>2. manager[m].binding \in Bindings /\ Known(manager[m].binding) /\ Known(stored)
    BY <2>1 DEF ManagerRows, Known
  <2>3. OwnedOK(m) /\ KnownOK
    BY DEF PoolsInv
  <2> QED
    BY <2>1, <2>2, <2>3 DEF KnownOK, OwnedOK
<1> QED
  BY <1>1, PoolsInvariance, PTL

LEMMA PoolsInvConsistent == PoolsInv => PoolConsistent
<1>1. PoolsInv => NoPoolForgotten
  <2> SUFFICES ASSUME PoolsInv, NEW g \in Pools, pool[g].closes = 0
               PROVE  \/ pool[g].leases > 0
                      \/ \E m \in Managers :
                           \/ manager[m].active = g /\ m \in {directory.current, directory.retiring}
                           \/ manager[m].flight.pool = g
    BY DEF NoPoolForgotten
  <2>1. PoolOK(g) /\ DirectoryOK
    BY DEF PoolsInv
  <2>2. CASE pool[g].draining
    BY <2>1, <2>2 DEF PoolOK
  <2>3. CASE ~pool[g].draining
    <3>1. PICK m \in Managers : Owns(m, g)
      BY <2>1, <2>3 DEF PoolOK
    <3>2. CASE manager[m].active = g
      <4>1. ~manager[m].retired
        BY <3>2, ZeroIsNobody DEF PoolsInv, FlightOK
      <4> QED
        BY <2>1, <3>2, <4>1 DEF DirectoryOK
    <3> QED
      BY <3>1, <3>2 DEF Owns
  <2> QED
    BY <2>2, <2>3
<1>2. PoolsInv => DisabledGrantsNothing
  <2> SUFFICES ASSUME PoolsInv, disabled, NEW p \in PoolClients,
                      client[p].phase \in {"pool", "leaseAgain"}
               PROVE  ~Leasable(client[p].manager)
    BY DEF DisabledGrantsNothing
  <2>1. client[p] \in ClientRows /\ ClientOK(p)
    BY PoolTypes DEF PoolsInv
  <2>2. client[p].manager \in Managers
    BY <2>1 DEF ClientOK, ClientRows, ManagerPhases
  <2> QED
    BY <2>2 DEF PoolsInv, DisabledOK, Leasable
<1> QED
  BY <1>1, <1>2 DEF PoolConsistent, PoolsInv

(* No open generation is forgotten, a lease is of the configuration that its
   client was admitted with, and a disabled connection grants nothing
   (pool_directory.go: Pool, Close; rotation.go: Disable). *)
THEOREM PoolsStayConsistent == PoolSafety => []PoolConsistent
BY PoolsInvConsistent, PoolsInvariance, PTL

-----------------------------------------------------------------------------
(* Dashboard streams: the inductive invariant                              *)

RequestRows ==
  [kind : RequestKinds \union {"none"},
   step : {"idle", "load", "swap", "reload", "open", "ensure", "begin", "persist", "commit",
           "invalid", "start", "streaming"},
   number : 0..MaxRequests, base : Nat, seen : 0..MaxRequests, sequence : 0..MaxSequence,
   version : Nat, revision : Nat, selection : 0..MaxRequests, attempts : 0..(MaxAttempts - 1),
   coordinator : {0} \union Coordinators, generation : {0} \union Generations]
CoordinatorRows ==
  [state : {"none", "open", "expiring", "closed"}, timer : BOOLEAN,
   lock : {"free"} \union Handlers, generation : 0..MaxRequests, active : 0..MaxRequests,
   revision : Nat, selection : 0..MaxRequests, sequence : 0..MaxSequence]
RefreshRows ==
  [step : {"none", "begun", "running", "complete", "ended"}, started : BOOLEAN, summaries : Nat]
Sessions == [version : Nat, revision : Nat, selection : 0..MaxRequests]
Acceptances == [filters : Nat, selection : 0..MaxRequests]
StreamEvents == [coordinator : {0} \union Coordinators, generation : {0} \union Generations,
                 type : {"none", "start", "visual", "complete"}]

(* The steps of a request that has no coordinator yet, of one that has begun
   no generation yet, and of one that works with its coordinator. *)
OpenSteps == {"load", "swap", "reload", "open", "ensure"}
BeginSteps == OpenSteps \union {"begin", "persist", "commit", "invalid"}
CoordinatorSteps == {"begin", "persist", "commit", "invalid", "start", "streaming"}

(* What a request has read is the session's state, unless the session has a
   newer version; it holds the mutex of its coordinator while it updates the
   session; and a generation waits for its start. *)
RequestOK(h) ==
  LET r == request[h] IN
  /\ r.step \in CoordinatorSteps =>
       r.coordinator \in Coordinators /\ coordinator[r.coordinator].state # "none"
  /\ r.step \in {"swap", "commit"} =>
       r.version <= session.version /\ (r.version = session.version => r.revision = session.revision)
  /\ r.step \in {"persist", "commit"} => coordinator[r.coordinator].lock = h
  /\ r.step = "start" => /\ r.generation \in Generations
                         /\ refresh[r.coordinator][r.generation].step = "begun"

(* Two requests never start the same generation. *)
StartsDiffer ==
  \A h, k \in Handlers :
    /\ request[h].step = "start" /\ request[k].step = "start"
    /\ request[h].coordinator = request[k].coordinator
    /\ request[h].generation = request[k].generation
    => h = k

(* A coordinator that was not made or is closed is empty, an open one is the
   registry's, the active generation is the newest one and not over, and the
   mutex is held by a request that updates the session. *)
CoordinatorOK(c) ==
  LET k == coordinator[c] IN
  /\ k.state = "none" => k = NoCoordinator
  /\ k.state = "closed" => k = [NoCoordinator EXCEPT !.state = "closed"]
  /\ k.state = "open" => current = c
  /\ k.active \in {0, k.generation}
  /\ k.active # 0 => refresh[c][k.active].step \in {"begun", "running", "complete"}
  /\ k.lock # "free" => /\ request[k.lock].step \in {"persist", "commit"}
                        /\ request[k.lock].coordinator = c

(* A generation that has not begun is empty; one that was superseded before it
   started publishes nothing any more. *)
RefreshOK(c, g) ==
  /\ coordinator[c].state # "closed" /\ g > coordinator[c].generation => refresh[c][g] = NoRefresh
  /\ refresh[c][g].step = "running" /\ ~refresh[c][g].started => ~MayEmit(c, g)
  /\ refresh[c][g].summaries =
       IF refresh[c][g].step = "none" \/ coordinator[c].active = g THEN 0 ELSE 1

RegistryOK ==
  /\ current # 0 => coordinator[current].state = "open"
  /\ bound # 0 => bound = current

(* The last event is of a generation that has started. *)
LastOK ==
  last.coordinator # 0 =>
    /\ last.generation \in Generations
    /\ refresh[last.coordinator][last.generation].step \in {"running", "complete", "ended"}
    /\ last.type = "complete" =>
         refresh[last.coordinator][last.generation].step \in {"complete", "ended"}

(* Every coordinator and every generation was made for a request of its own. *)
At(steps) == {h \in Handlers : request[h].step \in steps}
Made == {c \in Coordinators : coordinator[c].state # "none"}
CountsOK ==
  /\ IsFiniteSet(At(OpenSteps)) /\ IsFiniteSet(At(BeginSteps))
  /\ Cardinality(Made) + Cardinality(At(OpenSteps)) <= sent
  /\ \A c \in Coordinators : coordinator[c].generation + Cardinality(At(BeginSteps)) <= sent

StreamInv ==
  /\ StreamTypeOK
  /\ \A h \in Handlers : RequestOK(h)
  /\ StartsDiffer
  /\ \A c \in Coordinators : CoordinatorOK(c)
  /\ \A c \in Coordinators, g \in Generations : RefreshOK(c, g)
  /\ RegistryOK
  /\ LastOK
  /\ CountsOK
  /\ NoSessionUpdateLost

-----------------------------------------------------------------------------
(* Dashboard streams: types, rows and counts                               *)

(* A nonempty set of naturals has a least element. *)
LEMMA LeastExists ==
  ASSUME NEW S \in SUBSET Nat, S # {}
  PROVE  \E m \in S : \A x \in S : m <= x
<1> DEFINE R == OpToRel(<, Nat)
<1>1. IsWellFoundedOn(R, Nat)
  BY NatLessThanWellFounded, Zenon
<1>2. \E m \in S : \A x \in S : <<x, m>> \notin R
  <2> HIDE DEF R
  <2> QED
    BY <1>1, WFMin
<1>3. \A x, m \in Nat : <<x, m>> \notin R => m <= x
  BY DEF OpToRel
<1> QED
  BY <1>2, <1>3, Zenon

(* ... which is its minimum. *)
LEMMA MinIsLeast ==
  ASSUME NEW S \in SUBSET Nat, S # {}
  PROVE  Min(S) \in S /\ Min(S) \in Nat /\ \A x \in S : Min(S) <= x
BY LeastExists DEF Min

LEMMA StreamTypes ==
  StreamTypeOK <=>
    /\ session \in Sessions /\ accepted \in Acceptances /\ sent \in 0..MaxRequests
    /\ current \in {0} \union Coordinators /\ bound \in {0} \union Coordinators
    /\ request \in [Handlers -> RequestRows]
    /\ coordinator \in [Coordinators -> CoordinatorRows]
    /\ refresh \in [Coordinators -> [Generations -> RefreshRows]]
    /\ last \in StreamEvents
BY DEF StreamTypeOK, Sessions, Acceptances, RequestRows, CoordinatorRows, RefreshRows, StreamEvents

LEMMA StreamTypesNext ==
  StreamTypeOK' <=>
    /\ session' \in Sessions /\ accepted' \in Acceptances /\ sent' \in 0..MaxRequests
    /\ current' \in {0} \union Coordinators /\ bound' \in {0} \union Coordinators
    /\ request' \in [Handlers -> RequestRows]
    /\ coordinator' \in [Coordinators -> CoordinatorRows]
    /\ refresh' \in [Coordinators -> [Generations -> RefreshRows]]
    /\ last' \in StreamEvents
BY DEF StreamTypeOK, Sessions, Acceptances, RequestRows, CoordinatorRows, RefreshRows, StreamEvents

LEMMA EmptyRows ==
  /\ IdleRequest \in RequestRows /\ IdleRequest.step = "idle" /\ IdleRequest.attempts = 0
  /\ NoCoordinator \in CoordinatorRows /\ NoCoordinator.state = "none"
  /\ NoCoordinator.generation = 0 /\ NoCoordinator.active = 0 /\ NoCoordinator.lock = "free"
  /\ NoRefresh \in RefreshRows /\ NoRefresh.step = "none" /\ NoRefresh.summaries = 0
  /\ NoEvent \in StreamEvents /\ NoEvent.coordinator = 0
<1>1. MaxRequests \in Nat /\ MaxAttempts \in Nat \ {0} /\ MaxSequence \in Nat
  BY StreamAssumption
<1>2. 0 \in 0..MaxRequests /\ 0 \in 0..(MaxAttempts - 1) /\ 0 \in 0..MaxSequence
  BY <1>1
<1>3. IdleRequest \in RequestRows /\ IdleRequest.step = "idle" /\ IdleRequest.attempts = 0
  BY <1>2 DEF IdleRequest, RequestRows
<1>4. /\ NoCoordinator \in CoordinatorRows /\ NoCoordinator.state = "none"
      /\ NoCoordinator.generation = 0 /\ NoCoordinator.active = 0 /\ NoCoordinator.lock = "free"
  BY <1>2 DEF NoCoordinator, CoordinatorRows
<1>5. NoRefresh \in RefreshRows /\ NoRefresh.step = "none" /\ NoRefresh.summaries = 0
  BY DEF NoRefresh, RefreshRows
<1>6. NoEvent \in StreamEvents /\ NoEvent.coordinator = 0
  BY DEF NoEvent, StreamEvents
<1> QED
  BY <1>3, <1>4, <1>5, <1>6

LEMMA IdsAreNaturals ==
  /\ Coordinators = Generations
  /\ \A n \in Coordinators : n \in Nat /\ n > 0 /\ n \in 0..MaxRequests
BY StreamAssumption DEF Coordinators, Generations, Numbers

(* A coordinator that is closed is as empty as one that was never made. *)
ClosedRow == [NoCoordinator EXCEPT !.state = "closed"]

LEMMA ClosedIsEmpty ==
  /\ ClosedRow \in CoordinatorRows /\ ClosedRow.state = "closed"
  /\ ClosedRow.generation = 0 /\ ClosedRow.active = 0 /\ ClosedRow.lock = "free"
<1>1. NoCoordinator \in CoordinatorRows
  BY EmptyRows
<1> QED
  BY <1>1, EmptyRows DEF ClosedRow, CoordinatorRows

LEMMA FreshRows ==
  ASSUME NEW t \in BOOLEAN
  PROVE  /\ Fresh(t) \in CoordinatorRows /\ Fresh(t).state = "open"
         /\ Fresh(t).generation = 0 /\ Fresh(t).active = 0 /\ Fresh(t).lock = "free"
<1>1. NoCoordinator \in CoordinatorRows
  BY EmptyRows
<1> QED
  BY <1>1, EmptyRows DEF Fresh, CoordinatorRows

(* Sets that differ in one element at most. *)
LEMMA OneElementChanges ==
  ASSUME NEW A, NEW B, NEW h, IsFiniteSet(A), B \ {h} = A \ {h}
  PROVE  /\ IsFiniteSet(B) /\ Cardinality(A) \in Nat /\ Cardinality(B) \in Nat
         /\ Cardinality(B) <= Cardinality(A) + 1
         /\ (h \in B => h \in A) => Cardinality(B) <= Cardinality(A)
         /\ h \in A /\ h \notin B => Cardinality(B) + 1 = Cardinality(A)
<1> DEFINE C == A \ {h}
<1>1. /\ IsFiniteSet(C) /\ Cardinality(A) \in Nat
      /\ Cardinality(C) = IF h \in A THEN Cardinality(A) - 1 ELSE Cardinality(A)
  BY FS_RemoveElement, FS_CardinalityType
<1>2. Cardinality(C) \in Nat
  BY <1>1, FS_CardinalityType
<1>3. IsFiniteSet(C \union {h}) /\ Cardinality(C \union {h}) = Cardinality(C) + 1
  <2>1. h \notin C
    OBVIOUS
  <2> HIDE DEF C
  <2> QED
    BY <1>1, <2>1, FS_AddElement
<1>4. B = IF h \in B THEN C \union {h} ELSE C
  OBVIOUS
<1> HIDE DEF C
<1>5. CASE h \in B
  <2>1. B = C \union {h}
    BY <1>4, <1>5
  <2> QED
    BY <1>1, <1>2, <1>3, <1>5, <2>1
<1>6. CASE h \notin B
  <2>1. B = C
    BY <1>4, <1>6
  <2> QED
    BY <1>1, <1>2, <1>6, <2>1
<1> QED
  BY <1>5, <1>6

(* The counts of the handlers at given steps when one request moves. *)
LEMMA CountsMove ==
  ASSUME NEW S, NEW h \in Handlers, IsFiniteSet(At(S)),
         \A k \in Handlers \ {h} : request'[k] = request[k]
  PROVE  /\ IsFiniteSet(At(S)') /\ Cardinality(At(S)) \in Nat /\ Cardinality(At(S)') \in Nat
         /\ Cardinality(At(S)') <= Cardinality(At(S)) + 1
         /\ (request'[h].step \in S => request[h].step \in S)
              => Cardinality(At(S)') <= Cardinality(At(S))
         /\ request[h].step \in S /\ request'[h].step \notin S
              => Cardinality(At(S)') + 1 = Cardinality(At(S))
<1> DEFINE A == {k \in Handlers : request[k].step \in S}
           B == {k \in Handlers : request'[k].step \in S}
<1>1. At(S) = A /\ At(S)' = B
  BY DEF At
<1>2. B \ {h} = A \ {h} /\ (h \in A <=> request[h].step \in S) /\ (h \in B <=> request'[h].step \in S)
  OBVIOUS
<1> HIDE DEF A, B
<1>3. IsFiniteSet(A)
  BY <1>1
<1>4. /\ IsFiniteSet(B) /\ Cardinality(A) \in Nat /\ Cardinality(B) \in Nat
      /\ Cardinality(B) <= Cardinality(A) + 1
      /\ (h \in B => h \in A) => Cardinality(B) <= Cardinality(A)
      /\ h \in A /\ h \notin B => Cardinality(B) + 1 = Cardinality(A)
  BY <1>2, <1>3, OneElementChanges
<1> QED
  BY <1>1, <1>2, <1>4

(* What a request has is kept while its coordinator, its mutex and its
   generation are. *)
LEMMA RequestKept ==
  ASSUME StreamTypeOK, NEW k \in Handlers, RequestOK(k), request'[k] = request[k],
         \A c \in Coordinators : coordinator[c].state # "none" => coordinator'[c].state # "none",
         session' = session \/ session'.version = session.version + 1,
         request[k].step \in {"persist", "commit"} =>
           coordinator'[request[k].coordinator].lock = k,
         request[k].step = "start" =>
           refresh'[request[k].coordinator][request[k].generation].step = "begun"
  PROVE  RequestOK(k)'
<1>1. request[k].version \in Nat /\ session.version \in Nat
  BY StreamTypes DEF RequestRows, Sessions
<1>2. request[k].step \in {"swap", "commit"} =>
        request[k].version <= session'.version /\
        (request[k].version = session'.version => request[k].revision = session'.revision)
  BY <1>1 DEF RequestOK
<1> QED
  BY <1>2 DEF RequestOK

LEMMA CoordinatorKept ==
  ASSUME NEW c \in Coordinators, CoordinatorOK(c), coordinator'[c] = coordinator[c],
         coordinator[c].state = "open" => current' = c,
         coordinator[c].active # 0 =>
           refresh'[c][coordinator[c].active].step \in {"begun", "running", "complete"},
         coordinator[c].lock # "free" =>
           /\ request'[coordinator[c].lock].step \in {"persist", "commit"}
           /\ request'[coordinator[c].lock].coordinator = c
  PROVE  CoordinatorOK(c)'
BY DEF CoordinatorOK

LEMMA RefreshKept ==
  ASSUME NEW c \in Coordinators, NEW g \in Generations, RefreshOK(c, g),
         coordinator'[c] = coordinator[c], refresh'[c][g] = refresh[c][g]
  PROVE  RefreshOK(c, g)'
BY DEF RefreshOK, MayEmit, Live

(* The last event's generation stays started, and complete. *)
LEMMA LastKept ==
  ASSUME LastOK, last' = last,
         \A c \in Coordinators, g \in Generations :
           /\ refresh[c][g].step \in {"running", "complete", "ended"} =>
                refresh'[c][g].step \in {"running", "complete", "ended"}
           /\ refresh[c][g].step \in {"complete", "ended"} =>
                refresh'[c][g].step \in {"complete", "ended"},
         last.coordinator \in {0} \union Coordinators
  PROVE  LastOK'
BY DEF LastOK

(* The facts of the invariant for one coordinator and its generations. *)
LEMMA StreamFacts ==
  ASSUME StreamInv
  PROVE  /\ StreamTypeOK
         /\ session \in Sessions /\ accepted \in Acceptances /\ sent \in 0..MaxRequests
         /\ current \in {0} \union Coordinators /\ bound \in {0} \union Coordinators
         /\ request \in [Handlers -> RequestRows]
         /\ coordinator \in [Coordinators -> CoordinatorRows]
         /\ refresh \in [Coordinators -> [Generations -> RefreshRows]]
         /\ last \in StreamEvents /\ last.coordinator \in {0} \union Coordinators
         /\ \A c \in Coordinators : /\ coordinator[c].generation \in 0..MaxRequests
                                    /\ coordinator[c].active \in 0..MaxRequests
                                    /\ coordinator[c].lock \in {"free"} \union Handlers
                                    /\ coordinator[c].state \in {"none", "open", "expiring", "closed"}
BY StreamTypes DEF StreamInv, CoordinatorRows, StreamEvents

(* An empty coordinator has no active generation and no holder. *)
LEMMA LiveFacts ==
  ASSUME StreamInv, NEW c \in Coordinators
  PROVE  /\ Live(c) <=> coordinator[c].state \notin {"none", "closed"}
         /\ coordinator[c].active # 0 \/ coordinator[c].lock # "free" \/ coordinator[c].generation # 0
              => Live(c)
         /\ coordinator[c].active # 0 =>
              /\ coordinator[c].active \in Generations
              /\ coordinator[c].active = coordinator[c].generation
              /\ MayEmit(c, coordinator[c].active)
<1>1. /\ coordinator[c].state \in {"none", "open", "expiring", "closed"}
      /\ coordinator[c].active \in 0..MaxRequests
  BY StreamFacts
<1>2. CoordinatorOK(c)
  BY DEF StreamInv
<1>3. Live(c) <=> coordinator[c].state \notin {"none", "closed"}
  BY <1>1 DEF Live
<1>4. ~Live(c) => /\ coordinator[c].active = 0 /\ coordinator[c].lock = "free"
                  /\ coordinator[c].generation = 0
  <2>1. CASE coordinator[c].state = "none"
    <3>1. coordinator[c] = NoCoordinator
      BY <1>2, <2>1 DEF CoordinatorOK
    <3> QED
      BY <3>1, EmptyRows
  <2>2. CASE coordinator[c].state = "closed"
    <3>1. coordinator[c] = ClosedRow
      BY <1>2, <2>2 DEF CoordinatorOK, ClosedRow
    <3> QED
      BY <3>1, ClosedIsEmpty
  <2> QED
    BY <1>3, <2>1, <2>2
<1>5. coordinator[c].active # 0 => coordinator[c].active \in Generations
  BY <1>1, StreamAssumption DEF Generations, Numbers
<1>6. coordinator[c].active # 0 => coordinator[c].active = coordinator[c].generation
  BY <1>2 DEF CoordinatorOK
<1> QED
  BY <1>3, <1>4, <1>5, <1>6 DEF MayEmit

(* A refresh that is summarised keeps its step. *)
LEMMA SummarisedRows ==
  ASSUME NEW r \in [Coordinators -> [Generations -> RefreshRows]],
         NEW c \in Coordinators, NEW a \in {0} \union Generations
  PROVE  /\ Summarised(r, c, a) \in [Coordinators -> [Generations -> RefreshRows]]
         /\ \A d \in Coordinators \ {c} : Summarised(r, c, a)[d] = r[d]
         /\ \A g \in Generations \ {a} : Summarised(r, c, a)[c][g] = r[c][g]
         /\ a # 0 => /\ Summarised(r, c, a)[c][a].step = r[c][a].step
                     /\ Summarised(r, c, a)[c][a].started = r[c][a].started
                     /\ Summarised(r, c, a)[c][a].summaries = r[c][a].summaries + 1
<1>1. 0 \notin Generations
  BY IdsAreNaturals
<1>2. CASE a = 0
  BY <1>1, <1>2 DEF Summarised
<1>3. CASE a # 0
  <2> DEFINE row == [r[c][a] EXCEPT !.summaries = @ + 1]
  <2>1. a \in Generations /\ r[c] \in [Generations -> RefreshRows] /\ r[c][a] \in RefreshRows
    BY <1>3
  <2>2. row \in RefreshRows
    BY <2>1 DEF RefreshRows
  <2>3. Summarised(r, c, a) = [r EXCEPT ![c] = [r[c] EXCEPT ![a] = row]]
    BY <1>3 DEF Summarised
  <2> HIDE DEF row
  <2>4. [r[c] EXCEPT ![a] = row] \in [Generations -> RefreshRows]
    BY <2>1, <2>2
  <2>5. Summarised(r, c, a)[c] = [r[c] EXCEPT ![a] = row]
    BY <2>3
  <2>6. Summarised(r, c, a)[c][a] = row
    BY <2>1, <2>5
  <2>7. /\ row.step = r[c][a].step /\ row.started = r[c][a].started
        /\ row.summaries = r[c][a].summaries + 1
    BY <2>1 DEF row, RefreshRows
  <2>8. /\ Summarised(r, c, a) \in [Coordinators -> [Generations -> RefreshRows]]
        /\ \A d \in Coordinators \ {c} : Summarised(r, c, a)[d] = r[d]
    BY <2>3, <2>4
  <2>9. \A g \in Generations \ {a} : Summarised(r, c, a)[c][g] = r[c][g]
    BY <2>1, <2>5
  <2> QED
    BY <2>6, <2>7, <2>8, <2>9
<1> QED
  BY <1>2, <1>3

(* A coordinator that closes summarises its active generation. *)
LEMMA ClosingRow ==
  ASSUME StreamInv, NEW c \in Coordinators, coordinator[c].state # "none",
         coordinator'[c] = ClosedRow,
         refresh'[c] = Summarised(refresh, c, coordinator[c].active)[c]
  PROVE  /\ CoordinatorOK(c)'
         /\ \A g \in Generations : RefreshOK(c, g)' /\ refresh'[c][g].step = refresh[c][g].step
<1> DEFINE a == coordinator[c].active
<1>1. a \in {0} \union Generations /\ refresh \in [Coordinators -> [Generations -> RefreshRows]]
  BY StreamFacts, LiveFacts
<1>2. /\ \A g \in Generations \ {a} : refresh'[c][g] = refresh[c][g]
      /\ a # 0 => /\ refresh'[c][a].step = refresh[c][a].step
                  /\ refresh'[c][a].summaries = refresh[c][a].summaries + 1
  <2>1. refresh'[c] = Summarised(refresh, c, a)[c]
    OBVIOUS
  <2> HIDE DEF a
  <2>2. /\ \A g \in Generations \ {a} : Summarised(refresh, c, a)[c][g] = refresh[c][g]
        /\ a # 0 => /\ Summarised(refresh, c, a)[c][a].step = refresh[c][a].step
                    /\ Summarised(refresh, c, a)[c][a].summaries = refresh[c][a].summaries + 1
    BY <1>1, SummarisedRows
  <2> QED
    BY <2>1, <2>2
<1>3. CoordinatorOK(c)'
  BY ClosedIsEmpty DEF CoordinatorOK, ClosedRow
<1>4. ~Live(c)'
  BY ClosedIsEmpty DEF Live
<1>5. ASSUME NEW g \in Generations
      PROVE  RefreshOK(c, g)' /\ refresh'[c][g].step = refresh[c][g].step
  <2>1. RefreshOK(c, g) /\ CoordinatorOK(c) /\ refresh[c][g] \in RefreshRows /\ g # 0
    BY <1>1, IdsAreNaturals DEF StreamInv
  <2>2. ~MayEmit(c, g)'
    BY <1>4 DEF MayEmit
  <2>3. CASE g # a
    <3>1. refresh'[c][g] = refresh[c][g]
      BY <1>2, <2>3
    <3> QED
      BY <2>1, <2>2, <2>3, <3>1, ClosedIsEmpty DEF RefreshOK
  <2>4. CASE g = a
    <3>1. /\ refresh'[c][g].step = refresh[c][g].step
          /\ refresh'[c][g].summaries = refresh[c][g].summaries + 1
      BY <1>2, <2>1, <2>4
    <3>2. refresh[c][g].step # "none" /\ refresh[c][g].summaries = 0
      BY <2>1, <2>4 DEF RefreshOK, CoordinatorOK
    <3>3. refresh'[c][g].summaries = 1 /\ refresh'[c][g].step = refresh[c][g].step
      BY <2>1, <3>1, <3>2 DEF RefreshRows
    <3> QED
      BY <2>1, <2>2, <3>2, <3>3, ClosedIsEmpty DEF RefreshOK
  <2> QED
    BY <2>3, <2>4
<1> QED
  BY <1>3, <1>5

(* A new coordinator is the registry's. *)
LEMMA FreshRow ==
  ASSUME StreamInv, NEW c \in Coordinators, coordinator[c].state = "none", NEW t \in BOOLEAN,
         coordinator'[c] = Fresh(t), refresh'[c] = refresh[c], current' = c
  PROVE  CoordinatorOK(c)' /\ \A g \in Generations : RefreshOK(c, g)'
<1>1. CoordinatorOK(c) /\ refresh \in [Coordinators -> [Generations -> RefreshRows]]
  BY StreamFacts DEF StreamInv
<1>2. coordinator[c] = NoCoordinator
  BY <1>1 DEF CoordinatorOK
<1>3. CoordinatorOK(c)'
  BY FreshRows DEF CoordinatorOK
<1>4. ASSUME NEW g \in Generations
      PROVE  RefreshOK(c, g)'
  <2>1. RefreshOK(c, g) /\ g > 0
    BY IdsAreNaturals DEF StreamInv
  <2>2. refresh[c][g] = NoRefresh
    BY <1>2, <2>1, EmptyRows DEF RefreshOK
  <2>3. refresh'[c][g] = NoRefresh
    BY <2>2
  <2> QED
    BY <2>1, <2>3, EmptyRows, FreshRows DEF RefreshOK
<1> QED
  BY <1>3, <1>4

(* The next generation of a live coordinator begins. *)
LEMMA BegunRow ==
  ASSUME StreamInv, NEW c \in Coordinators, Live(c),
         NEW n \in Generations, n = coordinator[c].generation + 1,
         coordinator'[c].state = coordinator[c].state, coordinator'[c].generation = n,
         coordinator'[c].active = n, coordinator'[c].lock = "free", current' = current,
         refresh'[c] = [Summarised(refresh, c, coordinator[c].active)[c] EXCEPT
                          ![n] = [NoRefresh EXCEPT !.step = "begun"]]
  PROVE  /\ CoordinatorOK(c)'
         /\ \A g \in Generations : RefreshOK(c, g)'
         /\ refresh[c][n] = NoRefresh /\ refresh'[c][n].step = "begun"
         /\ refresh'[c] \in [Generations -> RefreshRows]
         /\ \A g \in Generations \ {n} : refresh'[c][g].step = refresh[c][g].step
<1> DEFINE a == coordinator[c].active
           begun == [NoRefresh EXCEPT !.step = "begun"]
<1>1. a \in {0} \union Generations /\ refresh \in [Coordinators -> [Generations -> RefreshRows]]
  BY StreamFacts, LiveFacts
<1>2. n > 0 /\ coordinator[c].generation \in Nat /\ n # 0
  BY StreamFacts, IdsAreNaturals
<1>3. a = 0 \/ a = coordinator[c].generation
  BY LiveFacts
<1>4. a # n
  BY <1>2, <1>3
<1>5. begun \in RefreshRows /\ begun.step = "begun" /\ begun.summaries = 0
  BY EmptyRows DEF RefreshRows
<1>6. /\ Summarised(refresh, c, a)[c] \in [Generations -> RefreshRows]
      /\ \A g \in Generations \ {a} : Summarised(refresh, c, a)[c][g] = refresh[c][g]
      /\ a # 0 => /\ Summarised(refresh, c, a)[c][a].step = refresh[c][a].step
                  /\ Summarised(refresh, c, a)[c][a].summaries = refresh[c][a].summaries + 1
  <2> HIDE DEF a
  <2> QED
    BY <1>1, SummarisedRows
<1>7. coordinator[c].state \notin {"none", "closed"}
  BY LiveFacts
<1> HIDE DEF a, begun
<1>8. /\ refresh'[c] \in [Generations -> RefreshRows] /\ refresh'[c][n] = begun
      /\ \A g \in Generations \ {n} : refresh'[c][g] = Summarised(refresh, c, a)[c][g]
  BY <1>5, <1>6 DEF a, begun
<1>9. CoordinatorOK(c)'
  <2>1. CoordinatorOK(c)
    BY DEF StreamInv
  <2> QED
    BY <1>2, <1>5, <1>7, <1>8, <2>1 DEF CoordinatorOK
<1>10. refresh[c][n] = NoRefresh
  <2>1. RefreshOK(c, n)
    BY DEF StreamInv
  <2>2. n > coordinator[c].generation
    BY <1>2
  <2> QED
    BY <1>7, <2>1, <2>2 DEF RefreshOK
<1>11. ASSUME NEW g \in Generations, g # n
       PROVE  RefreshOK(c, g)' /\ refresh'[c][g].step = refresh[c][g].step
  <2>1. RefreshOK(c, g) /\ CoordinatorOK(c) /\ refresh[c][g] \in RefreshRows /\ g \in Nat
    BY <1>1, IdsAreNaturals DEF StreamInv
  <2>2. ~MayEmit(c, g)'
    BY <1>11 DEF MayEmit
  <2>3. CASE g # a
    <3>1. refresh'[c][g] = refresh[c][g]
      BY <1>6, <1>8, <1>11, <2>3
    <3>2. g > n => g > coordinator[c].generation
      BY <1>2, <2>1
    <3> QED
      BY <1>7, <1>11, <2>1, <2>2, <2>3, <3>1, <3>2 DEF RefreshOK, a
  <2>4. CASE g = a
    <3>1. /\ refresh'[c][g].step = refresh[c][g].step
          /\ refresh'[c][g].summaries = refresh[c][g].summaries + 1
      BY <1>6, <1>8, <1>11, <2>1, <2>4, IdsAreNaturals
    <3>2. refresh[c][g].step # "none" /\ refresh[c][g].summaries = 0
      BY <2>1, <2>4, IdsAreNaturals DEF RefreshOK, CoordinatorOK, a
    <3>3. refresh'[c][g].summaries = 1 /\ refresh'[c][g].step = refresh[c][g].step
      BY <2>1, <3>1, <3>2 DEF RefreshRows
    <3>4. ~(g > n)
      BY <1>2, <1>3, <2>1, <2>4, IdsAreNaturals
    <3> QED
      BY <1>11, <2>2, <3>2, <3>3, <3>4 DEF RefreshOK
  <2> QED
    BY <2>3, <2>4
<1>12. RefreshOK(c, n)'
  <2>1. ~(n > coordinator'[c].generation) /\ refresh'[c][n].step = "begun"
    BY <1>2, <1>5, <1>8
  <2> QED
    BY <1>5, <1>8, <2>1 DEF RefreshOK
<1> QED
  BY <1>5, <1>8, <1>9, <1>10, <1>11, <1>12

-----------------------------------------------------------------------------
(* Dashboard streams: the requests                                         *)

LEMMA ManyCoordinators == IsFiniteSet(Coordinators) /\ Cardinality(Coordinators) = MaxRequests
<1>1. 1 \in Int /\ MaxRequests \in Int /\ MaxRequests > 0
  BY StreamAssumption
<1>2. IsFiniteSet(1..MaxRequests) /\ Cardinality(1..MaxRequests) = MaxRequests
  BY <1>1, FS_Interval
<1> QED
  BY <1>2 DEF Coordinators, Numbers

(* The counts are kept when no coordinator is made and no generation begins. *)
LEMMA CountsKept ==
  ASSUME StreamInv, NEW h \in Handlers, \A k \in Handlers \ {h} : request'[k] = request[k],
         Made' \subseteq Made,
         \A c \in Coordinators : coordinator'[c].generation \in Nat
                                 /\ coordinator'[c].generation <= coordinator[c].generation,
         \/ /\ sent' = sent
            /\ request'[h].step \in OpenSteps => request[h].step \in OpenSteps
            /\ request'[h].step \in BeginSteps => request[h].step \in BeginSteps
         \/ sent' = sent + 1
  PROVE  CountsOK'
<1>1. /\ IsFiniteSet(At(OpenSteps)) /\ IsFiniteSet(At(BeginSteps))
      /\ Cardinality(Made) + Cardinality(At(OpenSteps)) <= sent
      /\ \A c \in Coordinators : coordinator[c].generation + Cardinality(At(BeginSteps)) <= sent
      /\ sent \in Nat
      /\ \A c \in Coordinators : coordinator[c].generation \in Nat
  BY StreamFacts, StreamAssumption DEF StreamInv, CountsOK
<1>2. /\ IsFiniteSet(At(OpenSteps)') /\ Cardinality(At(OpenSteps)) \in Nat
      /\ Cardinality(At(OpenSteps)') \in Nat
      /\ Cardinality(At(OpenSteps)') <= Cardinality(At(OpenSteps)) + 1
      /\ (request'[h].step \in OpenSteps => request[h].step \in OpenSteps)
            => Cardinality(At(OpenSteps)') <= Cardinality(At(OpenSteps))
  BY <1>1, CountsMove
<1>3. /\ IsFiniteSet(At(BeginSteps)') /\ Cardinality(At(BeginSteps)) \in Nat
      /\ Cardinality(At(BeginSteps)') \in Nat
      /\ Cardinality(At(BeginSteps)') <= Cardinality(At(BeginSteps)) + 1
      /\ (request'[h].step \in BeginSteps => request[h].step \in BeginSteps)
            => Cardinality(At(BeginSteps)') <= Cardinality(At(BeginSteps))
  BY <1>1, CountsMove
<1>4. /\ IsFiniteSet(Made) /\ Cardinality(Made) \in Nat /\ Cardinality(Made') \in Nat
      /\ Cardinality(Made') <= Cardinality(Made)
  <2>2. IsFiniteSet(Made)
    BY ManyCoordinators, FS_Subset DEF Made
  <2> QED
    BY <2>2, FS_Subset, FS_CardinalityType
<1>5. Cardinality(Made') + Cardinality(At(OpenSteps)') <= sent'
  BY <1>1, <1>2, <1>4
<1>6. \A c \in Coordinators : coordinator'[c].generation + Cardinality(At(BeginSteps)') <= sent'
  BY <1>1, <1>3
<1> QED
  BY <1>2, <1>3, <1>5, <1>6 DEF CountsOK

(* A request goes on, or is answered, without its coordinator. *)
LEMMA RequestMoves ==
  ASSUME StreamInv, NEW h \in Handlers, NEW x \in RequestRows,
         request' = [request EXCEPT ![h] = x],
         UNCHANGED <<current, bound, coordinator, refresh, last>>,
         session' \in Sessions, session' = session \/ session'.version = session.version + 1,
         accepted' \in Acceptances, NoSessionUpdateLost',
         \/ /\ sent' = sent
            /\ x.step \in OpenSteps => request[h].step \in OpenSteps
            /\ x.step \in BeginSteps => request[h].step \in BeginSteps
         \/ sent' = sent + 1 /\ sent < MaxRequests,
         request[h].step \in {"persist", "commit"} =>
           x.step \in {"persist", "commit"} /\ x.coordinator = request[h].coordinator,
         x.step # "start",
         x.step \in CoordinatorSteps =>
           x.coordinator \in Coordinators /\ coordinator[x.coordinator].state # "none",
         x.step \in {"swap", "commit"} =>
           x.version <= session'.version /\ (x.version = session'.version => x.revision = session'.revision),
         x.step \in {"persist", "commit"} => coordinator[x.coordinator].lock = h
  PROVE  StreamInv'
<1>1. /\ request \in [Handlers -> RequestRows] /\ sent \in 0..MaxRequests /\ StreamTypeOK
      /\ coordinator \in [Coordinators -> CoordinatorRows] /\ MaxRequests \in Nat
  BY StreamFacts, StreamAssumption
<1>2. request'[h] = x /\ \A k \in Handlers \ {h} : request'[k] = request[k]
  BY <1>1
<1>3. request' \in [Handlers -> RequestRows] /\ sent' \in 0..MaxRequests
  BY <1>1
<1>4. StreamTypeOK'
  BY <1>1, <1>3, StreamTypes, StreamTypesNext
<1>5. \A k \in Handlers : RequestOK(k)'
  <2>1. RequestOK(h)'
    BY <1>2 DEF RequestOK
  <2>2. ASSUME NEW k \in Handlers, k # h
        PROVE  RequestOK(k)'
    <3>1. RequestOK(k) /\ request'[k] = request[k]
      BY <1>2, <2>2 DEF StreamInv
    <3> QED
      BY <1>1, <3>1, RequestKept DEF RequestOK
  <2> QED
    BY <2>1, <2>2
<1>6. StartsDiffer'
  BY <1>2 DEF StreamInv, StartsDiffer
<1>7. ASSUME NEW c \in Coordinators
      PROVE  CoordinatorOK(c)' /\ \A g \in Generations : RefreshOK(c, g)'
  <2>1. CoordinatorOK(c) /\ \A g \in Generations : RefreshOK(c, g)
    BY DEF StreamInv
  <2>2. coordinator[c].lock # "free" =>
          /\ request'[coordinator[c].lock].step \in {"persist", "commit"}
          /\ request'[coordinator[c].lock].coordinator = c
    <3>1. coordinator[c].lock \in {"free"} \union Handlers
      BY StreamFacts
    <3> QED
      BY <1>2, <2>1, <3>1 DEF CoordinatorOK
  <2> QED
    BY <2>1, <2>2, CoordinatorKept, RefreshKept DEF CoordinatorOK
<1>8. RegistryOK' /\ LastOK'
  BY DEF StreamInv, RegistryOK, LastOK
<1>9. CountsOK'
  <2>1. Made' \subseteq Made
    BY DEF Made
  <2>2. \A c \in Coordinators : coordinator'[c].generation \in Nat
                                /\ coordinator'[c].generation <= coordinator[c].generation
    BY <1>1 DEF CoordinatorRows
  <2> QED
    BY <1>2, <2>1, <2>2, CountsKept
<1> QED
  BY <1>4, <1>5, <1>6, <1>7, <1>8, <1>9 DEF StreamInv

LEMMA DoneKeeps ==
  ASSUME StreamInv, NEW h \in Handlers, Done(h), request[h].step \notin {"persist", "commit"},
         UNCHANGED <<session, accepted, sent, current, bound, coordinator, refresh, last>>
  PROVE  StreamInv'
<1>1. IdleRequest \in RequestRows /\ IdleRequest.step = "idle"
  BY EmptyRows
<1>2. /\ session \in Sessions /\ accepted \in Acceptances /\ NoSessionUpdateLost'
  BY StreamFacts DEF StreamInv, NoSessionUpdateLost
<1> QED
  BY <1>1, <1>2, RequestMoves DEF Done, OpenSteps, BeginSteps, CoordinatorSteps

LEMMA SendKeeps ==
  ASSUME StreamInv, NEW h \in Handlers, NEW kind \in RequestKinds, NEW n \in 0..MaxSequence,
         Send(h, kind, n)
  PROVE  StreamInv'
<1> DEFINE base == IF kind = "select" /\ current # 0 THEN coordinator[current].revision
                   ELSE session.revision
           seen == IF current # 0 THEN coordinator[current].selection ELSE 0
           owner == IF kind = "model" THEN bound ELSE 0
           x == [IdleRequest EXCEPT
                  !.kind = kind, !.step = FirstStep[kind], !.number = sent', !.sequence = n,
                  !.base = base, !.seen = seen, !.coordinator = owner]
<1>1. /\ request[h].step = "idle" /\ sent < MaxRequests /\ sent' = sent + 1
      /\ kind = "model" => bound # 0
      /\ request' = [request EXCEPT ![h] = x]
      /\ UNCHANGED <<session, accepted, current, bound, coordinator, refresh, last>>
  BY DEF Send
<1>2. /\ session \in Sessions /\ accepted \in Acceptances /\ NoSessionUpdateLost'
      /\ current \in {0} \union Coordinators /\ bound \in {0} \union Coordinators
      /\ sent \in 0..MaxRequests /\ coordinator \in [Coordinators -> CoordinatorRows]
      /\ MaxRequests \in Nat
  BY <1>1, StreamFacts, StreamAssumption DEF StreamInv, NoSessionUpdateLost
<1>3. base \in Nat /\ seen \in 0..MaxRequests /\ owner \in {0} \union Coordinators
  BY <1>2 DEF CoordinatorRows, Sessions
<1>4. sent' \in 0..MaxRequests
  BY <1>1, <1>2
<1>5. FirstStep[kind] \in {"load", "ensure", "begin"} /\ (FirstStep[kind] = "begin" => kind = "model")
  BY DEF FirstStep, RequestKinds
<1> HIDE DEF base, seen, owner
<1>6. x \in RequestRows /\ x.step = FirstStep[kind] /\ x.coordinator = owner
  BY <1>3, <1>4, <1>5, EmptyRows, ZenonT(60) DEF RequestRows
<1> HIDE DEF x
<1>7. x.step \in {"load", "ensure", "begin"}
  BY <1>5, <1>6
<1>8. x.step \in CoordinatorSteps =>
        x.coordinator \in Coordinators /\ coordinator[x.coordinator].state # "none"
  <2> SUFFICES ASSUME x.step = "begin"
               PROVE  x.coordinator \in Coordinators /\ coordinator[x.coordinator].state # "none"
    BY <1>7 DEF CoordinatorSteps
  <2>1. owner = bound /\ bound # 0
    BY <1>1, <1>5, <1>6 DEF owner
  <2>2. bound = current /\ coordinator[current].state = "open"
    BY <2>1 DEF StreamInv, RegistryOK
  <2> QED
    BY <1>2, <1>6, <2>1, <2>2
<1> QED
  BY <1>1, <1>2, <1>6, <1>7, <1>8, RequestMoves

LEMMA LoadKeeps ==
  ASSUME StreamInv, NEW h \in Handlers, Load(h)
  PROVE  StreamInv'
<1>1. /\ request[h].step = "load"
      /\ UNCHANGED <<session, accepted, sent, current, bound, coordinator, refresh, last>>
  BY DEF Load
<1>2. CASE Done(h)
  BY <1>1, <1>2, DoneKeeps
<1>3. CASE ~Done(h)
  <2> DEFINE step == IF request[h].kind = "stream" THEN "open" ELSE "swap"
             x == [request[h] EXCEPT !.version = session.version,
                     !.revision = session.revision, !.step = step]
  <2>1. request' = [request EXCEPT ![h] = x]
    BY <1>3 DEF Load
  <2>2. /\ session \in Sessions /\ accepted \in Acceptances /\ NoSessionUpdateLost'
        /\ request[h] \in RequestRows
    BY <1>1, StreamFacts DEF StreamInv, NoSessionUpdateLost
  <2>3. step \in {"open", "swap"}
    OBVIOUS
  <2>4. session.version \in Nat /\ session.revision \in Nat
    BY <2>2 DEF Sessions
  <2> HIDE DEF step
  <2>5. /\ x \in RequestRows /\ x.step = step /\ x.version = session.version
        /\ x.revision = session.revision
    BY <2>2, <2>3, <2>4 DEF RequestRows
  <2> HIDE DEF x
  <2>6. request[h].step \in OpenSteps /\ request[h].step \in BeginSteps
    BY <1>1 DEF OpenSteps, BeginSteps
  <2>7. x.step \notin {"persist", "commit", "start"} /\ x.step \notin CoordinatorSteps
    BY <2>3, <2>5 DEF CoordinatorSteps
  <2>8. x.version <= session'.version /\ x.revision = session'.revision
    BY <1>1, <2>4, <2>5
  <2> QED
    BY <1>1, <2>1, <2>2, <2>5, <2>6, <2>7, <2>8, RequestMoves
<1> QED
  BY <1>2, <1>3

(* The loop of compare-and-swaps goes on or fails. *)
LEMMA RetryFacts ==
  ASSUME NEW r \in RequestRows, NEW step \in {"load", "persist"}, NEW failed \in RequestRows
  PROVE  LET x == IF r.attempts + 1 < MaxAttempts
                  THEN [r EXCEPT !.attempts = r.attempts + 1, !.step = step]
                  ELSE [failed EXCEPT !.attempts = 0]
         IN  /\ x \in RequestRows
             /\ \/ x.step = step /\ x.coordinator = r.coordinator
                \/ x.step = failed.step /\ x.coordinator = failed.coordinator
<1>1. MaxAttempts \in Nat \ {0} /\ 0 \in 0..(MaxAttempts - 1)
  BY StreamAssumption
<1>2. r.attempts + 1 < MaxAttempts => r.attempts + 1 \in 0..(MaxAttempts - 1)
  BY <1>1 DEF RequestRows
<1>3. r.attempts + 1 < MaxAttempts =>
        /\ [r EXCEPT !.attempts = r.attempts + 1, !.step = step] \in RequestRows
        /\ [r EXCEPT !.attempts = r.attempts + 1, !.step = step].step = step
        /\ [r EXCEPT !.attempts = r.attempts + 1, !.step = step].coordinator = r.coordinator
  BY <1>2 DEF RequestRows
<1>4. /\ [failed EXCEPT !.attempts = 0] \in RequestRows
      /\ [failed EXCEPT !.attempts = 0].step = failed.step
      /\ [failed EXCEPT !.attempts = 0].coordinator = failed.coordinator
  BY <1>1 DEF RequestRows
<1> QED
  BY <1>3, <1>4

(* An attempt that lost the race is repeated or given up. *)
LEMMA RetryKeeps ==
  ASSUME StreamInv, NEW h \in Handlers, request[h].step = "swap",
         Retry(h, "load", IdleRequest),
         UNCHANGED <<session, accepted, sent, current, bound, coordinator, refresh, last>>
  PROVE  StreamInv'
<1> DEFINE r == request[h]
           x == IF r.attempts + 1 < MaxAttempts
                THEN [r EXCEPT !.attempts = r.attempts + 1, !.step = "load"]
                ELSE [IdleRequest EXCEPT !.attempts = 0]
<1>1. request' = [request EXCEPT ![h] = x]
  BY DEF Retry
<1>2. /\ session \in Sessions /\ accepted \in Acceptances /\ NoSessionUpdateLost'
      /\ r \in RequestRows
  BY StreamFacts, SMTT(60) DEF StreamInv, NoSessionUpdateLost
<1>3. x \in RequestRows /\ (x.step = "load" \/ x.step = "idle")
  <2>1. IdleRequest \in RequestRows /\ IdleRequest.step = "idle"
    BY EmptyRows
  <2> HIDE DEF r
  <2> QED
    BY <1>2, <2>1, RetryFacts, Zenon
<1> HIDE DEF x
<1>4. request[h].step \in OpenSteps /\ request[h].step \in BeginSteps
  BY DEF OpenSteps, BeginSteps
<1>5. x.step \notin {"persist", "commit", "start", "swap"} /\ x.step \notin CoordinatorSteps
  BY <1>3 DEF CoordinatorSteps
<1> QED
  BY <1>1, <1>2, <1>3, <1>4, <1>5, RequestMoves

LEMMA SwapKeeps ==
  ASSUME StreamInv, NEW h \in Handlers, Swap(h)
  PROVE  StreamInv'
<1> DEFINE filter == request[h].kind = "filter"
           one == IF filter THEN 1 ELSE 0
           step == IF filter THEN "ensure" ELSE "reload"
           x == [request[h] EXCEPT !.revision = session'.revision, !.step = step]
<1>1. /\ request[h].step = "swap"
      /\ UNCHANGED <<sent, current, bound, coordinator, refresh, last>>
  BY DEF Swap
<1>2. CASE ~Swaps(h)
  <2>1. Retry(h, "load", IdleRequest) /\ UNCHANGED <<session, accepted>>
    BY <1>2 DEF Swap
  <2> QED
    BY <1>1, <2>1, RetryKeeps
<1>3. CASE Swaps(h)
  <2>1. /\ session' = [session EXCEPT !.version = session.version + 1,
                                      !.revision = request[h].revision + one]
        /\ accepted' = [accepted EXCEPT !.filters = accepted.filters + one]
        /\ request' = [request EXCEPT ![h] = x]
    BY <1>3 DEF Swap
  <2>2. /\ session \in Sessions /\ accepted \in Acceptances /\ request \in [Handlers -> RequestRows]
        /\ request[h] \in RequestRows /\ NoSessionUpdateLost /\ RequestOK(h)
    BY StreamFacts DEF StreamInv
  <2>3. /\ session.version \in Nat /\ session.revision \in Nat /\ accepted.filters \in Nat
        /\ one \in Nat /\ request[h].revision = session.revision
    BY <1>1, <1>3, <2>2 DEF Sessions, Acceptances, RequestOK, Swaps
  <2>4. session.version + 1 \in Nat /\ session.revision + one \in Nat /\ accepted.filters + one \in Nat
    BY <2>3
  <2>5. request' = [request EXCEPT ![h] = x]
    BY <2>1
  <2>6. step \in {"ensure", "reload"}
    OBVIOUS
  <2> HIDE DEF one, step
  <2>7. /\ session' \in Sessions /\ session'.version = session.version + 1
        /\ session'.revision = session.revision + one /\ session'.selection = session.selection
    BY <2>1, <2>2, <2>3, <2>4 DEF Sessions
  <2>8. /\ accepted' \in Acceptances /\ accepted'.filters = accepted.filters + one
        /\ accepted'.selection = accepted.selection
    BY <2>1, <2>2, <2>4 DEF Acceptances
  <2>9. NoSessionUpdateLost'
    BY <2>2, <2>3, <2>7, <2>8 DEF NoSessionUpdateLost
  <2>10. x \in RequestRows /\ x.step = step
    BY <2>2, <2>3, <2>6, <2>7 DEF RequestRows, Sessions
  <2> HIDE DEF x
  <2>11. request[h].step \in OpenSteps /\ request[h].step \in BeginSteps
    BY <1>1 DEF OpenSteps, BeginSteps
  <2>12. x.step \notin {"persist", "commit", "start", "swap"} /\ x.step \notin CoordinatorSteps
    BY <2>6, <2>10 DEF CoordinatorSteps
  <2> QED
    BY <1>1, <2>5, <2>7, <2>8, <2>9, <2>10, <2>11, <2>12, RequestMoves
<1> QED
  BY <1>2, <1>3

LEMMA ReloadKeeps ==
  ASSUME StreamInv, NEW h \in Handlers, Reload(h)
  PROVE  StreamInv'
<1> DEFINE x == [request[h] EXCEPT !.step = "ensure", !.revision = session.revision,
                                   !.selection = session.selection]
<1>1. /\ request[h].step = "reload" /\ request' = [request EXCEPT ![h] = x]
      /\ UNCHANGED <<session, accepted, sent, current, bound, coordinator, refresh, last>>
  BY DEF Reload
<1>2. /\ session \in Sessions /\ accepted \in Acceptances /\ NoSessionUpdateLost'
      /\ request[h] \in RequestRows
  BY <1>1, StreamFacts DEF StreamInv, NoSessionUpdateLost
<1>3. x \in RequestRows /\ x.step = "ensure"
  BY <1>2 DEF RequestRows, Sessions
<1> HIDE DEF x
<1>4. request[h].step \in OpenSteps /\ request[h].step \in BeginSteps
  BY <1>1 DEF OpenSteps, BeginSteps
<1>5. x.step \notin {"persist", "commit", "start", "swap"} /\ x.step \notin CoordinatorSteps
  BY <1>3 DEF CoordinatorSteps
<1> QED
  BY <1>1, <1>2, <1>3, <1>4, <1>5, RequestMoves

LEMMA PersistKeeps ==
  ASSUME StreamInv, NEW h \in Handlers, Persist(h)
  PROVE  StreamInv'
<1> DEFINE x == [request[h] EXCEPT !.version = session.version, !.revision = session.revision,
                                   !.step = "commit"]
<1>1. /\ request[h].step = "persist" /\ request' = [request EXCEPT ![h] = x]
      /\ UNCHANGED <<session, accepted, sent, current, bound, coordinator, refresh, last>>
  BY DEF Persist
<1>2. /\ session \in Sessions /\ accepted \in Acceptances /\ NoSessionUpdateLost'
      /\ request[h] \in RequestRows /\ RequestOK(h)
  BY <1>1, StreamFacts DEF StreamInv, NoSessionUpdateLost
<1>3. /\ x \in RequestRows /\ x.step = "commit" /\ x.version = session.version
      /\ x.revision = session.revision /\ x.coordinator = request[h].coordinator
      /\ session.version \in Nat
  BY <1>2 DEF RequestRows, Sessions
<1> HIDE DEF x
<1>4. /\ request[h].step \in BeginSteps /\ x.step \notin OpenSteps /\ x.step # "start"
  BY <1>1, <1>3 DEF BeginSteps, OpenSteps
<1>5. /\ x.coordinator \in Coordinators /\ coordinator[x.coordinator].state # "none"
      /\ coordinator[x.coordinator].lock = h
  BY <1>1, <1>2, <1>3 DEF RequestOK, CoordinatorSteps
<1>6. x.version <= session'.version /\ x.revision = session'.revision
  BY <1>1, <1>3
<1> QED
  BY <1>1, <1>2, <1>3, <1>4, <1>5, <1>6, RequestMoves

-----------------------------------------------------------------------------
(* Dashboard streams: the generations begin                                *)

(* A request that has not begun its generation leaves room for one more. *)
LEMMA RoomForOneMore ==
  ASSUME StreamInv, NEW h \in Handlers, request[h].step \in BeginSteps, NEW c \in Coordinators
  PROVE  coordinator[c].generation + 1 \in Generations
<1>1. /\ IsFiniteSet(At(BeginSteps)) /\ sent \in 0..MaxRequests /\ MaxRequests \in Nat
      /\ coordinator[c].generation \in Nat
      /\ coordinator[c].generation + Cardinality(At(BeginSteps)) <= sent
  BY StreamFacts, StreamAssumption DEF StreamInv, CountsOK
<1>2. At(BeginSteps) # {}
  BY DEF At
<1>3. Cardinality(At(BeginSteps)) \in Nat /\ Cardinality(At(BeginSteps)) # 0
  BY <1>1, <1>2, FS_EmptySet, FS_CardinalityType
<1> QED
  BY <1>1, <1>3 DEF Generations, Numbers

LEMMA BeganKeeps ==
  ASSUME StreamInv, NEW h \in Handlers, request[h].step \in {"begin", "commit", "invalid"},
         NEW c \in Coordinators, c = request[h].coordinator, Live(c),
         coordinator[c].lock \in {"free", h},
         NEW r \in Nat, NEW s \in 0..MaxRequests, NEW n \in 0..MaxSequence,
         Began(c, r, s, n), StartNext(h), UNCHANGED <<sent, current, bound, last>>,
         session' \in Sessions, session' = session \/ session'.version = session.version + 1,
         accepted' \in Acceptances, NoSessionUpdateLost'
  PROVE  StreamInv'
<1> DEFINE g == coordinator[c].generation + 1
           a == coordinator[c].active
           begun == [NoRefresh EXCEPT !.step = "begun"]
           row == [coordinator[c] EXCEPT !.generation = g, !.active = g, !.revision = r,
                     !.selection = s, !.sequence = n, !.lock = "free"]
           x == [IdleRequest EXCEPT !.kind = request[h].kind, !.step = "start",
                   !.coordinator = c, !.generation = g]
<1>1. /\ StreamTypeOK /\ request \in [Handlers -> RequestRows] /\ sent \in 0..MaxRequests
      /\ coordinator \in [Coordinators -> CoordinatorRows]
      /\ refresh \in [Coordinators -> [Generations -> RefreshRows]]
      /\ last.coordinator \in {0} \union Coordinators /\ last \in StreamEvents
  BY StreamFacts
<1>2. request[h].step \in BeginSteps /\ request[h].step \notin OpenSteps
  BY DEF BeginSteps, OpenSteps
<1>3. g \in Generations /\ g \in 0..MaxRequests /\ g > 0
  BY <1>2, RoomForOneMore, IdsAreNaturals
<1>4. a \in {0} \union Generations
  BY LiveFacts, SMTT(60)
<1>5. coordinator' = [coordinator EXCEPT ![c] = row]
  BY ZenonT(60) DEF Began
<1>6. refresh' = [Summarised(refresh, c, a) EXCEPT ![c] = [Summarised(refresh, c, a)[c] EXCEPT ![g] = begun]]
  BY Zenon DEF Began
<1>7. request' = [request EXCEPT ![h] = x]
  BY DEF StartNext
<1>8. begun \in RefreshRows
  BY EmptyRows DEF RefreshRows
<1> HIDE DEF g, a, begun
<1>9. /\ row \in CoordinatorRows /\ row.state = coordinator[c].state /\ row.generation = g
      /\ row.active = g /\ row.lock = "free"
  <2>1. coordinator[c] \in CoordinatorRows /\ "free" \in {"free"} \union Handlers
    BY <1>1
  <2>2. row \in CoordinatorRows
    BY <1>3, <2>1 DEF CoordinatorRows
  <2> QED
    BY <2>1, <2>2 DEF CoordinatorRows
<1>10. /\ x \in RequestRows /\ x.step = "start" /\ x.coordinator = c /\ x.generation = g
  <2>1. request[h].kind \in RequestKinds \union {"none"}
    BY <1>1 DEF RequestRows
  <2> QED
    BY <1>3, <2>1, EmptyRows DEF RequestRows
<1> HIDE DEF row, x
<1>11. /\ coordinator' \in [Coordinators -> CoordinatorRows] /\ coordinator'[c] = row
       /\ \A d \in Coordinators \ {c} : coordinator'[d] = coordinator[d]
  BY <1>1, <1>5, <1>9
<1>12. /\ request' \in [Handlers -> RequestRows] /\ request'[h] = x
       /\ \A k \in Handlers \ {h} : request'[k] = request[k]
  BY <1>1, <1>7, <1>10
<1>13. /\ Summarised(refresh, c, a) \in [Coordinators -> [Generations -> RefreshRows]]
       /\ \A d \in Coordinators \ {c} : Summarised(refresh, c, a)[d] = refresh[d]
  BY <1>1, <1>4, SummarisedRows
<1>14. /\ refresh' \in [Coordinators -> [Generations -> RefreshRows]]
       /\ refresh'[c] = [Summarised(refresh, c, a)[c] EXCEPT ![g] = begun]
       /\ \A d \in Coordinators \ {c} : refresh'[d] = refresh[d]
  <2>1. [Summarised(refresh, c, a)[c] EXCEPT ![g] = begun] \in [Generations -> RefreshRows]
    BY <1>8, <1>13, Zenon
  <2> QED
    BY <1>6, <1>13, <2>1
<1>15. /\ CoordinatorOK(c)' /\ \A i \in Generations : RefreshOK(c, i)'
       /\ refresh[c][g] = NoRefresh /\ refresh'[c][g].step = "begun"
       /\ \A i \in Generations \ {g} : refresh'[c][i].step = refresh[c][i].step
  <2>1. refresh'[c] = [Summarised(refresh, c, coordinator[c].active)[c] EXCEPT
                         ![g] = [NoRefresh EXCEPT !.step = "begun"]]
    BY <1>14 DEF a, begun
  <2>2. g = coordinator[c].generation + 1
    BY DEF g
  <2> QED
    BY <1>3, <1>9, <1>11, <2>1, <2>2, BegunRow, ZenonT(60)
<1>16. \A d \in Coordinators : coordinator'[d].state = coordinator[d].state
  BY <1>9, <1>11
<1>17. \A d \in Coordinators, i \in Generations :
         <<d, i>> # <<c, g>> => refresh'[d][i].step = refresh[d][i].step
  BY <1>14, <1>15
<1>18. ASSUME NEW k \in Handlers, k # h, request[k].step = "start"
       PROVE  /\ request[k].coordinator \in Coordinators /\ request[k].generation \in Generations
              /\ <<request[k].coordinator, request[k].generation>> # <<c, g>>
  <2>1. RequestOK(k)
    BY DEF StreamInv
  <2>2. /\ request[k].coordinator \in Coordinators /\ request[k].generation \in Generations
        /\ refresh[request[k].coordinator][request[k].generation].step = "begun"
    BY <1>18, <2>1 DEF RequestOK, CoordinatorSteps
  <2> QED
    BY <1>15, <2>2, EmptyRows
<1>19. StreamTypeOK'
  BY <1>1, <1>11, <1>12, <1>14, StreamTypes, StreamTypesNext
<1>20. ASSUME NEW k \in Handlers
       PROVE  RequestOK(k)'
  <2>1. CASE k = h
    <3>1. coordinator'[c].state # "none"
      BY <1>16, LiveFacts
    <3> QED
      BY <1>3, <1>10, <1>12, <1>15, <2>1, <3>1 DEF RequestOK, CoordinatorSteps
  <2>2. CASE k # h
    <3>1. RequestOK(k) /\ request'[k] = request[k]
      BY <1>12, <2>2 DEF StreamInv
    <3>2. request[k].step \in {"persist", "commit"} => coordinator'[request[k].coordinator].lock = k
      <4> SUFFICES ASSUME request[k].step \in {"persist", "commit"}
                   PROVE  coordinator'[request[k].coordinator].lock = k
        OBVIOUS
      <4>1. request[k].coordinator \in Coordinators /\ coordinator[request[k].coordinator].lock = k
        BY <3>1 DEF RequestOK, CoordinatorSteps
      <4>2. request[k].coordinator # c
        BY <2>2, <4>1, StreamAssumption
      <4> QED
        BY <1>11, <4>1, <4>2
    <3>3. request[k].step = "start" =>
            refresh'[request[k].coordinator][request[k].generation].step = "begun"
      BY <1>17, <1>18, <2>2, <3>1 DEF RequestOK
    <3> QED
      BY <1>1, <1>16, <3>1, <3>2, <3>3, RequestKept
  <2> QED
    BY <2>1, <2>2
<1>21. StartsDiffer'
  <2> SUFFICES ASSUME NEW i \in Handlers, NEW k \in Handlers, i # k,
                      request'[i].step = "start", request'[k].step = "start"
               PROVE  \/ request'[i].coordinator # request'[k].coordinator
                      \/ request'[i].generation # request'[k].generation
    BY DEF StartsDiffer
  <2>1. CASE i # h /\ k # h
    BY <1>12, <2>1 DEF StreamInv, StartsDiffer
  <2>2. CASE i = h
    BY <1>10, <1>12, <1>18, <2>2
  <2>3. CASE k = h
    BY <1>10, <1>12, <1>18, <2>3
  <2> QED
    BY <2>1, <2>2, <2>3
<1>22. ASSUME NEW d \in Coordinators, d # c
       PROVE  CoordinatorOK(d)' /\ \A i \in Generations : RefreshOK(d, i)'
  <2>1. /\ CoordinatorOK(d) /\ \A i \in Generations : RefreshOK(d, i)
        /\ coordinator'[d] = coordinator[d] /\ refresh'[d] = refresh[d]
    BY <1>11, <1>14, <1>22 DEF StreamInv
  <2>2. coordinator[d].lock # "free" =>
          /\ request'[coordinator[d].lock].step \in {"persist", "commit"}
          /\ request'[coordinator[d].lock].coordinator = d
    <3>1. coordinator[d].lock \in {"free"} \union Handlers
      BY StreamFacts
    <3> QED
      BY <1>12, <1>22, <2>1, <3>1 DEF CoordinatorOK
  <2> QED
    BY <2>1, <2>2, CoordinatorKept, RefreshKept DEF CoordinatorOK
<1>23. RegistryOK'
  <2>1. RegistryOK /\ current \in {0} \union Coordinators
    BY StreamFacts DEF StreamInv
  <2> QED
    BY <1>16, <2>1 DEF RegistryOK
<1>24. LastOK'
  <2>1. LastOK
    BY DEF StreamInv
  <2>2. refresh[c][g].step = "none"
    BY <1>15, EmptyRows
  <2>3. \A d \in Coordinators, i \in Generations :
           /\ refresh[d][i].step \in {"running", "complete", "ended"} =>
                refresh'[d][i].step \in {"running", "complete", "ended"}
           /\ refresh[d][i].step \in {"complete", "ended"} =>
                refresh'[d][i].step \in {"complete", "ended"}
    BY <1>17, <2>2
  <2> QED
    BY <1>1, <2>1, <2>3, LastKept
<1>25. CountsOK'
  <2>1. /\ IsFiniteSet(At(OpenSteps)) /\ IsFiniteSet(At(BeginSteps))
        /\ Cardinality(Made) + Cardinality(At(OpenSteps)) <= sent
        /\ \A d \in Coordinators : coordinator[d].generation + Cardinality(At(BeginSteps)) <= sent
        /\ \A d \in Coordinators : coordinator[d].generation \in Nat
        /\ sent \in Nat
    BY StreamFacts, StreamAssumption DEF StreamInv, CountsOK
  <2>2. request'[h].step \notin OpenSteps /\ request'[h].step \notin BeginSteps
    BY <1>10, <1>12 DEF OpenSteps, BeginSteps
  <2>3. /\ IsFiniteSet(At(OpenSteps)') /\ Cardinality(At(OpenSteps)) \in Nat
        /\ Cardinality(At(OpenSteps)') \in Nat
        /\ Cardinality(At(OpenSteps)') <= Cardinality(At(OpenSteps))
    BY <1>12, <2>1, <2>2, CountsMove
  <2>4. /\ IsFiniteSet(At(BeginSteps)') /\ Cardinality(At(BeginSteps)) \in Nat
        /\ Cardinality(At(BeginSteps)') \in Nat
        /\ Cardinality(At(BeginSteps)') + 1 = Cardinality(At(BeginSteps))
    BY <1>2, <1>12, <2>1, <2>2, CountsMove
  <2>5. Made' = Made
    BY <1>16 DEF Made
  <2>6. Cardinality(Made) \in Nat
    BY ManyCoordinators, FS_Subset, FS_CardinalityType DEF Made
  <2>7. \A d \in Coordinators : coordinator'[d].generation <= coordinator[d].generation + 1
                                /\ coordinator'[d].generation \in Nat
    BY <1>9, <1>11, <2>1 DEF g
  <2>8. \A d \in Coordinators : coordinator'[d].generation + Cardinality(At(BeginSteps)') <= sent'
    BY <2>1, <2>4, <2>7
  <2> QED
    BY <2>1, <2>3, <2>4, <2>5, <2>6, <2>8 DEF CountsOK
<1> QED
  BY <1>15, <1>19, <1>20, <1>21, <1>22, <1>23, <1>24, <1>25 DEF StreamInv

LEMMA BeginKeeps ==
  ASSUME StreamInv, NEW h \in Handlers, Begin(h)
  PROVE  StreamInv'
<1> DEFINE c == request[h].coordinator
           r == PreparedRevision(h)
           s == PreparedSelection(h)
           n == IF request[h].kind = "window" THEN request[h].sequence ELSE coordinator[c].sequence
<1>1. /\ request[h].step = "begin" /\ coordinator[c].lock = "free"
      /\ UNCHANGED <<session, accepted, sent, current, bound, last>>
      /\ \/ Done(h) /\ UNCHANGED <<coordinator, refresh>>
         \/ Live(c) /\ Began(c, r, s, n) /\ StartNext(h)
  BY DEF Begin
<1>2. CASE Done(h) /\ UNCHANGED <<coordinator, refresh>>
  BY <1>1, <1>2, DoneKeeps
<1>3. CASE Live(c) /\ Began(c, r, s, n) /\ StartNext(h)
  <2>1. RequestOK(h) /\ request[h] \in RequestRows /\ coordinator \in [Coordinators -> CoordinatorRows]
    BY StreamFacts DEF StreamInv
  <2>2. c \in Coordinators /\ coordinator[c] \in CoordinatorRows
    BY <1>1, <2>1 DEF RequestOK, CoordinatorSteps
  <2>3. r \in Nat /\ s \in 0..MaxRequests /\ n \in 0..MaxSequence
    BY <2>1, <2>2 DEF PreparedRevision, PreparedSelection, RequestRows, CoordinatorRows
  <2>4. session' \in Sessions /\ accepted' \in Acceptances /\ NoSessionUpdateLost'
    BY <1>1, StreamFacts DEF StreamInv, NoSessionUpdateLost
  <2>5. c = request[h].coordinator
    OBVIOUS
  <2> HIDE DEF c, r, s, n
  <2> QED
    BY <1>1, <1>3, <2>2, <2>3, <2>4, <2>5, BeganKeeps
<1> QED
  BY <1>1, <1>2, <1>3

LEMMA BeginInvalidKeeps ==
  ASSUME StreamInv, NEW h \in Handlers, BeginInvalid(h)
  PROVE  StreamInv'
<1> DEFINE c == request[h].coordinator
           r == coordinator[c].revision
           s == coordinator[c].selection
           n == coordinator[c].sequence
<1>1. /\ request[h].step = "invalid" /\ coordinator[c].lock = "free"
      /\ UNCHANGED <<session, accepted, sent, current, bound, last>>
      /\ \/ Done(h) /\ UNCHANGED <<coordinator, refresh>>
         \/ Live(c) /\ Began(c, r, s, n) /\ StartNext(h)
  BY DEF BeginInvalid
<1>2. CASE Done(h) /\ UNCHANGED <<coordinator, refresh>>
  BY <1>1, <1>2, DoneKeeps
<1>3. CASE Live(c) /\ Began(c, r, s, n) /\ StartNext(h)
  <2>1. RequestOK(h) /\ coordinator \in [Coordinators -> CoordinatorRows]
    BY StreamFacts DEF StreamInv
  <2>2. c \in Coordinators /\ coordinator[c] \in CoordinatorRows
    BY <1>1, <2>1 DEF RequestOK, CoordinatorSteps
  <2>3. r \in Nat /\ s \in 0..MaxRequests /\ n \in 0..MaxSequence
    BY <2>2 DEF CoordinatorRows
  <2>4. session' \in Sessions /\ accepted' \in Acceptances /\ NoSessionUpdateLost'
    BY <1>1, StreamFacts DEF StreamInv, NoSessionUpdateLost
  <2>5. c = request[h].coordinator
    OBVIOUS
  <2> HIDE DEF c, r, s, n
  <2> QED
    BY <1>1, <1>3, <2>2, <2>3, <2>4, <2>5, BeganKeeps
<1> QED
  BY <1>1, <1>2, <1>3

(* The mutex of c is taken or given back by the request h. *)
LEMMA LockMoves ==
  ASSUME StreamInv, NEW h \in Handlers, NEW c \in Coordinators, NEW x \in RequestRows,
         NEW l \in {"free", h}, Live(c), coordinator[c].lock \in {"free", h},
         request[h].step \in {"begin", "commit"}, request[h].coordinator = c,
         request' = [request EXCEPT ![h] = x],
         coordinator' = [coordinator EXCEPT ![c].lock = l],
         UNCHANGED <<session, accepted, sent, current, bound, refresh, last>>,
         x.step = IF l = h THEN "persist" ELSE "invalid", x.coordinator = c
  PROVE  StreamInv'
<1> DEFINE row == [coordinator[c] EXCEPT !.lock = l]
<1>1. /\ StreamTypeOK /\ request \in [Handlers -> RequestRows]
      /\ coordinator \in [Coordinators -> CoordinatorRows] /\ coordinator[c] \in CoordinatorRows
      /\ last.coordinator \in {0} \union Coordinators /\ h # "free"
  BY StreamFacts, StreamAssumption
<1>2. /\ row \in CoordinatorRows /\ row.lock = l /\ row.state = coordinator[c].state
      /\ row.generation = coordinator[c].generation /\ row.active = coordinator[c].active
  BY <1>1 DEF CoordinatorRows
<1>3. coordinator' = [coordinator EXCEPT ![c] = row]
  OBVIOUS
<1> HIDE DEF row
<1>4. /\ coordinator' \in [Coordinators -> CoordinatorRows] /\ coordinator'[c] = row
      /\ \A d \in Coordinators \ {c} : coordinator'[d] = coordinator[d]
  BY <1>1, <1>2, <1>3
<1>5. /\ request' \in [Handlers -> RequestRows] /\ request'[h] = x
      /\ \A k \in Handlers \ {h} : request'[k] = request[k]
  BY <1>1
<1>6. StreamTypeOK'
  BY <1>1, <1>4, <1>5, StreamTypes, StreamTypesNext
<1>7. \A d \in Coordinators : /\ coordinator'[d].state = coordinator[d].state
                              /\ coordinator'[d].generation = coordinator[d].generation
                              /\ coordinator'[d].active = coordinator[d].active
  BY <1>2, <1>4
<1>8. ASSUME NEW k \in Handlers
      PROVE  RequestOK(k)'
  <2>1. CASE k = h
    <3>1. coordinator'[c].state # "none" /\ coordinator'[c].lock = l
      BY <1>2, <1>4, <1>7, LiveFacts
    <3> QED
      BY <1>1, <1>5, <2>1, <3>1 DEF RequestOK
  <2>2. CASE k # h
    <3>1. RequestOK(k) /\ request'[k] = request[k]
      BY <1>5, <2>2 DEF StreamInv
    <3>2. request[k].step \in {"persist", "commit"} => coordinator'[request[k].coordinator].lock = k
      <4> SUFFICES ASSUME request[k].step \in {"persist", "commit"}
                   PROVE  coordinator'[request[k].coordinator].lock = k
        OBVIOUS
      <4>1. request[k].coordinator \in Coordinators /\ coordinator[request[k].coordinator].lock = k
        BY <3>1 DEF RequestOK, CoordinatorSteps
      <4>2. request[k].coordinator # c
        BY <2>2, <4>1, StreamAssumption
      <4> QED
        BY <1>4, <4>1, <4>2
    <3>3. request[k].step = "start" =>
            refresh'[request[k].coordinator][request[k].generation].step = "begun"
      BY <3>1 DEF RequestOK
    <3> QED
      BY <1>1, <1>7, <3>1, <3>2, <3>3, RequestKept
  <2> QED
    BY <2>1, <2>2
<1>9. StartsDiffer'
  BY <1>5 DEF StreamInv, StartsDiffer
<1>10. ASSUME NEW d \in Coordinators
       PROVE  CoordinatorOK(d)' /\ \A g \in Generations : RefreshOK(d, g)'
  <2>1. CoordinatorOK(d) /\ \A g \in Generations : RefreshOK(d, g)
    BY DEF StreamInv
  <2>2. \A g \in Generations : RefreshOK(d, g)'
    BY <1>7, <2>1 DEF RefreshOK, MayEmit, Live
  <2>3. CASE d # c
    <3>1. coordinator'[d] = coordinator[d]
      BY <1>4, <2>3
    <3>2. coordinator[d].lock # "free" =>
            /\ request'[coordinator[d].lock].step \in {"persist", "commit"}
            /\ request'[coordinator[d].lock].coordinator = d
      <4>1. coordinator[d].lock \in {"free"} \union Handlers
        BY StreamFacts
      <4> QED
        BY <1>5, <2>1, <2>3, <4>1 DEF CoordinatorOK
    <3> QED
      BY <2>1, <2>2, <3>1, <3>2, CoordinatorKept DEF CoordinatorOK
  <2>4. CASE d = c
    <3>1. coordinator'[c] = row /\ row.state \notin {"none", "closed"}
      BY <1>2, <1>4, LiveFacts
    <3>2. row.lock # "free" => request'[row.lock] = x /\ x.step = "persist"
      BY <1>1, <1>2, <1>5
    <3>3. CoordinatorOK(c)'
      BY <1>2, <2>1, <2>4, <3>1, <3>2 DEF CoordinatorOK
    <3> QED
      BY <2>2, <2>4, <3>3
  <2> QED
    BY <2>3, <2>4
<1>11. RegistryOK' /\ LastOK'
  <2>1. RegistryOK /\ LastOK /\ current \in {0} \union Coordinators
    BY StreamFacts DEF StreamInv
  <2> QED
    BY <1>7, <2>1 DEF RegistryOK, LastOK
<1>12. CountsOK'
  <2>1. Made' \subseteq Made
    BY <1>7 DEF Made
  <2>2. \A d \in Coordinators : coordinator'[d].generation \in Nat
                                /\ coordinator'[d].generation <= coordinator[d].generation
    BY <1>7, StreamFacts
  <2>3. x.step \notin OpenSteps /\ request[h].step \in BeginSteps
    BY DEF OpenSteps, BeginSteps
  <2> QED
    BY <1>5, <2>1, <2>2, <2>3, CountsKept
<1>13. NoSessionUpdateLost'
  BY DEF StreamInv, NoSessionUpdateLost
<1> QED
  BY <1>6, <1>8, <1>9, <1>10, <1>11, <1>12, <1>13 DEF StreamInv

LEMMA BeginSelectKeeps ==
  ASSUME StreamInv, NEW h \in Handlers, BeginSelect(h)
  PROVE  StreamInv'
<1> DEFINE c == request[h].coordinator
           valid == request[h].base = coordinator[c].revision /\ request[h].seen = coordinator[c].selection
<1>1. /\ request[h].step = "begin" /\ coordinator[c].lock = "free"
      /\ UNCHANGED <<session, accepted, sent, current, bound, refresh, last>>
      /\ \/ Goto(h, "invalid") /\ UNCHANGED coordinator
         \/ /\ Live(c) /\ coordinator' = [coordinator EXCEPT ![c].lock = h]
            /\ Goto(h, "persist")
  BY DEF BeginSelect
<1>2. RequestOK(h) /\ request[h] \in RequestRows
  BY StreamFacts DEF StreamInv
<1>3. c \in Coordinators /\ coordinator[c].state # "none"
  BY <1>1, <1>2 DEF RequestOK, CoordinatorSteps
<1>4. CASE Goto(h, "invalid") /\ UNCHANGED coordinator
  <2> DEFINE x == [request[h] EXCEPT !.step = "invalid"]
  <2>1. request' = [request EXCEPT ![h] = x]
    BY <1>4 DEF Goto
  <2>2. x \in RequestRows /\ x.step = "invalid" /\ x.coordinator = c
    BY <1>2 DEF RequestRows
  <2> HIDE DEF x, c
  <2>3. session' \in Sessions /\ accepted' \in Acceptances /\ NoSessionUpdateLost'
    BY <1>1, StreamFacts DEF StreamInv, NoSessionUpdateLost
  <2>4. request[h].step \in BeginSteps /\ x.step \notin OpenSteps
    BY <1>1, <2>2 DEF OpenSteps, BeginSteps
  <2> QED
    BY <1>1, <1>3, <1>4, <2>1, <2>2, <2>3, <2>4, RequestMoves
<1>5. CASE Live(c) /\ coordinator' = [coordinator EXCEPT ![c].lock = h] /\ Goto(h, "persist")
  <2> DEFINE x == [request[h] EXCEPT !.step = "persist"]
  <2>1. request' = [request EXCEPT ![h] = x]
    BY <1>5 DEF Goto
  <2>2. x \in RequestRows /\ x.step = "persist" /\ x.coordinator = c
    BY <1>2 DEF RequestRows
  <2>3. c = request[h].coordinator
    OBVIOUS
  <2> HIDE DEF x, c
  <2> QED
    BY <1>1, <1>3, <1>5, <2>1, <2>2, <2>3, LockMoves
<1> QED
  BY <1>1, <1>4, <1>5

LEMMA CommitKeeps ==
  ASSUME StreamInv, NEW h \in Handlers, Commit(h)
  PROVE  StreamInv'
<1> DEFINE c == request[h].coordinator
<1>1. /\ request[h].step = "commit" /\ UNCHANGED <<sent, current, bound, last>>
  BY DEF Commit
<1>2. /\ RequestOK(h) /\ request[h] \in RequestRows /\ request \in [Handlers -> RequestRows]
      /\ coordinator \in [Coordinators -> CoordinatorRows]
      /\ session \in Sessions /\ accepted \in Acceptances /\ NoSessionUpdateLost
  BY StreamFacts DEF StreamInv
<1>3. c \in Coordinators /\ coordinator[c].lock = h /\ coordinator[c] \in CoordinatorRows
  BY <1>1, <1>2 DEF RequestOK, CoordinatorSteps
<1>4. Live(c)
  BY <1>3, LiveFacts, StreamAssumption
<1>5. CASE Swaps(h)
  <2>1. /\ session' = [version |-> session.version + 1, revision |-> request[h].revision,
                       selection |-> request[h].number]
        /\ accepted' = [accepted EXCEPT !.selection = request[h].number]
        /\ Began(c, coordinator[c].revision, request[h].number, coordinator[c].sequence)
        /\ StartNext(h)
    BY <1>5 DEF Commit
  <2>2. /\ request[h].number \in 0..MaxRequests /\ request[h].revision \in Nat
        /\ session.version \in Nat /\ session.version + 1 \in Nat
        /\ request[h].revision = session.revision
    BY <1>1, <1>2, <1>5 DEF RequestRows, Sessions, RequestOK, Swaps
  <2>3. /\ session' \in Sessions /\ session'.version = session.version + 1
        /\ session'.revision = session.revision /\ session'.selection = request[h].number
    BY <2>1, <2>2 DEF Sessions
  <2>4. /\ accepted' \in Acceptances /\ accepted'.filters = accepted.filters
        /\ accepted'.selection = request[h].number
    BY <1>2, <2>1, <2>2 DEF Acceptances
  <2>5. NoSessionUpdateLost'
    BY <1>2, <2>3, <2>4 DEF NoSessionUpdateLost
  <2>6. coordinator[c].revision \in Nat /\ coordinator[c].sequence \in 0..MaxSequence
    BY <1>3 DEF CoordinatorRows
  <2>7. c = request[h].coordinator
    OBVIOUS
  <2> HIDE DEF c
  <2> QED
    BY <1>1, <1>3, <1>4, <2>1, <2>2, <2>3, <2>4, <2>5, <2>6, <2>7, BeganKeeps
<1>6. CASE ~Swaps(h)
  <2> DEFINE failed == [request[h] EXCEPT !.step = "invalid"]
             x == IF request[h].attempts + 1 < MaxAttempts
                  THEN [request[h] EXCEPT !.attempts = request[h].attempts + 1, !.step = "persist"]
                  ELSE [failed EXCEPT !.attempts = 0]
  <2>1. /\ request' = [request EXCEPT ![h] = x]
        /\ coordinator' = IF request'[h].step = "invalid" THEN Released(coordinator, c) ELSE coordinator
        /\ UNCHANGED <<session, accepted, refresh>>
    BY <1>6 DEF Commit, Retry
  <2>2. failed \in RequestRows /\ failed.step = "invalid" /\ failed.coordinator = c
    BY <1>2, SMTT(60) DEF RequestRows
  <2> HIDE DEF failed
  <2>3. x \in RequestRows /\ x.step \in {"persist", "invalid"} /\ x.coordinator = c
    BY <1>2, <2>2, RetryFacts, ZenonT(60)
  <2>4. c = request[h].coordinator
    OBVIOUS
  <2> HIDE DEF x, c
  <2>5. request'[h] = x
    BY <1>2, <2>1
  <2>6. CASE x.step = "invalid"
    <3>1. coordinator' = [coordinator EXCEPT ![c].lock = "free"]
      BY <2>1, <2>5, <2>6 DEF Released
    <3>2. "free" # h
      BY StreamAssumption
    <3> QED
      BY <1>1, <1>3, <1>4, <2>1, <2>3, <2>4, <2>6, <3>1, <3>2, LockMoves
  <2>7. CASE x.step = "persist"
    <3>1. coordinator' = coordinator
      BY <2>1, <2>5, <2>7
    <3>2. session' \in Sessions /\ accepted' \in Acceptances /\ NoSessionUpdateLost'
      BY <1>2, <2>1 DEF NoSessionUpdateLost
    <3>3. request[h].step \in BeginSteps /\ x.step \notin OpenSteps
      BY <1>1, <2>7 DEF OpenSteps, BeginSteps
    <3>4. coordinator[c].state # "none"
      BY <1>4, LiveFacts, <1>3
    <3> QED
      BY <1>1, <1>3, <2>1, <2>3, <2>4, <2>7, <3>1, <3>2, <3>3, <3>4, RequestMoves
  <2> QED
    BY <2>3, <2>6, <2>7
<1> QED
  BY <1>5, <1>6

-----------------------------------------------------------------------------
(* Dashboard streams: coordinators come and go                             *)

(* Requests that do not work with their coordinator's mutex or start a
   generation may move. *)
StreamQuiet ==
  \A k \in Handlers :
    \/ request'[k] = request[k]
    \/ /\ request[k].step \notin {"persist", "commit"}
       /\ request'[k].step # "start" /\ RequestOK(k)'

LEMMA CoordinatorsMove ==
  ASSUME StreamInv, StreamTypeOK', StreamQuiet, UNCHANGED <<session, accepted, last>>,
         \A d \in Coordinators : /\ coordinator[d].state # "none" => coordinator'[d].state # "none"
                                 /\ coordinator[d].lock # "free" =>
                                      coordinator'[d].lock = coordinator[d].lock
         ,
         \A d \in Coordinators, g \in Generations : refresh'[d][g].step = refresh[d][g].step,
         \A d \in Coordinators : CoordinatorOK(d)',
         \A d \in Coordinators, g \in Generations : RefreshOK(d, g)',
         RegistryOK', CountsOK'
  PROVE  StreamInv'
<1>1. StreamTypeOK /\ last.coordinator \in {0} \union Coordinators
  BY StreamFacts
<1>2. ASSUME NEW k \in Handlers
      PROVE  RequestOK(k)'
  <2>1. RequestOK(k)
    BY DEF StreamInv
  <2>2. CASE request'[k] = request[k]
    <3>1. request[k].step \in {"persist", "commit"} => coordinator'[request[k].coordinator].lock = k
      <4> SUFFICES ASSUME request[k].step \in {"persist", "commit"}
                   PROVE  coordinator'[request[k].coordinator].lock = k
        OBVIOUS
      <4>1. request[k].coordinator \in Coordinators /\ coordinator[request[k].coordinator].lock = k
        BY <2>1 DEF RequestOK, CoordinatorSteps
      <4> QED
        BY <4>1, StreamAssumption
    <3>2. request[k].step = "start" =>
            refresh'[request[k].coordinator][request[k].generation].step = "begun"
      BY <2>1 DEF RequestOK, CoordinatorSteps
    <3> QED
      BY <1>1, <2>1, <2>2, <3>1, <3>2, RequestKept
  <2>3. CASE request'[k] # request[k]
    BY <2>3 DEF StreamQuiet
  <2> QED
    BY <2>2, <2>3
<1>3. StartsDiffer'
  <2>1. \A k \in Handlers : request'[k].step = "start" => request'[k] = request[k]
    BY DEF StreamQuiet
  <2> QED
    BY <2>1 DEF StreamInv, StartsDiffer
<1>4. LastOK'
  BY <1>1, LastKept DEF StreamInv
<1>5. NoSessionUpdateLost'
  BY DEF StreamInv, NoSessionUpdateLost
<1> QED
  BY <1>2, <1>3, <1>4, <1>5 DEF StreamInv

(* A coordinator that nothing happens to. *)
LEMMA RestingRow ==
  ASSUME StreamInv, StreamQuiet, NEW d \in Coordinators,
         coordinator'[d] = coordinator[d], refresh'[d] = refresh[d],
         coordinator[d].state = "open" => current' = d
  PROVE  CoordinatorOK(d)' /\ \A g \in Generations : RefreshOK(d, g)'
<1>1. CoordinatorOK(d) /\ \A g \in Generations : RefreshOK(d, g)
  BY DEF StreamInv
<1>2. coordinator[d].lock # "free" =>
        /\ request'[coordinator[d].lock].step \in {"persist", "commit"}
        /\ request'[coordinator[d].lock].coordinator = d
  <2>1. coordinator[d].lock \in {"free"} \union Handlers
    BY StreamFacts
  <2> QED
    BY <1>1, <2>1 DEF CoordinatorOK, StreamQuiet
<1>3. coordinator[d].active # 0 =>
        refresh'[d][coordinator[d].active].step \in {"begun", "running", "complete"}
  BY <1>1 DEF CoordinatorOK
<1> QED
  BY <1>1, <1>2, <1>3, CoordinatorKept, RefreshKept

(* The coordinator c closes, and nothing else happens to the coordinators. *)
LEMMA ClosingKeeps ==
  ASSUME StreamInv, NEW c \in Coordinators, coordinator[c].state # "none",
         coordinator[c].lock = "free",
         coordinator' = Closed(coordinator, c),
         refresh' = Summarised(refresh, c, coordinator[c].active),
         StreamQuiet, request' \in [Handlers -> RequestRows],
         UNCHANGED <<session, accepted, sent, last>>,
         current' = IF current = c THEN 0 ELSE current,
         bound' = IF current = c THEN 0 ELSE bound,
         CountsOK'
  PROVE  StreamInv'
<1> DEFINE a == coordinator[c].active
<1>1. /\ StreamTypeOK /\ coordinator \in [Coordinators -> CoordinatorRows]
      /\ refresh \in [Coordinators -> [Generations -> RefreshRows]]
      /\ current \in {0} \union Coordinators /\ bound \in {0} \union Coordinators
      /\ a \in {0} \union Generations
  BY StreamFacts, LiveFacts
<1>2. coordinator' = [coordinator EXCEPT ![c] = ClosedRow]
  BY DEF Closed, ClosedRow
<1>3. /\ coordinator' \in [Coordinators -> CoordinatorRows] /\ coordinator'[c] = ClosedRow
      /\ \A d \in Coordinators \ {c} : coordinator'[d] = coordinator[d]
  BY <1>1, <1>2, ClosedIsEmpty
<1>4. refresh' = Summarised(refresh, c, a)
  OBVIOUS
<1>5. /\ refresh' \in [Coordinators -> [Generations -> RefreshRows]]
      /\ \A d \in Coordinators \ {c} : refresh'[d] = refresh[d]
  <2> HIDE DEF a
  <2> QED
    BY <1>1, <1>4, SummarisedRows
<1>6. StreamTypeOK'
  BY <1>1, <1>3, <1>5, StreamTypes, StreamTypesNext
<1>7. RegistryOK /\ \A d \in Coordinators : CoordinatorOK(d)
  BY DEF StreamInv
<1>8. /\ CoordinatorOK(c)'
      /\ \A g \in Generations : RefreshOK(c, g)' /\ refresh'[c][g].step = refresh[c][g].step
  <2>1. refresh'[c] = Summarised(refresh, c, coordinator[c].active)[c]
    OBVIOUS
  <2> QED
    BY <1>3, <2>1, ClosingRow
<1>9. ASSUME NEW d \in Coordinators, d # c
      PROVE  CoordinatorOK(d)' /\ \A g \in Generations : RefreshOK(d, g)'
  <2>1. coordinator[d].state = "open" => current' = d
    BY <1>7, <1>9 DEF CoordinatorOK
  <2> QED
    BY <1>3, <1>5, <1>9, <2>1, RestingRow
<1>10. RegistryOK'
  <2>1. current' # 0 => current' = current /\ current # c /\ current' \in Coordinators
    BY <1>1
  <2>2. current' # 0 => coordinator'[current'].state = "open"
    BY <1>3, <1>7, <2>1 DEF RegistryOK
  <2>3. bound' # 0 => bound' = current'
    BY <1>7 DEF RegistryOK
  <2> QED
    BY <2>2, <2>3 DEF RegistryOK
<1>11. \A d \in Coordinators, g \in Generations : refresh'[d][g].step = refresh[d][g].step
  BY <1>5, <1>8
<1>12. \A d \in Coordinators : /\ coordinator[d].state # "none" => coordinator'[d].state # "none"
                               /\ coordinator[d].lock # "free" =>
                                    coordinator'[d].lock = coordinator[d].lock
  BY <1>3, ClosedIsEmpty
<1>13. /\ \A d \in Coordinators : CoordinatorOK(d)'
       /\ \A d \in Coordinators, g \in Generations : RefreshOK(d, g)'
  BY <1>8, <1>9
<1> QED
  BY <1>6, <1>10, <1>11, <1>12, <1>13, CoordinatorsMove

LEMMA DisconnectKeeps ==
  ASSUME StreamInv, NEW h \in Handlers, Disconnect(h)
  PROVE  StreamInv'
<1> DEFINE c == request[h].coordinator
<1>1. /\ request[h].step = "streaming" /\ coordinator[c].lock = "free"
      /\ current' = IF current = c THEN 0 ELSE current
      /\ bound' = IF current = c THEN 0 ELSE bound
      /\ coordinator' = Closed(coordinator, c)
      /\ refresh' = Summarised(refresh, c, coordinator[c].active)
      /\ request' = [request EXCEPT ![h] = IdleRequest]
      /\ UNCHANGED <<session, accepted, sent, last>>
  BY DEF Disconnect, Done
<1>2. RequestOK(h) /\ request \in [Handlers -> RequestRows] /\ coordinator \in [Coordinators -> CoordinatorRows]
  BY StreamFacts DEF StreamInv
<1>3. c \in Coordinators /\ coordinator[c].state # "none"
  BY <1>1, <1>2 DEF RequestOK, CoordinatorSteps
<1>4. /\ request' \in [Handlers -> RequestRows] /\ request'[h] = IdleRequest
      /\ \A k \in Handlers \ {h} : request'[k] = request[k]
  BY <1>1, <1>2, EmptyRows
<1>5. StreamQuiet
  <2>1. RequestOK(h)' /\ request'[h].step = "idle"
    BY <1>4, EmptyRows DEF RequestOK, CoordinatorSteps
  <2> QED
    BY <1>1, <1>4, <2>1 DEF StreamQuiet
<1> HIDE DEF c
<1>6. CountsOK'
  <2>1. \A d \in Coordinators : coordinator'[d].generation \in Nat
                                /\ coordinator'[d].generation <= coordinator[d].generation
    <3>1. \A d \in Coordinators : coordinator[d].generation \in Nat
      BY StreamFacts
    <3>2. coordinator' = [coordinator EXCEPT ![c] = ClosedRow]
      BY <1>1 DEF Closed, ClosedRow
    <3>3. coordinator'[c] = ClosedRow /\ \A d \in Coordinators \ {c} : coordinator'[d] = coordinator[d]
      BY <1>2, <1>3, <3>2
    <3> QED
      BY <3>1, <3>3, ClosedIsEmpty
  <2>2. Made' \subseteq Made
    BY <1>1, <1>2, <1>3 DEF Made, Closed
  <2>3. request'[h].step \notin OpenSteps /\ request'[h].step \notin BeginSteps
    BY <1>4, EmptyRows DEF OpenSteps, BeginSteps
  <2> QED
    BY <1>1, <1>4, <2>1, <2>2, <2>3, CountsKept
<1> QED
  BY <1>1, <1>3, <1>4, <1>5, <1>6, ClosingKeeps

LEMMA CountsSame ==
  ASSUME StreamInv, UNCHANGED <<request, sent>>, Made' = Made,
         \A c \in Coordinators : coordinator'[c].generation \in Nat
                                 /\ coordinator'[c].generation <= coordinator[c].generation
  PROVE  CountsOK'
<1>1. /\ IsFiniteSet(At(OpenSteps)) /\ IsFiniteSet(At(BeginSteps))
      /\ Cardinality(Made) + Cardinality(At(OpenSteps)) <= sent
      /\ \A c \in Coordinators : coordinator[c].generation + Cardinality(At(BeginSteps)) <= sent
      /\ sent \in Nat
      /\ \A c \in Coordinators : coordinator[c].generation \in Nat
  BY StreamFacts, StreamAssumption DEF StreamInv, CountsOK
<1>2. At(OpenSteps)' = At(OpenSteps) /\ At(BeginSteps)' = At(BeginSteps)
  BY DEF At
<1>3. Cardinality(At(BeginSteps)) \in Nat
  BY <1>1, FS_CardinalityType
<1>4. \A c \in Coordinators : coordinator'[c].generation + Cardinality(At(BeginSteps)) <= sent
  BY <1>1, <1>3
<1> QED
  BY <1>1, <1>2, <1>4 DEF CountsOK

LEMMA CloseExpiredKeeps ==
  ASSUME StreamInv, NEW c \in Coordinators, CloseExpired(c)
  PROVE  StreamInv'
<1>1. /\ coordinator[c].state = "expiring" /\ coordinator[c].lock = "free"
      /\ coordinator' = Closed(coordinator, c)
      /\ refresh' = Summarised(refresh, c, coordinator[c].active)
      /\ UNCHANGED <<session, accepted, sent, request, current, bound, last>>
  BY DEF CloseExpired
<1>2. /\ request \in [Handlers -> RequestRows] /\ coordinator \in [Coordinators -> CoordinatorRows]
      /\ current \in {0} \union Coordinators
  BY StreamFacts
<1>3. current # c
  <2>1. current # 0 => coordinator[current].state = "open"
    BY DEF StreamInv, RegistryOK
  <2>2. c # 0
    BY IdsAreNaturals
  <2> QED
    BY <1>1, <2>1, <2>2
<1>4. StreamQuiet
  BY <1>1 DEF StreamQuiet
<1>5. coordinator'[c] = ClosedRow /\ \A d \in Coordinators \ {c} : coordinator'[d] = coordinator[d]
  <2>1. coordinator' = [coordinator EXCEPT ![c] = ClosedRow]
    BY <1>1 DEF Closed, ClosedRow
  <2> QED
    BY <1>2, <2>1
<1>6. CountsOK'
  <2>1. \A d \in Coordinators : coordinator[d].generation \in Nat
    BY StreamFacts
  <2>2. \A d \in Coordinators : coordinator'[d].generation \in Nat
                                /\ coordinator'[d].generation <= coordinator[d].generation
    BY <1>5, <2>1, ClosedIsEmpty
  <2>3. Made' = Made
    BY <1>1, <1>5, ClosedIsEmpty DEF Made
  <2> QED
    BY <1>1, <2>2, <2>3, CountsSame
<1> QED
  BY <1>1, <1>2, <1>3, <1>4, <1>6, ClosingKeeps

LEMMA ExpireKeeps ==
  ASSUME StreamInv, NEW c \in Coordinators, Expire(c)
  PROVE  StreamInv'
<1> DEFINE state == IF current = c THEN "expiring" ELSE coordinator[c].state
           row == [coordinator[c] EXCEPT !.timer = FALSE, !.state = state]
<1>1. /\ coordinator[c].timer = TRUE /\ coordinator' = [coordinator EXCEPT ![c] = row]
      /\ current' = IF current = c THEN 0 ELSE current
      /\ bound' = IF current = c THEN 0 ELSE bound
      /\ UNCHANGED <<session, accepted, sent, request, refresh, last>>
  <2>1. coordinator[c].timer \in BOOLEAN
    BY StreamFacts DEF CoordinatorRows
  <2> QED
    BY <2>1 DEF Expire
<1>2. /\ StreamTypeOK /\ coordinator \in [Coordinators -> CoordinatorRows]
      /\ coordinator[c] \in CoordinatorRows
      /\ current \in {0} \union Coordinators /\ bound \in {0} \union Coordinators
      /\ CoordinatorOK(c) /\ RegistryOK /\ \A d \in Coordinators : CoordinatorOK(d)
  BY StreamFacts DEF StreamInv
<1>3. Live(c)
  <2>1. NoCoordinator.timer = FALSE /\ ClosedRow.timer = FALSE
    BY DEF NoCoordinator, ClosedRow
  <2> QED
    BY <1>1, <1>2, <2>1, LiveFacts DEF CoordinatorOK, ClosedRow
<1>4. state \in {"open", "expiring"} /\ (state = "open" => current # c)
  BY <1>3 DEF Live
<1>5. current # c => state # "open"
  BY <1>2 DEF CoordinatorOK
<1> HIDE DEF state
<1>6. /\ row \in CoordinatorRows /\ row.state = state /\ row.generation = coordinator[c].generation
      /\ row.active = coordinator[c].active /\ row.lock = coordinator[c].lock
  BY <1>2, <1>4 DEF CoordinatorRows
<1> HIDE DEF row
<1>7. /\ coordinator' \in [Coordinators -> CoordinatorRows] /\ coordinator'[c] = row
      /\ \A d \in Coordinators \ {c} : coordinator'[d] = coordinator[d]
  BY <1>1, <1>2, <1>6
<1>8. StreamTypeOK'
  BY <1>1, <1>2, <1>7, StreamTypes, StreamTypesNext
<1>9. StreamQuiet
  BY <1>1 DEF StreamQuiet
<1>10. CoordinatorOK(c)'
  BY <1>1, <1>2, <1>4, <1>5, <1>6, <1>7 DEF CoordinatorOK
<1>11. \A g \in Generations : RefreshOK(c, g)'
  <2>1. \A g \in Generations : RefreshOK(c, g)
    BY DEF StreamInv
  <2> QED
    BY <1>1, <1>3, <1>4, <1>6, <1>7, <2>1 DEF RefreshOK, MayEmit, Live
<1>12. ASSUME NEW d \in Coordinators, d # c
       PROVE  CoordinatorOK(d)' /\ \A g \in Generations : RefreshOK(d, g)'
  <2>1. coordinator[d].state = "open" => current' = d
    BY <1>1, <1>2, <1>12 DEF CoordinatorOK
  <2> QED
    BY <1>1, <1>7, <1>9, <1>12, <2>1, RestingRow
<1>13. RegistryOK'
  <2>1. current' # 0 => current' = current /\ current # c /\ current' \in Coordinators
    BY <1>1, <1>2
  <2>2. current' # 0 => coordinator'[current'].state = "open"
    BY <1>2, <1>7, <2>1 DEF RegistryOK
  <2>3. bound' # 0 => bound' = current'
    BY <1>1, <1>2 DEF RegistryOK
  <2> QED
    BY <2>2, <2>3 DEF RegistryOK
<1>14. \A d \in Coordinators : /\ coordinator[d].state # "none" => coordinator'[d].state # "none"
                               /\ coordinator[d].lock # "free" =>
                                    coordinator'[d].lock = coordinator[d].lock
  BY <1>4, <1>6, <1>7
<1>15. CountsOK'
  <2>1. \A d \in Coordinators : coordinator'[d].generation \in Nat
                                /\ coordinator'[d].generation <= coordinator[d].generation
    BY <1>6, <1>7, StreamFacts
  <2>2. Made' = Made
    BY <1>3, <1>4, <1>6, <1>7 DEF Made, Live
  <2> QED
    BY <1>1, <2>1, <2>2, CountsSame
<1> QED
  BY <1>1, <1>8, <1>9, <1>10, <1>11, <1>12, <1>13, <1>14, <1>15, CoordinatorsMove

(* A request that needs a coordinator leaves room for one. *)
LEMMA RoomForACoordinator ==
  ASSUME StreamInv, NEW h \in Handlers, request[h].step \in OpenSteps
  PROVE  NewCoordinatorId \in Coordinators /\ coordinator[NewCoordinatorId].state = "none"
<1> DEFINE free == {c \in Coordinators : coordinator[c].state = "none"}
<1>1. /\ IsFiniteSet(At(OpenSteps)) /\ Cardinality(Made) + Cardinality(At(OpenSteps)) <= sent
      /\ sent \in 0..MaxRequests /\ MaxRequests \in Nat
  BY StreamFacts, StreamAssumption DEF StreamInv, CountsOK
<1>2. Cardinality(At(OpenSteps)) \in Nat /\ Cardinality(At(OpenSteps)) # 0
  <2>1. At(OpenSteps) # {}
    BY DEF At
  <2> QED
    BY <1>1, <2>1, FS_EmptySet, FS_CardinalityType
<1>3. Cardinality(Made) \in Nat
  BY ManyCoordinators, FS_Subset, FS_CardinalityType DEF Made
<1>4. Cardinality(Made) < Cardinality(Coordinators)
  BY <1>1, <1>2, <1>3, ManyCoordinators
<1>5. Made # Coordinators
  BY <1>1, <1>3, <1>4, ManyCoordinators
<1>6. free # {} /\ free \in SUBSET Nat
  BY <1>5, IdsAreNaturals DEF Made
<1>7. NewCoordinatorId = Min(free)
  BY DEF NewCoordinatorId
<1>8. Min(free) \in free
  <2> HIDE DEF free
  <2> QED
    BY <1>6, MinIsLeast
<1> QED
  BY <1>7, <1>8

(* A request that gets a coordinator has room for it. *)
LEMMA CountsOpen ==
  ASSUME StreamInv, NEW h \in Handlers, \A k \in Handlers \ {h} : request'[k] = request[k],
         NEW n \in Coordinators, Made' \subseteq Made \union {n}, sent' = sent,
         \A c \in Coordinators : coordinator'[c].generation \in Nat
                                 /\ coordinator'[c].generation <= coordinator[c].generation,
         request[h].step \in OpenSteps, request'[h].step = "begin"
  PROVE  CountsOK'
<1>1. /\ IsFiniteSet(At(OpenSteps)) /\ IsFiniteSet(At(BeginSteps))
      /\ Cardinality(Made) + Cardinality(At(OpenSteps)) <= sent
      /\ \A c \in Coordinators : coordinator[c].generation + Cardinality(At(BeginSteps)) <= sent
      /\ sent \in Nat
      /\ \A c \in Coordinators : coordinator[c].generation \in Nat
  BY StreamFacts, StreamAssumption DEF StreamInv, CountsOK
<1>2. /\ request'[h].step \notin OpenSteps /\ request[h].step \in BeginSteps
  BY DEF OpenSteps, BeginSteps
<1>3. /\ IsFiniteSet(At(OpenSteps)') /\ Cardinality(At(OpenSteps)) \in Nat
      /\ Cardinality(At(OpenSteps)') \in Nat
      /\ Cardinality(At(OpenSteps)') + 1 = Cardinality(At(OpenSteps))
  BY <1>1, <1>2, CountsMove
<1>4. /\ IsFiniteSet(At(BeginSteps)') /\ Cardinality(At(BeginSteps)) \in Nat
      /\ Cardinality(At(BeginSteps)') \in Nat
      /\ Cardinality(At(BeginSteps)') <= Cardinality(At(BeginSteps))
  BY <1>1, <1>2, CountsMove
<1>5. IsFiniteSet(Made) /\ Cardinality(Made) \in Nat
  BY ManyCoordinators, FS_Subset, FS_CardinalityType DEF Made
<1>6. /\ IsFiniteSet(Made \union {n}) /\ Cardinality(Made \union {n}) \in Nat
      /\ Cardinality(Made \union {n}) <= Cardinality(Made) + 1
  <2>1. /\ IsFiniteSet(Made \union {n})
        /\ Cardinality(Made \union {n}) = IF n \in Made THEN Cardinality(Made) ELSE Cardinality(Made) + 1
    BY <1>5, FS_AddElement
  <2> QED
    BY <1>5, <2>1
<1>7. Cardinality(Made') \in Nat /\ Cardinality(Made') <= Cardinality(Made \union {n})
  BY <1>6, FS_Subset, FS_CardinalityType
<1>8. Cardinality(Made') + Cardinality(At(OpenSteps)') <= sent'
  BY <1>1, <1>3, <1>5, <1>6, <1>7
<1>9. \A c \in Coordinators : coordinator'[c].generation + Cardinality(At(BeginSteps)') <= sent'
  BY <1>1, <1>4
<1> QED
  BY <1>3, <1>4, <1>8, <1>9 DEF CountsOK

LEMMA OpenKeeps ==
  ASSUME StreamInv, NEW h \in Handlers, Open(h)
  PROVE  StreamInv'
<1> DEFINE n == NewCoordinatorId
           x == [request[h] EXCEPT !.coordinator = n, !.step = "begin"]
           a == coordinator[current].active
<1>1. /\ request[h].step = "open" /\ (current # 0 => coordinator[current].lock = "free")
      /\ coordinator' = [Replaced(coordinator) EXCEPT ![n] = Fresh(FALSE)]
      /\ refresh' = IF current = 0 THEN refresh ELSE Summarised(refresh, current, a)
      /\ current' = n /\ bound' = n /\ request' = [request EXCEPT ![h] = x]
      /\ UNCHANGED <<session, accepted, sent, last>>
  BY DEF Open
<1>2. request[h].step \in OpenSteps /\ request[h].step \in BeginSteps
  BY <1>1 DEF OpenSteps, BeginSteps
<1>3. n \in Coordinators /\ coordinator[n].state = "none"
  BY <1>2, RoomForACoordinator
<1> HIDE DEF n
<1>4. /\ StreamTypeOK /\ coordinator \in [Coordinators -> CoordinatorRows]
      /\ refresh \in [Coordinators -> [Generations -> RefreshRows]]
      /\ request \in [Handlers -> RequestRows] /\ request[h] \in RequestRows
      /\ current \in {0} \union Coordinators
      /\ RegistryOK /\ \A d \in Coordinators : CoordinatorOK(d)
  BY StreamFacts DEF StreamInv
<1>5. current # 0 => current # n /\ coordinator[current].state = "open"
  BY <1>3, <1>4 DEF RegistryOK
<1>6. x \in RequestRows /\ x.step = "begin" /\ x.coordinator = n
  BY <1>3, <1>4 DEF RequestRows
<1> HIDE DEF x
<1>7. /\ request' \in [Handlers -> RequestRows] /\ request'[h] = x
      /\ \A k \in Handlers \ {h} : request'[k] = request[k]
  BY <1>1, <1>4, <1>6
<1>8. Fresh(FALSE) \in CoordinatorRows /\ Fresh(FALSE).state = "open" /\ Fresh(FALSE).generation = 0
  BY FreshRows
<1>9. /\ Replaced(coordinator) \in [Coordinators -> CoordinatorRows]
      /\ current # 0 => Replaced(coordinator)[current] = ClosedRow
      /\ \A d \in Coordinators : d # current => Replaced(coordinator)[d] = coordinator[d]
  <2>1. ClosedRow \in CoordinatorRows /\ 0 \notin Coordinators
    BY ClosedIsEmpty, IdsAreNaturals
  <2>2. Closed(coordinator, current) = [coordinator EXCEPT ![current] = ClosedRow]
    BY DEF Closed, ClosedRow
  <2>3. CASE current = 0
    BY <1>4, <2>1, <2>3 DEF Replaced
  <2>4. CASE current # 0
    <3>1. Replaced(coordinator) = [coordinator EXCEPT ![current] = ClosedRow]
      BY <2>2, <2>4 DEF Replaced
    <3> QED
      BY <1>4, <2>1, <2>4, <3>1
  <2> QED
    BY <2>3, <2>4
<1>10. /\ coordinator' \in [Coordinators -> CoordinatorRows] /\ coordinator'[n] = Fresh(FALSE)
       /\ current # 0 => coordinator'[current] = ClosedRow
       /\ \A d \in Coordinators \ {n} : d # current => coordinator'[d] = coordinator[d]
  BY <1>1, <1>3, <1>4, <1>5, <1>8, <1>9
<1>11. /\ refresh' \in [Coordinators -> [Generations -> RefreshRows]]
       /\ current # 0 => refresh'[current] = Summarised(refresh, current, a)[current]
       /\ \A d \in Coordinators : d # current => refresh'[d] = refresh[d]
  <2>1. CASE current = 0
    BY <1>1, <1>4, <2>1
  <2>2. CASE current # 0
    <3>1. current \in Coordinators /\ a \in {0} \union Generations
      BY <1>4, <2>2, LiveFacts
    <3>2. refresh' = Summarised(refresh, current, a)
      BY <1>1, <2>2
    <3> HIDE DEF a
    <3>3. /\ Summarised(refresh, current, a) \in [Coordinators -> [Generations -> RefreshRows]]
          /\ \A d \in Coordinators \ {current} : Summarised(refresh, current, a)[d] = refresh[d]
      BY <1>4, <3>1, SummarisedRows
    <3> QED
      BY <3>2, <3>3
  <2> QED
    BY <2>1, <2>2
<1>12. StreamTypeOK'
  BY <1>1, <1>3, <1>4, <1>7, <1>10, <1>11, StreamTypes, StreamTypesNext
<1>13. StreamQuiet
  <2>1. RequestOK(h)'
    BY <1>3, <1>6, <1>7, <1>8, <1>10 DEF RequestOK
  <2> QED
    BY <1>1, <1>6, <1>7, <2>1 DEF StreamQuiet
<1>14. ASSUME NEW d \in Coordinators
       PROVE  /\ CoordinatorOK(d)' /\ \A g \in Generations : RefreshOK(d, g)'
              /\ \A g \in Generations : refresh'[d][g].step = refresh[d][g].step
  <2>1. CASE d = n
    <3>1. refresh'[d] = refresh[d]
      BY <1>5, <1>11, <2>1, IdsAreNaturals
    <3>2. /\ coordinator'[d] = Fresh(FALSE) /\ current' = d /\ FALSE \in BOOLEAN
          /\ coordinator[d].state = "none"
      BY <1>1, <1>3, <1>10, <2>1
    <3>3. CoordinatorOK(d)' /\ \A g \in Generations : RefreshOK(d, g)'
      BY <3>1, <3>2, FreshRow
    <3>4. \A g \in Generations : refresh'[d][g].step = refresh[d][g].step
      BY <3>1
    <3> QED
      BY <3>3, <3>4
  <2>2. CASE d = current
    <3>1. /\ coordinator[d].state # "none" /\ coordinator'[d] = ClosedRow
          /\ refresh'[d] = Summarised(refresh, d, coordinator[d].active)[d]
      BY <1>5, <1>10, <1>11, <2>2, IdsAreNaturals
    <3> QED
      BY <3>1, ClosingRow
  <2>3. CASE d # n /\ d # current
    <3>1. coordinator[d].state # "open"
      BY <1>4, <2>3 DEF CoordinatorOK
    <3>2. coordinator'[d] = coordinator[d] /\ refresh'[d] = refresh[d]
      BY <1>10, <1>11, <2>3
    <3> QED
      BY <1>13, <3>1, <3>2, RestingRow
  <2> QED
    BY <2>1, <2>2, <2>3
<1>15. RegistryOK'
  BY <1>1, <1>8, <1>10 DEF RegistryOK
<1>16. \A d \in Coordinators : /\ coordinator[d].state # "none" => coordinator'[d].state # "none"
                               /\ coordinator[d].lock # "free" =>
                                    coordinator'[d].lock = coordinator[d].lock
  <2> TAKE d \in Coordinators
  <2>1. CASE d = n
    <3>1. coordinator[n] = NoCoordinator
      BY <1>3, <1>4 DEF CoordinatorOK
    <3> QED
      BY <2>1, <3>1, EmptyRows
  <2>2. CASE d = current
    <3>1. current # 0
      BY <2>2, IdsAreNaturals
    <3>2. coordinator'[d] = ClosedRow /\ coordinator[d].lock = "free"
      BY <1>1, <1>10, <2>2, <3>1
    <3> QED
      BY <3>2, ClosedIsEmpty
  <2>3. CASE d # n /\ d # current
    BY <1>10, <2>3
  <2> QED
    BY <2>1, <2>2, <2>3
<1>17. CountsOK'
  <2>1. \A d \in Coordinators : coordinator[d].generation \in Nat
    BY StreamFacts
  <2>2. \A d \in Coordinators : coordinator'[d].generation \in Nat
                                /\ coordinator'[d].generation <= coordinator[d].generation
    <3> TAKE d \in Coordinators
    <3>1. d = n \/ d = current => coordinator'[d].generation = 0
      <4>1. d = current => current # 0
        BY IdsAreNaturals
      <4> QED
        BY <1>8, <1>10, <4>1, ClosedIsEmpty
    <3>2. d # n /\ d # current => coordinator'[d] = coordinator[d]
      BY <1>10
    <3> QED
      BY <2>1, <3>1, <3>2
  <2>3. Made' \subseteq Made \union {n}
    <3>1. \A d \in Coordinators \ {n} : coordinator[d].state = "none" => coordinator'[d].state = "none"
      BY <1>5, <1>10, IdsAreNaturals
    <3> QED
      BY <3>1 DEF Made
  <2> QED
    BY <1>1, <1>2, <1>3, <1>6, <1>7, <2>2, <2>3, CountsOpen
<1> QED
  BY <1>1, <1>12, <1>13, <1>14, <1>15, <1>16, <1>17, CoordinatorsMove

LEMMA EnsureKeeps ==
  ASSUME StreamInv, NEW h \in Handlers, Ensure(h)
  PROVE  StreamInv'
<1> DEFINE n == IF current # 0 THEN current ELSE NewCoordinatorId
           x == [request[h] EXCEPT !.coordinator = n, !.step = "begin"]
<1>1. /\ request[h].step = "ensure" /\ request' = [request EXCEPT ![h] = x]
      /\ UNCHANGED <<session, accepted, sent, bound, refresh, last>>
      /\ \/ current # 0 /\ UNCHANGED <<current, coordinator>>
         \/ /\ current = 0 /\ current' = n
            /\ coordinator' = [coordinator EXCEPT ![n] = Fresh(TRUE)]
  BY DEF Ensure
<1>2. request[h].step \in OpenSteps /\ request[h].step \in BeginSteps
  BY <1>1 DEF OpenSteps, BeginSteps
<1>3. /\ StreamTypeOK /\ coordinator \in [Coordinators -> CoordinatorRows]
      /\ request \in [Handlers -> RequestRows] /\ request[h] \in RequestRows
      /\ refresh \in [Coordinators -> [Generations -> RefreshRows]]
      /\ current \in {0} \union Coordinators
      /\ session \in Sessions /\ accepted \in Acceptances
      /\ RegistryOK /\ \A d \in Coordinators : CoordinatorOK(d)
  BY StreamFacts DEF StreamInv
<1>4. /\ n \in Coordinators
      /\ current = 0 => coordinator[n].state = "none"
      /\ current # 0 => n = current /\ coordinator[n].state = "open"
  BY <1>2, <1>3, RoomForACoordinator DEF RegistryOK
<1> HIDE DEF n
<1>5. x \in RequestRows /\ x.step = "begin" /\ x.coordinator = n
  BY <1>3, <1>4 DEF RequestRows
<1> HIDE DEF x
<1>6. CASE current # 0 /\ UNCHANGED <<current, coordinator>>
  <2>1. session' \in Sessions /\ accepted' \in Acceptances /\ NoSessionUpdateLost'
    BY <1>1, <1>3 DEF StreamInv, NoSessionUpdateLost
  <2>2. x.step \notin OpenSteps
    BY <1>5 DEF OpenSteps
  <2> QED
    BY <1>1, <1>2, <1>4, <1>5, <1>6, <2>1, <2>2, RequestMoves
<1>7. CASE current = 0 /\ current' = n /\ coordinator' = [coordinator EXCEPT ![n] = Fresh(TRUE)]
  <2>1. /\ request' \in [Handlers -> RequestRows] /\ request'[h] = x
        /\ \A k \in Handlers \ {h} : request'[k] = request[k]
    BY <1>1, <1>3, <1>5
  <2>2. /\ Fresh(TRUE) \in CoordinatorRows /\ Fresh(TRUE).state = "open"
        /\ Fresh(TRUE).generation = 0 /\ Fresh(TRUE).lock = "free"
    BY FreshRows
  <2>3. /\ coordinator' \in [Coordinators -> CoordinatorRows] /\ coordinator'[n] = Fresh(TRUE)
        /\ \A d \in Coordinators \ {n} : coordinator'[d] = coordinator[d]
    BY <1>3, <1>4, <1>7, <2>2
  <2>4. StreamTypeOK'
    BY <1>1, <1>3, <1>4, <1>7, <2>1, <2>3, StreamTypes, StreamTypesNext
  <2>5. StreamQuiet
    <3>1. RequestOK(h)'
      BY <1>4, <1>5, <2>1, <2>2, <2>3 DEF RequestOK
    <3> QED
      BY <1>1, <1>5, <2>1, <3>1 DEF StreamQuiet
  <2>6. ASSUME NEW d \in Coordinators
        PROVE  CoordinatorOK(d)' /\ \A g \in Generations : RefreshOK(d, g)'
    <3>1. CASE d = n
      BY <1>1, <1>4, <1>7, <2>3, <3>1, FreshRow
    <3>2. CASE d # n
      <4>1. coordinator[d].state # "open"
        BY <1>3, <1>7, IdsAreNaturals DEF CoordinatorOK
      <4>2. coordinator'[d] = coordinator[d] /\ refresh'[d] = refresh[d]
        BY <1>1, <2>3, <3>2
      <4> QED
        BY <2>5, <4>1, <4>2, RestingRow
    <3> QED
      BY <3>1, <3>2
  <2>7. RegistryOK'
    BY <1>1, <1>3, <1>7, <2>2, <2>3 DEF RegistryOK
  <2>8. coordinator[n] = NoCoordinator
    BY <1>3, <1>4, <1>7 DEF CoordinatorOK
  <2>9. \A d \in Coordinators : /\ coordinator[d].state # "none" => coordinator'[d].state # "none"
                                /\ coordinator[d].lock # "free" =>
                                     coordinator'[d].lock = coordinator[d].lock
    BY <2>2, <2>3, <2>8, EmptyRows
  <2>10. CountsOK'
    <3>1. \A d \in Coordinators : coordinator[d].generation \in Nat
      BY StreamFacts
    <3>2. \A d \in Coordinators : coordinator'[d].generation \in Nat
                                  /\ coordinator'[d].generation <= coordinator[d].generation
      <4> TAKE d \in Coordinators
      <4>1. CASE d = n
        <5>1. coordinator'[n].generation = 0
          BY <2>2, <2>3
        <5> QED
          BY <3>1, <4>1, <5>1
      <4>2. CASE d # n
        <5>1. coordinator'[d] = coordinator[d]
          BY <2>3, <4>2
        <5> QED
          BY <3>1, <5>1
      <4> QED
        BY <4>1, <4>2
    <3>3. Made' \subseteq Made \union {n}
      BY <2>3 DEF Made
    <3> QED
      BY <1>1, <1>2, <1>4, <1>5, <2>1, <3>2, <3>3, CountsOpen
  <2> QED
    BY <1>1, <2>4, <2>5, <2>6, <2>7, <2>9, <2>10, CoordinatorsMove
<1> QED
  BY <1>1, <1>6, <1>7

-----------------------------------------------------------------------------
(* Dashboard streams: generations run                                      *)

(* The generation g of c goes on, and with it perhaps the request that starts
   it, the active generation of c and the last event. *)
LEMMA RefreshMoves ==
  ASSUME StreamInv, NEW c \in Coordinators, NEW g \in Generations, NEW y \in RefreshRows,
         refresh' = [refresh EXCEPT ![c][g] = y],
         UNCHANGED <<session, accepted, sent, current, bound>>,
         request' \in [Handlers -> RequestRows],
         \A k \in Handlers :
           \/ /\ request'[k] = request[k]
              /\ request[k].step = "start" =>
                   request[k].coordinator # c \/ request[k].generation # g
           \/ /\ request[k].step \notin {"persist", "commit"}
              /\ request'[k].step # "start" /\ RequestOK(k)',
         coordinator' \in [Coordinators -> CoordinatorRows],
         \A d \in Coordinators \ {c} : coordinator'[d] = coordinator[d],
         /\ coordinator'[c].state = coordinator[c].state
         /\ coordinator'[c].lock = coordinator[c].lock
         /\ coordinator'[c].generation = coordinator[c].generation,
         \/ coordinator'[c].active = coordinator[c].active
         \/ coordinator[c].active = g /\ coordinator'[c].active = 0,
         CoordinatorOK(c)', RefreshOK(c, g)', last' \in StreamEvents, LastOK', CountsOK'
  PROVE  StreamInv'
<1>1. /\ StreamTypeOK /\ refresh \in [Coordinators -> [Generations -> RefreshRows]]
      /\ current \in {0} \union Coordinators
  BY StreamFacts
<1>2. refresh' = [refresh EXCEPT ![c] = [refresh[c] EXCEPT ![g] = y]]
  OBVIOUS
<1>3. [refresh[c] EXCEPT ![g] = y] \in [Generations -> RefreshRows]
  BY <1>1
<1>4. /\ refresh' \in [Coordinators -> [Generations -> RefreshRows]] /\ refresh'[c][g] = y
      /\ \A i \in Generations \ {g} : refresh'[c][i] = refresh[c][i]
      /\ \A d \in Coordinators \ {c} : refresh'[d] = refresh[d]
  BY <1>1, <1>2, <1>3
<1>5. StreamTypeOK'
  BY <1>1, <1>4, StreamTypes, StreamTypesNext
<1>6. \A d \in Coordinators : /\ coordinator'[d].state = coordinator[d].state
                              /\ coordinator'[d].lock = coordinator[d].lock
                              /\ coordinator'[d].generation = coordinator[d].generation
  OBVIOUS
<1>7. ASSUME NEW k \in Handlers
      PROVE  RequestOK(k)'
  <2>1. RequestOK(k)
    BY DEF StreamInv
  <2>2. CASE /\ request'[k] = request[k]
             /\ request[k].step = "start" => request[k].coordinator # c \/ request[k].generation # g
    <3>1. request[k].step \in {"persist", "commit"} => coordinator'[request[k].coordinator].lock = k
      BY <1>6, <2>1 DEF RequestOK, CoordinatorSteps
    <3>2. request[k].step = "start" =>
            refresh'[request[k].coordinator][request[k].generation].step = "begun"
      BY <1>4, <2>1, <2>2 DEF RequestOK, CoordinatorSteps
    <3> QED
      BY <1>1, <1>6, <2>1, <2>2, <3>1, <3>2, RequestKept
  <2> QED
    BY <2>2
<1>8. StartsDiffer'
  <2>1. \A k \in Handlers : request'[k].step = "start" => request'[k] = request[k]
    OBVIOUS
  <2> QED
    BY <2>1 DEF StreamInv, StartsDiffer
<1>9. StreamQuiet
  BY DEF StreamQuiet
<1>10. ASSUME NEW d \in Coordinators, d # c
       PROVE  CoordinatorOK(d)' /\ \A i \in Generations : RefreshOK(d, i)'
  <2>1. coordinator[d].state = "open" => current' = d
    BY DEF StreamInv, CoordinatorOK
  <2> QED
    BY <1>4, <1>9, <1>10, <2>1, RestingRow
<1>11. ASSUME NEW i \in Generations, i # g
       PROVE  RefreshOK(c, i)'
  <2>1. RefreshOK(c, i) /\ refresh'[c][i] = refresh[c][i] /\ i # 0
    BY <1>4, <1>11, IdsAreNaturals DEF StreamInv
  <2>2. MayEmit(c, i)' <=> MayEmit(c, i)
    BY <1>6 DEF MayEmit, Live
  <2>3. coordinator'[c].active = i <=> coordinator[c].active = i
    BY <1>11, <2>1
  <2> QED
    BY <1>6, <2>1, <2>2, <2>3 DEF RefreshOK
<1>12. RegistryOK'
  BY <1>1, <1>6 DEF StreamInv, RegistryOK
<1>13. NoSessionUpdateLost'
  BY DEF StreamInv, NoSessionUpdateLost
<1> QED
  BY <1>5, <1>7, <1>8, <1>10, <1>11, <1>12, <1>13 DEF StreamInv

LEMMA EventFacts ==
  ASSUME NEW c \in Coordinators, NEW g \in Generations, NEW t \in {"start", "visual", "complete"}
  PROVE  /\ Event(c, g, t) \in StreamEvents /\ Event(c, g, t).coordinator = c
         /\ Event(c, g, t).generation = g /\ Event(c, g, t).type = t
BY DEF Event, StreamEvents

(* A generation that has begun is one of its coordinator's. *)
LEMMA BegunIsKnown ==
  ASSUME StreamInv, NEW c \in Coordinators, NEW g \in Generations, refresh[c][g].step # "none"
  PROVE  coordinator[c].state = "closed" \/ ~(g > coordinator[c].generation)
BY EmptyRows DEF StreamInv, RefreshOK

LEMMA StartRefreshKeeps ==
  ASSUME StreamInv, NEW h \in Handlers, StartRefresh(h)
  PROVE  StreamInv'
<1> SUFFICES ASSUME NEW c \in Coordinators, c = request[h].coordinator,
                    NEW g \in Generations, g = request[h].generation,
                    request[h].step = "start", refresh[c][g].step = "begun",
                    coordinator[c].state # "none"
             PROVE  StreamInv'
  <2>1. RequestOK(h) /\ request[h].step = "start"
    BY ZenonT(60) DEF StreamInv, StartRefresh
  <2> QED
    BY <2>1 DEF RequestOK, CoordinatorSteps
<1> DEFINE emits == MayEmit(c, g)
           y == [refresh[c][g] EXCEPT !.step = "running", !.started = emits]
           x == IF request[h].kind # "stream" THEN IdleRequest
                ELSE [IdleRequest EXCEPT !.kind = "stream", !.step = "streaming", !.coordinator = c]
<1>1. /\ refresh' = [refresh EXCEPT ![c][g] = y]
      /\ last' = IF emits THEN Event(c, g, "start") ELSE last
      /\ request' = [request EXCEPT ![h] = x]
      /\ UNCHANGED <<session, accepted, sent, current, bound, coordinator>>
  BY Zenon DEF StartRefresh, Answered
<1>2. /\ refresh \in [Coordinators -> [Generations -> RefreshRows]] /\ refresh[c][g] \in RefreshRows
      /\ request \in [Handlers -> RequestRows]
      /\ coordinator \in [Coordinators -> CoordinatorRows]
      /\ last \in StreamEvents /\ last.coordinator \in {0} \union Coordinators
      /\ CoordinatorOK(c) /\ RefreshOK(c, g) /\ LastOK /\ StartsDiffer
  BY StreamFacts DEF StreamInv
<1>3. emits \in BOOLEAN
  BY DEF MayEmit, Live
<1>4. /\ x \in RequestRows /\ x.step \in {"idle", "streaming"}
      /\ x.step = "streaming" => x.coordinator = c
  <2>1. "stream" \in RequestKinds
    BY DEF RequestKinds
  <2> QED
    BY <2>1, EmptyRows DEF RequestRows
<1>5. y \in RefreshRows /\ y.step = "running" /\ y.started = emits /\ y.summaries = refresh[c][g].summaries
  <2> HIDE DEF emits
  <2> QED
    BY <1>2, <1>3 DEF RefreshRows
<1> HIDE DEF x, y
<1>6. /\ request' \in [Handlers -> RequestRows] /\ request'[h] = x
      /\ \A k \in Handlers \ {h} : request'[k] = request[k]
  BY <1>1, <1>2, <1>4
<1>7. /\ refresh'[c][g] = y /\ \A i \in Generations \ {g} : refresh'[c][i] = refresh[c][i]
      /\ \A d \in Coordinators \ {c} : refresh'[d] = refresh[d]
  BY <1>1, <1>2
<1>8. \A k \in Handlers :
        \/ /\ request'[k] = request[k]
           /\ request[k].step = "start" => request[k].coordinator # c \/ request[k].generation # g
        \/ /\ request[k].step \notin {"persist", "commit"}
           /\ request'[k].step # "start" /\ RequestOK(k)'
  <2>1. RequestOK(h)'
    BY <1>1, <1>4, <1>6 DEF RequestOK, CoordinatorSteps
  <2>2. \A k \in Handlers \ {h} :
          request[k].step = "start" => request[k].coordinator # c \/ request[k].generation # g
    BY <1>2, SMTT(60) DEF StartsDiffer
  <2> QED
    BY <1>4, <1>6, <2>1, <2>2
<1>9. CoordinatorOK(c)'
  <2>1. coordinator[c].active # 0 =>
          refresh'[c][coordinator[c].active].step \in {"begun", "running", "complete"}
    <3>1. coordinator[c].active # 0 =>
            /\ coordinator[c].active \in Generations
            /\ refresh[c][coordinator[c].active].step \in {"begun", "running", "complete"}
      BY <1>2, LiveFacts, ZenonT(60) DEF CoordinatorOK
    <3>2. \A i \in Generations :
            refresh[c][i].step \in {"begun", "running", "complete"} =>
              refresh'[c][i].step \in {"begun", "running", "complete"}
      BY <1>5, <1>7, ZenonT(60)
    <3> QED
      BY <3>1, <3>2, ZenonT(60)
  <2>2. coordinator[c].lock # "free" =>
          /\ request'[coordinator[c].lock].step \in {"persist", "commit"}
          /\ request'[coordinator[c].lock].coordinator = c
    <3>1. coordinator[c].lock \in {"free"} \union Handlers
      BY StreamFacts
    <3> QED
      BY <1>2, <1>6, <3>1, ZenonT(60) DEF CoordinatorOK
  <2> QED
    BY <1>1, <1>2, <2>1, <2>2, CoordinatorKept, ZenonT(60) DEF CoordinatorOK
<1>10. RefreshOK(c, g)'
  <2>1. coordinator[c].state = "closed" \/ ~(g > coordinator[c].generation)
    BY BegunIsKnown
  <2>2. MayEmit(c, g)' <=> MayEmit(c, g)
    BY <1>1 DEF MayEmit, Live
  <2>3. ~(coordinator'[c].state # "closed" /\ g > coordinator'[c].generation)
    BY <1>1, <2>1
  <2> QED
    BY <1>1, <1>2, <1>5, <1>7, <2>2, <2>3 DEF RefreshOK
<1>11. last' \in StreamEvents
  BY <1>1, <1>2, EventFacts
<1>12. LastOK'
  <2>1. CASE last' = Event(c, g, "start")
    <3>1. last'.coordinator = c /\ last'.generation = g /\ last'.type = "start"
      BY <2>1 DEF Event
    <3>2. refresh'[c][g].step = "running"
      BY <1>5, <1>7
    <3>3. "start" # "complete"
      OBVIOUS
    <3> QED
      BY <3>1, <3>2, <3>3, ZenonT(60) DEF LastOK
  <2>2. CASE last' = last
    <3>1. \A d \in Coordinators, i \in Generations :
            <<d, i>> # <<c, g>> => refresh'[d][i] = refresh[d][i]
      BY <1>7
    <3>2. last.coordinator # 0 => <<last.coordinator, last.generation>> # <<c, g>>
      BY <1>2 DEF LastOK
    <3> QED
      BY <1>2, <2>2, <3>1, <3>2 DEF LastOK
  <2> QED
    BY <1>1, <2>1, <2>2, SMTT(60)
<1>13. CountsOK'
  <2>1. \A d \in Coordinators : coordinator'[d].generation \in Nat
                                /\ coordinator'[d].generation <= coordinator[d].generation
    BY <1>1, StreamFacts
  <2>2. Made' \subseteq Made
    BY <1>1 DEF Made
  <2>3. request'[h].step \notin OpenSteps /\ request'[h].step \notin BeginSteps
    BY <1>4, <1>6 DEF OpenSteps, BeginSteps
  <2> QED
    BY <1>1, <1>6, <2>1, <2>2, <2>3, CountsKept
<1> QED
  BY <1>1, <1>2, <1>5, <1>6, <1>8, <1>9, <1>10, <1>11, <1>12, <1>13, RefreshMoves, ZenonT(60)

(* A generation that has started has no request that waits to start it. *)
LEMMA NobodyStarts ==
  ASSUME StreamInv, NEW c \in Coordinators, NEW g \in Generations,
         refresh[c][g].step # "begun", UNCHANGED request
  PROVE  /\ request' \in [Handlers -> RequestRows]
         /\ \A k \in Handlers :
              /\ request'[k] = request[k]
              /\ request[k].step = "start" => request[k].coordinator # c \/ request[k].generation # g
<1>1. \A k \in Handlers : RequestOK(k)
  BY DEF StreamInv
<1> QED
  BY <1>1, StreamFacts DEF RequestOK

LEMMA DeliverKeeps ==
  ASSUME StreamInv, NEW c \in Coordinators, NEW g \in Generations, Deliver(c, g)
  PROVE  StreamInv'
<1>1. /\ refresh[c][g].step = "running" /\ last' = Event(c, g, "visual")
      /\ UNCHANGED <<session, accepted, sent, request, current, bound, coordinator, refresh>>
  BY DEF Deliver
<1>2. /\ StreamTypeOK /\ coordinator \in [Coordinators -> CoordinatorRows]
  BY StreamFacts
<1>3. last' \in StreamEvents /\ LastOK'
  BY <1>1, EventFacts DEF LastOK
<1>4. StreamTypeOK'
  BY <1>1, <1>2, <1>3, StreamTypes, StreamTypesNext
<1>5. StreamQuiet
  BY <1>1 DEF StreamQuiet
<1>6. ASSUME NEW d \in Coordinators
      PROVE  CoordinatorOK(d)' /\ \A i \in Generations : RefreshOK(d, i)'
  <2>1. coordinator[d].state = "open" => current' = d
    BY <1>1 DEF StreamInv, CoordinatorOK
  <2> QED
    BY <1>1, <1>5, <2>1, RestingRow
<1>7. ASSUME NEW k \in Handlers
      PROVE  RequestOK(k)'
  <2>1. RequestOK(k)
    BY DEF StreamInv
  <2> QED
    BY <1>1, <2>1 DEF RequestOK
<1>8. StartsDiffer' /\ RegistryOK' /\ NoSessionUpdateLost'
  BY <1>1 DEF StreamInv, StartsDiffer, RegistryOK, NoSessionUpdateLost
<1>9. CountsOK'
  <2>1. Made' = Made
    BY <1>1 DEF Made
  <2>2. \A d \in Coordinators : coordinator'[d].generation \in Nat
                                /\ coordinator'[d].generation <= coordinator[d].generation
    BY <1>1, StreamFacts
  <2> QED
    BY <1>1, <2>1, <2>2, CountsSame
<1> QED
  BY <1>3, <1>4, <1>6, <1>7, <1>8, <1>9 DEF StreamInv

(* The row of a generation that is over. *)
LEMMA EndedRow ==
  ASSUME NEW n \in Nat
  PROVE  /\ [NoRefresh EXCEPT !.step = "ended", !.summaries = n] \in RefreshRows
         /\ [NoRefresh EXCEPT !.step = "ended", !.summaries = n].step = "ended"
         /\ [NoRefresh EXCEPT !.step = "ended", !.summaries = n].summaries = n
BY EmptyRows DEF RefreshRows

LEMMA CompleteKeeps ==
  ASSUME StreamInv, NEW c \in Coordinators, NEW g \in Generations, Complete(c, g)
  PROVE  StreamInv'
<1> DEFINE emits == MayEmit(c, g)
           y == IF emits THEN [refresh[c][g] EXCEPT !.step = "complete"]
                ELSE [NoRefresh EXCEPT !.step = "ended", !.summaries = refresh[c][g].summaries]
<1>1. /\ refresh[c][g].step = "running"
      /\ refresh' = [refresh EXCEPT ![c][g] = y]
      /\ last' = IF emits THEN Event(c, g, "complete") ELSE last
      /\ UNCHANGED <<session, accepted, sent, request, current, bound, coordinator>>
  BY DEF Complete, Ended
<1>2. /\ refresh \in [Coordinators -> [Generations -> RefreshRows]] /\ refresh[c][g] \in RefreshRows
      /\ coordinator \in [Coordinators -> CoordinatorRows]
      /\ last \in StreamEvents /\ last.coordinator \in {0} \union Coordinators
      /\ CoordinatorOK(c) /\ RefreshOK(c, g) /\ LastOK
  BY StreamFacts DEF StreamInv
<1>3. /\ y \in RefreshRows /\ y.step = IF emits THEN "complete" ELSE "ended"
      /\ y.summaries = refresh[c][g].summaries
  <2>1. CASE emits
    BY <1>2, <2>1 DEF RefreshRows
  <2>2. CASE ~emits
    <3>1. refresh[c][g].summaries \in Nat
      BY <1>2 DEF RefreshRows
    <3> QED
      BY <2>2, <3>1, EndedRow, Zenon
  <2> QED
    BY <2>1, <2>2
<1> HIDE DEF y
<1>4. /\ refresh'[c][g] = y /\ \A i \in Generations \ {g} : refresh'[c][i] = refresh[c][i]
      /\ \A d \in Coordinators \ {c} : refresh'[d] = refresh[d]
  BY <1>1, <1>2
<1>5. /\ request' \in [Handlers -> RequestRows]
      /\ \A k \in Handlers :
           /\ request'[k] = request[k]
           /\ request[k].step = "start" => request[k].coordinator # c \/ request[k].generation # g
  BY <1>1, NobodyStarts
<1>6. CoordinatorOK(c)'
  <2>1. coordinator[c].active = g => emits
    BY LiveFacts, IdsAreNaturals
  <2>2. coordinator[c].active # 0 =>
          refresh'[c][coordinator[c].active].step \in {"begun", "running", "complete"}
    BY <1>2, <1>3, <1>4, <2>1, LiveFacts DEF CoordinatorOK
  <2>3. coordinator[c].lock # "free" =>
          /\ request'[coordinator[c].lock].step \in {"persist", "commit"}
          /\ request'[coordinator[c].lock].coordinator = c
    BY <1>1, <1>2 DEF CoordinatorOK
  <2> QED
    BY <1>1, <1>2, <2>2, <2>3, CoordinatorKept DEF CoordinatorOK
<1>7. RefreshOK(c, g)'
  <2>1. coordinator[c].state = "closed" \/ ~(g > coordinator[c].generation)
    BY <1>1, BegunIsKnown
  <2>2. ~(coordinator'[c].state # "closed" /\ g > coordinator'[c].generation)
    BY <1>1, <2>1
  <2>3. refresh'[c][g].step \notin {"none", "running"}
    BY <1>3, <1>4
  <2> QED
    BY <1>1, <1>2, <1>3, <1>4, <2>2, <2>3 DEF RefreshOK
<1>8. last' \in StreamEvents
  BY <1>1, <1>2, EventFacts
<1>9. LastOK'
  <2>1. CASE emits
    BY <1>1, <1>3, <1>4, <2>1, EventFacts DEF LastOK
  <2>2. CASE ~emits
    <3>1. \A d \in Coordinators, i \in Generations :
            refresh'[d][i].step = refresh[d][i].step \/ refresh'[d][i].step = "ended"
      BY <1>3, <1>4, <2>2
    <3> QED
      BY <1>1, <1>2, <2>2, <3>1, LastKept
  <2> QED
    BY <2>1, <2>2
<1>10. CountsOK'
  <2>1. Made' = Made
    BY <1>1 DEF Made
  <2>2. \A d \in Coordinators : coordinator'[d].generation \in Nat
                                /\ coordinator'[d].generation <= coordinator[d].generation
    BY <1>1, StreamFacts
  <2> QED
    BY <1>1, <2>1, <2>2, CountsSame
<1> QED
  BY <1>1, <1>2, <1>3, <1>5, <1>6, <1>7, <1>8, <1>9, <1>10, RefreshMoves

LEMMA FinishRefreshKeeps ==
  ASSUME StreamInv, NEW c \in Coordinators, NEW g \in Generations, FinishRefresh(c, g)
  PROVE  StreamInv'
<1> DEFINE mine == coordinator[c].active = g
           n == refresh[c][g].summaries + (IF mine THEN 1 ELSE 0)
           y == [NoRefresh EXCEPT !.step = "ended", !.summaries = n]
<1>1. /\ refresh[c][g].step = "complete"
      /\ coordinator' = IF mine THEN [coordinator EXCEPT ![c].active = 0] ELSE coordinator
      /\ UNCHANGED <<session, accepted, sent, request, current, bound, last>>
  BY DEF FinishRefresh
<1>2. /\ refresh \in [Coordinators -> [Generations -> RefreshRows]] /\ refresh[c][g] \in RefreshRows
      /\ coordinator \in [Coordinators -> CoordinatorRows] /\ coordinator[c] \in CoordinatorRows
      /\ last \in StreamEvents /\ last.coordinator \in {0} \union Coordinators
      /\ CoordinatorOK(c) /\ RefreshOK(c, g) /\ LastOK /\ g # 0
  BY StreamFacts, IdsAreNaturals DEF StreamInv
<1>3. refresh' = [refresh EXCEPT ![c][g] = y]
  <2>1. refresh' = Ended(Summarised(refresh, c, IF mine THEN g ELSE 0), c, g)
    BY DEF FinishRefresh
  <2>2. CASE mine
    <3>1. Summarised(refresh, c, g) = [refresh EXCEPT ![c][g].summaries = refresh[c][g].summaries + 1]
      BY <1>2 DEF Summarised
    <3>2. Summarised(refresh, c, g)[c][g].summaries = refresh[c][g].summaries + 1
      <4>1. g \in {0} \union Generations
        OBVIOUS
      <4> QED
        BY <1>2, <4>1, SummarisedRows
    <3>3. refresh' = [Summarised(refresh, c, g) EXCEPT ![c][g] =
                        [NoRefresh EXCEPT !.step = "ended",
                           !.summaries = Summarised(refresh, c, g)[c][g].summaries]]
      BY <2>1, <2>2 DEF Ended
    <3>4. refresh' = [Summarised(refresh, c, g) EXCEPT ![c][g] = y]
      BY <2>2, <3>2, <3>3
    <3> HIDE DEF y
    <3> QED
      BY <1>2, <3>1, <3>4
  <2>3. CASE ~mine
    <3>1. n = refresh[c][g].summaries
      BY <1>2, <2>3 DEF RefreshRows
    <3>2. Summarised(refresh, c, 0) = refresh
      BY DEF Summarised
    <3> QED
      BY <2>1, <2>3, <3>1, <3>2 DEF Ended
  <2> QED
    BY <2>2, <2>3
<1>4. n \in Nat
  BY <1>2 DEF RefreshRows
<1>5. y \in RefreshRows /\ y.step = "ended" /\ y.summaries = n
  <2> HIDE DEF n
  <2> QED
    BY <1>4, EndedRow, Zenon
<1> HIDE DEF y
<1>6. /\ refresh'[c][g] = y /\ \A i \in Generations \ {g} : refresh'[c][i] = refresh[c][i]
      /\ \A d \in Coordinators \ {c} : refresh'[d] = refresh[d]
  BY <1>2, <1>3
<1>7. /\ request' \in [Handlers -> RequestRows]
      /\ \A k \in Handlers :
           /\ request'[k] = request[k]
           /\ request[k].step = "start" => request[k].coordinator # c \/ request[k].generation # g
  BY <1>1, NobodyStarts
<1>8. /\ coordinator' \in [Coordinators -> CoordinatorRows]
      /\ \A d \in Coordinators \ {c} : coordinator'[d] = coordinator[d]
      /\ coordinator'[c].state = coordinator[c].state /\ coordinator'[c].lock = coordinator[c].lock
      /\ coordinator'[c].generation = coordinator[c].generation
      /\ coordinator'[c].active = IF mine THEN 0 ELSE coordinator[c].active
  <2> DEFINE row == [coordinator[c] EXCEPT !.active = 0]
  <2>1. /\ row \in CoordinatorRows /\ row.state = coordinator[c].state /\ row.lock = coordinator[c].lock
        /\ row.generation = coordinator[c].generation /\ row.active = 0
    BY <1>2, EmptyRows DEF CoordinatorRows
  <2>2. coordinator' = IF mine THEN [coordinator EXCEPT ![c] = row] ELSE coordinator
    BY <1>1
  <2> HIDE DEF row
  <2> QED
    BY <1>2, <2>1, <2>2
<1>9. CoordinatorOK(c)'
  <2>1. CASE mine
    <3>1. Live(c)
      BY <1>2, <2>1, LiveFacts
    <3>2. coordinator'[c].active = 0 /\ coordinator'[c].state \notin {"none", "closed"}
      BY <1>8, <2>1, <3>1, LiveFacts
    <3> QED
      BY <1>1, <1>2, <1>8, <3>2 DEF CoordinatorOK
  <2>2. CASE ~mine
    <3>1. coordinator'[c] = coordinator[c]
      BY <1>1, <2>2
    <3>2. coordinator[c].active # 0 =>
            refresh'[c][coordinator[c].active].step \in {"begun", "running", "complete"}
      BY <1>2, <1>6, <2>2, LiveFacts DEF CoordinatorOK
    <3>3. coordinator[c].lock # "free" =>
            /\ request'[coordinator[c].lock].step \in {"persist", "commit"}
            /\ request'[coordinator[c].lock].coordinator = c
      BY <1>1, <1>2 DEF CoordinatorOK
    <3> QED
      BY <1>1, <1>2, <3>1, <3>2, <3>3, CoordinatorKept DEF CoordinatorOK
  <2> QED
    BY <2>1, <2>2
<1>10. RefreshOK(c, g)'
  <2>1. coordinator[c].state = "closed" \/ ~(g > coordinator[c].generation)
    BY <1>1, BegunIsKnown
  <2>2. ~(coordinator'[c].state # "closed" /\ g > coordinator'[c].generation)
    BY <1>8, <2>1
  <2>3. refresh[c][g].summaries = IF mine THEN 0 ELSE 1
    BY <1>1, <1>2 DEF RefreshOK
  <2>4. n = 1
    BY <2>3
  <2>5. coordinator'[c].active # g
    BY <1>2, <1>8
  <2> HIDE DEF n
  <2> QED
    BY <1>5, <1>6, <2>2, <2>4, <2>5 DEF RefreshOK
<1>11. LastOK'
  <2>1. \A d \in Coordinators, i \in Generations :
          refresh'[d][i].step = refresh[d][i].step \/ refresh'[d][i].step = "ended"
    BY <1>5, <1>6
  <2> QED
    BY <1>1, <1>2, <2>1, LastKept
<1>12. CountsOK'
  <2>1. Made' = Made
    BY <1>8 DEF Made
  <2>2. \A d \in Coordinators : coordinator'[d].generation \in Nat
                                /\ coordinator'[d].generation <= coordinator[d].generation
    BY <1>8, StreamFacts
  <2> QED
    BY <1>1, <2>1, <2>2, CountsSame
<1> QED
  BY <1>1, <1>2, <1>3, <1>5, <1>7, <1>8, <1>9, <1>10, <1>11, <1>12, RefreshMoves

-----------------------------------------------------------------------------
(* Dashboard streams: the theorems                                         *)

LEMMA StreamInitInv == StreamInit => StreamInv
<1> SUFFICES ASSUME StreamInit PROVE StreamInv
  OBVIOUS
<1>1. /\ session = [version |-> 1, revision |-> 1, selection |-> 0]
      /\ accepted = [filters |-> 0, selection |-> 0]
      /\ sent = 0 /\ current = 0 /\ bound = 0 /\ last = NoEvent
      /\ \A h \in Handlers : request[h] = IdleRequest
      /\ \A c \in Coordinators : coordinator[c] = NoCoordinator
      /\ \A c \in Coordinators, g \in Generations : refresh[c][g] = NoRefresh
  BY DEF StreamInit
<1>2. 0 \in 0..MaxRequests
  BY StreamAssumption
<1>3. session \in Sessions /\ accepted \in Acceptances
  BY <1>1, <1>2 DEF Sessions, Acceptances
<1>4. /\ request \in [Handlers -> RequestRows] /\ coordinator \in [Coordinators -> CoordinatorRows]
      /\ refresh \in [Coordinators -> [Generations -> RefreshRows]]
  BY EmptyRows DEF StreamInit
<1>5. StreamTypeOK
  BY <1>1, <1>2, <1>3, <1>4, EmptyRows, StreamTypes
<1>6. \A h \in Handlers : RequestOK(h)
  BY <1>1, EmptyRows DEF RequestOK, CoordinatorSteps
<1>7. StartsDiffer
  BY <1>1, EmptyRows DEF StartsDiffer
<1>8. \A c \in Coordinators : CoordinatorOK(c)
  BY <1>1, EmptyRows DEF CoordinatorOK
<1>9. \A c \in Coordinators, g \in Generations : RefreshOK(c, g)
  BY <1>1, EmptyRows DEF RefreshOK
<1>10. RegistryOK /\ LastOK
  BY <1>1, EmptyRows DEF RegistryOK, LastOK
<1>11. CountsOK
  <2>1. At(OpenSteps) = {} /\ At(BeginSteps) = {}
    BY <1>1, EmptyRows DEF At, OpenSteps, BeginSteps
  <2>2. Made = {}
    BY <1>1, EmptyRows DEF Made
  <2> QED
    BY <1>1, <2>1, <2>2, EmptyRows, FS_EmptySet DEF CountsOK
<1>12. NoSessionUpdateLost
  BY <1>1 DEF NoSessionUpdateLost
<1> QED
  BY <1>5, <1>6, <1>7, <1>8, <1>9, <1>10, <1>11, <1>12 DEF StreamInv

LEMMA StreamNextInv == StreamInv /\ [StreamNext]_streamVars => StreamInv'
<1> SUFFICES ASSUME StreamInv, [StreamNext]_streamVars PROVE StreamInv'
  OBVIOUS
<1>1. CASE UNCHANGED streamVars
  <2>1. UNCHANGED <<session, accepted, sent, request, current, bound, coordinator, refresh, last>>
    BY <1>1 DEF streamVars
  <2>2. \A h \in Handlers : RequestOK(h)'
    BY <2>1 DEF StreamInv, RequestOK
  <2>3. \A c \in Coordinators : CoordinatorOK(c)'
    BY <2>1 DEF StreamInv, CoordinatorOK
  <2>4. \A c \in Coordinators, g \in Generations : RefreshOK(c, g)'
    BY <2>1 DEF StreamInv, RefreshOK, MayEmit, Live
  <2>5. StreamTypeOK'
    BY <2>1, StreamTypes, StreamTypesNext DEF StreamInv
  <2>6. CountsOK'
    BY <2>1 DEF StreamInv, CountsOK, At, Made
  <2> QED
    BY <2>1, <2>2, <2>3, <2>4, <2>5, <2>6
       DEF StreamInv, StartsDiffer, RegistryOK, LastOK, NoSessionUpdateLost
<1>2. CASE \E h \in Handlers : RequestStep(h)
  <2>1. PICK h \in Handlers : RequestStep(h)
    BY <1>2
  <2> QED
    BY <2>1, LoadKeeps, SwapKeeps, ReloadKeeps, OpenKeeps, EnsureKeeps, BeginKeeps, BeginSelectKeeps,
       PersistKeeps, CommitKeeps, BeginInvalidKeeps, StartRefreshKeeps DEF RequestStep
<1>3. CASE \E h \in Handlers : \/ Disconnect(h)
                               \/ \E kind \in RequestKinds, n \in 0..MaxSequence : Send(h, kind, n)
  BY <1>3, DisconnectKeeps, SendKeeps
<1>4. CASE \E c \in Coordinators : \/ Expire(c) \/ CloseExpired(c)
                                   \/ \E g \in Generations : Deliver(c, g) \/ RefreshStep(c, g)
  BY <1>4, ExpireKeeps, CloseExpiredKeeps, DeliverKeeps, CompleteKeeps, FinishRefreshKeeps DEF RefreshStep
<1> QED
  BY <1>1, <1>2, <1>3, <1>4 DEF StreamNext

(* The inductive invariant of dashboard streams. *)
THEOREM StreamInvariance == StreamSpec => []StreamInv
BY StreamInitInv, StreamNextInv, PTL DEF StreamSpec

(* No accepted filter command or selection is overwritten by another request
   (session/store.go: CompareAndSwap and its callers). *)
THEOREM SessionsKeepUpdates == StreamSpec => []NoSessionUpdateLost
<1>1. StreamInv => NoSessionUpdateLost
  BY DEF StreamInv
<1> QED
  BY <1>1, StreamInvariance, PTL

LEMMA StreamInvConsistent == StreamInv => StreamConsistent
BY DEF StreamInv, StreamConsistent, OneOpenCoordinator, SummarisedOnce, CoordinatorOK, RefreshOK

(* One coordinator is open, and every generation is summarised once
   (stream/registry.go: Open, Ensure; stream/coordinator.go: summaryLocked). *)
THEOREM StreamsStayConsistent == StreamSpec => []StreamConsistent
BY StreamInvConsistent, StreamInvariance, PTL

(* The events of a stream come in the order of its generations
   (stream/coordinator.go: emitCurrent). *)
THEOREM EventsStayInOrder == StreamSpec => EventsInOrder
<1> DEFINE c == last'.coordinator
           A == last' # last =>
                  /\ c = current \/ coordinator[c].state = "expiring"
                  /\ last.coordinator = c =>
                       /\ last.generation <= last'.generation
                       /\ last'.generation = last.generation =>
                            last.type # "complete" /\ last'.type # "start"
                  /\ last'.type # "start" => refresh[c][last'.generation].started
<1>1. StreamInv /\ [StreamNext]_streamVars => [A]_last
  <2> SUFFICES ASSUME StreamInv, [StreamNext]_streamVars, last' # last PROVE A
    OBVIOUS
  <2>1. ASSUME NEW d \in Coordinators, NEW g \in Generations, MayEmit(d, g),
               \/ last' = Event(d, g, "start") /\ refresh[d][g].step = "begun"
               \/ last' = Event(d, g, "visual") /\ refresh[d][g].step = "running"
               \/ last' = Event(d, g, "complete") /\ refresh[d][g].step = "running"
        PROVE  A
    <3>1. /\ last'.coordinator = d /\ last'.generation = g
          /\ last'.type = "start" => refresh[d][g].step = "begun"
          /\ last'.type # "start" => refresh[d][g].step = "running"
      BY <2>1, EventFacts
    <3>2. /\ CoordinatorOK(d) /\ RefreshOK(d, g) /\ LastOK
          /\ coordinator[d].generation = g /\ coordinator[d].state \in {"open", "expiring"}
      BY <2>1 DEF StreamInv, MayEmit, Live
    <3>3. d = current \/ coordinator[d].state = "expiring"
      BY <3>2 DEF CoordinatorOK
    <3>4. last'.type # "start" => refresh[d][g].started
      <4>1. refresh[d][g].started \in BOOLEAN
        BY StreamFacts DEF RefreshRows
      <4> QED
        BY <2>1, <3>1, <3>2, <4>1 DEF RefreshOK
    <3>5. ASSUME last.coordinator = d
          PROVE  /\ last.generation <= g
                 /\ g = last.generation => last.type # "complete" /\ last'.type # "start"
      <4>1. /\ last.generation \in Generations
            /\ refresh[d][last.generation].step \in {"running", "complete", "ended"}
            /\ last.type = "complete" => refresh[d][last.generation].step \in {"complete", "ended"}
        BY <3>2, <3>5, IdsAreNaturals DEF LastOK
      <4>2. ~(last.generation > g)
        BY <3>2, <4>1, BegunIsKnown, SMTT(60)
      <4> QED
        BY <3>1, <4>1, <4>2, IdsAreNaturals
    <3> QED
      BY <3>1, <3>3, <3>4, <3>5
  <2>2. CASE \E h \in Handlers : StartRefresh(h)
    <3>1. PICK h \in Handlers : StartRefresh(h)
      BY <2>2, SMTT(60)
    <3>2. RequestOK(h) /\ request[h].step = "start"
      BY <3>1 DEF StreamInv, StartRefresh
    <3>3. /\ request[h].coordinator \in Coordinators /\ request[h].generation \in Generations
          /\ refresh[request[h].coordinator][request[h].generation].step = "begun"
      BY <3>2, SMTT(60) DEF RequestOK, CoordinatorSteps
    <3>4. /\ MayEmit(request[h].coordinator, request[h].generation)
          /\ last' = Event(request[h].coordinator, request[h].generation, "start")
      BY <3>1 DEF StartRefresh
    <3> QED
      BY <2>1, <3>3, <3>4
  <2>3. CASE \E d \in Coordinators, g \in Generations : Deliver(d, g) \/ Complete(d, g)
    <3>1. PICK d \in Coordinators, g \in Generations : Deliver(d, g) \/ Complete(d, g)
      BY <2>3
    <3>2. /\ MayEmit(d, g) /\ refresh[d][g].step = "running"
          /\ last' = Event(d, g, "visual") \/ last' = Event(d, g, "complete")
      BY <3>1 DEF Deliver, Complete
    <3> QED
      BY <2>1, <3>2
  <2>4. CASE \E h \in Handlers : \/ Disconnect(h)
                                 \/ \E kind \in RequestKinds, n \in 0..MaxSequence : Send(h, kind, n)
    BY <2>4, ZenonT(60) DEF Disconnect, Send
  <2>5. CASE \E h \in Handlers : RequestStep(h) /\ ~StartRefresh(h)
    <3>1. PICK h \in Handlers : RequestStep(h) /\ ~StartRefresh(h)
      BY <2>5
    <3>2. last' = last
      BY <3>1 DEF RequestStep, Load, Swap, Reload, Open, Ensure, Begin, BeginSelect, Persist, Commit, BeginInvalid
    <3> QED
      BY <3>2
  <2>6. CASE \E d \in Coordinators : \/ Expire(d) \/ CloseExpired(d)
                                     \/ \E g \in Generations : FinishRefresh(d, g)
    BY <2>6 DEF Expire, CloseExpired, FinishRefresh
  <2>7. CASE UNCHANGED streamVars
    BY <2>7 DEF streamVars
  <2> QED
    BY <2>2, <2>3, <2>4, <2>5, <2>6, <2>7 DEF StreamNext, RefreshStep
<1> QED
  BY <1>1, StreamInvariance, PTL DEF StreamSpec, EventsInOrder
=============================================================================
