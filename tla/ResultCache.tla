---------------------------- MODULE ResultCache -----------------------------
(***************************************************************************)
(* The node-wide cache of query results: scopes with generations, one LRU  *)
(* list under three nested limits, reference-counted results, and flights  *)
(* that let concurrent queries share one execution                         *)
(* (internal/analytics/resultcache/pool.go, arrowresult/result.go, and     *)
(* their use in materialize/query_cache.go and materialize/runtime.go).    *)
(*                                                                         *)
(* A query reads the generation of its scope, looks its key up, and on a   *)
(* miss joins or opens the flight for that generation and key.  A refresh  *)
(* of the scope's data changes the tables first and then invalidates the   *)
(* scope.  A result remembers the version of the data it was computed on.  *)
(***************************************************************************)
EXTENDS Integers, Sequences, FiniteSets, FiniteSetsExt

CONSTANTS Queries, CacheScopes, CacheWorkspaces, Keys,
          Asks,               \* which query may ask for which key of which scope
          FlightIds, ResultIds,   \* identities for flights and results
          WorkspaceOfScope,   \* ScopeID.WorkspaceID of a scope
          SizeOfKey,          \* bytes of the result of a key
          RuntimeLimit, WorkspaceLimit, NodeLimit,   \* Limits: [entries, bytes]
          MaxData,            \* bound on the refreshes of a scope's data
          MaxIncarnations     \* bound on how often a scope identity is opened

ASSUME CacheAssumption ==
  /\ WorkspaceOfScope \in [CacheScopes -> CacheWorkspaces] /\ CacheScopes \cap CacheWorkspaces = {}
  /\ Asks \subseteq Queries \X CacheScopes \X Keys
  /\ FlightIds \subseteq Nat \ {0} /\ ResultIds \subseteq Nat \ {0}
  /\ SizeOfKey \in [Keys -> Nat \ {0}]
  /\ {RuntimeLimit, WorkspaceLimit, NodeLimit} \subseteq [entries : Nat, bytes : Nat]
  /\ \A f \in {"entries", "bytes"} :
       0 < RuntimeLimit[f] /\ RuntimeLimit[f] <= WorkspaceLimit[f] /\ WorkspaceLimit[f] <= NodeLimit[f]

VARIABLES
  scope,      \* scopeState by identity, and how often it was opened
  data,       \* version of the tables behind each scope
  cleared,    \* version of the tables when the scope was last invalidated or opened
  closed,     \* Pool.closed
  lru,        \* Pool.lru, most recent first
  usage,      \* the counters of every scope, every workspace and the node
  result,     \* arrowresult.Result by identity: references and data version
  flight,     \* arrowFlight by identity
  query       \* what each query does

cacheVars == <<scope, data, cleared, closed, lru, usage, result, flight, query>>


Levels == CacheScopes \union CacheWorkspaces \union {"node"}
LevelsOf(s) == {s, WorkspaceOfScope[s], "node"}

Entries == [scope : CacheScopes, key : Keys, result : ResultIds]
SizeOf(e) == SizeOfKey[e.key]

CacheTypeOK ==
  /\ scope \in [CacheScopes -> [open : BOOLEAN, generation : Nat, opened : Nat]]
  /\ data \in [CacheScopes -> Nat] /\ cleared \in [CacheScopes -> Nat] /\ closed \in BOOLEAN
  /\ lru \in Seq(Entries)
  /\ usage \in [Levels -> [entries : Nat, bytes : Nat]]
  /\ result \in [ResultIds -> [refs : Nat, version : Nat]]
  /\ flight \in [FlightIds -> [step : {"none", "run", "store", "finish", "done"},
                               scope : CacheScopes \union {"none"}, key : Keys \union {"none"},
                               token : Nat, live : BOOLEAN, waiters : Nat, failed : {"no", "error", "cancelled"},
                               value : ResultIds \union {0}]]
  /\ query \in [Queries -> [phase : {"idle", "lookup", "join", "wait", "leased"},
                            scope : CacheScopes \union {"none"}, key : Keys \union {"none"},
                            token : Nat, since : Nat, flight : FlightIds \union {0}, owner : BOOLEAN,
                            lease : ResultIds \union {0}]]

Freed == [refs |-> 0, version |-> 0]
NoArrowFlight == [step |-> "none", scope |-> "none", key |-> "none", token |-> 0, live |-> FALSE,
             waiters |-> 0, failed |-> "no", value |-> 0]
IdleQuery == [phase |-> "idle", scope |-> "none", key |-> "none", token |-> 0, since |-> 0,
              flight |-> 0, owner |-> FALSE, lease |-> 0]

CacheInit ==
  /\ scope = [s \in CacheScopes |-> [open |-> FALSE, generation |-> 0, opened |-> 0]]
  /\ data = [s \in CacheScopes |-> 0] /\ cleared = [s \in CacheScopes |-> 0] /\ closed = FALSE
  /\ lru = <<>>
  /\ usage = [x \in Levels |-> [entries |-> 0, bytes |-> 0]]
  /\ result = [r \in ResultIds |-> Freed]
  /\ flight = [f \in FlightIds |-> NoArrowFlight]
  /\ query = [q \in Queries |-> IdleQuery]

(***************************************************************************)
(* Entries, counters and references.                                       *)
(***************************************************************************)

Cached == {lru[i] : i \in DOMAIN lru}
EntriesOf(s) == {e \in Cached : e.scope = s}
AtLevel(E, x) == {e \in E : x \in LevelsOf(e.scope)}
Bytes(E) == MapThenSumSet(SizeOf, E)

(* The counters after the entries E are added (sign 1) or removed (sign -1). *)
Counted(u, E, sign) ==
  [x \in Levels |-> [entries |-> u[x].entries + sign * Cardinality(AtLevel(E, x)),
                     bytes |-> u[x].bytes + sign * Bytes(AtLevel(E, x))]]

(* What is left of the list q, in its order, without the entries E. *)
Remaining(q, E) ==
  LET upTo[n \in 0..Len(q)] == IF n = 0 THEN <<>>
                               ELSE IF q[n] \in E THEN upTo[n - 1]
                               ELSE Append(upTo[n - 1], q[n])
  IN  upTo[Len(q)]
Without(E) == Remaining(lru, E)

(* releaseRef: the references after n[r] of result r are given back; the
   records of a result without references are freed. *)
Returned(n) ==
  [r \in ResultIds |-> IF result[r].refs = n[r] THEN Freed
                       ELSE [result[r] EXCEPT !.refs = @ - n[r]]]
One(v) == [r \in ResultIds |-> IF r = v THEN 1 ELSE 0]
HoldsIn(E, r) == Cardinality({e \in E : e.result = r})

(* removeLocked of each entry of E. *)
RemoveAll(E) ==
  /\ lru' = Without(E)
  /\ usage' = Counted(usage, E, -1)
  /\ result' = Returned([r \in ResultIds |-> HoldsIn(E, r)])

(* What the loop of enforceLocked leaves for one level: the oldest entries of
   the level go until the rest is within the limit. *)
WithinLimit(q, x, limit) ==
  LET upTo(i) == AtLevel({q[j] : j \in 1..i}, x)
      fits(i) == Cardinality(upTo(i)) <= limit.entries /\ Bytes(upTo(i)) <= limit.bytes
      dropped == {q[i] : i \in {i \in DOMAIN q : x \in LevelsOf(q[i].scope) /\ ~fits(i)}}
  IN  Remaining(q, dropped)

(* Defective: the limit of the workspace is not enforced. *)
EnforcedWithoutWorkspace(q, s) ==
  WithinLimit(WithinLimit(q, s, RuntimeLimit), "node", NodeLimit)

(* enforceLocked. *)
Enforced(q, s) ==
  WithinLimit(WithinLimit(WithinLimit(q, s, RuntimeLimit), WorkspaceOfScope[s], WorkspaceLimit),
              "node", NodeLimit)

(***************************************************************************)
(* Scopes.                                                                 *)
(***************************************************************************)

OpenScope(s) ==
  /\ ~closed /\ ~scope[s].open /\ scope[s].opened < MaxIncarnations
  /\ scope' = [scope EXCEPT ![s] = [open |-> TRUE, generation |-> 0, opened |-> @.opened + 1]]
  /\ cleared' = [cleared EXCEPT ![s] = data[s]]
  /\ UNCHANGED <<data, closed, lru, usage, result, flight, query>>

(* Runtime.Refresh changes the tables, and calls ClearQueryCache afterwards. *)
RefreshData(s) ==
  /\ scope[s].open /\ data[s] = cleared[s] /\ data[s] < MaxData
  /\ data' = [data EXCEPT ![s] = @ + 1]
  /\ UNCHANGED <<scope, cleared, closed, lru, usage, result, flight, query>>

(* Scope.Invalidate. *)
Invalidate(s) ==
  /\ scope[s].open /\ data[s] # cleared[s]
  /\ RemoveAll(EntriesOf(s))
  /\ scope' = [scope EXCEPT ![s].generation = @ + 1]
  /\ cleared' = [cleared EXCEPT ![s] = data[s]]
  /\ UNCHANGED <<data, closed, flight, query>>

(* Scope.Close; the state is dropped, and with it the generation. *)
CloseScope(s) ==
  /\ scope[s].open
  /\ RemoveAll(EntriesOf(s))
  /\ scope' = [scope EXCEPT ![s].open = FALSE, ![s].generation = 0]
  /\ UNCHANGED <<data, cleared, closed, flight, query>>

(* Pool.Close. *)
ClosePool ==
  /\ ~closed
  /\ closed' = TRUE
  /\ RemoveAll(Cached)
  /\ scope' = [s \in CacheScopes |-> [scope[s] EXCEPT !.open = FALSE, !.generation = 0]]
  /\ UNCHANGED <<data, cleared, flight, query>>

(***************************************************************************)
(* Queries.                                                                *)
(***************************************************************************)

(* cacheKey: the generation is read before anything else. *)
BeginQuery(q, s, k) ==
  /\ query[q].phase = "idle" /\ <<q, s, k>> \in Asks
  /\ query' = [query EXCEPT ![q] = [IdleQuery EXCEPT
       !.phase = "lookup", !.scope = s, !.key = k, !.token = scope[s].generation,
       !.since = cleared[s]]]
  /\ UNCHANGED <<scope, data, cleared, closed, lru, usage, result, flight>>

(* getArrow, with LookupArrow: a lease on the entry, which becomes the newest. *)
Lookup(q) ==
  LET hit == {e \in EntriesOf(query[q].scope) : e.key = query[q].key} IN
  /\ query[q].phase = "lookup"
  /\ \/ /\ ~scope[query[q].scope].open
        /\ query' = [query EXCEPT ![q] = IdleQuery]
        /\ UNCHANGED <<lru, result>>
     \/ \E e \in hit :
          /\ lru' = <<e>> \o Without({e})
          /\ result' = [result EXCEPT ![e.result].refs = @ + 1]
          /\ query' = [query EXCEPT ![q].phase = "leased", ![q].token = 0, ![q].lease = e.result]
     \/ /\ scope[query[q].scope].open /\ hit = {}
        /\ query' = [query EXCEPT ![q].phase = "join"]
        /\ UNCHANGED <<lru, result>>
  /\ UNCHANGED <<scope, data, cleared, closed, usage, flight>>

(* Defective: a completed flight stays in arrowFlights. *)
SharesCompleted(f, q) ==
  /\ flight[f].step # "none"
  /\ flight[f].scope = query[q].scope /\ flight[f].key = query[q].key
  /\ flight[f].token = query[q].token

(* The flight in arrowFlights for the query's scope, generation and key. *)
Shares(f, q) ==
  /\ flight[f].step \in {"run", "store", "finish"}
  /\ flight[f].scope = query[q].scope /\ flight[f].key = query[q].key
  /\ flight[f].token = query[q].token

(* joinArrowFlight. *)
Join(q) ==
  LET free == {f \in FlightIds : flight[f].step = "none"} IN
  /\ query[q].phase = "join"
  /\ \/ \E f \in FlightIds :
          /\ Shares(f, q)
          /\ flight' = [flight EXCEPT ![f].waiters = @ + 1]
          /\ query' = [query EXCEPT ![q].phase = "wait", ![q].flight = f, ![q].owner = FALSE]
     \/ /\ \A f \in FlightIds : ~Shares(f, q)
        /\ free # {}
        /\ flight' = [flight EXCEPT ![Min(free)] = [NoArrowFlight EXCEPT
             !.step = "run", !.scope = query[q].scope, !.key = query[q].key,
             !.token = query[q].token, !.live = TRUE, !.waiters = 1]]
        /\ query' = [query EXCEPT ![q].phase = "wait", ![q].flight = Min(free), ![q].owner = TRUE]
  /\ UNCHANGED <<scope, data, cleared, closed, lru, usage, result>>

(* leaveArrowFlight: the last one to leave a completed flight releases its value. *)
Left(f) ==
  IF flight[f].waiters = 1 /\ flight[f].step = "done" THEN NoArrowFlight
  ELSE [flight[f] EXCEPT !.waiters = @ - 1]

ReleasedByLeaving(f) == IF Left(f).value = 0 THEN flight[f].value ELSE 0

(* CoalesceArrow after the flight is done: the result, its error, or another
   attempt when only the owner was cancelled. *)
FlightDone(q) ==
  LET f == query[q].flight
      v == flight[f].value
      gives == One(ReleasedByLeaving(f)) IN
  /\ query[q].phase = "wait" /\ flight[f].step = "done"
  /\ flight' = [flight EXCEPT ![f] = Left(f)]
  /\ \/ /\ flight[f].failed = "no" /\ v # 0 /\ result[v].refs > 0
        /\ result' = [r \in ResultIds |->
             [result[r] EXCEPT !.refs = @ + One(v)[r] - gives[r]]]
        /\ query' = [query EXCEPT ![q].phase = "leased", ![q].token = 0, ![q].lease = v,
                                ![q].flight = 0, ![q].owner = FALSE]
     \/ /\ flight[f].failed = "error"
        /\ result' = Returned(gives)
        /\ query' = [query EXCEPT ![q] = IdleQuery]
     \/ /\ flight[f].failed = "cancelled"
        /\ result' = Returned(gives)
        /\ query' = [query EXCEPT ![q].phase = "join", ![q].flight = 0, ![q].owner = FALSE]
  /\ UNCHANGED <<scope, data, cleared, closed, lru, usage>>

(* The context of a waiting query ends; the flight of an owner goes on. *)
CancelQuery(q) ==
  LET f == query[q].flight IN
  /\ query[q].phase = "wait"
  /\ flight' = [flight EXCEPT ![f] = IF query[q].owner /\ Left(f) # NoArrowFlight
                                        THEN [Left(f) EXCEPT !.live = FALSE] ELSE Left(f)]
  /\ result' = Returned(One(ReleasedByLeaving(f)))
  /\ query' = [query EXCEPT ![q] = IdleQuery]
  /\ UNCHANGED <<scope, data, cleared, closed, lru, usage>>

(* The rows are decoded and the lease is given back. *)
ReleaseLease(q) ==
  /\ query[q].phase = "leased"
  /\ result' = Returned(One(query[q].lease))
  /\ query' = [query EXCEPT ![q] = IdleQuery]
  /\ UNCHANGED <<scope, data, cleared, closed, lru, usage, flight>>

(***************************************************************************)
(* The goroutine of a flight.                                              *)
(***************************************************************************)

FreeResults == {r \in ResultIds : result[r].refs = 0}

(* The second lookup, and the execution on the data as they are now: it may
   fail, and its result starts with the reference of its creator. *)
Run(f) ==
  LET s == flight[f].scope
      hit == {e \in EntriesOf(s) : e.key = flight[f].key} IN
  /\ flight[f].step = "run"
  /\ \/ /\ \/ ~scope[s].open
           \/ hit = {}
        /\ flight' = [flight EXCEPT ![f].step = "finish", ![f].failed = "error"]
        /\ UNCHANGED <<lru, result>>
     \/ \E e \in hit :
          /\ lru' = <<e>> \o Without({e})
          /\ result' = [result EXCEPT ![e.result].refs = @ + 1]
          /\ flight' = [flight EXCEPT ![f].step = "finish", ![f].value = e.result]
     \/ /\ scope[s].open /\ hit = {} /\ FreeResults # {}
        /\ result' = [result EXCEPT ![Min(FreeResults)] = [refs |-> 1, version |-> data[s]]]
        /\ flight' = [flight EXCEPT ![f].step = "store", ![f].value = Min(FreeResults)]
        /\ UNCHANGED lru
  /\ UNCHANGED <<scope, data, cleared, closed, usage, query>>

(* Defective: a result of an earlier generation is stored. *)
StorableStale(f) ==
  /\ scope[flight[f].scope].open
  /\ SizeOfKey[flight[f].key] <= RuntimeLimit.bytes

(* The early returns of StoreArrow. *)
Storable(f) ==
  /\ scope[flight[f].scope].open
  /\ flight[f].token = scope[flight[f].scope].generation
  /\ SizeOfKey[flight[f].key] <= RuntimeLimit.bytes

(* The entry StoreArrow removes before it adds e. *)
ReplacedEntry(e) == {o \in Cached : o.scope = e.scope /\ o.key = e.key}

(* The end of the execution: the flight keeps a reference of its own, the cache
   one if it stores the result, and the creator's reference is returned.  A
   cancelled owner keeps and stores nothing. *)
Store(f) ==
  LET s == flight[f].scope
      new == [scope |-> s, key |-> flight[f].key, result |-> flight[f].value]
      pushed == <<new>> \o Without(ReplacedEntry(new))
      gone == (Cached \union {new}) \ Cached'
      own == One(new.result) IN
  /\ flight[f].step = "store"
  /\ \/ /\ ~flight[f].live
        /\ flight' = [flight EXCEPT ![f].step = "finish", ![f].failed = "cancelled", ![f].value = 0]
        /\ result' = Returned(own)
        /\ UNCHANGED <<lru, usage>>
     \/ /\ flight[f].live
        /\ flight' = [flight EXCEPT ![f].step = "finish"]
        /\ \/ ~Storable(f) /\ UNCHANGED <<lru, usage, result>>
           \/ /\ Storable(f)
              /\ lru' = Enforced(pushed, s)
              /\ usage' = Counted(Counted(usage, {new}, 1), gone, -1)
              /\ result' = Returned([r \in ResultIds |-> HoldsIn(gone, r) - own[r]])
  /\ UNCHANGED <<scope, data, cleared, closed, query>>

(* Defective: the value of a flight nobody waits for any more is kept. *)
FinishFlightKeeps(f) ==
  /\ flight[f].step = "finish"
  /\ flight' = [flight EXCEPT ![f] =
       IF flight[f].waiters = 0 THEN NoArrowFlight
       ELSE [flight[f] EXCEPT !.step = "done", !.failed = IF flight[f].live THEN @ ELSE "cancelled"]]
  /\ UNCHANGED <<scope, data, cleared, closed, lru, usage, result, query>>

(* The flight completes and leaves arrowFlights; without waiters it releases
   its value itself. *)
FinishFlight(f) ==
  /\ flight[f].step = "finish"
  /\ flight' = [flight EXCEPT ![f] =
       IF flight[f].waiters = 0 THEN NoArrowFlight
       ELSE [flight[f] EXCEPT !.step = "done", !.failed = IF flight[f].live THEN @ ELSE "cancelled"]]
  /\ result' = Returned(One(IF flight[f].waiters = 0 THEN flight[f].value ELSE 0))
  /\ UNCHANGED <<scope, data, cleared, closed, lru, usage, query>>

QueryStep(q) == Lookup(q) \/ Join(q) \/ FlightDone(q)
CacheFlightStep(f) == Run(f) \/ Store(f) \/ FinishFlight(f)

CacheNext ==
  \/ \E s \in CacheScopes : OpenScope(s) \/ RefreshData(s) \/ Invalidate(s) \/ CloseScope(s)
  \/ ClosePool
  \/ \E q \in Queries : \/ QueryStep(q) \/ CancelQuery(q) \/ ReleaseLease(q)
                        \/ \E s \in CacheScopes, k \in Keys : BeginQuery(q, s, k)
  \/ \E f \in FlightIds : CacheFlightStep(f)

(* Goroutines that can go on do: an execution ends (its context has a
   deadline), and a caller decodes its rows. *)
CacheFairness ==
  /\ \A q \in Queries : WF_cacheVars(QueryStep(q)) /\ WF_cacheVars(ReleaseLease(q))
  /\ \A f \in FlightIds : WF_cacheVars(CacheFlightStep(f))

CacheSpec == CacheInit /\ [][CacheNext]_cacheVars /\ CacheFairness

(***************************************************************************)
(* Properties.                                                             *)
(***************************************************************************)

(* The counters of every scope, workspace and the node are what the entries
   add up to, no limit is exceeded, a key is cached once, and only for an open
   scope. *)
CacheAccountsBalance ==
  /\ \A x \in Levels : usage[x] = [entries |-> Cardinality(AtLevel(Cached, x)),
                                   bytes |-> Bytes(AtLevel(Cached, x))]
  /\ \A x \in Levels :
       LET limit == IF x = "node" THEN NodeLimit
                    ELSE IF x \in CacheScopes THEN RuntimeLimit ELSE WorkspaceLimit
       IN  usage[x].entries <= limit.entries /\ usage[x].bytes <= limit.bytes
  /\ \A i, j \in DOMAIN lru : lru[i].scope = lru[j].scope /\ lru[i].key = lru[j].key => i = j
  /\ \A e \in Cached : scope[e.scope].open

(* A flight counts exactly the queries that wait for it, so it is neither
   dropped under one nor kept when the last one has gone. *)
FlightWaitersCounted ==
  \A f \in FlightIds : flight[f].waiters = Cardinality({q \in Queries : query[q].flight = f})

(* The types, the accounts and the waiters. *)
CacheConsistent == CacheTypeOK /\ CacheAccountsBalance /\ FlightWaitersCounted

(* A result has exactly the references its holders count for: the cache's
   entry, the executions and flights, and the leases.  None is released under a
   reader and none stays allocated. *)
ResultsPinned ==
  \A r \in ResultIds :
    result[r].refs = HoldsIn(Cached, r)
                     + Cardinality({f \in FlightIds : flight[f].value = r})
                     + Cardinality({q \in Queries : query[q].lease = r})

(* A query answers from data at least as new as when it began: invalidation
   hides every result computed before it, stored, in flight or shared. *)
NoStaleResults ==
  /\ \A q \in Queries : query[q].phase = "leased" => result[query[q].lease].version >= query[q].since
  /\ \A e \in Cached : result[e.result].version >= cleared[e.scope]

(* A query comes to an answer, an error or a cancellation, unless the owners of
   the flights it joins are cancelled one after the other without end: a waiter
   that inherits a cancellation joins again. *)
QueriesReturn ==
  \A q \in Queries :
    \/ query[q].phase \in {"lookup", "join", "wait"} ~> query[q].phase \in {"idle", "leased"}
    \/ []<><<\E p \in Queries \ {q} : CancelQuery(p)>>_cacheVars
=============================================================================
