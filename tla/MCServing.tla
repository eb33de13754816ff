----------------------------- MODULE MCServing ------------------------------
(***************************************************************************)
(* One run over the components that serve dashboards: the stream of a      *)
(* dashboard, the query result cache and the connection pools.  They share *)
(* no variable here; a behaviour is one of the component that Init puts in *)
(* focus.  The stream is explored for any two requests and, with one       *)
(* request more, for each kind of command beside streams; the cache for    *)
(* two queries that race on one key, and for one query that fills the      *)
(* limits of two scopes; the pools for changes of the binding and for      *)
(* rotations of its credentials.                                           *)
(***************************************************************************)
EXTENDS DashboardStream, ResultCache, ConnectionPools, TLC

CONSTANTS q1, q2, s1, s2, ws1, k1, k2

VARIABLE focus

MCAsks == {<<q1, s1, k1>>, <<q2, s1, k1>>, <<q2, s1, k2>>, <<q2, s2, k1>>}
MCWorkspaceOfScope == [s \in CacheScopes |-> ws1]
MCSizeOfKey == k1 :> 1 @@ k2 :> 2
MCRuntimeLimit == [entries |-> 1, bytes |-> 2]
MCWorkspaceLimit == [entries |-> 2, bytes |-> 2]
MCNodeLimit == [entries |-> 2, bytes |-> 3]

(* Handlers and PoolClients are given the same two values.                 *)
ServingSymmetry == Permutations(Handlers)

mcVars == <<focus, streamVars, cacheVars, poolVars>>

StreamFocuses == {"pairs", "filters", "selections", "pages", "windows"}
Focuses == StreamFocuses \cup {"races", "limits", "bindings", "rotations"}

KindsOf ==
  "pairs" :> RequestKinds @@ "filters" :> {"stream", "filter"}
  @@ "selections" :> {"stream", "select"} @@ "pages" :> {"stream", "navigate"}
  @@ "windows" :> {"stream", "window", "model"}

MCInit == StreamInit /\ CacheInit /\ PoolInit /\ focus \in Focuses

MCNext ==
  /\ UNCHANGED focus
  /\ \/ /\ focus \in StreamFocuses /\ StreamNext
        /\ \A h \in Handlers : request'[h].kind \in {"none"} \cup KindsOf[focus]
        /\ focus = "pairs" => sent' <= 2
        /\ UNCHANGED <<cacheVars, poolVars>>
     \/ /\ focus = "races" /\ CacheNext
        /\ scope'[s2] = scope[s2]
        /\ query'[q2].key # k2
        /\ UNCHANGED <<streamVars, poolVars>>
     \/ /\ focus = "limits" /\ CacheNext
        /\ query'[q1] = query[q1]
        /\ UNCHANGED <<data, streamVars, poolVars>>
     \/ /\ focus \in {"bindings", "rotations"} /\ PoolNext
        /\ IF focus = "bindings" THEN provider' = provider
           ELSE stored'.cfg = stored.cfg
        /\ UNCHANGED <<streamVars, cacheVars>>

MCSpec == MCInit /\ [][MCNext]_mcVars

(* Each component's types and bookkeeping. *)
ServingConsistent == StreamConsistent /\ CacheConsistent /\ PoolConsistent
=============================================================================
