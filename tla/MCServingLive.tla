---------------------------- MODULE MCServingLive ---------------------------
(***************************************************************************)
(* What must eventually happen in dashboard streams, the result cache, the *)
(* connection pools and the refresh schedule.  They share no variable      *)
(* here; a behaviour is one of the component that Init puts in focus, and  *)
(* it is fair to that component's steps as the code that runs them is.     *)
(* The schedule has one dispatcher: two can release each other's claims    *)
(* for ever.                                                               *)
(***************************************************************************)
EXTENDS DashboardStream, ResultCache, ConnectionPools, RefreshSchedule, TLC

CONSTANTS q1, q2, s1, ws1, k1, a1, a2, e1, e2

VARIABLE focus

MCAsks == {<<q1, s1, k1>>, <<q2, s1, k1>>}
MCWorkspaceOfScope == s1 :> ws1
MCSizeOfKey == k1 :> 1
MCCronsOf == a1 :> {e1, e2} @@ a2 :> {e1}
MCFires == e1 :> {1, 3, 5} @@ e2 :> {2, 4, 6}
MCLimit == [entries |-> 1, bytes |-> 1]

mcVars == <<focus, streamVars, cacheVars, poolVars, scheduleVars>>

MCInit == /\ StreamInit /\ CacheInit /\ PoolInit /\ ScheduleInit
          /\ focus \in {"stream", "cache", "pools", "schedule"}

MCNext ==
  /\ UNCHANGED focus
  /\ \/ /\ focus = "stream" /\ StreamNext
        /\ UNCHANGED <<cacheVars, poolVars, scheduleVars>>
     \/ /\ focus = "cache" /\ CacheNext
        /\ UNCHANGED <<streamVars, poolVars, scheduleVars>>
     \/ /\ focus = "pools" /\ PoolNext
        /\ UNCHANGED <<streamVars, cacheVars, scheduleVars>>
     \/ /\ focus = "schedule" /\ ScheduleNext
        /\ UNCHANGED <<streamVars, cacheVars, poolVars>>

(* The fairness conditions of the modules, for the component in focus.     *)
StreamFair ==
  /\ \A h \in Handlers : WF_streamVars(focus = "stream" /\ RequestStep(h))
  /\ \A c \in Coordinators :
       /\ WF_streamVars(focus = "stream" /\ CloseExpired(c))
       /\ \A g \in Generations : WF_streamVars(focus = "stream" /\ RefreshStep(c, g))

CacheFair ==
  /\ \A q \in Queries : /\ WF_cacheVars(focus = "cache" /\ QueryStep(q))
                        /\ WF_cacheVars(focus = "cache" /\ ReleaseLease(q))
  /\ \A f \in FlightIds : WF_cacheVars(focus = "cache" /\ CacheFlightStep(f))

PoolsFair ==
  /\ \A p \in PoolClients : SF_poolVars(focus = "pools" /\ ClientStep(p))
  /\ \A m \in Managers : WF_poolVars(focus = "pools" /\ FlightStep(m))

ScheduleFair ==
  /\ WF_scheduleVars(focus = "schedule" /\ PassTime)
  /\ \A d \in Dispatchers : WF_scheduleVars(focus = "schedule" /\ DispatcherStep(d))

LiveSpec == /\ MCInit /\ [][MCNext]_mcVars
            /\ StreamFair /\ CacheFair /\ PoolsFair /\ ScheduleFair

(* Every call into the serving components returns: a dashboard request, a
   query although it inherits cancellations, and a use of the pools although
   the directory stays locked while a flight ends. *)
ServingCallsReturn == RequestsAnswered /\ QueriesReturn /\ PoolCallsReturn
=============================================================================
