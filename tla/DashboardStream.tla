-------------------------- MODULE DashboardStream ---------------------------
(***************************************************************************)
(* One page stream of a dashboard: the session record with its             *)
(* compare-and-swap, the registry of coordinators, the coordinator with    *)
(* its refresh generations, and the handlers that drive them               *)
(* (internal/dashboard/session/store.go, stream/registry.go,               *)
(* stream/coordinator.go, stream/executor.go, http/updates.go,             *)
(* http/filter_commands.go, http/commands.go, http/navigation.go).         *)
(*                                                                         *)
(* The filter state is its revision; a selection is the number of the      *)
(* request that made it (0 for none).  Every request has a goroutine, and  *)
(* every generation of a coordinator has one that runs its queries.        *)
(***************************************************************************)
EXTENDS Integers, FiniteSets, FiniteSetsExt

CONSTANTS Handlers,      \* goroutines that serve requests
          MaxRequests,   \* bound on the requests of the stream
          MaxAttempts,   \* attempts of a compare-and-swap loop
          MaxSequence    \* bound on the sequence numbers of window commands

ASSUME StreamAssumption ==
  /\ MaxRequests \in Nat \ {0} /\ MaxAttempts \in Nat \ {0} /\ MaxSequence \in Nat
  /\ "free" \notin Handlers   \* the mutex without a holder

VARIABLES
  session,       \* Record of the session store
  accepted,      \* history: the filter commands and the selection the store accepted
  sent,          \* number of requests so far
  request,       \* what each handler does
  current,       \* Registry.coordinators of this stream, 0 for none
  bound,         \* Registry.bindings of this stream
  coordinator,   \* the coordinators ever made
  refresh,       \* refresh[c][g]: the generation g of coordinator c
  last           \* history: the last event published on the stream

streamVars == <<session, accepted, sent, request, current, bound, coordinator, refresh, last>>

Numbers == 1..MaxRequests
Coordinators == Numbers   \* a request makes at most one coordinator
Generations == Numbers    \* and starts at most one generation

RequestKinds == {"stream", "filter", "select", "window", "model", "navigate"}

StreamTypeOK ==
  /\ session \in [version : Nat, revision : Nat, selection : 0..MaxRequests]
  /\ accepted \in [filters : Nat, selection : 0..MaxRequests]
  /\ sent \in 0..MaxRequests
  /\ current \in {0} \union Coordinators /\ bound \in {0} \union Coordinators
  /\ request \in [Handlers ->
       [kind : RequestKinds \union {"none"},
        step : {"idle", "load", "swap", "reload", "open", "ensure", "begin", "persist", "commit",
                "invalid", "start", "streaming"},
        number : 0..MaxRequests, base : Nat, seen : 0..MaxRequests, sequence : 0..MaxSequence,
        version : Nat, revision : Nat, selection : 0..MaxRequests, attempts : 0..(MaxAttempts - 1),
        coordinator : {0} \union Coordinators, generation : {0} \union Generations]]
  /\ coordinator \in [Coordinators ->
       [state : {"none", "open", "expiring", "closed"}, timer : BOOLEAN,
        lock : {"free"} \union Handlers, generation : 0..MaxRequests, active : 0..MaxRequests,
        revision : Nat, selection : 0..MaxRequests, sequence : 0..MaxSequence]]
  /\ refresh \in [Coordinators -> [Generations ->
       [step : {"none", "begun", "running", "complete", "ended"},
        started : BOOLEAN, summaries : Nat]]]
  /\ last \in [coordinator : {0} \union Coordinators, generation : {0} \union Generations,
               type : {"none", "start", "visual", "complete"}]

IdleRequest == [kind |-> "none", step |-> "idle", number |-> 0, base |-> 0, seen |-> 0,
                sequence |-> 0, version |-> 0, revision |-> 0, selection |-> 0, attempts |-> 0,
                coordinator |-> 0, generation |-> 0]
NoCoordinator == [state |-> "none", timer |-> FALSE, lock |-> "free", generation |-> 0,
                  active |-> 0, revision |-> 0, selection |-> 0, sequence |-> 0]
NoRefresh == [step |-> "none", started |-> FALSE, summaries |-> 0]
NoEvent == [coordinator |-> 0, generation |-> 0, type |-> "none"]

StreamInit ==
  /\ session = [version |-> 1, revision |-> 1, selection |-> 0]
  /\ accepted = [filters |-> 0, selection |-> 0]
  /\ sent = 0 /\ current = 0 /\ bound = 0
  /\ request = [h \in Handlers |-> IdleRequest]
  /\ coordinator = [c \in Coordinators |-> NoCoordinator]
  /\ refresh = [c \in Coordinators |-> [g \in Generations |-> NoRefresh]]
  /\ last = NoEvent

(***************************************************************************)
(* The coordinator.                                                        *)
(***************************************************************************)

Live(c) == coordinator[c].state \in {"open", "expiring"}
NewCoordinatorId == Min({c \in Coordinators : coordinator[c].state = "none"})

(* summaryLocked of generation g, handed to the observer. *)
Summarised(r, c, g) ==
  IF g = 0 THEN r ELSE [r EXCEPT ![c][g].summaries = @ + 1]

(* CloseWithReason of c, in the coordinators cs; nothing of it is read again. *)
Closed(cs, c) == [cs EXCEPT ![c] = [NoCoordinator EXCEPT !.state = "closed"]]

(* The critical section of BeginPrepared once the preparation is accepted: the
   previous refresh is cancelled and summarised, the next generation begins. *)
Began(c, r, s, n) ==
  /\ coordinator' = [coordinator EXCEPT
       ![c].generation = @ + 1, ![c].active = coordinator[c].generation + 1,
       ![c].revision = r, ![c].selection = s, ![c].sequence = n, ![c].lock = "free"]
  /\ refresh' = [Summarised(refresh, c, coordinator[c].active) EXCEPT
       ![c][coordinator[c].generation + 1] = [NoRefresh EXCEPT !.step = "begun"]]

(* Defective: a superseded refresh goes on publishing. *)
MayEmitSuperseded(c, g) == Live(c)

(* The test of emitCurrent. *)
MayEmit(c, g) == Live(c) /\ coordinator[c].generation = g

Event(c, g, type) == [coordinator |-> c, generation |-> g, type |-> type]

(***************************************************************************)
(* Requests.                                                               *)
(***************************************************************************)

FirstStep == [stream |-> "load", filter |-> "load", navigate |-> "load",
              select |-> "ensure", window |-> "ensure", model |-> "begin"]

(* A request arrives, with the filter revision and the selection its page shows. *)
Send(h, kind, n) ==
  /\ request[h].step = "idle" /\ sent < MaxRequests
  /\ kind = "window" \/ n = 0
  /\ kind = "model" => bound # 0
  /\ sent' = sent + 1
  /\ request' = [request EXCEPT ![h] = [IdleRequest EXCEPT
       !.kind = kind, !.step = FirstStep[kind], !.number = sent', !.sequence = n,
       !.base = IF kind = "select" /\ current # 0 THEN coordinator[current].revision
                ELSE session.revision,
       !.seen = IF current # 0 THEN coordinator[current].selection ELSE 0,
       !.coordinator = IF kind = "model" THEN bound ELSE 0]]
  /\ UNCHANGED <<session, accepted, current, bound, coordinator, refresh, last>>

Done(h) == request' = [request EXCEPT ![h] = IdleRequest]
Goto(h, step) == request' = [request EXCEPT ![h].step = step]

(* Load of the session record: updates, ExecuteFilterCommand or Navigate; the
   commands refuse a base revision that is not the current one. *)
Load(h) ==
  /\ request[h].step = "load"
  /\ \/ /\ request[h].kind # "stream" /\ request[h].base # session.revision
        /\ Done(h)
     \/ /\ request[h].kind = "stream" \/ request[h].base = session.revision
        /\ request' = [request EXCEPT ![h].version = session.version,
             ![h].revision = session.revision,
             ![h].step = IF request[h].kind = "stream" THEN "open" ELSE "swap"]
  /\ UNCHANGED <<session, accepted, sent, current, bound, coordinator, refresh, last>>

(* Defective: the version is not compared. *)
SwapsUnversioned(h) == TRUE

(* CompareAndSwap finds the version that was loaded. *)
Swaps(h) == request[h].version = session.version

(* The next round of the loop, or its end: ErrConflict. *)
Retry(h, step, failed) ==
  LET r == request[h] IN
  request' = [request EXCEPT ![h] =
    IF r.attempts + 1 < MaxAttempts THEN [r EXCEPT !.attempts = r.attempts + 1, !.step = step]
    ELSE [failed EXCEPT !.attempts = 0]]

(* CompareAndSwap of a filter command, which advances the filter revision, or of
   a navigation, which keeps it. *)
Swap(h) ==
  LET filter == request[h].kind = "filter" IN
  /\ request[h].step = "swap"
  /\ \/ /\ Swaps(h)
        /\ session' = [session EXCEPT !.version = @ + 1,
             !.revision = request[h].revision + (IF filter THEN 1 ELSE 0)]
        /\ accepted' = [accepted EXCEPT !.filters = @ + (IF filter THEN 1 ELSE 0)]
        /\ request' = [request EXCEPT ![h].revision = session'.revision,
             ![h].step = IF filter THEN "ensure" ELSE "reload"]
     \/ /\ ~Swaps(h)
        /\ Retry(h, "load", IdleRequest)
        /\ UNCHANGED <<session, accepted>>
  /\ UNCHANGED <<sent, current, bound, coordinator, refresh, last>>

(* The navigation loads the record again for the page it shows. *)
Reload(h) ==
  /\ request[h].step = "reload"
  /\ request' = [request EXCEPT ![h].step = "ensure", ![h].revision = session.revision,
                                ![h].selection = session.selection]
  /\ UNCHANGED <<session, accepted, sent, current, bound, coordinator, refresh, last>>

Fresh(timer) == [NoCoordinator EXCEPT !.state = "open", !.timer = timer, !.revision = 1]

(* Open closes the coordinator it replaces. *)
Replaced(cs) == IF current = 0 THEN cs ELSE Closed(cs, current)

(* Registry.Open, then Bind. *)
Open(h) ==
  LET new == NewCoordinatorId IN
  /\ request[h].step = "open"
  /\ current # 0 => coordinator[current].lock = "free"
  /\ coordinator' = [Replaced(coordinator) EXCEPT ![new] = Fresh(FALSE)]
  /\ refresh' = IF current = 0 THEN refresh
                ELSE Summarised(refresh, current, coordinator[current].active)
  /\ current' = new /\ bound' = new
  /\ request' = [request EXCEPT ![h].coordinator = new, ![h].step = "begin"]
  /\ UNCHANGED <<session, accepted, sent, last>>

(* Registry.Ensure: the coordinator of the stream, or a new one with a timer. *)
Ensure(h) ==
  LET new == NewCoordinatorId IN
  /\ request[h].step = "ensure"
  /\ \/ /\ current # 0
        /\ request' = [request EXCEPT ![h].coordinator = current, ![h].step = "begin"]
        /\ UNCHANGED <<current, coordinator>>
     \/ /\ current = 0
        /\ coordinator' = [coordinator EXCEPT ![new] = Fresh(TRUE)]
        /\ current' = new
        /\ request' = [request EXCEPT ![h].coordinator = new, ![h].step = "begin"]
  /\ UNCHANGED <<session, accepted, sent, bound, refresh, last>>

StartNext(h) ==
  request' = [request EXCEPT ![h] = [IdleRequest EXCEPT
    !.kind = request[h].kind, !.step = "start", !.coordinator = request[h].coordinator,
    !.generation = coordinator[request[h].coordinator].generation + 1]]

(* After BeginPrepared, updates follows its stream until the client is gone, and
   the others answer the request. *)
Answered(h) ==
  request' = [request EXCEPT ![h] =
    IF @.kind # "stream" THEN IdleRequest
    ELSE [IdleRequest EXCEPT !.kind = "stream", !.step = "streaming",
            !.coordinator = request[h].coordinator]]

(* The filters of a preparation: what the handler loaded, over what the
   coordinator has. *)
PreparedRevision(h) ==
  IF request[h].kind \in {"stream", "filter", "navigate"} THEN request[h].revision
  ELSE coordinator[request[h].coordinator].revision
PreparedSelection(h) ==
  IF request[h].kind \in {"stream", "navigate"} THEN request[h].selection
  ELSE coordinator[request[h].coordinator].selection

(* ErrStalePreparation: the window command was overtaken. *)
StaleSequence(h) ==
  request[h].kind = "window" /\ request[h].sequence <= coordinator[request[h].coordinator].sequence

(* BeginPrepared of every kind but a selection. *)
Begin(h) ==
  LET c == request[h].coordinator IN
  /\ request[h].step = "begin" /\ request[h].kind # "select"
  /\ coordinator[c].lock = "free"
  /\ \/ /\ ~Live(c)
        /\ Done(h)
        /\ UNCHANGED <<coordinator, refresh>>
     \/ /\ Live(c) /\ StaleSequence(h)
        /\ Done(h)
        /\ UNCHANGED <<coordinator, refresh>>
     \/ /\ Live(c) /\ ~StaleSequence(h)
        /\ Began(c, PreparedRevision(h), PreparedSelection(h),
                 IF request[h].kind = "window" THEN request[h].sequence ELSE coordinator[c].sequence)
        /\ StartNext(h)
  /\ UNCHANGED <<session, accepted, sent, current, bound, last>>

(* BeginPrepared of a selection: the revisions the page showed are validated,
   and the coordinator's mutex is held while the session is updated. *)
BeginSelect(h) ==
  LET c == request[h].coordinator
      valid == request[h].base = coordinator[c].revision /\ request[h].seen = coordinator[c].selection IN
  /\ request[h].step = "begin" /\ request[h].kind = "select"
  /\ coordinator[c].lock = "free"
  /\ \/ /\ ~Live(c) \/ ~valid
        /\ Goto(h, "invalid")
        /\ UNCHANGED coordinator
     \/ /\ Live(c) /\ valid
        /\ coordinator' = [coordinator EXCEPT ![c].lock = h]
        /\ Goto(h, "persist")
  /\ UNCHANGED <<session, accepted, sent, current, bound, refresh, last>>

(* UpdateSelections: Load. *)
Persist(h) ==
  /\ request[h].step = "persist"
  /\ request' = [request EXCEPT ![h].version = session.version, ![h].revision = session.revision,
                                ![h].step = "commit"]
  /\ UNCHANGED <<session, accepted, sent, current, bound, coordinator, refresh, last>>

Released(cs, c) == [cs EXCEPT ![c].lock = "free"]

(* UpdateSelections: CompareAndSwap, and the rest of BeginPrepared. *)
Commit(h) ==
  LET c == request[h].coordinator IN
  /\ request[h].step = "commit"
  /\ \/ /\ Swaps(h)
        /\ session' = [version |-> session.version + 1, revision |-> request[h].revision,
                       selection |-> request[h].number]
        /\ accepted' = [accepted EXCEPT !.selection = request[h].number]
        /\ Began(c, coordinator[c].revision, request[h].number, coordinator[c].sequence)
        /\ StartNext(h)
     \/ /\ ~Swaps(h)
        /\ Retry(h, "persist", [request[h] EXCEPT !.step = "invalid"])
        /\ coordinator' = IF request'[h].step = "invalid" THEN Released(coordinator, c) ELSE coordinator
        /\ UNCHANGED <<session, accepted, refresh>>
  /\ UNCHANGED <<sent, current, bound, last>>

(* The invalid_command generation that reports the failure. *)
BeginInvalid(h) ==
  LET c == request[h].coordinator IN
  /\ request[h].step = "invalid" /\ coordinator[c].lock = "free"
  /\ \/ ~Live(c) /\ Done(h) /\ UNCHANGED <<coordinator, refresh>>
     \/ /\ Live(c)
        /\ Began(c, coordinator[c].revision, coordinator[c].selection, coordinator[c].sequence)
        /\ StartNext(h)
  /\ UNCHANGED <<session, accepted, sent, current, bound, last>>

(* The start event, if the generation is still the current one, and the
   goroutine of the generation. *)
StartRefresh(h) ==
  LET c == request[h].coordinator
      g == request[h].generation IN
  /\ request[h].step = "start" /\ coordinator[c].lock = "free"
  /\ refresh' = [refresh EXCEPT ![c][g].step = "running", ![c][g].started = MayEmit(c, g)]
  /\ last' = IF MayEmit(c, g) THEN Event(c, g, "start") ELSE last
  /\ Answered(h)
  /\ UNCHANGED <<session, accepted, sent, current, bound, coordinator>>

(* The stream's client goes away: the context of its coordinator ends, and the
   coordinator leaves the registry if it is still there. *)
Disconnect(h) ==
  LET c == request[h].coordinator IN
  /\ request[h].step = "streaming" /\ coordinator[c].lock = "free"
  /\ current' = IF current = c THEN 0 ELSE current
  /\ bound' = IF current = c THEN 0 ELSE bound
  /\ coordinator' = Closed(coordinator, c)
  /\ refresh' = Summarised(refresh, c, coordinator[c].active)
  /\ Done(h)
  /\ UNCHANGED <<session, accepted, sent, last>>

(***************************************************************************)
(* Timers and refreshes.                                                   *)
(***************************************************************************)

(* expire: the coordinator leaves the registry, and is closed afterwards. *)
Expire(c) ==
  /\ coordinator[c].timer
  /\ coordinator' = [coordinator EXCEPT ![c].timer = FALSE,
       ![c].state = IF current = c THEN "expiring" ELSE @]
  /\ current' = IF current = c THEN 0 ELSE current
  /\ bound' = IF current = c THEN 0 ELSE bound
  /\ UNCHANGED <<session, accepted, sent, request, refresh, last>>

CloseExpired(c) ==
  /\ coordinator[c].state = "expiring" /\ coordinator[c].lock = "free"
  /\ coordinator' = Closed(coordinator, c)
  /\ refresh' = Summarised(refresh, c, coordinator[c].active)
  /\ UNCHANGED <<session, accepted, sent, request, current, bound, last>>

(* The targets deliver their results: emitCurrent publishes them or drops them. *)
Deliver(c, g) ==
  /\ refresh[c][g].step = "running" /\ coordinator[c].lock = "free"
  /\ MayEmit(c, g)
  /\ last' = Event(c, g, "visual")
  /\ UNCHANGED <<session, accepted, sent, request, current, bound, coordinator, refresh>>

Ended(r, c, g) ==
  [r EXCEPT ![c][g] = [NoRefresh EXCEPT !.step = "ended", !.summaries = r[c][g].summaries]]

(* The work is over: the complete event, or nothing if it was superseded. *)
Complete(c, g) ==
  /\ refresh[c][g].step = "running" /\ coordinator[c].lock = "free"
  /\ \/ /\ MayEmit(c, g)
        /\ last' = Event(c, g, "complete")
        /\ refresh' = [refresh EXCEPT ![c][g].step = "complete"]
     \/ /\ ~MayEmit(c, g)
        /\ refresh' = Ended(refresh, c, g)
        /\ UNCHANGED last
  /\ UNCHANGED <<session, accepted, sent, request, current, bound, coordinator>>

(* finish: a generation that was superseded after its complete event has been
   summarised already. *)
FinishRefresh(c, g) ==
  LET mine == coordinator[c].active = g IN
  /\ refresh[c][g].step = "complete" /\ coordinator[c].lock = "free"
  /\ refresh' = Ended(Summarised(refresh, c, IF mine THEN g ELSE 0), c, g)
  /\ coordinator' = IF mine THEN [coordinator EXCEPT ![c].active = 0] ELSE coordinator
  /\ UNCHANGED <<session, accepted, sent, request, current, bound, last>>

RequestStep(h) ==
  \/ Load(h) \/ Swap(h) \/ Reload(h) \/ Open(h) \/ Ensure(h) \/ Begin(h) \/ BeginSelect(h)
  \/ Persist(h) \/ Commit(h) \/ BeginInvalid(h) \/ StartRefresh(h)
RefreshStep(c, g) == Complete(c, g) \/ FinishRefresh(c, g)

StreamNext ==
  \/ \E h \in Handlers : \/ RequestStep(h) \/ Disconnect(h)
                         \/ \E kind \in RequestKinds, n \in 0..MaxSequence : Send(h, kind, n)
  \/ \E c \in Coordinators : \/ Expire(c) \/ CloseExpired(c)
                             \/ \E g \in Generations : Deliver(c, g) \/ RefreshStep(c, g)

(* Handlers and refreshes run on: goroutines are scheduled, and whoever holds a
   mutex gives it back.  Clients may stay for ever. *)
StreamFairness ==
  /\ \A h \in Handlers : WF_streamVars(RequestStep(h))
  /\ \A c \in Coordinators :
       /\ WF_streamVars(CloseExpired(c))
       /\ \A g \in Generations : WF_streamVars(RefreshStep(c, g))

StreamSpec == StreamInit /\ [][StreamNext]_streamVars /\ StreamFairness

(***************************************************************************)
(* Properties.                                                             *)
(***************************************************************************)

(* The session loses no update: every filter command that was accepted advanced
   the revision, and the selection is the one accepted last, whatever commands
   ran in between. *)
NoSessionUpdateLost ==
  session.revision = 1 + accepted.filters /\ session.selection = accepted.selection

(* One coordinator serves the stream: an open one is the one in the registry. *)
OneOpenCoordinator ==
  \A c \in Coordinators : coordinator[c].state = "open" => current = c

(* A generation is summarised once, when it finishes, is superseded, or its
   coordinator closes: the started and the finished refreshes that are counted
   balance. *)
SummarisedOnce ==
  \A c \in Coordinators, g \in Generations :
    refresh[c][g].summaries = IF refresh[c][g].step = "none" \/ coordinator[c].active = g THEN 0 ELSE 1

(* The types and the accounts of coordinators and refreshes. *)
StreamConsistent == StreamTypeOK /\ OneOpenCoordinator /\ SummarisedOnce

(* The events of a coordinator come in the order of its generations, start
   first, complete last, and only while it is in the registry or its timer is
   just closing it. *)
EventsInOrder ==
  [][last' # last =>
       LET c == last'.coordinator IN
       /\ c = current \/ coordinator[c].state = "expiring"
       /\ last.coordinator = c =>
            /\ last.generation <= last'.generation
            /\ last'.generation = last.generation =>
                 last.type # "complete" /\ last'.type # "start"
       /\ last'.type # "start" => refresh[c][last'.generation].started]_last

(* Every request is answered, whoever holds the coordinator or changes the
   session; an open stream stays. *)
RequestsAnswered ==
  \A h \in Handlers : request[h].step # "idle" ~> request[h].step \in {"idle", "streaming"}
=============================================================================
