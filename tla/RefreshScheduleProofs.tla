------------------------ MODULE RefreshScheduleProofs ------------------------
(***************************************************************************)
(* Machine-checked facts about the schedule of a refresh pipeline, for any *)
(* dispatchers, artifacts, cron entries, instants and timeout: a claim is  *)
(* exclusive until it is taken away, and no due instant is forgotten.      *)
(* At the end, the schedule beside the activations.                        *)
(***************************************************************************)
EXTENDS MCCutover, ActivationProofs, WellFoundedInduction

-----------------------------------------------------------------------------
(* Least and greatest instants                                             *)

(* A nonempty set of naturals has a least element. *)
LEMMA LeastExists ==
  ASSUME NEW S \in SUBSET Nat, S # {}
  PROVE  \E m \in S : \A x \in S : m <= x
<1> DEFINE R == OpToRel(<, Nat)
<1>1. IsWellFoundedOn(R, Nat)
  BY NatLessThanWellFounded
<1>2. \E m \in S : \A x \in S : <<x, m>> \notin R
  <2> HIDE DEF R
  <2> QED
    BY <1>1, WFMin
<1>3. \A x, m \in Nat : <<x, m>> \notin R => m <= x
  BY DEF OpToRel
<1> QED
  BY <1>2, <1>3

(* ... which is its minimum. *)
LEMMA MinIsLeast ==
  ASSUME NEW S \in SUBSET Nat, S # {}
  PROVE  Min(S) \in S /\ Min(S) \in Nat /\ \A x \in S : Min(S) <= x
BY LeastExists DEF Min

(* The maximum of a nonempty bounded set of naturals is its greatest element. *)
LEMMA MaxIsGreatest ==
  ASSUME NEW S \in SUBSET Nat, S # {}, NEW n \in Nat, \A x \in S : x <= n
  PROVE  Max(S) \in S /\ Max(S) \in Nat /\ \A x \in S : x <= Max(S)
<1> DEFINE T == {n - x : x \in S}
<1>1. T \in SUBSET Nat /\ T # {}
  <2>1. \A x \in S : n - x \in Nat
    OBVIOUS
  <2> QED
    BY <2>1
<1>2. PICK m \in T : \A y \in T : m <= y
  <2> HIDE DEF T
  <2> QED
    BY <1>1, LeastExists
<1>3. PICK x \in S : m = n - x
  BY <1>2
<1>4. \A y \in S : n - x <= n - y
  BY <1>2, <1>3
<1>5. \A y \in S : x >= y
  BY <1>4
<1>6. Max(S) \in S /\ \A y \in S : Max(S) >= y
  BY <1>5 DEF Max
<1> QED
  BY <1>6

(* Every cron entry has a next instant, which is the first after t. *)
LEMMA NextFireIsNext ==
  ASSUME NEW c \in Crons, NEW t \in Instants
  PROVE  /\ NextFire(c, t) \in Nat /\ NextFire(c, t) > t
         /\ \A u \in Fires[c] : u > t => NextFire(c, t) <= u
<1> DEFINE S == {u \in Fires[c] : u > t}
<1>1. S \in SUBSET Nat /\ S # {}
  BY ScheduleAssumption DEF Instants
<1>2. NextFire(c, t) = Min(S)
  BY DEF NextFire
<1>3. NextFire(c, t) \in S /\ NextFire(c, t) \in Nat /\ \A u \in S : NextFire(c, t) <= u
  <2> HIDE DEF S
  <2> QED
    BY <1>1, <1>2, MinIsLeast
<1> QED
  BY <1>3

-----------------------------------------------------------------------------
(* What the schedules of a consistent state look like. *)
LEMMA ScheduleFields ==
  ASSUME ScheduleTypeOK
  PROVE  /\ schedule.digest \in Digests /\ schedule.since \in Instants
         /\ schedule.next \in [CronsOf[schedule.digest] -> Nat]
         /\ DOMAIN schedule.next = CronsOf[schedule.digest]
         /\ DOMAIN schedule.next \subseteq Crons
         /\ \A N \in [CronsOf[schedule.digest] -> Nat] :
              /\ \E a \in Digests :
                   [schedule EXCEPT !.next = N]
                      \in [digest : {a}, since : Instants, next : [CronsOf[a] -> Nat]]
              /\ [schedule EXCEPT !.next = N].next = N
              /\ [schedule EXCEPT !.next = N].digest = schedule.digest
              /\ [schedule EXCEPT !.next = N].since = schedule.since
<1>1. PICK a \in Digests :
        schedule \in [digest : {a}, since : Instants, next : [CronsOf[a] -> Nat]]
  BY DEF ScheduleTypeOK
<1> QED
  BY <1>1, ScheduleAssumption

(* Schedules written afresh. *)
LEMMA FreshFields ==
  ASSUME NEW a \in Digests, NEW t \in Instants
  PROVE  /\ FreshSchedule(a, t) \in [digest : {a}, since : Instants, next : [CronsOf[a] -> Nat]]
         /\ FreshSchedule(a, t).digest = a /\ FreshSchedule(a, t).since = t
         /\ DOMAIN FreshSchedule(a, t).next = CronsOf[a]
         /\ \A c \in CronsOf[a] : /\ FreshSchedule(a, t).next[c] > t
                                  /\ \A u \in Fires[c] : u > t => FreshSchedule(a, t).next[c] <= u
<1>1. \A c \in CronsOf[a] : c \in Crons
  BY ScheduleAssumption
<1> QED
  BY <1>1, NextFireIsNext DEF FreshSchedule

(* The artifact of the start is scheduled, and nothing is claimed. *)
LEMMA InitSchedule == ScheduleInit => ScheduleConsistent
<1> SUFFICES ASSUME ScheduleInit PROVE ScheduleConsistent
  OBVIOUS
<1>0. 0 \in Instants /\ FirstDigest \in Digests
  BY ScheduleAssumption DEF Instants
<1>1. NoRow \in OccurrenceRows /\ NoRow.state = "none"
  BY ScheduleAssumption DEF NoRow, OccurrenceRows
<1>2. IdleDispatcher \in DispatcherRows /\ IdleDispatcher.at = "idle"
  BY <1>0 DEF IdleDispatcher, DispatcherRows
<1>3. ScheduleTypeOK
  <2>1. \E a \in Digests :
          schedule \in [digest : {a}, since : Instants, next : [CronsOf[a] -> Nat]]
    BY <1>0, FreshFields DEF ScheduleInit
  <2>2. occurrence \in [Instants -> OccurrenceRows]
    BY <1>1 DEF ScheduleInit
  <2>3. dispatcher \in [Dispatchers -> DispatcherRows]
    BY <1>2 DEF ScheduleInit
  <2>4. now \in Instants /\ deployed \in Digests /\ runOpen \in BOOLEAN
    BY <1>0 DEF ScheduleInit
  <2>5. deploys \in 0..MaxDeploys /\ dispatchFaults \in 0..MaxDispatchFaults
    BY ScheduleAssumption DEF ScheduleInit
  <2>6. reconciler \in [Reconcilers -> Digests \cup {"none"}]
    BY DEF ScheduleInit
  <2> QED
    BY <2>1, <2>2, <2>3, <2>4, <2>5, <2>6 DEF ScheduleTypeOK
<1>4. ExclusiveClaims /\ ClaimsOfSchedule
  BY <1>1, <1>2 DEF ScheduleInit, ExclusiveClaims, ClaimsOfSchedule, Claimed
<1>5. NothingSkipped
  <2>1. schedule.since = 0 /\ now = 0
    BY <1>0, FreshFields DEF ScheduleInit
  <2>2. (schedule.since + 1)..now = {}
    BY <2>1
  <2> QED
    BY <1>0, <2>1, <2>2, FreshFields DEF ScheduleInit, NothingSkipped
<1> QED
  BY <1>3, <1>4, <1>5 DEF ScheduleConsistent

-----------------------------------------------------------------------------
(* The parts of ClaimDue. *)
KeptRows == [t \in Instants |-> IF t \in Abandoned THEN NoRow ELSE occurrence[t]]
DueEntries == {c \in DOMAIN schedule.next : Requeued[c] <= now}
LatestInstant == Max({LatestDue(c, Requeued[c]) : c \in DueEntries})
ClaimsLatest == DueEntries # {} /\ KeptRows[LatestInstant] = NoRow
NewClaim == [state |-> "claimed", digest |-> schedule.digest, age |-> 0]
Holders ==
  [e \in Dispatchers |->
     IF dispatcher[e].at # "idle" /\ dispatcher[e].due \in Abandoned
     THEN [dispatcher[e] EXCEPT !.lost = TRUE] ELSE dispatcher[e]]

LEMMA ClaimDueParts ==
  ASSUME NEW d \in Dispatchers, ClaimDue(d)
  PROVE  /\ dispatcher[d].at = "idle"
         /\ schedule' = [schedule EXCEPT !.next =
              [c \in DOMAIN schedule.next |->
                 IF c \in DueEntries THEN NextFire(c, now) ELSE Requeued[c]]]
         /\ occurrence' = IF ClaimsLatest THEN [KeptRows EXCEPT ![LatestInstant] = NewClaim]
                          ELSE KeptRows
         /\ dispatcher' = IF ClaimsLatest
              THEN [Holders EXCEPT ![d] = [at |-> "claimed", due |-> LatestInstant,
                      digest |-> schedule.digest, lost |-> FALSE]]
              ELSE Holders
         /\ UNCHANGED <<now, deployed, deploys, reconciler, runOpen, dispatchFaults>>
BY DEF ClaimDue, KeptRows, DueEntries, LatestInstant, ClaimsLatest, NewClaim, Holders, Wins

(* Requeued entries go back to an instant that was claimed and is past. *)
LEMMA RequeuedEntries ==
  ASSUME ScheduleConsistent, NEW c \in DOMAIN schedule.next
  PROVE  /\ Requeued[c] \in Nat
         /\ \/ /\ Requeued[c] <= now
            \/ /\ Requeued[c] = schedule.next[c]
               /\ \A t \in Abandoned : occurrence[t].digest # schedule.digest
<1> DEFINE own == {t \in Abandoned : occurrence[t].digest = schedule.digest}
<1>1. Requeued[c] = IF own = {} THEN schedule.next[c] ELSE Min(own)
  BY DEF Requeued
<1>2. own \in SUBSET Nat /\ \A t \in own : t <= now
  BY DEF Abandoned, Instants, ScheduleConsistent, ClaimsOfSchedule
<1>3. schedule.next[c] \in Nat
  BY ScheduleFields DEF ScheduleConsistent
<1>4. CASE own = {}
  BY <1>1, <1>3, <1>4
<1>5. CASE own # {}
  <2> HIDE DEF own
  <2>1. Min(own) \in own /\ Min(own) \in Nat
    BY <1>2, <1>5, MinIsLeast
  <2> QED
    BY <1>1, <1>2, <1>5, <2>1
<1> QED
  BY <1>4, <1>5

(* The instant that is claimed is none before any that is due. *)
LEMMA LatestCovers ==
  ASSUME ScheduleConsistent, DueEntries # {}
  PROVE  /\ LatestInstant \in Instants /\ LatestInstant <= now
         /\ \A c \in DueEntries : \A t \in Fires[c] : t <= now => t <= LatestInstant
<1>0. now \in Instants /\ now \in Nat /\ DueEntries \subseteq Crons
  BY ScheduleFields DEF ScheduleConsistent, ScheduleTypeOK, Instants, DueEntries
<1>1. ASSUME NEW c \in DueEntries
      PROVE  /\ LatestDue(c, Requeued[c]) \in Nat /\ LatestDue(c, Requeued[c]) <= now
             /\ \A t \in Fires[c] : t <= now => t <= LatestDue(c, Requeued[c])
  <2> DEFINE from == Requeued[c]
             S == {from} \cup {t \in Fires[c] : from < t /\ t <= now}
  <2>1. from \in Nat /\ from <= now
    BY <1>1, RequeuedEntries DEF DueEntries
  <2>2. S \in SUBSET Nat /\ S # {} /\ \A x \in S : x <= now
    BY <1>0, <1>1, <2>1, ScheduleAssumption
  <2>3. LatestDue(c, from) = Max(S)
    BY DEF LatestDue
  <2>4. Max(S) \in S /\ Max(S) \in Nat /\ \A x \in S : x <= Max(S)
    <3> HIDE DEF S
    <3> QED
      BY <1>0, <2>2, MaxIsGreatest
  <2>5. \A t \in Fires[c] : t \in Nat
    BY <1>0, <1>1, ScheduleAssumption
  <2>6. from \in S /\ \A t \in Fires[c] : from < t /\ t <= now => t \in S
    OBVIOUS
  <2>7. LatestDue(c, from) \in Nat /\ LatestDue(c, from) <= now /\ from <= LatestDue(c, from)
    BY <2>2, <2>3, <2>4, <2>6
  <2>8. ASSUME NEW t \in Fires[c], t <= now PROVE t <= LatestDue(c, from)
    <3> HIDE DEF S, from
    <3>1. CASE from < t
      BY <2>3, <2>4, <2>6, <2>8, <3>1
    <3>2. CASE ~(from < t)
      BY <2>1, <2>5, <2>7, <3>2
    <3> QED
      BY <3>1, <3>2
  <2> QED
    BY <2>7, <2>8
<1> DEFINE L == {LatestDue(c, Requeued[c]) : c \in DueEntries}
<1>2. L \in SUBSET Nat /\ L # {} /\ \A x \in L : x <= now
  BY <1>1
<1>3. LatestInstant \in L /\ LatestInstant \in Nat /\ \A x \in L : x <= LatestInstant
  <2>1. LatestInstant = Max(L)
    BY DEF LatestInstant
  <2> HIDE DEF L
  <2> QED
    BY <1>0, <1>2, <2>1, MaxIsGreatest
<1>4. LatestInstant <= now
  BY <1>2, <1>3
<1>5. ASSUME NEW c \in DueEntries, NEW t \in Fires[c], t <= now PROVE t <= LatestInstant
  <2>1. t \in Nat /\ LatestDue(c, Requeued[c]) \in L
    BY <1>0, ScheduleAssumption
  <2> QED
    BY <1>1, <1>3, <1>5, <2>1
<1> QED
  BY <1>0, <1>3, <1>4, <1>5, ScheduleAssumption DEF Instants

-----------------------------------------------------------------------------
(* What a step keeps                                                       *)

RowClaims ==
  \A t \in Instants :
    /\ occurrence[t].state = "none" => occurrence[t] = NoRow
    /\ Claimed(t) => t <= now
    /\ Claimed(t) /\ t > schedule.since => occurrence[t].digest = schedule.digest

HolderClaims ==
  \A d \in Dispatchers : dispatcher[d].at # "idle" =>
    LET t == dispatcher[d].due
    IN  /\ t <= now
        /\ t > schedule.since => dispatcher[d].digest = schedule.digest
        /\ ~dispatcher[d].lost => occurrence[t] # NoRow

LEMMA ClaimParts == ClaimsOfSchedule <=> RowClaims /\ HolderClaims
BY DEF ClaimsOfSchedule, RowClaims, HolderClaims

(* The types that every step moves on its own. *)
OtherTypes ==
  /\ now \in Instants
  /\ deployed \in Digests
  /\ deploys \in 0..MaxDeploys
  /\ reconciler \in [Reconcilers -> Digests \cup {"none"}]
  /\ runOpen \in BOOLEAN
  /\ dispatchFaults \in 0..MaxDispatchFaults

ScheduleTyped ==
  \E a \in Digests : schedule \in [digest : {a}, since : Instants, next : [CronsOf[a] -> Nat]]

(* The schedules keep the artifact they were written for. *)
SameSchedules ==
  /\ schedule'.digest = schedule.digest /\ schedule'.since = schedule.since
  /\ now <= now'

(* A dispatcher at work was at work on the same occurrence, and has its    *)
(* row unless it knows that it lost it.                                    *)
HoldersFollow ==
  \A d \in Dispatchers :
    \/ dispatcher'[d].at = "idle"
    \/ /\ dispatcher[d].at # "idle"
       /\ dispatcher'[d].due = dispatcher[d].due
       /\ dispatcher'[d].digest = dispatcher[d].digest
       /\ dispatcher[d].lost => dispatcher'[d].lost
       /\ ~dispatcher'[d].lost /\ occurrence[dispatcher[d].due] # NoRow
            => occurrence'[dispatcher[d].due] # NoRow

(* A claim is an old one, and a row that is gone is no row. *)
RowsFollow ==
  \A t \in Instants :
    /\ occurrence'[t].state = "none" => occurrence'[t] = NoRow
    /\ occurrence'[t].state = "claimed" =>
         Claimed(t) /\ occurrence'[t].digest = occurrence[t].digest

Covers(u) == Attached(u) \/ (Claimed(u) /\ occurrence[u].digest = schedule.digest)

LEMMA HoldersKeep ==
  ASSUME ScheduleConsistent, now' \in Instants, SameSchedules, HoldersFollow,
         dispatcher \in [Dispatchers -> DispatcherRows]
  PROVE  ExclusiveClaims' /\ HolderClaims'
<1>1. HolderClaims
  BY ClaimParts DEF ScheduleConsistent
<1>2. now \in Nat /\ now' \in Nat
  BY DEF ScheduleConsistent, ScheduleTypeOK, Instants
<1>3. \A d \in Dispatchers : dispatcher[d].due \in Nat
  BY DEF DispatcherRows, Instants
<1>4. ExclusiveClaims'
  BY DEF ScheduleConsistent, ExclusiveClaims, HoldersFollow
<1>5. HolderClaims'
  BY <1>1, <1>2, <1>3 DEF HolderClaims, HoldersFollow, SameSchedules
<1> QED
  BY <1>4, <1>5

LEMMA RowsKeep ==
  ASSUME ScheduleConsistent, now' \in Instants, SameSchedules, RowsFollow
  PROVE  RowClaims'
<1>1. RowClaims
  BY ClaimParts DEF ScheduleConsistent
<1>2. now \in Nat /\ now' \in Nat /\ \A t \in Instants : t \in Nat
  BY DEF ScheduleConsistent, ScheduleTypeOK, Instants
<1> QED
  BY <1>1, <1>2 DEF RowClaims, RowsFollow, SameSchedules, Claimed

(* With the entries unchanged, no cover may go. *)
LEMMA CoversKeep ==
  ASSUME ScheduleConsistent, UNCHANGED <<now, schedule>>,
         \A u \in Instants : Covers(u) => Covers(u)'
  PROVE  NothingSkipped'
<1>1. NothingSkipped
  BY DEF ScheduleConsistent
<1>2. \A t \in (schedule.since + 1)..now : \A u \in t..Horizon : u \in Instants
  BY ScheduleFields DEF ScheduleConsistent, Instants
<1>3. ASSUME NEW c \in DOMAIN schedule.next, schedule.next[c] > now,
             NEW t \in Fires[c] \cap ((schedule.since + 1)..now)
      PROVE  \E u \in t..Horizon : Covers(u)'
  <2>1. PICK u \in t..Horizon : Covers(u)
    BY <1>1, <1>3 DEF NothingSkipped, Covers
  <2> QED
    BY <1>2, <2>1
<1>4. \A c \in DOMAIN schedule.next : \A t \in Fires[c] : t > now => schedule.next[c] <= t
  BY <1>1 DEF NothingSkipped
<1> QED
  BY <1>3, <1>4 DEF NothingSkipped, Covers, Attached, Claimed

LEMMA Assembled ==
  ASSUME OtherTypes', ScheduleTyped', occurrence' \in [Instants -> OccurrenceRows],
         dispatcher' \in [Dispatchers -> DispatcherRows],
         ExclusiveClaims', RowClaims', HolderClaims', NothingSkipped'
  PROVE  ScheduleConsistent'
<1>1. ScheduleTypeOK'
  BY DEF ScheduleTypeOK, OtherTypes, ScheduleTyped
<1>2. ClaimsOfSchedule'
  BY ClaimParts DEF ClaimsOfSchedule, RowClaims, HolderClaims
<1> QED
  BY <1>1, <1>2 DEF ScheduleConsistent

LEMMA TypeParts ==
  ASSUME ScheduleConsistent
  PROVE  /\ OtherTypes /\ ScheduleTyped
         /\ occurrence \in [Instants -> OccurrenceRows]
         /\ dispatcher \in [Dispatchers -> DispatcherRows]
         /\ ExclusiveClaims /\ RowClaims /\ HolderClaims /\ NothingSkipped
         /\ now \in Nat /\ Instants \subseteq Nat
         /\ schedule.since \in Nat /\ schedule.digest \in Digests
         /\ \A t \in Instants : /\ occurrence[t].state \in {"none", "claimed", "attached"}
                                /\ occurrence[t] \in OccurrenceRows
         /\ \A d \in Dispatchers : /\ dispatcher[d] \in DispatcherRows
                                   /\ dispatcher[d].due \in Instants
         /\ NoRow.state = "none" /\ NoRow \in OccurrenceRows
         /\ IdleDispatcher.at = "idle" /\ IdleDispatcher \in DispatcherRows
<1>1. OtherTypes /\ ScheduleTyped
  BY DEF ScheduleConsistent, ScheduleTypeOK, OtherTypes, ScheduleTyped
<1>2. /\ occurrence \in [Instants -> OccurrenceRows]
      /\ dispatcher \in [Dispatchers -> DispatcherRows]
  BY DEF ScheduleConsistent, ScheduleTypeOK
<1>3. ExclusiveClaims /\ RowClaims /\ HolderClaims /\ NothingSkipped
  BY ClaimParts DEF ScheduleConsistent
<1>4. now \in Nat /\ Instants \subseteq Nat
  BY <1>1 DEF OtherTypes, Instants
<1>5. schedule.since \in Nat /\ schedule.digest \in Digests
  BY <1>4, ScheduleFields DEF ScheduleConsistent
<1>6. \A t \in Instants : occurrence[t] \in OccurrenceRows
  BY <1>2
<1>7. \A d \in Dispatchers : dispatcher[d] \in DispatcherRows
  BY <1>2
<1>8. NoRow.state = "none" /\ NoRow \in OccurrenceRows
  BY ScheduleAssumption DEF NoRow, OccurrenceRows
<1>9. IdleDispatcher.at = "idle" /\ IdleDispatcher \in DispatcherRows
  BY ScheduleAssumption DEF IdleDispatcher, DispatcherRows, Instants
<1>10. \A t \in Instants : occurrence[t].state \in {"none", "claimed", "attached"}
  BY <1>6 DEF OccurrenceRows
<1>11. \A d \in Dispatchers : dispatcher[d].due \in Instants
  BY <1>7 DEF DispatcherRows
<1> QED
  BY <1>1, <1>2, <1>3, <1>4, <1>5, <1>6, <1>7, <1>8, <1>9, <1>10, <1>11

-----------------------------------------------------------------------------
(* The steps that leave clock, rows and schedules alone. *)
LEMMA ScheduleKept ==
  ASSUME ScheduleConsistent, OtherTypes', UNCHANGED <<now, schedule, occurrence>>,
         dispatcher' \in [Dispatchers -> DispatcherRows],
         \A d \in Dispatchers :
           \/ dispatcher'[d].at = "idle"
           \/ /\ dispatcher[d].at # "idle"
              /\ dispatcher'[d].due = dispatcher[d].due
              /\ dispatcher'[d].digest = dispatcher[d].digest
              /\ dispatcher'[d].lost = dispatcher[d].lost
  PROVE  ScheduleConsistent'
<1>1. SameSchedules /\ now' \in Instants
  BY TypeParts DEF SameSchedules, OtherTypes
<1>2. HoldersFollow
  BY DEF HoldersFollow
<1>3. RowsFollow
  BY TypeParts DEF RowsFollow, Claimed, RowClaims
<1>4. ExclusiveClaims' /\ HolderClaims' /\ RowClaims'
  BY <1>1, <1>2, <1>3, HoldersKeep, RowsKeep, TypeParts
<1>5. NothingSkipped'
  <2>1. \A u \in Instants : Covers(u) => Covers(u)'
    BY DEF Covers, Attached, Claimed
  <2> QED
    BY <2>1, CoversKeep, TypeParts
<1>6. ScheduleTyped'
  BY TypeParts DEF ScheduleTyped
<1>7. occurrence' \in [Instants -> OccurrenceRows]
  BY TypeParts
<1> QED
  BY <1>4, <1>5, <1>6, <1>7, Assembled

LEMMA CalmSteps ==
  ASSUME ScheduleConsistent,
         \/ OtherRuns
         \/ \E a \in Digests : Deploy(a)
         \/ \E r \in Reconcilers : ReadActive(r)
         \/ \E d \in Dispatchers : CheckArtifact(d) \/ DependencyFails(d) \/ DispatcherDies(d)
  PROVE  ScheduleConsistent'
<1>0. OtherTypes /\ deploys \in Nat /\ dispatchFaults \in Nat
  BY TypeParts DEF OtherTypes
<1>1. CASE OtherRuns
  <2>1. UNCHANGED <<now, schedule, occurrence, dispatcher>>
    BY <1>1 DEF OtherRuns
  <2>2. OtherTypes'
    BY <1>0, <1>1 DEF OtherRuns, OtherTypes
  <2> QED
    BY <2>1, <2>2, ScheduleKept, TypeParts
<1>2. ASSUME NEW a \in Digests, Deploy(a) PROVE ScheduleConsistent'
  <2>1. UNCHANGED <<now, schedule, occurrence, dispatcher>>
    BY <1>2 DEF Deploy
  <2>2. OtherTypes'
    <3>1. deploys' \in 0..MaxDeploys
      BY <1>0, <1>2, ScheduleAssumption DEF Deploy
    <3> QED
      BY <1>0, <1>2, <3>1 DEF Deploy, OtherTypes
  <2> QED
    BY <2>1, <2>2, ScheduleKept, TypeParts
<1>3. ASSUME NEW r \in Reconcilers, ReadActive(r) PROVE ScheduleConsistent'
  <2>1. UNCHANGED <<now, schedule, occurrence, dispatcher>>
    BY <1>3 DEF ReadActive
  <2>2. OtherTypes'
    BY <1>0, <1>3 DEF ReadActive, OtherTypes
  <2> QED
    BY <2>1, <2>2, ScheduleKept, TypeParts
<1>4. ASSUME NEW d \in Dispatchers, dispatcher[d].at # "idle",
             NEW at \in {"checked", "releasing"}, DispatcherGoes(d, at),
             OtherTypes', UNCHANGED <<now, schedule, occurrence>>
      PROVE  ScheduleConsistent'
  <2>1. [dispatcher[d] EXCEPT !.at = at] \in DispatcherRows
    BY TypeParts DEF DispatcherRows
  <2>2. dispatcher' \in [Dispatchers -> DispatcherRows]
    BY <1>4, <2>1, TypeParts DEF DispatcherGoes
  <2>3. /\ dispatcher'[d].due = dispatcher[d].due
        /\ dispatcher'[d].digest = dispatcher[d].digest
        /\ dispatcher'[d].lost = dispatcher[d].lost
    BY <1>4, TypeParts DEF DispatcherGoes, DispatcherRows
  <2>4. \A e \in Dispatchers \ {d} : dispatcher'[e] = dispatcher[e]
    BY <1>4, TypeParts DEF DispatcherGoes
  <2> QED
    BY <1>4, <2>2, <2>3, <2>4, ScheduleKept
<1>5. ASSUME NEW d \in Dispatchers, CheckArtifact(d) PROVE ScheduleConsistent'
  <2>1. OtherTypes' /\ UNCHANGED <<now, schedule, occurrence>> /\ dispatcher[d].at # "idle"
    BY <1>0, <1>5 DEF CheckArtifact, OtherTypes
  <2>2. DispatcherGoes(d, "checked") \/ DispatcherGoes(d, "releasing")
    BY <1>5 DEF CheckArtifact
  <2> QED
    BY <1>4, <2>1, <2>2
<1>6. ASSUME Spend PROVE dispatchFaults' \in 0..MaxDispatchFaults
  BY <1>0, <1>6, ScheduleAssumption DEF Spend
<1>7. ASSUME NEW d \in Dispatchers, DependencyFails(d) PROVE ScheduleConsistent'
  <2>1. OtherTypes' /\ UNCHANGED <<now, schedule, occurrence>> /\ dispatcher[d].at # "idle"
    BY <1>0, <1>6, <1>7 DEF DependencyFails, OtherTypes
  <2>2. DispatcherGoes(d, "releasing")
    BY <1>7 DEF DependencyFails
  <2> QED
    BY <1>4, <2>1, <2>2
<1>8. ASSUME NEW d \in Dispatchers, DispatcherDies(d) PROVE ScheduleConsistent'
  <2>1. OtherTypes' /\ UNCHANGED <<now, schedule, occurrence>>
    BY <1>0, <1>6, <1>8 DEF DispatcherDies, OtherTypes
  <2>2. dispatcher' = [dispatcher EXCEPT ![d] = IdleDispatcher]
    BY <1>8 DEF DispatcherDies
  <2>3. dispatcher' \in [Dispatchers -> DispatcherRows]
    BY <2>2, TypeParts
  <2>4. \A e \in Dispatchers : dispatcher'[e].at = "idle" \/ dispatcher'[e] = dispatcher[e]
    BY <2>2, TypeParts
  <2>5. \A e \in Dispatchers : dispatcher'[e].at = "idle" \/
           (dispatcher[e].at # "idle" /\ dispatcher'[e] = dispatcher[e])
    BY <2>4
  <2> QED
    BY <2>1, <2>3, <2>5, ScheduleKept
<1> QED
  BY <1>1, <1>2, <1>3, <1>5, <1>7, <1>8

(* A claim grows older; an entry that is not due has none due at the new   *)
(* instant.                                                                *)
LEMMA PassTimeStep ==
  ASSUME ScheduleConsistent, PassTime
  PROVE  ScheduleConsistent'
<1>0. UNCHANGED <<deployed, deploys, schedule, dispatcher, reconciler, runOpen, dispatchFaults>>
  BY DEF PassTime
<1>1. now' \in Instants /\ now <= now' /\ (now' = now \/ now' = now + 1)
  BY TypeParts, ScheduleAssumption DEF PassTime, Instants, OtherTypes
<1>2. ASSUME NEW t \in Instants
      PROVE  /\ occurrence'[t] \in OccurrenceRows
             /\ occurrence'[t].state = occurrence[t].state
             /\ occurrence'[t].digest = occurrence[t].digest
             /\ ~Claimed(t) => occurrence'[t] = occurrence[t]
  <2>1. occurrence'[t] = IF Claimed(t) /\ occurrence[t].age < ClaimTimeout
                         THEN [occurrence[t] EXCEPT !.age = @ + 1] ELSE occurrence[t]
    BY DEF PassTime
  <2>2. CASE Claimed(t) /\ occurrence[t].age < ClaimTimeout
    <3>1. occurrence[t].age + 1 \in 0..ClaimTimeout
      BY <2>2, TypeParts, ScheduleAssumption DEF OccurrenceRows
    <3> QED
      BY <2>1, <2>2, <3>1, TypeParts DEF OccurrenceRows
  <2>3. CASE ~(Claimed(t) /\ occurrence[t].age < ClaimTimeout)
    BY <2>1, <2>3, TypeParts
  <2> QED
    BY <2>2, <2>3
<1>3. occurrence' \in [Instants -> OccurrenceRows]
  BY <1>2 DEF PassTime
<1>4. SameSchedules
  BY <1>0, <1>1 DEF SameSchedules
<1>5. RowsFollow
  BY <1>2, TypeParts DEF RowsFollow, Claimed, RowClaims
<1>6. HoldersFollow
  <2>1. \A t \in Instants : occurrence[t] # NoRow => occurrence'[t] # NoRow
    BY <1>2, TypeParts DEF RowClaims
  <2> QED
    BY <1>0, <2>1, TypeParts DEF HoldersFollow
<1>7. ExclusiveClaims' /\ HolderClaims' /\ RowClaims'
  BY <1>1, <1>4, <1>5, <1>6, HoldersKeep, RowsKeep, TypeParts
<1>8. NothingSkipped'
  <2>1. \A u \in Instants : Covers(u) => Covers(u)'
    BY <1>0, <1>2 DEF Covers, Attached, Claimed
  <2>2. \A c \in DOMAIN schedule.next : schedule.next[c] \in Nat
    BY ScheduleFields DEF ScheduleConsistent
  <2>3. \A c \in DOMAIN schedule.next : \A t \in Fires[c] : t \in Nat
    BY ScheduleFields, ScheduleAssumption DEF ScheduleConsistent
  <2>4. ASSUME NEW c \in DOMAIN schedule.next, schedule.next[c] > now',
               NEW t \in Fires[c] \cap ((schedule.since + 1)..now')
        PROVE  \E u \in t..Horizon : Covers(u)'
    <3>1. schedule.next[c] > now /\ t \in Nat
      BY <1>1, <2>2, <2>3, <2>4, TypeParts
    <3>2. t <= now
      <4>1. t > now => schedule.next[c] <= t
        BY TypeParts DEF NothingSkipped
      <4>2. t <= now'
        BY <1>1, <2>4, TypeParts
      <4> QED
        BY <1>1, <2>2, <2>4, <3>1, <4>1, <4>2, TypeParts
    <3>3. t \in Fires[c] \cap ((schedule.since + 1)..now)
      BY <2>4, <3>2, TypeParts
    <3>4. PICK u \in t..Horizon : Covers(u)
      BY <3>1, <3>3, TypeParts DEF NothingSkipped, Covers
    <3>5. u \in Instants
      BY <3>1 DEF Instants
    <3> QED
      BY <2>1, <3>4, <3>5
  <2>5. \A c \in DOMAIN schedule.next : \A t \in Fires[c] : t > now' => schedule.next[c] <= t
    BY <1>1, <2>3, TypeParts DEF NothingSkipped
  <2> QED
    BY <1>0, <2>4, <2>5 DEF NothingSkipped, Covers, Attached, Claimed
<1>9. OtherTypes' /\ ScheduleTyped'
  BY <1>0, <1>1, TypeParts DEF OtherTypes, ScheduleTyped
<1>10. dispatcher' \in [Dispatchers -> DispatcherRows]
  BY <1>0, TypeParts
<1> QED
  BY <1>3, <1>7, <1>8, <1>9, <1>10, Assembled

(* Fresh schedules owe nothing yet. *)
LEMMA ReconcileStep ==
  ASSUME ScheduleConsistent, NEW r \in Reconcilers, Reconcile(r)
  PROVE  ScheduleConsistent'
<1> DEFINE a == reconciler[r]
<1>0. UNCHANGED <<now, deployed, deploys, occurrence, dispatcher, runOpen, dispatchFaults>>
  BY DEF Reconcile
<1>1. a \in Digests
  BY TypeParts DEF Reconcile, OtherTypes
<1>2. OtherTypes'
  BY <1>0, TypeParts DEF Reconcile, OtherTypes
<1>3. CASE schedule.digest = a
  <2>1. UNCHANGED schedule
    BY <1>3 DEF Reconcile, Reconciled
  <2> QED
    BY <1>0, <1>2, <2>1, ScheduleKept, TypeParts
<1>4. CASE schedule.digest # a
  <2>1. schedule' = FreshSchedule(a, now) /\ now \in Instants
    BY <1>4, TypeParts DEF Reconcile, Reconciled, OtherTypes
  <2>2. /\ schedule' \in [digest : {a}, since : Instants, next : [CronsOf[a] -> Nat]]
        /\ schedule'.since = now /\ DOMAIN schedule'.next = CronsOf[a]
        /\ \A c \in CronsOf[a] : /\ schedule'.next[c] > now
                                 /\ \A u \in Fires[c] : u > now => schedule'.next[c] <= u
    BY <1>1, <2>1, FreshFields
  <2>3. ScheduleTyped'
    BY <1>1, <2>2 DEF ScheduleTyped
  <2>4. RowClaims' /\ HolderClaims'
    BY <1>0, <2>2, TypeParts DEF RowClaims, HolderClaims, Claimed
  <2>5. ExclusiveClaims'
    BY <1>0, TypeParts DEF ExclusiveClaims
  <2>6. NothingSkipped'
    <3>1. (schedule'.since + 1)..now' = {}
      BY <1>0, <2>2, TypeParts
    <3> QED
      BY <1>0, <2>2, <3>1 DEF NothingSkipped
  <2>7. /\ occurrence' \in [Instants -> OccurrenceRows]
        /\ dispatcher' \in [Dispatchers -> DispatcherRows]
    BY <1>0, TypeParts
  <2> QED
    BY <1>2, <2>3, <2>4, <2>5, <2>6, <2>7, Assembled
<1> QED
  BY <1>3, <1>4

-----------------------------------------------------------------------------
(* Attachment: a claimed or attached row becomes attached, or no row moves. *)
LEMMA AttachedFields ==
  ASSUME ScheduleConsistent, NEW t \in Instants, occurrence[t] # NoRow,
         occurrence' = AttachedRow(t)
  PROVE  /\ occurrence' \in [Instants -> OccurrenceRows]
         /\ occurrence'[t].state = "attached"
         /\ \A u \in Instants \ {t} : occurrence'[u] = occurrence[u]
<1> DEFINE attached == [occurrence[t] EXCEPT !.state = "attached", !.age = 0]
<1>1. attached \in OccurrenceRows /\ attached.state = "attached"
  <2>1. occurrence[t] \in OccurrenceRows
    BY TypeParts
  <2>2. 0 \in 0..ClaimTimeout
    BY ScheduleAssumption
  <2> QED
    BY <2>1, <2>2 DEF OccurrenceRows
<1>2. occurrence' = [occurrence EXCEPT ![t] = attached]
  BY TypeParts DEF AttachedRow
<1> HIDE DEF attached
<1> QED
  BY <1>1, <1>2, TypeParts

LEMMA AttachStep ==
  ASSUME ScheduleConsistent, NEW t \in Instants, OtherTypes', UNCHANGED <<now, schedule>>,
         \/ UNCHANGED occurrence
         \/ occurrence[t] # NoRow /\ occurrence' = AttachedRow(t),
         dispatcher' \in [Dispatchers -> DispatcherRows],
         \A d \in Dispatchers :
           \/ dispatcher'[d].at = "idle"
           \/ /\ dispatcher[d].at # "idle"
              /\ dispatcher'[d].due = dispatcher[d].due
              /\ dispatcher'[d].digest = dispatcher[d].digest
              /\ dispatcher'[d].lost = dispatcher[d].lost
  PROVE  ScheduleConsistent'
<1>1. CASE UNCHANGED occurrence
  BY <1>1, ScheduleKept
<1>2. CASE occurrence[t] # NoRow /\ occurrence' = AttachedRow(t)
  <2>1. /\ occurrence' \in [Instants -> OccurrenceRows]
        /\ occurrence'[t].state = "attached"
        /\ \A u \in Instants \ {t} : occurrence'[u] = occurrence[u]
    BY <1>2, AttachedFields
  <2>2. SameSchedules /\ now' \in Instants
    BY TypeParts DEF SameSchedules, OtherTypes
  <2>3. RowsFollow
    BY <2>1, TypeParts DEF RowsFollow, Claimed, RowClaims
  <2>4. HoldersFollow
    <3>1. \A u \in Instants : occurrence[u] # NoRow => occurrence'[u] # NoRow
      BY <2>1, TypeParts
    <3> QED
      BY <3>1, TypeParts DEF HoldersFollow
  <2>5. NothingSkipped'
    <3>1. \A u \in Instants : Covers(u) => Covers(u)'
      BY <2>1 DEF Covers, Attached, Claimed
    <3> QED
      BY <3>1, CoversKeep
  <2>6. ScheduleTyped'
    BY TypeParts DEF ScheduleTyped
  <2> QED
    BY <2>1, <2>2, <2>3, <2>4, <2>5, <2>6, HoldersKeep, RowsKeep, Assembled, TypeParts
<1> QED
  BY <1>1, <1>2

LEMMA CreateScheduledRunStep ==
  ASSUME ScheduleConsistent, NEW d \in Dispatchers, CreateScheduledRun(d)
  PROVE  ScheduleConsistent'
<1> DEFINE t == dispatcher[d].due
<1>0. t \in Instants /\ dispatchFaults \in Nat
  BY TypeParts DEF OtherTypes
<1>1. UNCHANGED <<now, deployed, deploys, schedule, reconciler>> /\ dispatcher[d].at # "idle"
  BY DEF CreateScheduledRun
<1>2. \/ UNCHANGED occurrence
      \/ occurrence[t] # NoRow /\ occurrence' = AttachedRow(t)
  BY DEF CreateScheduledRun
<1>3. OtherTypes'
  <2>1. \/ UNCHANGED dispatchFaults
        \/ dispatchFaults < MaxDispatchFaults /\ dispatchFaults' = dispatchFaults + 1
    BY DEF CreateScheduledRun, Spend
  <2>2. dispatchFaults' \in 0..MaxDispatchFaults
    BY <1>0, <2>1, TypeParts, ScheduleAssumption DEF OtherTypes
  <2>3. runOpen' = TRUE \/ UNCHANGED runOpen
    BY DEF CreateScheduledRun
  <2> QED
    BY <1>1, <2>2, <2>3, TypeParts DEF OtherTypes
<1>4. PICK at \in {"created", "releasing"} : DispatcherGoes(d, at)
  <2>1. DispatcherGoes(d, "created") \/ DispatcherGoes(d, "releasing")
    BY DEF CreateScheduledRun
  <2> QED
    BY <2>1
<1>5. [dispatcher[d] EXCEPT !.at = at] \in DispatcherRows
  BY TypeParts DEF DispatcherRows
<1>6. dispatcher' \in [Dispatchers -> DispatcherRows]
  BY <1>4, <1>5, TypeParts DEF DispatcherGoes
<1>7. /\ dispatcher'[d].due = dispatcher[d].due
      /\ dispatcher'[d].digest = dispatcher[d].digest
      /\ dispatcher'[d].lost = dispatcher[d].lost
  BY <1>4, TypeParts DEF DispatcherGoes, DispatcherRows
<1>8. \A e \in Dispatchers \ {d} : dispatcher'[e] = dispatcher[e]
  BY <1>4, TypeParts DEF DispatcherGoes
<1>9. \A e \in Dispatchers :
        \/ dispatcher'[e].at = "idle"
        \/ /\ dispatcher[e].at # "idle"
           /\ dispatcher'[e].due = dispatcher[e].due
           /\ dispatcher'[e].digest = dispatcher[e].digest
           /\ dispatcher'[e].lost = dispatcher[e].lost
  BY <1>1, <1>7, <1>8
<1> HIDE DEF t
<1> QED
  BY <1>0, <1>1, <1>2, <1>3, <1>6, <1>9, AttachStep

LEMMA AttachRunStep ==
  ASSUME ScheduleConsistent, NEW d \in Dispatchers, AttachRun(d)
  PROVE  ScheduleConsistent'
<1> DEFINE t == dispatcher[d].due
<1>0. t \in Instants /\ dispatchFaults \in Nat
  BY TypeParts DEF OtherTypes
<1>1. UNCHANGED <<now, deployed, deploys, schedule, reconciler, runOpen>>
  BY DEF AttachRun
<1>2. \/ UNCHANGED occurrence
      \/ occurrence[t] # NoRow /\ occurrence' = AttachedRow(t)
  BY DEF AttachRun
<1>3. OtherTypes'
  <2>1. dispatchFaults' \in 0..MaxDispatchFaults
    BY <1>0, TypeParts, ScheduleAssumption DEF AttachRun, Spend, OtherTypes
  <2> QED
    BY <1>1, <2>1, TypeParts DEF OtherTypes
<1>4. dispatcher' = [dispatcher EXCEPT ![d] = IdleDispatcher]
  BY DEF AttachRun
<1>5. dispatcher' \in [Dispatchers -> DispatcherRows]
  BY <1>4, TypeParts
<1>6. \A e \in Dispatchers : dispatcher'[e].at = "idle" \/ dispatcher'[e] = dispatcher[e]
  BY <1>4, TypeParts
<1>7. \A e \in Dispatchers :
        \/ dispatcher'[e].at = "idle"
        \/ /\ dispatcher[e].at # "idle"
           /\ dispatcher'[e].due = dispatcher[e].due
           /\ dispatcher'[e].digest = dispatcher[e].digest
           /\ dispatcher'[e].lost = dispatcher[e].lost
  BY <1>6
<1> HIDE DEF t
<1> QED
  BY <1>0, <1>1, <1>2, <1>3, <1>5, <1>7, AttachStep

-----------------------------------------------------------------------------
(* A released occurrence of the schedules' artifact is due again; one of an *)
(* older artifact covered nothing.                                         *)
LEMMA ReleaseOccurrenceStep ==
  ASSUME ScheduleConsistent, NEW d \in Dispatchers, ReleaseOccurrence(d)
  PROVE  ScheduleConsistent'
<1> DEFINE t == dispatcher[d].due
           a == dispatcher[d].digest
<1>0. t \in Instants /\ t \in Nat /\ now \in Nat /\ dispatcher[d].at # "idle"
  BY TypeParts DEF ReleaseOccurrence
<1>1. UNCHANGED <<now, deployed, deploys, reconciler, runOpen, dispatchFaults>>
  BY DEF ReleaseOccurrence
<1>2. OtherTypes'
  BY <1>1, TypeParts DEF OtherTypes
<1>3. t <= now /\ (t > schedule.since => a = schedule.digest)
  BY <1>0, TypeParts DEF HolderClaims
<1>4. CASE ~Claimed(t)
  <2>1. UNCHANGED <<occurrence, schedule>> /\ dispatcher' = [dispatcher EXCEPT ![d] = IdleDispatcher]
    BY <1>4 DEF ReleaseOccurrence
  <2>2. dispatcher' \in [Dispatchers -> DispatcherRows]
    BY <2>1, TypeParts
  <2>3. \A e \in Dispatchers : dispatcher'[e].at = "idle" \/ dispatcher'[e] = dispatcher[e]
    BY <2>1, TypeParts
  <2>4. \A e \in Dispatchers :
          \/ dispatcher'[e].at = "idle"
          \/ /\ dispatcher[e].at # "idle"
             /\ dispatcher'[e].due = dispatcher[e].due
             /\ dispatcher'[e].digest = dispatcher[e].digest
             /\ dispatcher'[e].lost = dispatcher[e].lost
    BY <2>3
  <2> QED
    BY <1>1, <1>2, <2>1, <2>2, <2>4, ScheduleKept
<1>5. CASE Claimed(t)
  <2>1. /\ occurrence' = [occurrence EXCEPT ![t] = NoRow]
        /\ schedule' = [schedule EXCEPT !.next = Retried(t, a)]
        /\ dispatcher' = [e \in Dispatchers |->
             IF e = d THEN IdleDispatcher
             ELSE IF dispatcher[e].at # "idle" /\ dispatcher[e].due = t
             THEN [dispatcher[e] EXCEPT !.lost = TRUE]
             ELSE dispatcher[e]]
    BY <1>5 DEF ReleaseOccurrence
  <2>2. /\ occurrence' \in [Instants -> OccurrenceRows] /\ occurrence'[t] = NoRow
        /\ \A u \in Instants \ {t} : occurrence'[u] = occurrence[u]
    BY <1>0, <2>1, TypeParts
  <2>3. Retried(t, a) \in [CronsOf[schedule.digest] -> Nat]
    BY <1>0, ScheduleFields DEF ScheduleConsistent, Retried
  <2>4. /\ ScheduleTyped' /\ schedule'.next = Retried(t, a)
        /\ schedule'.digest = schedule.digest /\ schedule'.since = schedule.since
    <3>1. schedule' = [schedule EXCEPT !.next = Retried(t, a)]
      BY <2>1
    <3> HIDE DEF t, a
    <3> QED
      BY <2>3, <3>1, ScheduleFields DEF ScheduleConsistent, ScheduleTyped
  <2>5. SameSchedules /\ now' \in Instants
    BY <1>0, <1>1, <2>4, TypeParts DEF SameSchedules, OtherTypes
  <2>6. \A e \in Dispatchers \ {d} :
          /\ dispatcher[e].at # "idle" /\ dispatcher[e].due = t =>
               dispatcher'[e] = [dispatcher[e] EXCEPT !.lost = TRUE]
          /\ dispatcher[e].at = "idle" \/ dispatcher[e].due # t => dispatcher'[e] = dispatcher[e]
    BY <2>1
  <2>7. \A e \in Dispatchers :
          LET r == [dispatcher[e] EXCEPT !.lost = TRUE]
          IN  /\ r \in DispatcherRows /\ r.lost = TRUE /\ r.at = dispatcher[e].at
              /\ r.due = dispatcher[e].due /\ r.digest = dispatcher[e].digest
    BY TypeParts DEF DispatcherRows
  <2>8. dispatcher'[d] = IdleDispatcher
    BY <2>1
  <2>9. dispatcher' \in [Dispatchers -> DispatcherRows]
    BY <2>1, <2>7, TypeParts
  <2>10. HoldersFollow
    <3>1. ASSUME NEW e \in Dispatchers \ {d}, dispatcher'[e].at # "idle"
          PROVE  /\ dispatcher[e].at # "idle"
                 /\ dispatcher'[e].due = dispatcher[e].due
                 /\ dispatcher'[e].digest = dispatcher[e].digest
                 /\ dispatcher[e].lost => dispatcher'[e].lost
                 /\ ~dispatcher'[e].lost => dispatcher[e].due # t
      <4>1. CASE dispatcher[e].at # "idle" /\ dispatcher[e].due = t
        BY <2>6, <2>7, <4>1
      <4>2. CASE dispatcher[e].at = "idle" \/ dispatcher[e].due # t
        BY <2>6, <3>1, <4>2
      <4> QED
        BY <4>1, <4>2
    <3>2. \A u \in Instants \ {t} : occurrence'[u] = occurrence[u]
      BY <2>2
    <3> HIDE DEF t
    <3> QED
      BY <2>8, <3>1, <3>2, TypeParts DEF HoldersFollow
  <2>11. RowsFollow
    BY <2>2, TypeParts DEF RowsFollow, Claimed, RowClaims
  <2>12. NothingSkipped'
    <3>1. /\ DOMAIN schedule'.next = DOMAIN schedule.next
          /\ \A c \in DOMAIN schedule.next : schedule'.next[c] =
               IF schedule.digest = a /\ schedule.next[c] > t THEN t ELSE schedule.next[c]
      BY <2>4 DEF Retried
    <3>2. \A c \in DOMAIN schedule.next : /\ schedule.next[c] \in Nat
                                          /\ \A u \in Fires[c] : u \in Nat
      BY ScheduleFields, ScheduleAssumption DEF ScheduleConsistent
    <3>3. \A c \in DOMAIN schedule.next : \A u \in Fires[c] : u > now => schedule.next[c] <= u
      BY TypeParts DEF NothingSkipped
    <3>4. \A c \in DOMAIN schedule.next : \A u \in Fires[c] : u > now => schedule'.next[c] <= u
      BY <1>0, <1>3, <3>1, <3>2, <3>3
    <3>5. ASSUME NEW c \in DOMAIN schedule.next, schedule'.next[c] > now,
                 NEW v \in Fires[c] \cap ((schedule.since + 1)..now)
          PROVE  \E u \in v..Horizon : Covers(u)'
      <4>1. schedule.next[c] > now /\ schedule.digest # a
        BY <1>0, <1>3, <3>1, <3>2, <3>5
      <4>2. PICK u \in v..Horizon : Covers(u)
        BY <4>1, TypeParts DEF NothingSkipped, Covers
      <4>3. v \in Nat /\ v > schedule.since /\ schedule.since \in Nat
        BY TypeParts
      <4>4. u \in Instants /\ u # t
        BY <1>0, <1>3, <4>1, <4>2, <4>3 DEF Instants
      <4>5. occurrence'[u] = occurrence[u]
        BY <2>2, <4>4
      <4> QED
        BY <2>4, <4>2, <4>5 DEF Covers, Attached, Claimed
    <3> QED
      BY <1>1, <2>4, <3>1, <3>4, <3>5 DEF NothingSkipped, Covers, Attached, Claimed
  <2>13. ExclusiveClaims' /\ HolderClaims' /\ RowClaims'
    BY <2>5, <2>10, <2>11, HoldersKeep, RowsKeep, TypeParts
  <2> QED
    BY <1>2, <2>2, <2>4, <2>9, <2>12, <2>13, Assembled
<1> QED
  BY <1>4, <1>5

-----------------------------------------------------------------------------
(* A claim: the rows that were abandoned go, the entries that are due move *)
(* past now, and the latest of their instants has a row.                   *)
LEMMA ClaimDueRows ==
  ASSUME ScheduleConsistent, NEW d \in Dispatchers, ClaimDue(d)
  PROVE  /\ KeptRows \in [Instants -> OccurrenceRows]
         /\ occurrence' \in [Instants -> OccurrenceRows]
         /\ \A t \in Instants :
              /\ t \in Abandoned => KeptRows[t] = NoRow
              /\ t \notin Abandoned => KeptRows[t] = occurrence[t]
              /\ occurrence'[t] = KeptRows[t]
                   \/ /\ ClaimsLatest /\ t = LatestInstant /\ t <= now
                      /\ KeptRows[t] = NoRow
                      /\ occurrence'[t].state = "claimed"
                      /\ occurrence'[t].digest = schedule.digest
         /\ ClaimsLatest => /\ LatestInstant \in Instants /\ LatestInstant <= now
                            /\ occurrence'[LatestInstant].state = "claimed"
                            /\ occurrence'[LatestInstant].digest = schedule.digest
<1>1. KeptRows \in [Instants -> OccurrenceRows]
  BY TypeParts DEF KeptRows
<1>2. \A t \in Instants : /\ t \in Abandoned => KeptRows[t] = NoRow
                          /\ t \notin Abandoned => KeptRows[t] = occurrence[t]
  BY DEF KeptRows
<1>3. NewClaim \in OccurrenceRows /\ NewClaim.state = "claimed"
      /\ NewClaim.digest = schedule.digest
  BY TypeParts, ScheduleAssumption DEF NewClaim, OccurrenceRows
<1>4. occurrence' = IF ClaimsLatest THEN [KeptRows EXCEPT ![LatestInstant] = NewClaim] ELSE KeptRows
  BY ClaimDueParts
<1>5. CASE ClaimsLatest
  <2>1. DueEntries # {} /\ KeptRows[LatestInstant] = NoRow
    BY <1>5 DEF ClaimsLatest
  <2>2. LatestInstant \in Instants /\ LatestInstant <= now
    BY <2>1, LatestCovers
  <2>3. occurrence' = [KeptRows EXCEPT ![LatestInstant] = NewClaim]
    BY <1>4, <1>5
  <2> QED
    BY <1>1, <1>2, <1>3, <1>5, <2>1, <2>2, <2>3
<1>6. CASE ~ClaimsLatest
  BY <1>1, <1>2, <1>4, <1>6
<1> QED
  BY <1>5, <1>6

LEMMA ClaimDueHolders ==
  ASSUME ScheduleConsistent, NEW d \in Dispatchers, ClaimDue(d)
  PROVE  /\ dispatcher' \in [Dispatchers -> DispatcherRows]
         /\ ExclusiveClaims' /\ HolderClaims'
<1> DEFINE claim == [at |-> "claimed", due |-> LatestInstant, digest |-> schedule.digest,
                   lost |-> FALSE]
<1>0. /\ UNCHANGED now /\ dispatcher[d].at = "idle"
      /\ dispatcher' = IF ClaimsLatest THEN [Holders EXCEPT ![d] = claim] ELSE Holders
  BY ClaimDueParts
<1>s. schedule'.since = schedule.since /\ schedule'.digest = schedule.digest
  <2>1. [c \in DOMAIN schedule.next |->
                 IF c \in DueEntries THEN NextFire(c, now) ELSE Requeued[c]]
          \in [CronsOf[schedule.digest] -> Nat]
    BY NextFireIsNext, RequeuedEntries, TypeParts, ScheduleFields
       DEF ScheduleConsistent, OtherTypes
  <2>2. schedule' = [schedule EXCEPT !.next =
              [c \in DOMAIN schedule.next |->
                 IF c \in DueEntries THEN NextFire(c, now) ELSE Requeued[c]]]
    BY ClaimDueParts
  <2> QED
    BY <2>1, <2>2, ScheduleFields DEF ScheduleConsistent
<1>1. \A e \in Dispatchers :
        LET r == [dispatcher[e] EXCEPT !.lost = TRUE]
        IN  /\ r \in DispatcherRows /\ r.lost = TRUE /\ r.at = dispatcher[e].at
            /\ r.due = dispatcher[e].due /\ r.digest = dispatcher[e].digest
  BY TypeParts DEF DispatcherRows
<1>2. Holders \in [Dispatchers -> DispatcherRows]
  BY <1>1, TypeParts DEF Holders
<1>3. ASSUME NEW e \in Dispatchers
      PROVE  /\ Holders[e].at = dispatcher[e].at
             /\ Holders[e].due = dispatcher[e].due
             /\ Holders[e].digest = dispatcher[e].digest
             /\ dispatcher[e].lost => Holders[e].lost
             /\ ~Holders[e].lost /\ dispatcher[e].at # "idle" =>
                  dispatcher[e].due \notin Abandoned
  <2>1. Holders[e] = IF dispatcher[e].at # "idle" /\ dispatcher[e].due \in Abandoned
                     THEN [dispatcher[e] EXCEPT !.lost = TRUE] ELSE dispatcher[e]
    BY DEF Holders
  <2> QED
    BY <1>1, <2>1
(* A holder that knows of no loss has its row, before the claim and after. *)
<1>4. ASSUME NEW e \in Dispatchers, Holders[e].at # "idle", ~Holders[e].lost
      PROVE  KeptRows[Holders[e].due] # NoRow /\ occurrence'[Holders[e].due] # NoRow
  <2>1. dispatcher[e].at # "idle" /\ ~dispatcher[e].lost
        /\ dispatcher[e].due \notin Abandoned /\ dispatcher[e].due \in Instants
    BY <1>3, <1>4, TypeParts
  <2>2. occurrence[dispatcher[e].due] # NoRow
    BY <2>1, TypeParts DEF HolderClaims
  <2>3. KeptRows[dispatcher[e].due] # NoRow
    BY <2>1, <2>2, ClaimDueRows
  <2> QED
    BY <1>3, <2>1, <2>3, ClaimDueRows
<1>5. ASSUME NEW e \in Dispatchers, Holders[e].at # "idle"
      PROVE  /\ Holders[e].due <= now
             /\ Holders[e].due > schedule.since => Holders[e].digest = schedule.digest
  BY <1>3, <1>5, TypeParts DEF HolderClaims
<1>6. \A e, f \in Dispatchers :
        e # f /\ Holders[e].at # "idle" /\ Holders[f].at # "idle"
        /\ Holders[e].due = Holders[f].due => Holders[e].lost \/ Holders[f].lost
  BY <1>3, TypeParts DEF ExclusiveClaims
<1>7. CASE ~ClaimsLatest
  <2>1. dispatcher' = Holders
    BY <1>0, <1>7
  <2>2. ExclusiveClaims'
    BY <1>6, <2>1 DEF ExclusiveClaims
  <2>3. HolderClaims'
    BY <1>0, <1>s, <1>4, <1>5, <2>1 DEF HolderClaims
  <2> QED
    BY <1>2, <2>1, <2>2, <2>3
<1>8. CASE ClaimsLatest
  <2>0. /\ LatestInstant \in Instants /\ LatestInstant <= now
        /\ occurrence'[LatestInstant] # NoRow /\ KeptRows[LatestInstant] = NoRow
    BY <1>8, ClaimDueRows, TypeParts DEF ClaimsLatest
  <2>1. /\ claim \in DispatcherRows /\ claim.at = "claimed" /\ claim.due = LatestInstant
        /\ claim.digest = schedule.digest /\ claim.lost = FALSE
    BY <2>0, TypeParts DEF DispatcherRows
  <2>2. dispatcher' = [Holders EXCEPT ![d] = claim]
    BY <1>0, <1>8
  <2> HIDE DEF claim
  <2>3. /\ dispatcher' \in [Dispatchers -> DispatcherRows]
        /\ dispatcher'[d] = claim
        /\ \A e \in Dispatchers \ {d} : dispatcher'[e] = Holders[e]
    BY <1>2, <2>1, <2>2
  <2>4. \A e \in Dispatchers \ {d} :
          Holders[e].at # "idle" /\ Holders[e].due = LatestInstant => Holders[e].lost
    BY <1>4, <2>0
  <2>5. ExclusiveClaims'
    BY <1>6, <2>1, <2>3, <2>4 DEF ExclusiveClaims
  <2>6. HolderClaims'
    BY <1>0, <1>s, <1>4, <1>5, <2>0, <2>1, <2>3 DEF HolderClaims
  <2> QED
    BY <2>3, <2>5, <2>6
<1> QED
  BY <1>7, <1>8

LEMMA ClaimDueStep ==
  ASSUME ScheduleConsistent, NEW d \in Dispatchers, ClaimDue(d)
  PROVE  ScheduleConsistent'
<1> DEFINE N == [c \in DOMAIN schedule.next |->
                 IF c \in DueEntries THEN NextFire(c, now) ELSE Requeued[c]]
<1>0. /\ schedule' = [schedule EXCEPT !.next = N]
      /\ UNCHANGED <<now, deployed, deploys, reconciler, runOpen, dispatchFaults>>
  BY ClaimDueParts
<1>1. OtherTypes' /\ now \in Nat /\ now \in Instants
  BY <1>0, TypeParts DEF OtherTypes
<1>2. \A c \in DOMAIN schedule.next :
        /\ schedule.next[c] \in Nat /\ Requeued[c] \in Nat /\ c \in Crons
        /\ NextFire(c, now) \in Nat /\ \A u \in Fires[c] : u \in Nat
  BY <1>1, NextFireIsNext, RequeuedEntries, ScheduleFields, ScheduleAssumption DEF ScheduleConsistent
<1>3. N \in [CronsOf[schedule.digest] -> Nat]
  BY <1>2, ScheduleFields DEF ScheduleConsistent
<1>4. /\ ScheduleTyped' /\ schedule'.next = N
      /\ schedule'.since = schedule.since /\ schedule'.digest = schedule.digest
  <2> HIDE DEF N
  <2> QED
    BY <1>0, <1>3, ScheduleFields DEF ScheduleConsistent, ScheduleTyped
<1>5. RowClaims'
  <2>1. ASSUME NEW t \in Instants
        PROVE  /\ occurrence'[t].state = "none" => occurrence'[t] = NoRow
               /\ Claimed(t)' => t <= now
               /\ Claimed(t)' /\ t > schedule.since => occurrence'[t].digest = schedule.digest
    <3>1. CASE occurrence'[t] = KeptRows[t] /\ t \in Abandoned
      BY <3>1, ClaimDueRows, TypeParts DEF Claimed
    <3>2. CASE occurrence'[t] = KeptRows[t] /\ t \notin Abandoned
      <4>1. occurrence'[t] = occurrence[t]
        BY <3>2, ClaimDueRows
      <4> QED
        BY <4>1, TypeParts DEF RowClaims, Claimed
    <3>3. CASE /\ t <= now /\ occurrence'[t].state = "claimed"
               /\ occurrence'[t].digest = schedule.digest
      BY <3>3
    <3> QED
      BY <3>1, <3>2, <3>3, ClaimDueRows
  <2> QED
    BY <1>0, <1>4, <2>1 DEF RowClaims
<1>6. DOMAIN schedule'.next = DOMAIN schedule.next
  BY <1>4
<1>7. ASSUME NEW c \in DueEntries
      PROVE  /\ \A t \in Fires[c] : t > now => schedule'.next[c] <= t
             /\ \A t \in Fires[c] \cap ((schedule.since + 1)..now) :
                  \E u \in t..Horizon : Covers(u)'
  <2>1. c \in DOMAIN schedule.next /\ schedule'.next[c] = NextFire(c, now)
    BY <1>4 DEF DueEntries
  <2>2. \A t \in Fires[c] : t > now => schedule'.next[c] <= t
    BY <1>1, <1>2, <2>1, NextFireIsNext
  <2>3. DueEntries # {} /\ LatestInstant \in Instants /\ LatestInstant <= now
        /\ \A t \in Fires[c] : t <= now => t <= LatestInstant
    BY LatestCovers
  <2>4. ASSUME NEW u \in Instants, u = LatestInstant, u > schedule.since PROVE Covers(u)'
    <3>1. CASE ClaimsLatest
      BY <1>4, <2>4, <3>1, ClaimDueRows DEF Covers, Claimed
    <3>2. CASE ~ClaimsLatest
      <4>1. KeptRows[LatestInstant] # NoRow
        BY <2>3, <3>2 DEF ClaimsLatest
      <4>2. LatestInstant \notin Abandoned
        BY <2>3, <4>1, ClaimDueRows
      <4>3. occurrence'[LatestInstant] = occurrence[LatestInstant]
        BY <2>3, <3>2, <4>2, ClaimDueRows
      <4>4. occurrence[LatestInstant] # NoRow
        BY <2>3, <4>1, <4>2, ClaimDueRows
      <4>5. occurrence[LatestInstant].state \in {"claimed", "attached"}
        BY <2>3, <4>4, TypeParts DEF RowClaims
      <4> QED
        BY <1>4, <2>3, <2>4, <4>3, <4>5, TypeParts DEF RowClaims, Covers, Attached, Claimed
    <3> QED
      BY <3>1, <3>2
  <2>5. ASSUME NEW t \in Fires[c] \cap ((schedule.since + 1)..now)
        PROVE  \E u \in t..Horizon : Covers(u)'
    <3>1. t \in Nat /\ schedule.since \in Nat /\ schedule.since < t /\ t <= now
      BY <1>2, <2>1, TypeParts
    <3>2. t <= LatestInstant
      BY <2>3, <3>1
    <3>3. LatestInstant \in t..Horizon /\ LatestInstant > schedule.since
      BY <2>3, <3>1, <3>2, ScheduleAssumption DEF Instants
    <3>4. PICK u \in Instants : u = LatestInstant
      BY <2>3
    <3> QED
      BY <2>4, <3>3, <3>4
  <2> QED
    BY <2>2, <2>5
<1>8. ASSUME NEW c \in DOMAIN schedule.next, c \notin DueEntries
      PROVE  /\ \A t \in Fires[c] : t > now => schedule'.next[c] <= t
             /\ \A t \in Fires[c] \cap ((schedule.since + 1)..now) :
                  \E u \in t..Horizon : Covers(u)'
  <2>1. Requeued[c] > now
    BY <1>1, <1>2, <1>8 DEF DueEntries
  <2>2. /\ Requeued[c] = schedule.next[c]
        /\ \A t \in Abandoned : occurrence[t].digest # schedule.digest
    BY <1>1, <1>2, <2>1, RequeuedEntries
  <2>3. schedule'.next[c] = schedule.next[c] /\ schedule.next[c] > now
    BY <1>4, <1>8, <2>1, <2>2
  <2>4. ASSUME NEW t \in Fires[c] \cap ((schedule.since + 1)..now)
        PROVE  \E u \in t..Horizon : Covers(u)'
    <3>1. PICK u \in t..Horizon : Covers(u)
      BY <2>3, TypeParts DEF NothingSkipped, Covers
    <3>2. t \in Nat /\ u \in Instants
      BY <1>2, <3>1 DEF Instants
    <3>3. u \notin Abandoned
      BY <2>2, <3>1 DEF Covers, Abandoned, Attached, Claimed
    <3>4. KeptRows[u] = occurrence[u] /\ occurrence[u] # NoRow
      BY <3>1, <3>2, <3>3, ClaimDueRows, TypeParts DEF Covers, Attached, Claimed
    <3>5. occurrence'[u] = occurrence[u]
      BY <3>2, <3>4, ClaimDueRows
    <3> QED
      BY <1>4, <3>1, <3>5 DEF Covers, Attached, Claimed
  <2> QED
    BY <2>3, <2>4, TypeParts DEF NothingSkipped
<1>9. NothingSkipped'
  BY <1>0, <1>4, <1>6, <1>7, <1>8 DEF NothingSkipped, Covers, Attached, Claimed
<1> QED
  BY <1>1, <1>4, <1>5, <1>9, ClaimDueRows, ClaimDueHolders, Assembled

-----------------------------------------------------------------------------
LEMMA ScheduleStep ==
  ScheduleConsistent /\ [ScheduleNext]_scheduleVars => ScheduleConsistent'
<1> SUFFICES ASSUME ScheduleConsistent, [ScheduleNext]_scheduleVars
             PROVE  ScheduleConsistent'
  OBVIOUS
<1>1. CASE UNCHANGED scheduleVars
  <2>1. OtherTypes' /\ UNCHANGED <<now, schedule, occurrence, dispatcher>>
    BY <1>1, TypeParts DEF scheduleVars, OtherTypes
  <2> QED
    BY <2>1, ScheduleKept, TypeParts
<1>2. CASE ScheduleNext
  <2>1. \/ PassTime
        \/ \/ OtherRuns
           \/ \E a \in Digests : Deploy(a)
           \/ \E r \in Reconcilers : ReadActive(r)
           \/ \E d \in Dispatchers : CheckArtifact(d) \/ DependencyFails(d) \/ DispatcherDies(d)
        \/ \E r \in Reconcilers : Reconcile(r)
        \/ \E d \in Dispatchers :
             ClaimDue(d) \/ CreateScheduledRun(d) \/ AttachRun(d) \/ ReleaseOccurrence(d)
    BY <1>2 DEF ScheduleNext, DispatcherStep
  <2> QED
    BY <2>1, PassTimeStep, CalmSteps, ReconcileStep, ClaimDueStep, CreateScheduledRunStep,
       AttachRunStep, ReleaseOccurrenceStep
<1> QED
  BY <1>1, <1>2

(* The schedule is consistent in every reachable state: a dispatcher whose *)
(* claim was not taken away works on its occurrence alone, claims made     *)
(* since the schedules were written are of their artifact, and no entry    *)
(* skips an instant.  ClaimDue, the release, the requeue of abandoned      *)
(* claims and the reconciliation keep it together.                         *)
THEOREM ScheduleStaysConsistent == ScheduleSpec => []ScheduleConsistent
<1>1. ScheduleInit => ScheduleConsistent
  BY InitSchedule
<1>2. ScheduleConsistent /\ [ScheduleNext]_scheduleVars => ScheduleConsistent'
  BY ScheduleStep
<1> QED
  BY <1>1, <1>2, PTL DEF ScheduleSpec

(* No due instant is forgotten, through claims, releases, timeouts and     *)
(* stale dispatchers of ClaimDue, ReleaseOccurrence and the requeue.       *)
THEOREM DueIsNotForgotten == ScheduleSpec => []DueNotForgotten
<1>1. ScheduleConsistent => DueNotForgotten
  <2> SUFFICES ASSUME ScheduleConsistent, NEW t \in DueInstants,
                      ~ \E c \in DOMAIN schedule.next : schedule.next[c] <= now
               PROVE  \E u \in t..Horizon : Covers(u)
    BY DEF DueNotForgotten, Covers
  <2>1. PICK c \in DOMAIN schedule.next : t \in Fires[c]
    BY DEF DueInstants
  <2>2. schedule.next[c] > now
    BY TypeParts, ScheduleFields DEF ScheduleConsistent
  <2>3. t \in Fires[c] \cap ((schedule.since + 1)..now)
    BY <2>1 DEF DueInstants
  <2> QED
    BY <2>2, <2>3, TypeParts DEF NothingSkipped, Covers
<1> QED
  BY <1>1, ScheduleStaysConsistent, PTL

-----------------------------------------------------------------------------
(* Activations and the schedule, side by side                              *)

(* A behaviour of both is one of each: a step of the schedule leaves the   *)
(* activations and the runtimes alone, and the other way round.            *)
LEMMA SideBySide == MCSpec => CutoverSpec /\ ScheduleSpec
<1>1. MCInit => CutoverInit /\ ScheduleInit
  BY DEF MCInit
<1>2. [MCNext]_mcVars => [CutoverNext]_cutoverVars /\ [ScheduleNext]_scheduleVars
  <2>1. Cleanups \/ Releases => Background
    BY DEF Cleanups, Releases, Background
  <2>2. Background /\ UNCHANGED durableVars => CutoverNext
    BY DEF CutoverNext
  <2> QED
    BY <2>1, <2>2 DEF MCNext, mcVars
<1> QED
  BY <1>1, <1>2, PTL DEF MCSpec, CutoverSpec, ScheduleSpec

(* Cutovers, the runtimes they switch and the schedule stay consistent     *)
(* beside each other (deployment.Service, runtimehost, refresh/schedule),  *)
(* whichever part is in focus.                                             *)
THEOREM ActivationStaysConsistent == MCSpec => []ActivationConsistent
<1>1. CutoverConsistent /\ ScheduleConsistent => ActivationConsistent
  BY DEF ActivationConsistent
<1> QED
  BY <1>1, SideBySide, CutoverStaysConsistent, ScheduleStaysConsistent, PTL
=============================================================================
