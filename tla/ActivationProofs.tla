-------------------------- MODULE ActivationProofs --------------------------
(***************************************************************************)
(* Machine-checked facts about the runtime host and the activations that   *)
(* go through it, for any workspaces, serving states, readers, calls and   *)
(* bounds.                                                                 *)
(***************************************************************************)
EXTENDS Cutover, SequenceTheorems, FiniteSetTheorems, TLAPS

-----------------------------------------------------------------------------
(* Sequences without repetition, and the sets of their elements            *)

Elements(q) == {q[i] : i \in DOMAIN q}
Distinct(q) == \A i, j \in DOMAIN q : q[i] = q[j] => i = j

LEMMA SeqFacts ==
  ASSUME NEW S, NEW q \in Seq(S)
  PROVE  /\ Len(q) \in Nat /\ DOMAIN q = 1..Len(q)
         /\ \A i \in 1..Len(q) : q[i] \in S
         /\ Elements(q) \subseteq S
BY DEF Elements

LEMMA AppendElements ==
  ASSUME NEW S, NEW q \in Seq(S), NEW x \in S
  PROVE  /\ Append(q, x) \in Seq(S)
         /\ Elements(Append(q, x)) = Elements(q) \cup {x}
         /\ Distinct(q) /\ x \notin Elements(q) => Distinct(Append(q, x))
<1>1. /\ Append(q, x) \in Seq(S) /\ Len(Append(q, x)) = Len(q) + 1
      /\ \A i \in 1..Len(q) : Append(q, x)[i] = q[i]
      /\ Append(q, x)[Len(q) + 1] = x
  BY AppendProperties
<1>2. DOMAIN q = 1..Len(q) /\ DOMAIN Append(q, x) = 1..(Len(q) + 1) /\ Len(q) \in Nat
  BY <1>1
<1>3. \A i \in 1..(Len(q) + 1) : i \in 1..Len(q) \/ i = Len(q) + 1
  BY <1>2
<1>4. Elements(Append(q, x)) = Elements(q) \cup {x}
  BY <1>1, <1>2, <1>3 DEF Elements
<1>5. ASSUME Distinct(q), x \notin Elements(q) PROVE Distinct(Append(q, x))
  <2>1. \A i \in 1..Len(q) : q[i] # x
    BY <1>2, <1>5 DEF Elements
  <2> QED
    BY <1>1, <1>2, <1>3, <1>5, <2>1 DEF Distinct
<1> QED
  BY <1>1, <1>4, <1>5

LEMMA RemoveElements ==
  ASSUME NEW S, NEW q \in Seq(S), NEW k \in DOMAIN q, Distinct(q)
  PROVE  /\ RemoveAt(q, k) \in Seq(S)
         /\ Elements(RemoveAt(q, k)) = Elements(q) \ {q[k]}
         /\ Distinct(RemoveAt(q, k))
<1> DEFINE front == SubSeq(q, 1, k - 1)
           back == SubSeq(q, k + 1, Len(q))
<1>0. /\ Len(q) \in Nat /\ k \in 1..Len(q) /\ DOMAIN q = 1..Len(q)
      /\ k \in Int /\ Len(q) \in Int /\ k - 1 \in Int /\ k + 1 \in Int
  OBVIOUS
<1>1. /\ front \in Seq(S) /\ Len(front) = k - 1
      /\ \A i \in 1..(k - 1) : front[i] = q[i]
  <2>1. \A i \in 1..(k - 1) : q[i] \in S
    BY <1>0
  <2>2. /\ SubSeq(q, 1, k - 1) \in Seq(S)
        /\ Len(SubSeq(q, 1, k - 1)) = IF 1 <= k - 1 THEN (k - 1) - 1 + 1 ELSE 0
        /\ \A i \in 1..((k - 1) - 1 + 1) : SubSeq(q, 1, k - 1)[i] = q[1 + i - 1]
    BY <1>0, <2>1, SubSeqProperties, SMTT(60)
  <2>3. (k - 1) - 1 + 1 = k - 1 /\ \A i \in 1..(k - 1) : 1 + i - 1 = i
    BY <1>0
  <2> QED
    BY <1>0, <2>2, <2>3, SMTT(60)
<1>2. /\ back \in Seq(S) /\ Len(back) = Len(q) - k
      /\ \A i \in 1..(Len(q) - k) : back[i] = q[k + i]
  <2>1. \A i \in (k + 1)..Len(q) : q[i] \in S
    BY <1>0
  <2>2. /\ SubSeq(q, k + 1, Len(q)) \in Seq(S)
        /\ Len(SubSeq(q, k + 1, Len(q))) = IF k + 1 <= Len(q) THEN Len(q) - (k + 1) + 1 ELSE 0
        /\ \A i \in 1..(Len(q) - (k + 1) + 1) : SubSeq(q, k + 1, Len(q))[i] = q[(k + 1) + i - 1]
    BY <1>0, <2>1, SubSeqProperties, SMTT(60)
  <2>3. Len(q) - (k + 1) + 1 = Len(q) - k /\ \A i \in 1..(Len(q) - k) : (k + 1) + i - 1 = k + i
    BY <1>0
  <2> QED
    BY <1>0, <2>2, <2>3, SMTT(60)
<1>3. RemoveAt(q, k) = front \o back
  BY DEF RemoveAt
<1> HIDE DEF front, back
<1>4. /\ RemoveAt(q, k) \in Seq(S) /\ Len(RemoveAt(q, k)) = Len(q) - 1
      /\ \A i \in 1..(Len(q) - 1) : RemoveAt(q, k)[i] = IF i < k THEN q[i] ELSE q[i + 1]
  <2>1. /\ front \o back \in Seq(S)
        /\ Len(front \o back) = Len(front) + Len(back)
        /\ \A i \in 1..(Len(front) + Len(back)) :
             (front \o back)[i] = IF i <= Len(front) THEN front[i] ELSE back[i - Len(front)]
    BY <1>1, <1>2, ConcatProperties, SMTT(60)
  <2>2. ASSUME NEW i \in 1..(Len(q) - 1)
        PROVE  (front \o back)[i] = IF i < k THEN q[i] ELSE q[i + 1]
    <3>1. i \in 1..(Len(front) + Len(back)) /\ i \in Nat
      BY <1>0, <1>1, <1>2, SMTT(60)
    <3>2. CASE i < k
      BY <1>0, <1>1, <2>1, <3>1, <3>2, SMTT(60)
    <3>3. CASE ~(i < k)
      <4>1. i - (k - 1) \in 1..(Len(q) - k) /\ k + (i - (k - 1)) = i + 1
        BY <1>0, <3>3
      <4>2. (front \o back)[i] = back[i - (k - 1)]
        BY <1>0, <1>1, <2>1, <3>1, <3>3, SMTT(60)
      <4> QED
        BY <1>2, <3>3, <4>1, <4>2, SMTT(60)
    <3> QED
      BY <3>2, <3>3
  <2> QED
    BY <1>0, <1>1, <1>2, <1>3, <2>1, <2>2, SMTT(60)
<1>5. DOMAIN RemoveAt(q, k) = 1..(Len(q) - 1)
  BY <1>4
<1>6. Elements(RemoveAt(q, k)) \subseteq Elements(q) \ {q[k]}
  <2>1. ASSUME NEW i \in 1..(Len(q) - 1)
        PROVE  RemoveAt(q, k)[i] \in Elements(q) /\ RemoveAt(q, k)[i] # q[k]
    <3>1. CASE i < k
      <4>1. i \in 1..Len(q) /\ i # k
        BY <1>0, <3>1
      <4> QED
        BY <1>0, <1>4, <3>1, <4>1 DEF Elements, Distinct
    <3>2. CASE ~(i < k)
      <4>1. i + 1 \in 1..Len(q) /\ i + 1 # k
        BY <1>0, <3>2
      <4> QED
        BY <1>0, <1>4, <3>2, <4>1 DEF Elements, Distinct
    <3> QED
      BY <3>1, <3>2
  <2> QED
    BY <1>5, <2>1 DEF Elements
<1>7. Elements(q) \ {q[k]} \subseteq Elements(RemoveAt(q, k))
  <2>1. ASSUME NEW i \in 1..Len(q), q[i] # q[k] PROVE q[i] \in Elements(RemoveAt(q, k))
    <3>1. CASE i < k
      BY <1>0, <1>4, <1>5, <3>1, SMTT(60) DEF Elements
    <3>2. CASE i > k
      <4>1. i - 1 \in 1..(Len(q) - 1) /\ ~(i - 1 < k) /\ (i - 1) + 1 = i
        BY <1>0, <3>2
      <4> QED
        BY <1>4, <1>5, <4>1 DEF Elements
    <3> QED
      BY <1>0, <2>1, <3>1, <3>2
  <2> QED
    BY <1>0, <2>1 DEF Elements
<1>8. Distinct(RemoveAt(q, k))
  <2> DEFINE at(i) == IF i < k THEN i ELSE i + 1
  <2>1. ASSUME NEW i \in 1..(Len(q) - 1)
        PROVE  RemoveAt(q, k)[i] = q[at(i)] /\ at(i) \in DOMAIN q
    BY <1>0, <1>4
  <2>2. ASSUME NEW i \in 1..(Len(q) - 1), NEW j \in 1..(Len(q) - 1), at(i) = at(j)
        PROVE  i = j
    BY <1>0, <2>2
  <2> HIDE DEF at
  <2>3. ASSUME NEW i \in 1..(Len(q) - 1), NEW j \in 1..(Len(q) - 1),
               RemoveAt(q, k)[i] = RemoveAt(q, k)[j]
        PROVE  i = j
    <3>1. q[at(i)] = q[at(j)] /\ at(i) \in DOMAIN q /\ at(j) \in DOMAIN q
      BY <2>1, <2>3
    <3>2. at(i) = at(j)
      BY <3>1 DEF Distinct
    <3> QED
      BY <2>2, <3>2
  <2> QED
    BY <1>5, <2>3 DEF Distinct
<1> QED
  BY <1>4, <1>6, <1>7, <1>8

-----------------------------------------------------------------------------
(* The runtime host: its invariant                                         *)

HoldersFinite == \A g \in Generations : IsFiniteSet(HoldersOf(g))

HostInv == Consistent /\ HoldersFinite

LEMMA HostParts ==
  HostInv <=> /\ TypeOK /\ LeasedWhileOpen /\ ClosedOnce /\ TombstonesExact
              /\ CleanupIsScheduled /\ CallsOwnTheirs /\ ClosesExact /\ ManagersExact
              /\ HoldersFinite
BY DEF HostInv, Consistent

RefsExact == \A g \in Generations : refs[g] = Cardinality(HoldersOf(g))

Tombs ==
  /\ \A w \in Workspaces : Distinct(retired[w])
  /\ \A g \in Generations :
       cleanup[g] \in {"draining", "pending", "running"} <=>
         source[g] # None /\ g \in Elements(retired[At(g)])

RefsTell ==
  \A g \in Generations : /\ cleanup[g] = "draining" => refs[g] > 0
                         /\ cleanup[g] \in {"pending", "running", "finished"} => refs[g] = 0

LEMMA TombstoneParts == TombstonesExact <=> RefsExact /\ Tombs /\ RefsTell
BY DEF TombstonesExact, RefsExact, Tombs, RefsTell, Distinct, Elements

(* The parts that depend on few variables stay while these do. *)
LEMMA CallsFrame ==
  ASSUME CallsOwnTheirs, UNCHANGED <<prep, source, items, callPc, writer, loaded, closed>>
  PROVE  CallsOwnTheirs'
BY DEF CallsOwnTheirs, Used

LEMMA ClosesFrame ==
  ASSUME ClosesExact, LeasedWhileOpen,
         UNCHANGED <<source, prep, noChange, cleanup, worker, closes, row, beat, relq, relBusy>>
  PROVE  ClosesExact' /\ LeasedWhileOpen'
BY DEF ClosesExact, LeasedWhileOpen, Gone, Built, At

LEMMA ManagersFrame ==
  ASSUME HostInv,
         UNCHANGED <<source, prep, noChange, current, retired, refs, cleanup, worker, working,
                     holding, loaded>>
  PROVE  ManagersExact' /\ HoldersFinite' /\ RefsExact' /\ RefsTell' /\ Tombs'
<1>1. ManagersExact /\ HoldersFinite /\ RefsExact /\ RefsTell /\ Tombs
  BY TombstoneParts, HostParts
<1> QED
  BY <1>1 DEF ManagersExact, RefsExact, RefsTell, Tombs, HoldersFinite, HoldersOf, At

LEMMA ScheduledFrame ==
  ASSUME CleanupIsScheduled, UNCHANGED <<source, cleanup, worker, kicks, writer, replaced>>
  PROVE  CleanupIsScheduled'
BY DEF CleanupIsScheduled, At

LEMMA OnceFromExact ==
  ASSUME ClosesExact
  PROVE  ClosedOnce
BY DEF ClosesExact, ClosedOnce, Gone, Built

LEMMA HostAgain ==
  ASSUME TypeOK', LeasedWhileOpen', CleanupIsScheduled', CallsOwnTheirs', ClosesExact',
         ManagersExact', HoldersFinite', RefsExact', RefsTell', Tombs'
  PROVE  HostInv'
<1>1. ClosedOnce'
  BY DEF ClosedOnce, ClosesExact, Gone, Built
<1>2. TombstonesExact'
  BY DEF TombstonesExact, RefsExact, RefsTell, Tombs, Distinct, Elements
<1> QED
  BY <1>1, <1>2 DEF HostInv, Consistent

(* The host at its start. *)
LEMMA InitHost == Init => HostInv
<1> SUFFICES ASSUME Init PROVE HostInv
  OBVIOUS
<1>1. TypeOK
  <2>1. <<>> \in Seq(Generations)
    OBVIOUS
  <2>2. /\ source \in [Generations -> States \union {None}]
        /\ prep \in [Generations -> {"free", "open", "sealed", "published", "closed"}]
        /\ noChange \in [Generations -> BOOLEAN]
        /\ current \in [Workspaces -> Generations \union {NoGeneration}]
        /\ refs \in [Generations -> Nat]
        /\ cleanup \in [Generations -> {"none", "draining", "pending", "running", "finished"}]
        /\ closes \in [Generations -> Nat]
        /\ row \in [Generations -> {"none", "live", "expired", "released"}]
        /\ beat \in [Generations -> BOOLEAN]
    BY DEF Init
  <2>3. /\ retired \in [Workspaces -> Seq(Generations)]
        /\ relq \in [Workspaces -> Seq(Generations)]
        /\ relBusy \in [Workspaces -> Generations \union {NoGeneration}]
        /\ accepting \in [Workspaces -> BOOLEAN]
        /\ worker \in [Workspaces -> {"off", "next", "close", "finish"}]
        /\ working \in [Workspaces -> Generations \union {NoGeneration}]
        /\ closePc \in [Workspaces -> {"open", "waiting", "closed"}]
    BY <2>1 DEF Init
  <2>4. /\ kicks \subseteq Generations
        /\ holding \in [Readers -> Generations \union {NoGeneration}]
        /\ callPc \in [Calls -> {"idle", "prepared", "sealed", "publishing", "answered", "done"}]
        /\ items \in [Calls -> SUBSET Generations]
        /\ replaced \in [Calls -> SUBSET Generations]
        /\ writer \in Calls \union {None}
        /\ loaded \subseteq Workspaces
        /\ closed \in BOOLEAN
    BY DEF Init
  <2> QED
    BY <2>2, <2>3, <2>4 DEF TypeOK
<1>2. LeasedWhileOpen /\ ClosesExact
  BY DEF Init, LeasedWhileOpen, ClosesExact, Gone, Built, NoGeneration
<1>3. \A g \in Generations : HoldersOf(g) = {}
  BY DEF Init, HoldersOf, NoGeneration, Generations
<1>4. TombstonesExact /\ HoldersFinite
  <2>1. IsFiniteSet({}) /\ Cardinality({}) = 0
    BY FS_EmptySet
  <2>2. \A w \in Workspaces : DOMAIN retired[w] = {}
    BY DEF Init
  <2>3. \A g \in Generations : source[g] = None /\ cleanup[g] = "none" /\ refs[g] = 0
    BY DEF Init
  <2> QED
    BY <1>3, <2>1, <2>2, <2>3 DEF TombstonesExact, HoldersFinite
<1>5. CleanupIsScheduled
  BY DEF Init, CleanupIsScheduled
<1>6. Used = {}
  BY DEF Init, Used
<1>7. CallsOwnTheirs
  BY <1>6, HostAssumption DEF Init, CallsOwnTheirs
<1>8. ManagersExact
  BY DEF Init, ManagersExact
<1> QED
  BY <1>1, <1>2, <1>4, <1>5, <1>7, <1>8, OnceFromExact, HostParts

-----------------------------------------------------------------------------
(* Steps of the leases, and others that no manager notices. *)
LEMMA LeaseSteps ==
  ASSUME HostInv,
         \/ \E w \in Workspaces : TakeRelease(w) \/ EndRelease(w) \/ CloseQueue(w)
         \/ \E g \in Generations : Expire(g) \/ Renew(g)
  PROVE  HostInv'
<1>1. UNCHANGED <<genVars, managerVars, workerVars, callVars, loaded, closed, holding, beat>>
  BY DEF TakeRelease, EndRelease, CloseQueue, Expire, Renew, hostVars
<1>2. TypeOK /\ ClosesExact /\ LeasedWhileOpen
  BY HostParts
<1>3. /\ row' \in [Generations -> {"none", "live", "expired", "released"}]
      /\ relq' \in [Workspaces -> Seq(Generations)]
      /\ relBusy' \in [Workspaces -> Generations \union {NoGeneration}]
      /\ accepting' \in [Workspaces -> BOOLEAN]
      /\ closePc' \in [Workspaces -> {"open", "waiting", "closed"}]
      /\ \A g \in Generations : prep[g] = "free" => row'[g] = "none"
      /\ \A w \in Workspaces :
           /\ relBusy'[w] # NoGeneration => prep[relBusy'[w]] # "free"
           /\ \A i \in DOMAIN relq'[w] : prep[relq'[w][i]] # "free"
  <2>0. /\ row \in [Generations -> {"none", "live", "expired", "released"}]
        /\ relq \in [Workspaces -> Seq(Generations)]
        /\ relBusy \in [Workspaces -> Generations \union {NoGeneration}]
        /\ accepting \in [Workspaces -> BOOLEAN]
        /\ closePc \in [Workspaces -> {"open", "waiting", "closed"}]
        /\ \A g \in Generations : prep[g] = "free" => row[g] = "none"
        /\ \A w \in Workspaces :
             /\ relBusy[w] # NoGeneration => prep[relBusy[w]] # "free"
             /\ \A i \in DOMAIN relq[w] : prep[relq[w][i]] # "free"
    BY <1>2 DEF TypeOK, ClosesExact
  <2>1. CASE \E g \in Generations : Expire(g) \/ Renew(g)
    <3>1. UNCHANGED <<relq, relBusy, accepting, closePc>>
      BY <2>1 DEF Expire, Renew, hostVars
    <3>2. PICK g \in Generations, st \in {"expired", "live"} :
            row[g] \in {"live", "expired"} /\ row' = [row EXCEPT ![g] = st]
      BY <2>1 DEF Expire, Renew
    <3> QED
      BY <2>0, <3>1, <3>2
  <2>2. CASE \E w \in Workspaces : CloseQueue(w)
    BY <2>0, <2>2 DEF CloseQueue
  <2>3. ASSUME NEW w \in Workspaces, EndRelease(w)
        PROVE  /\ UNCHANGED <<relq, accepting, closePc>>
               /\ relBusy' = [relBusy EXCEPT ![w] = NoGeneration]
               /\ relBusy[w] \in Generations /\ prep[relBusy[w]] # "free"
               /\ row' = row \/ row' = [row EXCEPT ![relBusy[w]] = "released"]
    BY <2>0, <2>3 DEF EndRelease, hostVars
  <2>4. CASE \E w \in Workspaces : EndRelease(w)
    <3>1. PICK w \in Workspaces : EndRelease(w)
      BY <2>4
    <3>2. /\ row' \in [Generations -> {"none", "live", "expired", "released"}]
          /\ \A g \in Generations : prep[g] = "free" => row'[g] = "none"
      BY <2>0, <2>3, <3>1
    <3>3. /\ relBusy' \in [Workspaces -> Generations \union {NoGeneration}]
          /\ relBusy'[w] = NoGeneration /\ \A v \in Workspaces \ {w} : relBusy'[v] = relBusy[v]
      BY <2>0, <2>3, <3>1
    <3>4. \A v \in Workspaces : relBusy'[v] # NoGeneration => prep[relBusy'[v]] # "free"
      BY <2>0, <3>3
    <3>5. UNCHANGED <<relq, accepting, closePc>>
      BY <2>3, <3>1
    <3> QED
      BY <2>0, <3>2, <3>3, <3>4, <3>5
  <2>5. ASSUME NEW w \in Workspaces, TakeRelease(w)
        PROVE  /\ UNCHANGED <<row, accepting, closePc>>
               /\ relBusy' = [relBusy EXCEPT ![w] = Head(relq[w])]
               /\ relq' = [relq EXCEPT ![w] = Tail(relq[w])]
               /\ Head(relq[w]) \in Generations /\ prep[Head(relq[w])] # "free"
               /\ Tail(relq[w]) \in Seq(Generations)
               /\ \A i \in DOMAIN Tail(relq[w]) : prep[Tail(relq[w])[i]] # "free"
    <3>1. relq[w] \in Seq(Generations) /\ relq[w] # <<>>
      BY <2>0, <2>5 DEF TakeRelease
    <3>2. /\ Head(relq[w]) \in Generations /\ Tail(relq[w]) \in Seq(Generations)
          /\ Len(Tail(relq[w])) = Len(relq[w]) - 1
          /\ \A i \in 1..Len(Tail(relq[w])) : Tail(relq[w])[i] = relq[w][i + 1]
      BY <3>1, HeadTailProperties
    <3>3. /\ Len(relq[w]) \in Nat /\ Len(relq[w]) # 0 /\ DOMAIN relq[w] = 1..Len(relq[w])
          /\ Head(relq[w]) = relq[w][1]
          /\ DOMAIN Tail(relq[w]) = 1..Len(Tail(relq[w]))
      BY <3>1, <3>2, EmptySeq
    <3>4. 1 \in DOMAIN relq[w] /\ \A i \in DOMAIN Tail(relq[w]) : i + 1 \in DOMAIN relq[w]
      BY <3>2, <3>3
    <3> QED
      BY <2>0, <2>5, <3>2, <3>3, <3>4 DEF TakeRelease, hostVars
  <2>6. CASE \E w \in Workspaces : TakeRelease(w)
    <3>1. PICK w \in Workspaces : TakeRelease(w)
      BY <2>6
    <3>2. /\ relBusy' \in [Workspaces -> Generations \union {NoGeneration}]
          /\ \A v \in Workspaces : relBusy'[v] # NoGeneration => prep[relBusy'[v]] # "free"
      BY <2>0, <2>5, <3>1
    <3>3. /\ relq' \in [Workspaces -> Seq(Generations)]
          /\ relq'[w] = Tail(relq[w]) /\ \A v \in Workspaces \ {w} : relq'[v] = relq[v]
      BY <2>0, <2>5, <3>1
    <3>4. \A v \in Workspaces : \A i \in DOMAIN relq'[v] : prep[relq'[v][i]] # "free"
      <4>1. \A i \in DOMAIN relq'[w] : prep[relq'[w][i]] # "free"
        BY <2>5, <3>1, <3>3
      <4>2. \A v \in Workspaces \ {w} : \A i \in DOMAIN relq'[v] : prep[relq'[v][i]] # "free"
        BY <2>0, <3>3
      <4> QED
        BY <4>1, <4>2
    <3>5. UNCHANGED <<row, accepting, closePc>>
      BY <2>5, <3>1
    <3> QED
      BY <2>0, <3>2, <3>3, <3>4, <3>5
  <2> QED
    BY <2>1, <2>2, <2>4, <2>6
<1>4. TypeOK'
  BY <1>1, <1>2, <1>3 DEF TypeOK, genVars, managerVars, workerVars, callVars
<1>5. ClosesExact' /\ LeasedWhileOpen'
  <2>1. LeasedWhileOpen'
    BY <1>1, <1>2 DEF LeasedWhileOpen, Built, genVars
  <2>2. \A g \in Generations : Gone(g)' = Gone(g)
    BY <1>1 DEF Gone, Built, At, genVars, managerVars, workerVars
  <2> QED
    BY <1>1, <1>2, <1>3, <2>1, <2>2 DEF ClosesExact, genVars
<1>6. /\ CallsOwnTheirs' /\ ManagersExact' /\ HoldersFinite' /\ RefsExact' /\ RefsTell' /\ Tombs'
      /\ CleanupIsScheduled'
  BY <1>1, HostParts, CallsFrame, ManagersFrame, ScheduledFrame
     DEF genVars, managerVars, workerVars, callVars
<1> QED
  BY <1>4, <1>5, <1>6, HostAgain

-----------------------------------------------------------------------------
(* Readers *)
LEMMA AcquireStep ==
  ASSUME HostInv, NEW r \in Readers, NEW w \in Workspaces, Acquire(r, w)
  PROVE  HostInv'
<1> DEFINE g == current[w]
<1>0. /\ UNCHANGED <<genVars, leaseVars, current, retired, cleanup, workerVars, callVars, hostVars>>
      /\ holding[r] = NoGeneration /\ g # NoGeneration /\ cleanup[g] = "none"
      /\ refs' = [refs EXCEPT ![g] = @ + 1] /\ holding' = [holding EXCEPT ![r] = g]
  BY DEF Acquire
<1>1. TypeOK /\ TombstonesExact /\ ManagersExact /\ HoldersFinite /\ ClosesExact /\ LeasedWhileOpen
  BY HostParts
<1>2. /\ g \in Generations /\ holding \in [Readers -> Generations \union {NoGeneration}]
      /\ refs \in [Generations -> Nat] /\ refs[g] + 1 \in Nat
  BY <1>0, <1>1 DEF TypeOK
<1>3. prep[g] = "published" /\ ~noChange[g]
  BY <1>0, <1>1 DEF ManagersExact
<1> HIDE DEF g
<1>4. /\ refs' \in [Generations -> Nat] /\ refs'[g] = refs[g] + 1
      /\ \A h \in Generations \ {g} : refs'[h] = refs[h]
      /\ holding' \in [Readers -> Generations \union {NoGeneration}]
  BY <1>0, <1>2
<1>5. /\ HoldersOf(g)' = HoldersOf(g) \union {r} /\ r \notin HoldersOf(g)
      /\ \A h \in Generations \ {g} : HoldersOf(h)' = HoldersOf(h)
  <2>1. g' = g
    BY <1>0 DEF g
  <2>2. r \notin HoldersOf(g)
    BY <1>0 DEF HoldersOf
  <2>3. \A q \in Readers : holding'[q] = IF q = r THEN g ELSE holding[q]
    BY <1>0, <1>2
  <2>4. \A h \in Generations \ {g} : {q \in Readers : holding'[q] = h} = {q \in Readers : holding[q] = h}
    BY <1>0, <2>3 DEF NoGeneration, Generations
  <2>5. {q \in Readers : holding'[q] = g} = {q \in Readers : holding[q] = g} \union {r}
    BY <2>3
  <2> QED
    BY <2>1, <2>2, <2>4, <2>5 DEF HoldersOf
<1>6. /\ IsFiniteSet(HoldersOf(g)) /\ refs[g] = Cardinality(HoldersOf(g))
      /\ \A h \in Generations : IsFiniteSet(HoldersOf(h)) /\ refs[h] = Cardinality(HoldersOf(h))
  BY <1>1, <1>2 DEF HoldersFinite, TombstonesExact
<1>7. /\ IsFiniteSet(HoldersOf(g) \union {r})
      /\ Cardinality(HoldersOf(g) \union {r}) = refs[g] + 1
  BY <1>5, <1>6, FS_AddElement
<1>8. \A h \in Generations : IsFiniteSet(HoldersOf(h)') /\ refs'[h] = Cardinality(HoldersOf(h)')
  <2>1. g' = g
    BY <1>0 DEF g
  <2>2. ASSUME NEW h \in Generations
        PROVE  IsFiniteSet(HoldersOf(h)') /\ refs'[h] = Cardinality(HoldersOf(h)')
    <3>1. CASE h = g
      <4>1. HoldersOf(h)' = HoldersOf(g) \union {r}
        BY <1>5, <2>1, <3>1 DEF HoldersOf
      <4> QED
        BY <1>4, <1>7, <3>1, <4>1
    <3>2. CASE h # g
      BY <1>4, <1>5, <1>6, <3>2
    <3> QED
      BY <3>1, <3>2
  <2> QED
    BY <2>2
<1>9. HoldersFinite' /\ RefsExact' /\ RefsTell' /\ Tombs'
  <2>1. HoldersFinite'
    BY <1>8 DEF HoldersFinite
  <2>2. \A h \in Generations : /\ cleanup[h] = "draining" => refs'[h] > 0
                               /\ cleanup[h] \in {"pending", "running", "finished"} => refs'[h] = 0
    <3>1. \A h \in Generations : /\ cleanup[h] = "draining" => refs[h] > 0
                                 /\ cleanup[h] \in {"pending", "running", "finished"} => refs[h] = 0
      BY <1>1 DEF TombstonesExact
    <3> QED
      BY <1>0, <1>4, <3>1 DEF g
  <2>3. Tombs'
    BY <1>0, <1>1, TombstoneParts DEF Tombs, At, genVars
  <2>4. RefsExact' /\ RefsTell'
    BY <1>0, <1>8, <2>2 DEF RefsExact, RefsTell
  <2> QED
    BY <2>1, <2>3, <2>4
<1>10. ManagersExact'
  <2>1. \A h \in Generations : prep[h] # "published" \/ noChange[h] => cleanup[h] = "none" /\ refs'[h] = 0
    BY <1>1, <1>3, <1>4 DEF ManagersExact
  <2> QED
    BY <1>0, <1>1, <2>1 DEF ManagersExact, At, genVars, workerVars, hostVars
<1>11. TypeOK'
  BY <1>0, <1>1, <1>4 DEF TypeOK, genVars, leaseVars, workerVars, callVars, hostVars
<1>12. CallsOwnTheirs' /\ ClosesExact' /\ LeasedWhileOpen' /\ CleanupIsScheduled'
  BY <1>0, HostParts, CallsFrame, ClosesFrame, ScheduledFrame
     DEF genVars, leaseVars, workerVars, callVars, hostVars
<1> QED
  BY <1>9, <1>10, <1>11, <1>12, HostAgain

LEMMA ReleaseStep ==
  ASSUME HostInv, NEW r \in Readers, Release(r)
  PROVE  HostInv'
<1>1. TypeOK /\ TombstonesExact /\ ManagersExact /\ HoldersFinite /\ ClosesExact /\ LeasedWhileOpen
      /\ CleanupIsScheduled /\ RefsExact /\ Tombs /\ RefsTell
  BY HostParts, TombstoneParts
<1>2. PICK g \in Generations : g = holding[r]
  BY <1>1 DEF Release, TypeOK
<1>0. /\ UNCHANGED <<genVars, leaseVars, current, retired, worker, working, callVars, hostVars>>
      /\ holding' = [holding EXCEPT ![r] = NoGeneration]
      /\ refs' = [refs EXCEPT ![g] = refs[g] - 1]
      /\ cleanup' = IF refs[g] = 1 /\ cleanup[g] = "draining"
                    THEN [cleanup EXCEPT ![g] = "pending"] ELSE cleanup
      /\ kicks' = IF refs[g] = 1 /\ cleanup[g] # "none" THEN kicks \union {g} ELSE kicks
  BY <1>2 DEF Release
<1>3. /\ holding \in [Readers -> Generations \union {NoGeneration}]
      /\ refs \in [Generations -> Nat] /\ kicks \subseteq Generations
      /\ cleanup \in [Generations -> {"none", "draining", "pending", "running", "finished"}]
  BY <1>1 DEF TypeOK
<1>4. /\ HoldersOf(g)' = HoldersOf(g) \ {r} /\ r \in HoldersOf(g)
      /\ \A h \in Generations \ {g} : HoldersOf(h)' = HoldersOf(h)
  <2>1. r \in HoldersOf(g)
    BY <1>2 DEF HoldersOf
  <2>2. \A q \in Readers : holding'[q] = IF q = r THEN NoGeneration ELSE holding[q]
    BY <1>0, <1>3
  <2>3. g # NoGeneration /\ \A h \in Generations : h # NoGeneration
    BY DEF NoGeneration, Generations
  <2>4. \A h \in Generations \ {g} : {q \in Readers : holding'[q] = h} = {q \in Readers : holding[q] = h}
    BY <1>2, <2>2, <2>3
  <2>5. {q \in Readers : holding'[q] = g} = {q \in Readers : holding[q] = g} \ {r}
    BY <2>2, <2>3
  <2> QED
    BY <2>1, <2>4, <2>5 DEF HoldersOf
<1>5. \A h \in Generations : IsFiniteSet(HoldersOf(h)) /\ refs[h] = Cardinality(HoldersOf(h))
  BY <1>1 DEF HoldersFinite, RefsExact
<1>6. /\ IsFiniteSet(HoldersOf(g) \ {r}) /\ Cardinality(HoldersOf(g) \ {r}) = refs[g] - 1
      /\ refs[g] # 0
  <2>1. Cardinality(HoldersOf(g) \ {r}) = Cardinality(HoldersOf(g)) - 1
        /\ IsFiniteSet(HoldersOf(g) \ {r})
    BY <1>4, <1>5, FS_RemoveElement
  <2>2. Cardinality(HoldersOf(g)) # 0
    BY <1>4, <1>5, FS_EmptySet
  <2> QED
    BY <1>5, <2>1, <2>2
<1>7. /\ refs' \in [Generations -> Nat] /\ refs'[g] = refs[g] - 1
      /\ \A h \in Generations \ {g} : refs'[h] = refs[h]
  <2>1. refs[g] - 1 \in Nat
    BY <1>3, <1>6
  <2> QED
    BY <1>0, <1>3, <2>1
<1>8. /\ HoldersFinite' /\ RefsExact'
  <2>1. \A h \in Generations : IsFiniteSet(HoldersOf(h)') /\ refs'[h] = Cardinality(HoldersOf(h)')
    BY <1>4, <1>5, <1>6, <1>7
  <2> QED
    BY <2>1 DEF HoldersFinite, RefsExact
<1>9. /\ cleanup[g] \in {"none", "draining"} /\ prep[g] = "published" /\ ~noChange[g]
      /\ source[g] # None
  <2>1. refs[g] # 0
    BY <1>6
  <2>2. cleanup[g] \notin {"pending", "running", "finished"}
    BY <1>1, <2>1 DEF RefsTell
  <2>3. prep[g] = "published" /\ ~noChange[g]
    BY <1>1, <2>1 DEF ManagersExact
  <2>4. source[g] # None
    BY <2>3, HostParts DEF CallsOwnTheirs
  <2> QED
    BY <1>3, <2>2, <2>3, <2>4
<1>10. /\ cleanup' \in [Generations -> {"none", "draining", "pending", "running", "finished"}]
       /\ \A h \in Generations \ {g} : cleanup'[h] = cleanup[h]
       /\ cleanup'[g] = IF refs[g] = 1 /\ cleanup[g] = "draining" THEN "pending" ELSE cleanup[g]
  BY <1>0, <1>3
<1>11. RefsTell'
  <2>1. /\ cleanup'[g] = "draining" => refs'[g] > 0
        /\ cleanup'[g] \in {"pending", "running", "finished"} => refs'[g] = 0
    <3>1. refs[g] \in Nat
      BY <1>3
    <3> QED
      BY <1>6, <1>7, <1>9, <1>10, <3>1
  <2>2. \A h \in Generations \ {g} : /\ cleanup'[h] = "draining" => refs'[h] > 0
                                     /\ cleanup'[h] \in {"pending", "running", "finished"} => refs'[h] = 0
    BY <1>1, <1>7, <1>10 DEF RefsTell
  <2> QED
    BY <2>1, <2>2 DEF RefsTell
<1>12. Tombs'
  <2>1. \A h \in Generations : cleanup'[h] \in {"draining", "pending", "running"}
                                 <=> cleanup[h] \in {"draining", "pending", "running"}
    BY <1>9, <1>10
  <2> QED
    BY <1>0, <1>1, <2>1 DEF Tombs, At, genVars
<1>13. ManagersExact'
  <2>1. \A h \in Generations : prep[h] # "published" \/ noChange[h] => cleanup'[h] = "none" /\ refs'[h] = 0
    BY <1>1, <1>7, <1>9, <1>10 DEF ManagersExact
  <2>2. \A h \in Generations : /\ cleanup'[h] = "none" <=> cleanup[h] = "none"
                               /\ cleanup'[h] = "running" <=> cleanup[h] = "running"
    BY <1>9, <1>10
  <2>3. \A w \in Workspaces : current[w] \in Generations \union {NoGeneration}
                              /\ working[w] \in Generations \union {NoGeneration}
    BY <1>1 DEF TypeOK
  <2> QED
    BY <1>0, <1>1, <2>1, <2>2, <2>3 DEF ManagersExact, At, genVars, hostVars
<1>14. TypeOK'
  <2>1. kicks' \subseteq Generations
    BY <1>0, <1>3
  <2>2. holding' \in [Readers -> Generations \union {NoGeneration}]
    BY <1>0, <1>3
  <2> QED
    BY <1>0, <1>1, <1>7, <1>10, <2>1, <2>2 DEF TypeOK, genVars, leaseVars, callVars, hostVars
<1>15. CleanupIsScheduled'
  <2>1. cleanup'[g] = "pending" => g \in kicks'
    BY <1>0, <1>9, <1>10
  <2>2. kicks \subseteq kicks'
    BY <1>0
  <2>3. ASSUME NEW h \in Generations, h # g, cleanup'[h] = "pending"
        PROVE  \/ worker'[At(h)'] # "off" \/ h \in kicks'
               \/ \E c \in Calls : writer' = c /\ h \in replaced'[c]
    <3>1. cleanup[h] = "pending"
      BY <1>10, <2>3
    <3> QED
      BY <1>0, <1>1, <2>2, <3>1 DEF CleanupIsScheduled, At, genVars, callVars
  <2> QED
    BY <2>1, <2>3 DEF CleanupIsScheduled
<1>16. ClosesExact' /\ LeasedWhileOpen'
  <2>1. \A h \in Generations : Gone(h)' <=> Gone(h)
    BY <1>0, <1>9, <1>10 DEF Gone, Built, At, genVars
  <2> QED
    BY <1>0, <1>1, <2>1 DEF ClosesExact, LeasedWhileOpen, Built, genVars, leaseVars
<1>17. CallsOwnTheirs'
  BY <1>0, HostParts, CallsFrame DEF genVars, callVars, hostVars
<1> QED
  BY <1>8, <1>11, <1>12, <1>13, <1>14, <1>15, <1>16, <1>17, HostAgain

-----------------------------------------------------------------------------
(* The cleanup worker *)
LEMMA KickStep ==
  ASSUME HostInv, NEW g \in Generations, Kick(g)
  PROVE  HostInv'
<1>1. TypeOK /\ ClosesExact /\ LeasedWhileOpen /\ CleanupIsScheduled /\ ManagersExact /\ RefsTell
  BY HostParts, TombstoneParts
<1>2. cleanup' = cleanup
  BY <1>1 DEF Kick, RefsTell, TypeOK
<1>0. /\ UNCHANGED <<genVars, leaseVars, managerVars, working, callVars, hostVars, holding>>
      /\ kicks' = kicks \ {g}
      /\ worker' = IF cleanup[g] = "pending" /\ worker[At(g)] = "off"
                   THEN [worker EXCEPT ![At(g)] = "next"] ELSE worker
  BY <1>2 DEF Kick, managerVars
<1>3. /\ worker \in [Workspaces -> {"off", "next", "close", "finish"}]
      /\ kicks \subseteq Generations
  BY <1>1 DEF TypeOK
<1>4. /\ worker' \in [Workspaces -> {"off", "next", "close", "finish"}]
      /\ \A w \in Workspaces : worker'[w] # worker[w] => worker[w] = "off" /\ worker'[w] = "next"
  BY <1>0, <1>3
<1>5. TypeOK'
  BY <1>0, <1>1, <1>3, <1>4
     DEF TypeOK, genVars, leaseVars, managerVars, callVars, hostVars
<1>6. \A h \in Generations : source[h] # None => At(h) \in Workspaces
  BY <1>1, HostAssumption DEF TypeOK, At
<1>7. \A h \in Generations : cleanup[h] # "none" => source[h] # None
  <2>1. \A h \in Generations : cleanup[h] # "none" => prep[h] # "free"
    BY <1>1 DEF ManagersExact
  <2> QED
    BY <2>1, HostParts DEF CallsOwnTheirs
<1>8. \A h \in Generations : Gone(h)' <=> Gone(h)
  BY <1>0, <1>4, <1>6, <1>7 DEF Gone, Built, At, genVars, managerVars
<1>9. ClosesExact' /\ LeasedWhileOpen'
  BY <1>0, <1>1, <1>8 DEF ClosesExact, LeasedWhileOpen, Built, genVars, leaseVars, managerVars
<1>10. CleanupIsScheduled'
  <2>1. ASSUME NEW h \in Generations, cleanup[h] = "pending"
        PROVE  \/ worker'[At(h)] # "off" \/ h \in kicks'
               \/ \E c \in Calls : writer = c /\ h \in replaced[c]
    <3>1. At(h) \in Workspaces
      BY <1>6, <1>7, <2>1
    <3>2. CASE h = g
      BY <1>0, <1>3, <2>1, <3>1, <3>2
    <3>3. CASE h # g
      <4>1. CASE worker[At(h)] # "off"
        BY <1>4, <3>1, <4>1
      <4> QED
        BY <1>0, <1>1, <2>1, <3>3, <4>1 DEF CleanupIsScheduled
    <3> QED
      BY <3>2, <3>3
  <2> QED
    BY <1>0, <2>1 DEF CleanupIsScheduled, At, genVars, managerVars, callVars
<1>11. ManagersExact'
  <2>1. \A w \in Workspaces : worker'[w] \in {"close", "finish"} <=> worker[w] \in {"close", "finish"}
    BY <1>4
  <2> QED
    BY <1>0, <1>1, <2>1 DEF ManagersExact, At, genVars, managerVars, hostVars
<1>12. HoldersFinite' /\ RefsExact' /\ RefsTell' /\ Tombs'
  BY <1>0, HostParts, TombstoneParts
     DEF HoldersFinite, HoldersOf, RefsExact, RefsTell, Tombs, At, genVars, managerVars
<1>13. CallsOwnTheirs'
  BY <1>0, HostParts, CallsFrame DEF genVars, callVars, hostVars
<1> QED
  BY <1>5, <1>9, <1>10, <1>11, <1>12, <1>13, HostAgain

LEMMA WorkerNextStep ==
  ASSUME HostInv, NEW w \in Workspaces, WorkerNext(w)
  PROVE  HostInv'
<1>1. /\ TypeOK /\ ClosesExact /\ LeasedWhileOpen /\ CleanupIsScheduled /\ ManagersExact /\ RefsTell
      /\ Tombs /\ RefsExact /\ HoldersFinite
  BY HostParts, TombstoneParts
<1>2. /\ UNCHANGED <<genVars, leaseVars, current, retired, refs, kicks, callVars, hostVars, holding>>
      /\ worker[w] = "next"
  BY DEF WorkerNext
<1>3. /\ worker \in [Workspaces -> {"off", "next", "close", "finish"}]
      /\ working \in [Workspaces -> Generations \union {NoGeneration}]
      /\ cleanup \in [Generations -> {"none", "draining", "pending", "running", "finished"}]
  BY <1>1 DEF TypeOK
<1>4. \A h \in Generations : source[h] # None => At(h) \in Workspaces
  BY <1>1, HostAssumption DEF TypeOK, At
<1>5. \A h \in Generations : cleanup[h] # "none" => source[h] # None
  <2>1. \A h \in Generations : cleanup[h] # "none" => prep[h] # "free"
    BY <1>1 DEF ManagersExact
  <2> QED
    BY <2>1, HostParts DEF CallsOwnTheirs
<1>6. HoldersFinite' /\ RefsExact'
  BY <1>1, <1>2 DEF HoldersFinite, HoldersOf, RefsExact
<1>7. CallsOwnTheirs'
  BY <1>2, HostParts, CallsFrame DEF genVars, callVars, hostVars
<1>8. working[w] = NoGeneration
  BY <1>1, <1>2 DEF ManagersExact
<1>9. CASE Pending(w) = {} /\ worker' = [worker EXCEPT ![w] = "off"] /\ UNCHANGED <<cleanup, working>>
  <2>1. /\ worker'[w] = "off" /\ \A v \in Workspaces \ {w} : worker'[v] = worker[v]
        /\ worker' \in [Workspaces -> {"off", "next", "close", "finish"}]
    BY <1>3, <1>9
  <2>2. TypeOK'
    BY <1>1, <1>2, <1>9, <2>1 DEF TypeOK, genVars, leaseVars, callVars, hostVars
  <2>3. \A h \in Generations : Gone(h)' <=> Gone(h)
    BY <1>2, <1>4, <1>5, <1>9, <2>1 DEF Gone, Built, At, genVars
  <2>4. ClosesExact' /\ LeasedWhileOpen'
    BY <1>1, <1>2, <2>3 DEF ClosesExact, LeasedWhileOpen, Built, genVars, leaseVars
  <2>5. \A h \in Generations : cleanup[h] = "pending" => At(h) # w
    <3>1. ASSUME NEW h \in Generations, cleanup[h] = "pending", At(h) = w
          PROVE  FALSE
      <4>1. h \in Elements(retired[w])
        BY <1>1, <3>1 DEF Tombs
      <4> QED
        BY <1>9, <3>1, <4>1 DEF Elements, Pending
    <3> QED
      BY <3>1
  <2>6. CleanupIsScheduled'
    <3>1. ASSUME NEW h \in Generations, cleanup[h] = "pending"
          PROVE  \/ worker'[At(h)] # "off" \/ h \in kicks
                 \/ \E c \in Calls : writer = c /\ h \in replaced[c]
      <4>1. worker'[At(h)] = worker[At(h)]
        BY <1>4, <1>5, <2>1, <2>5, <3>1
      <4> QED
        BY <1>1, <3>1, <4>1 DEF CleanupIsScheduled
    <3> QED
      BY <1>2, <1>9, <3>1 DEF CleanupIsScheduled, At, genVars, callVars
  <2>7. ManagersExact'
    <3>1. \A v \in Workspaces : worker'[v] \in {"close", "finish"} <=> worker[v] \in {"close", "finish"}
      BY <1>2, <2>1
    <3> QED
      BY <1>1, <1>2, <1>9, <3>1 DEF ManagersExact, At, genVars, hostVars
  <2>8. RefsTell' /\ Tombs'
    BY <1>1, <1>2, <1>9 DEF RefsTell, Tombs, At, genVars
  <2> QED
    BY <1>6, <1>7, <2>2, <2>4, <2>6, <2>7, <2>8, HostAgain
<1>10. ASSUME NEW i \in Pending(w),
              worker' = [worker EXCEPT ![w] = "close"],
              working' = [working EXCEPT ![w] = retired[w][i]],
              cleanup' = [cleanup EXCEPT ![retired[w][i]] = "running"]
       PROVE  HostInv'
  <2>0. retired[w] \in Seq(Generations) /\ i \in DOMAIN retired[w]
    BY <1>1 DEF TypeOK, Pending
  <2>1. PICK g \in Generations : g = retired[w][i]
    BY <2>0
  <2>2. cleanup[g] = "pending" /\ At(g) = w /\ prep[g] = "published" /\ g \in Elements(retired[w])
    BY <1>1, <2>0, <2>1 DEF Pending, ManagersExact, Elements
  <2>3. /\ worker'[w] = "close" /\ \A v \in Workspaces \ {w} : worker'[v] = worker[v]
        /\ working'[w] = g /\ \A v \in Workspaces \ {w} : working'[v] = working[v]
        /\ cleanup'[g] = "running" /\ \A h \in Generations \ {g} : cleanup'[h] = cleanup[h]
        /\ worker' \in [Workspaces -> {"off", "next", "close", "finish"}]
        /\ working' \in [Workspaces -> Generations \union {NoGeneration}]
        /\ cleanup' \in [Generations -> {"none", "draining", "pending", "running", "finished"}]
    BY <1>3, <1>10, <2>1
  <2>4. g # NoGeneration
    BY DEF NoGeneration, Generations
  <2>5. TypeOK'
    BY <1>1, <1>2, <2>3 DEF TypeOK, genVars, leaseVars, callVars, hostVars
  <2>6. \A h \in Generations : cleanup[h] = "running" => At(h) # w
    BY <1>1, <1>8 DEF ManagersExact, NoGeneration, Generations
  <2>7. \A h \in Generations : Gone(h)' <=> Gone(h)
    <3>1. ~Gone(g)' /\ ~Gone(g)
      <4>1. prep'[g] = "published" /\ At(g)' = w /\ worker'[w] # "finish" /\ cleanup'[g] # "finished"
        BY <1>2, <2>2, <2>3 DEF genVars, At
      <4> QED
        BY <2>2, <4>1 DEF Gone
    <3>2. \A h \in Generations \ {g} : Gone(h)' <=> Gone(h)
      <4>1. ASSUME NEW h \in Generations, h # g, cleanup[h] = "running"
            PROVE  worker'[At(h)] = worker[At(h)]
        BY <1>4, <1>5, <2>3, <2>6, <4>1
      <4> QED
        BY <1>2, <2>3, <4>1 DEF Gone, Built, At, genVars
    <3>3. ASSUME NEW h \in Generations
          PROVE  Gone(h)' <=> Gone(h)
      <4>1. CASE h = g
        BY <3>1, <4>1, <1>2, <2>2, <2>3 DEF Gone, At, genVars
      <4> QED
        BY <3>2, <4>1
    <3> QED
      BY <3>3
  <2>8. ClosesExact' /\ LeasedWhileOpen'
    BY <1>1, <1>2, <2>7 DEF ClosesExact, LeasedWhileOpen, Built, genVars, leaseVars
  <2>9. CleanupIsScheduled'
    <3>1. ASSUME NEW h \in Generations, cleanup'[h] = "pending"
          PROVE  \/ worker'[At(h)] # "off" \/ h \in kicks
                 \/ \E c \in Calls : writer = c /\ h \in replaced[c]
      <4>1. cleanup[h] = "pending" /\ h # g
        BY <2>3, <3>1
      <4>2. worker[At(h)] # "off" => worker'[At(h)] # "off"
        BY <1>4, <1>5, <2>3, <4>1
      <4> QED
        BY <1>1, <4>1, <4>2 DEF CleanupIsScheduled
    <3> QED
      BY <1>2, <3>1 DEF CleanupIsScheduled, At, genVars, callVars
  <2>10. ManagersExact'
    <3>1. \A h \in Generations : prep[h] # "published" \/ noChange[h] => cleanup'[h] = "none" /\ refs[h] = 0
      BY <1>1, <2>2, <2>3 DEF ManagersExact
    <3>2. \A v \in Workspaces : current[v] # NoGeneration =>
            /\ prep[current[v]] = "published" /\ ~noChange[current[v]]
            /\ At(current[v]) = v /\ cleanup'[current[v]] = "none" /\ v \in loaded
      <4>1. \A v \in Workspaces : current[v] \in Generations \union {NoGeneration}
        BY <1>1 DEF TypeOK
      <4> QED
        BY <1>1, <2>2, <2>3, <4>1 DEF ManagersExact
    <3>3. \A h \in Generations : prep[h] = "published" /\ ~noChange[h] /\ cleanup'[h] = "none" => current[At(h)] = h
      BY <1>1, <2>3 DEF ManagersExact
    <3>4. \A v \in Workspaces : working'[v] # NoGeneration <=> worker'[v] \in {"close", "finish"}
      <4>1. \A v \in Workspaces \ {w} : working'[v] # NoGeneration <=> worker'[v] \in {"close", "finish"}
        BY <1>1, <2>3 DEF ManagersExact
      <4> QED
        BY <2>3, <2>4, <4>1
    <3>5. \A v \in Workspaces : working'[v] # NoGeneration =>
            cleanup'[working'[v]] = "running" /\ At(working'[v]) = v
      <4>1. \A v \in Workspaces \ {w} : working'[v] # NoGeneration =>
              cleanup'[working'[v]] = "running" /\ At(working'[v]) = v
        <5>1. \A v \in Workspaces \ {w} : working[v] # NoGeneration =>
                /\ working[v] \in Generations /\ cleanup[working[v]] = "running" /\ At(working[v]) = v
          BY <1>1, <1>3 DEF ManagersExact
        <5> QED
          BY <2>2, <2>3, <5>1
      <4> QED
        BY <2>2, <2>3, <4>1
    <3>6. \A h \in Generations : cleanup'[h] = "running" => working'[At(h)] = h
      <4>1. \A h \in Generations \ {g} : cleanup'[h] = "running" => working'[At(h)] = h
        <5>1. ASSUME NEW h \in Generations \ {g}, cleanup'[h] = "running"
              PROVE  working'[At(h)] = h
          <6>1. cleanup[h] = "running" /\ At(h) # w /\ At(h) \in Workspaces
            BY <1>4, <1>5, <2>3, <2>6, <5>1
          <6> QED
            BY <1>1, <2>3, <6>1 DEF ManagersExact
        <5> QED
          BY <5>1
      <4> QED
        BY <2>2, <2>3, <4>1
    <3>7. \A v \in Workspaces : \A j \in DOMAIN retired[v] :
            prep[retired[v][j]] = "published" /\ At(retired[v][j]) = v
      BY <1>1 DEF ManagersExact
    <3> QED
      BY <1>2, <3>1, <3>2, <3>3, <3>4, <3>5, <3>6, <3>7 DEF ManagersExact, At, genVars, hostVars
  <2>11. RefsTell'
    <3>1. refs[g] = 0
      BY <1>1, <2>2 DEF RefsTell
    <3> QED
      BY <1>1, <1>2, <2>3, <3>1 DEF RefsTell
  <2>12. Tombs'
    <3>1. \A h \in Generations : cleanup'[h] \in {"draining", "pending", "running"}
                                   <=> cleanup[h] \in {"draining", "pending", "running"}
      BY <2>2, <2>3
    <3> QED
      BY <1>1, <1>2, <3>1 DEF Tombs, At, genVars
  <2> QED
    BY <1>6, <1>7, <2>5, <2>8, <2>9, <2>10, <2>11, <2>12, HostAgain
<1> QED
  BY <1>9, <1>10 DEF WorkerNext

-----------------------------------------------------------------------------
(* What closing resources changes. *)
LEMMA EnqueuedElements ==
  ASSUME TypeOK, NEW U \in SUBSET Generations, NEW G \in SUBSET U, NEW src,
         \A w \in Workspaces : \A i \in DOMAIN relq[w] : relq[w][i] \in U
  PROVE  /\ Enqueued(G, src) \in [Workspaces -> Seq(Generations)]
         /\ \A w \in Workspaces : \A i \in DOMAIN Enqueued(G, src)[w] : Enqueued(G, src)[w][i] \in U
<1>1. ASSUME NEW w \in Workspaces
      PROVE  /\ Enqueued(G, src)[w] \in Seq(Generations)
             /\ \A i \in DOMAIN Enqueued(G, src)[w] : Enqueued(G, src)[w][i] \in U
  <2>1. relq[w] \in Seq(Generations) /\ Elements(relq[w]) \subseteq U
    BY DEF TypeOK, Elements
  <2> DEFINE mine == {g \in G : WorkspaceOf[src[g]] = w}
             x == CHOOSE g \in mine : TRUE
  <2>2. /\ Enqueued(G, src)[w] = IF mine # {} /\ accepting[w] /\ Len(relq[w]) < QueueCapacity
                                 THEN Append(relq[w], x) ELSE relq[w]
        /\ mine # {} => x \in U /\ x \in Generations
    BY DEF Enqueued
  <2> HIDE DEF mine, x
  <2>3. ASSUME x \in U, x \in Generations
        PROVE  /\ Append(relq[w], x) \in Seq(Generations)
               /\ \A i \in DOMAIN Append(relq[w], x) : Append(relq[w], x)[i] \in U
    <3>1. Append(relq[w], x) \in Seq(Generations) /\ Elements(Append(relq[w], x)) = Elements(relq[w]) \union {x}
      BY <2>1, <2>3, AppendElements
    <3>2. \A i \in DOMAIN Append(relq[w], x) : Append(relq[w], x)[i] \in Elements(Append(relq[w], x))
      BY DEF Elements
    <3> QED
      BY <2>1, <2>3, <3>1, <3>2
  <2> QED
    BY <2>1, <2>2, <2>3
<1>2. Enqueued(G, src) = [w \in Workspaces |-> Enqueued(G, src)[w]]
  BY DEF Enqueued
<1> QED
  BY <1>1, <1>2

LEMMA CloseResourcesStep ==
  ASSUME HostInv, NEW G \in SUBSET Generations, CloseResources(G),
         \A g \in G : Built(g) /\ closes[g] = 0,
         UNCHANGED <<source, noChange>>,
         \A g \in Generations : prep'[g] = "free" <=> prep[g] = "free",
         \A g \in Generations : Gone(g)' <=> Gone(g) \/ g \in G
  PROVE  /\ ClosesExact' /\ LeasedWhileOpen'
         /\ closes' \in [Generations -> Nat] /\ beat' \in [Generations -> BOOLEAN]
         /\ relq' \in [Workspaces -> Seq(Generations)]
         /\ UNCHANGED <<row, relBusy, accepting>>
<1>1. TypeOK /\ ClosesExact /\ LeasedWhileOpen
  BY HostParts
<1>2. /\ closes' = [g \in Generations |-> closes[g] + (IF g \in G THEN 1 ELSE 0)]
      /\ beat' = [g \in Generations |-> beat[g] /\ g \notin G]
      /\ relq' = Enqueued(G, source)
      /\ UNCHANGED <<row, relBusy, accepting>>
  BY DEF CloseResources, CloseLeases
<1>3. closes \in [Generations -> Nat] /\ beat \in [Generations -> BOOLEAN]
  BY <1>1 DEF TypeOK
<1>4. closes' \in [Generations -> Nat] /\ beat' \in [Generations -> BOOLEAN]
  BY <1>2, <1>3
<1> DEFINE U == {g \in Generations : prep[g] # "free"}
<1>5. /\ relq' \in [Workspaces -> Seq(Generations)]
      /\ \A w \in Workspaces : \A i \in DOMAIN relq'[w] : relq'[w][i] \in U
  <2>1. G \in SUBSET U /\ U \in SUBSET Generations
    BY DEF Built
  <2>2. \A w \in Workspaces : \A i \in DOMAIN relq[w] : relq[w][i] \in U
    <3>1. \A w \in Workspaces : relq[w] \in Seq(Generations)
      BY <1>1 DEF TypeOK
    <3>2. \A w \in Workspaces : \A i \in DOMAIN relq[w] : relq[w][i] \in Generations
      BY <3>1
    <3> QED
      BY <1>1, <3>2 DEF ClosesExact
  <2> HIDE DEF U
  <2> QED
    BY <1>1, <1>2, <2>1, <2>2, EnqueuedElements
<1>6. \A g \in Generations : closes'[g] = IF Gone(g)' THEN 1 ELSE 0
  <2>1. \A g \in Generations : closes[g] = IF Gone(g) THEN 1 ELSE 0
    BY <1>1 DEF ClosesExact
  <2>2. ASSUME NEW g \in Generations PROVE closes'[g] = IF Gone(g)' THEN 1 ELSE 0
    <3>1. CASE g \in G
      <4>1. closes[g] = 0 /\ Gone(g)'
        BY <3>1
      <4>2. closes'[g] = 1
        BY <1>2, <3>1, <4>1
      <4> QED
        BY <4>1, <4>2
    <3>2. CASE g \notin G
      <4>1. closes'[g] = closes[g]
        BY <1>2, <1>3, <3>2
      <4>2. Gone(g)' <=> Gone(g)
        BY <3>2
      <4> QED
        BY <2>1, <4>1, <4>2
    <3> QED
      BY <3>1, <3>2
  <2> QED
    BY <2>2
<1>7. ClosesExact'
  <2>1. \A w \in Workspaces : relBusy[w] \in Generations \union {NoGeneration}
    BY <1>1 DEF TypeOK
  <2>2. \A w \in Workspaces :
          /\ relBusy'[w] # NoGeneration => prep'[relBusy'[w]] # "free"
          /\ \A i \in DOMAIN relq'[w] : prep'[relq'[w][i]] # "free"
    BY <1>1, <1>2, <1>5, <2>1 DEF ClosesExact
  <2>3. \A g \in Generations : prep'[g] = "free" => row'[g] = "none" /\ ~noChange'[g]
    BY <1>1, <1>2 DEF ClosesExact
  <2> QED
    BY <1>6, <2>2, <2>3 DEF ClosesExact
<1>8. LeasedWhileOpen'
  <2>1. \A g \in Generations : Built(g)' <=> Built(g)
    BY DEF Built
  <2>2. \A g \in Generations : closes'[g] = 0 <=> closes[g] = 0 /\ g \notin G
    BY <1>2, <1>3
  <2> QED
    BY <1>1, <1>2, <2>1, <2>2 DEF LeasedWhileOpen
<1> QED
  BY <1>2, <1>4, <1>5, <1>7, <1>8

LEMMA WorkerCloseStep ==
  ASSUME HostInv, NEW w \in Workspaces, WorkerClose(w)
  PROVE  HostInv'
<1>1. /\ TypeOK /\ ClosesExact /\ CleanupIsScheduled /\ ManagersExact
      /\ RefsTell /\ Tombs /\ RefsExact /\ HoldersFinite
  BY HostParts, TombstoneParts
<1>2. PICK g \in Generations : g = working[w]
  BY <1>1 DEF WorkerClose, ManagersExact, TypeOK, NoGeneration
<1>3. /\ UNCHANGED <<source, prep, noChange, managerVars, working, kicks, callVars, hostVars, holding>>
      /\ worker[w] = "close" /\ worker' = [worker EXCEPT ![w] = "finish"]
      /\ CloseResources({g})
  BY <1>2 DEF WorkerClose
<1>4. worker \in [Workspaces -> {"off", "next", "close", "finish"}]
  BY <1>1 DEF TypeOK
<1>5. /\ worker' \in [Workspaces -> {"off", "next", "close", "finish"}]
      /\ worker'[w] = "finish" /\ \A v \in Workspaces \ {w} : worker'[v] = worker[v]
  BY <1>3, <1>4
<1>6. /\ cleanup[g] = "running" /\ At(g) = w /\ Built(g) /\ prep[g] = "published"
      /\ \A h \in Generations : cleanup[h] = "running" => (At(h) = w <=> h = g)
  <2>1. cleanup[g] = "running" /\ At(g) = w /\ \A h \in Generations : cleanup[h] = "running" => working[At(h)] = h
    BY <1>1, <1>2 DEF ManagersExact, NoGeneration, Generations
  <2>2. prep[g] = "published" /\ ~noChange[g]
    BY <1>1, <2>1 DEF ManagersExact
  <2> QED
    BY <1>2, <2>1, <2>2 DEF Built
<1>7. \A h \in Generations : source[h] # None => At(h) \in Workspaces
  BY <1>1, HostAssumption DEF TypeOK, At
<1>8. \A h \in Generations : cleanup[h] # "none" => source[h] # None
  <2>1. \A h \in Generations : cleanup[h] # "none" => prep[h] # "free"
    BY <1>1 DEF ManagersExact
  <2> QED
    BY <2>1, HostParts DEF CallsOwnTheirs
<1>9. \A h \in Generations : Gone(h)' <=> Gone(h) \/ h \in {g}
  <2>1. ASSUME NEW h \in Generations, h # g PROVE Gone(h)' <=> Gone(h)
    <3>1. CASE cleanup[h] = "running"
      <4>1. worker'[At(h)] = worker[At(h)]
        BY <1>5, <1>6, <1>7, <1>8, <2>1, <3>1
      <4> QED
        BY <1>3, <4>1 DEF Gone, Built, At, managerVars
    <3>2. CASE cleanup[h] # "running"
      BY <1>3, <3>2 DEF Gone, Built, At, managerVars
    <3> QED
      BY <3>1, <3>2
  <2>2. Gone(g)'
    BY <1>2, <1>3, <1>5, <1>6 DEF Gone, Built, At, managerVars
  <2>3. ASSUME NEW h \in Generations, h = g PROVE Gone(h)'
    BY <1>3, <1>5, <1>6, <2>3 DEF Gone, Built, At, managerVars
  <2> QED
    BY <2>1, <2>3
<1>10. closes[g] = 0
  BY <1>1, <1>3, <1>6 DEF ClosesExact, Gone
<1>11. /\ ClosesExact' /\ LeasedWhileOpen'
       /\ closes' \in [Generations -> Nat] /\ beat' \in [Generations -> BOOLEAN]
       /\ relq' \in [Workspaces -> Seq(Generations)]
       /\ UNCHANGED <<row, relBusy, accepting>>
  <2> DEFINE G == {g}
  <2>1. /\ G \in SUBSET Generations /\ CloseResources(G) /\ \A h \in G : Built(h) /\ closes[h] = 0
        /\ \A h \in Generations : Gone(h)' <=> Gone(h) \/ h \in G
    BY <1>3, <1>6, <1>9, <1>10
  <2>2. UNCHANGED <<source, noChange>> /\ \A h \in Generations : prep'[h] = "free" <=> prep[h] = "free"
    BY <1>3
  <2> HIDE DEF G
  <2> QED
    BY <2>1, <2>2, CloseResourcesStep
<1>12. TypeOK'
  BY <1>1, <1>3, <1>5, <1>11 DEF TypeOK, managerVars, callVars, hostVars
<1>13. CleanupIsScheduled'
  <2>1. \A v \in Workspaces : worker[v] # "off" => worker'[v] # "off"
    BY <1>5
  <2> QED
    BY <1>1, <1>3, <1>7, <1>8, <2>1 DEF CleanupIsScheduled, At, managerVars, callVars
<1>14. ManagersExact'
  <2>1. \A v \in Workspaces : worker'[v] \in {"close", "finish"} <=> worker[v] \in {"close", "finish"}
    BY <1>3, <1>5
  <2> QED
    BY <1>1, <1>3, <2>1 DEF ManagersExact, At, managerVars, hostVars
<1>15. HoldersFinite' /\ RefsExact' /\ RefsTell' /\ Tombs'
  BY <1>1, <1>3 DEF HoldersFinite, HoldersOf, RefsExact, RefsTell, Tombs, At, managerVars
<1>16. CallsOwnTheirs'
  BY <1>3, HostParts, CallsFrame DEF callVars, hostVars
<1> QED
  BY <1>11, <1>12, <1>13, <1>14, <1>15, <1>16, HostAgain

LEMMA WorkerFinishStep ==
  ASSUME HostInv, NEW w \in Workspaces, WorkerFinish(w)
  PROVE  HostInv'
<1>1. /\ TypeOK /\ ClosesExact /\ LeasedWhileOpen /\ CleanupIsScheduled /\ ManagersExact
      /\ RefsTell /\ Tombs /\ RefsExact /\ HoldersFinite
  BY HostParts, TombstoneParts
<1>2. PICK g \in Generations : g = working[w]
  BY <1>1 DEF WorkerFinish, ManagersExact, TypeOK, NoGeneration
<1>3. /\ UNCHANGED <<genVars, leaseVars, current, refs, kicks, callVars, hostVars, holding>>
      /\ worker[w] = "finish" /\ worker' = [worker EXCEPT ![w] = "next"]
      /\ working' = [working EXCEPT ![w] = NoGeneration]
      /\ cleanup' = [cleanup EXCEPT ![g] = "finished"]
      /\ RemoveRetired(w, g)
  BY <1>2 DEF WorkerFinish
<1>4. /\ worker \in [Workspaces -> {"off", "next", "close", "finish"}]
      /\ working \in [Workspaces -> Generations \union {NoGeneration}]
      /\ cleanup \in [Generations -> {"none", "draining", "pending", "running", "finished"}]
      /\ retired \in [Workspaces -> Seq(Generations)]
  BY <1>1 DEF TypeOK
<1>5. /\ worker' \in [Workspaces -> {"off", "next", "close", "finish"}]
      /\ worker'[w] = "next" /\ \A v \in Workspaces \ {w} : worker'[v] = worker[v]
      /\ working' \in [Workspaces -> Generations \union {NoGeneration}]
      /\ working'[w] = NoGeneration /\ \A v \in Workspaces \ {w} : working'[v] = working[v]
      /\ cleanup' \in [Generations -> {"none", "draining", "pending", "running", "finished"}]
      /\ cleanup'[g] = "finished" /\ \A h \in Generations \ {g} : cleanup'[h] = cleanup[h]
  BY <1>3, <1>4
<1>6. /\ cleanup[g] = "running" /\ At(g) = w /\ prep[g] = "published" /\ ~noChange[g]
      /\ \A h \in Generations : cleanup[h] = "running" => (At(h) = w <=> h = g)
  <2>1. cleanup[g] = "running" /\ At(g) = w /\ \A h \in Generations : cleanup[h] = "running" => working[At(h)] = h
    BY <1>1, <1>2 DEF ManagersExact, NoGeneration, Generations
  <2>2. prep[g] = "published" /\ ~noChange[g]
    BY <1>1, <2>1 DEF ManagersExact
  <2> QED
    BY <1>2, <2>1, <2>2
<1>7. \A h \in Generations : source[h] # None => At(h) \in Workspaces
  BY <1>1, HostAssumption DEF TypeOK, At
<1>8. \A h \in Generations : cleanup[h] # "none" => source[h] # None
  <2>1. \A h \in Generations : cleanup[h] # "none" => prep[h] # "free"
    BY <1>1 DEF ManagersExact
  <2> QED
    BY <2>1, HostParts DEF CallsOwnTheirs
<1>9. PICK i \in DOMAIN retired[w] :
        retired[w][i] = g /\ retired' = [retired EXCEPT ![w] = RemoveAt(retired[w], i)]
  BY <1>3 DEF RemoveRetired
<1>10. /\ retired' \in [Workspaces -> Seq(Generations)]
       /\ Elements(retired'[w]) = Elements(retired[w]) \ {g}
       /\ Distinct(retired'[w])
       /\ \A v \in Workspaces \ {w} : retired'[v] = retired[v]
  <2>1. retired[w] \in Seq(Generations) /\ Distinct(retired[w])
    BY <1>1, <1>4 DEF Tombs
  <2>2. /\ RemoveAt(retired[w], i) \in Seq(Generations) /\ Distinct(RemoveAt(retired[w], i))
        /\ Elements(RemoveAt(retired[w], i)) = Elements(retired[w]) \ {retired[w][i]}
    BY <1>9, <2>1, RemoveElements
  <2> QED
    BY <1>4, <1>9, <2>2
<1>11. Tombs'
  <2>1. \A v \in Workspaces : Distinct(retired'[v])
    BY <1>1, <1>10 DEF Tombs
  <2>2. ASSUME NEW h \in Generations
        PROVE  cleanup'[h] \in {"draining", "pending", "running"} <=>
                 source[h] # None /\ h \in Elements(retired'[At(h)])
    <3>1. CASE h = g
      BY <1>5, <1>6, <1>10, <3>1
    <3>2. CASE h # g
      <4>1. source[h] # None => (h \in Elements(retired'[At(h)]) <=> h \in Elements(retired[At(h)]))
        BY <1>7, <1>10, <3>2
      <4> QED
        BY <1>1, <1>5, <3>2, <4>1 DEF Tombs
    <3> QED
      BY <3>1, <3>2
  <2> QED
    BY <1>3, <2>1, <2>2, SMTT(60) DEF Tombs, Elements, Distinct, At, genVars
<1>12. RefsTell'
  <2>1. refs[g] = 0
    BY <1>1, <1>6 DEF RefsTell
  <2> QED
    BY <1>1, <1>3, <1>5, <2>1 DEF RefsTell
<1>13. \A h \in Generations : Gone(h)' <=> Gone(h)
  <2>1. ASSUME NEW h \in Generations, h # g PROVE Gone(h)' <=> Gone(h)
    <3>1. CASE cleanup[h] = "running"
      <4>1. worker'[At(h)] = worker[At(h)]
        BY <1>5, <1>6, <1>7, <1>8, <2>1, <3>1
      <4> QED
        BY <1>3, <1>5, <2>1, <4>1 DEF Gone, Built, At, genVars
    <3>2. CASE cleanup[h] # "running"
      BY <1>3, <1>5, <2>1, <3>2 DEF Gone, Built, At, genVars
    <3> QED
      BY <3>1, <3>2
  <2>2. ASSUME NEW h \in Generations, h = g PROVE Gone(h)' <=> Gone(h)
    BY <1>3, <1>5, <1>6, <2>2 DEF Gone, Built, At, genVars
  <2> QED
    BY <2>1, <2>2
<1>14. ClosesExact' /\ LeasedWhileOpen'
  BY <1>1, <1>3, <1>13 DEF ClosesExact, LeasedWhileOpen, Built, genVars, leaseVars
<1>15. TypeOK'
  BY <1>1, <1>3, <1>5, <1>10 DEF TypeOK, genVars, leaseVars, callVars, hostVars
<1>16. CleanupIsScheduled'
  <2>1. \A v \in Workspaces : worker[v] # "off" => worker'[v] # "off"
    BY <1>5
  <2>2. \A h \in Generations : cleanup'[h] = "pending" => cleanup[h] = "pending"
    BY <1>5
  <2> QED
    BY <1>1, <1>3, <1>7, <1>8, <2>1, <2>2 DEF CleanupIsScheduled, At, genVars, callVars
<1>17. ManagersExact'
  <2>1. \A h \in Generations : prep[h] # "published" \/ noChange[h] => cleanup'[h] = "none" /\ refs[h] = 0
    BY <1>1, <1>5, <1>6 DEF ManagersExact
  <2>2. \A v \in Workspaces : current[v] # NoGeneration =>
          /\ prep[current[v]] = "published" /\ ~noChange[current[v]]
          /\ At(current[v]) = v /\ cleanup'[current[v]] = "none" /\ v \in loaded
    <3>1. \A v \in Workspaces : current[v] \in Generations \union {NoGeneration}
      BY <1>1 DEF TypeOK
    <3> QED
      BY <1>1, <1>5, <1>6, <3>1 DEF ManagersExact
  <2>3. \A h \in Generations : prep[h] = "published" /\ ~noChange[h] /\ cleanup'[h] = "none" => current[At(h)] = h
    BY <1>1, <1>5 DEF ManagersExact
  <2>4. \A v \in Workspaces : working'[v] # NoGeneration <=> worker'[v] \in {"close", "finish"}
    <3>1. \A v \in Workspaces \ {w} : working'[v] # NoGeneration <=> worker'[v] \in {"close", "finish"}
      BY <1>1, <1>5 DEF ManagersExact
    <3> QED
      BY <1>5, <3>1
  <2>5. \A v \in Workspaces : working'[v] # NoGeneration =>
          cleanup'[working'[v]] = "running" /\ At(working'[v]) = v
    <3>1. \A v \in Workspaces \ {w} : working[v] # NoGeneration =>
            /\ working[v] \in Generations /\ cleanup[working[v]] = "running" /\ At(working[v]) = v
      BY <1>1, <1>4 DEF ManagersExact
    <3>2. \A v \in Workspaces \ {w} : working'[v] # NoGeneration =>
            cleanup'[working'[v]] = "running" /\ At(working'[v]) = v
      BY <1>5, <1>6, <3>1
    <3> QED
      BY <1>5, <3>2
  <2>6. \A h \in Generations : cleanup'[h] = "running" => working'[At(h)] = h
    <3>1. ASSUME NEW h \in Generations, cleanup'[h] = "running"
          PROVE  working'[At(h)] = h
      <4>1. h # g /\ cleanup[h] = "running" /\ At(h) # w /\ At(h) \in Workspaces
        BY <1>5, <1>6, <1>7, <1>8, <3>1
      <4> QED
        BY <1>1, <1>5, <4>1 DEF ManagersExact
    <3> QED
      BY <3>1
  <2>7. \A v \in Workspaces : \A j \in DOMAIN retired'[v] :
          prep[retired'[v][j]] = "published" /\ At(retired'[v][j]) = v
    <3>1. \A v \in Workspaces : Elements(retired'[v]) \subseteq Elements(retired[v])
      BY <1>10
    <3>2. \A v \in Workspaces : \A x \in Elements(retired[v]) : prep[x] = "published" /\ At(x) = v
      BY <1>1 DEF ManagersExact, Elements
    <3>3. \A v \in Workspaces : \A x \in Elements(retired'[v]) : prep[x] = "published" /\ At(x) = v
      BY <3>1, <3>2
    <3> QED
      BY <3>3 DEF Elements
  <2> QED
    BY <1>3, <2>1, <2>2, <2>3, <2>4, <2>5, <2>6, <2>7 DEF ManagersExact, At, genVars, hostVars
<1>18. HoldersFinite' /\ RefsExact'
  BY <1>1, <1>3 DEF HoldersFinite, HoldersOf, RefsExact
<1>19. CallsOwnTheirs'
  BY <1>3, HostParts, CallsFrame DEF genVars, callVars, hostVars
<1> QED
  BY <1>11, <1>12, <1>14, <1>15, <1>16, <1>17, <1>18, <1>19, HostAgain

-----------------------------------------------------------------------------
(* What retiring the current generation of a workspace changes. *)
LEMMA RetireStep ==
  ASSUME HostInv, NEW w \in Workspaces, NEW g \in Generations, g = current[w],
         Retire(w, g), UNCHANGED <<source, refs>>
  PROVE  /\ cleanup' \in [Generations -> {"none", "draining", "pending", "running", "finished"}]
         /\ cleanup'[g] = IF refs[g] > 0 THEN "draining" ELSE "pending"
         /\ \A h \in Generations \ {g} : cleanup'[h] = cleanup[h]
         /\ retired' \in [Workspaces -> Seq(Generations)]
         /\ Elements(retired'[w]) = Elements(retired[w]) \union {g}
         /\ \A v \in Workspaces \ {w} : retired'[v] = retired[v]
         /\ Tombs' /\ RefsTell'
<1>1. TypeOK /\ ManagersExact /\ RefsTell /\ Tombs
  BY HostParts, TombstoneParts
<1>2. /\ cleanup \in [Generations -> {"none", "draining", "pending", "running", "finished"}]
      /\ retired \in [Workspaces -> Seq(Generations)] /\ refs \in [Generations -> Nat]
  BY <1>1 DEF TypeOK
<1>3. g # NoGeneration
  BY DEF NoGeneration, Generations
<1>4. /\ cleanup' = [cleanup EXCEPT ![g] = IF refs[g] > 0 THEN "draining" ELSE "pending"]
      /\ retired' = [retired EXCEPT ![w] = Append(retired[w], g)]
  BY <1>3 DEF Retire, RetiredAs
<1>5. /\ cleanup' \in [Generations -> {"none", "draining", "pending", "running", "finished"}]
      /\ cleanup'[g] = IF refs[g] > 0 THEN "draining" ELSE "pending"
      /\ \A h \in Generations \ {g} : cleanup'[h] = cleanup[h]
  BY <1>2, <1>4
<1>6. prep[g] = "published" /\ At(g) = w /\ cleanup[g] = "none" /\ source[g] # None
  <2>1. prep[g] = "published" /\ At(g) = w /\ cleanup[g] = "none"
    BY <1>1, <1>3 DEF ManagersExact
  <2> QED
    BY <2>1, HostParts DEF CallsOwnTheirs
<1>7. g \notin Elements(retired[w])
  BY <1>1, <1>6 DEF Tombs
<1>8. /\ retired' \in [Workspaces -> Seq(Generations)]
      /\ Elements(retired'[w]) = Elements(retired[w]) \union {g}
      /\ Distinct(retired'[w])
      /\ \A v \in Workspaces \ {w} : retired'[v] = retired[v]
  <2>1. retired[w] \in Seq(Generations) /\ Distinct(retired[w])
    BY <1>1, <1>2 DEF Tombs
  <2>2. /\ Append(retired[w], g) \in Seq(Generations)
        /\ Elements(Append(retired[w], g)) = Elements(retired[w]) \union {g}
        /\ Distinct(Append(retired[w], g))
    BY <1>7, <2>1, AppendElements
  <2> QED
    BY <1>2, <1>4, <2>2
<1>9. \A h \in Generations : source[h] # None => At(h) \in Workspaces
  BY <1>1, HostAssumption DEF TypeOK, At
<1>10. Tombs'
  <2>1. \A v \in Workspaces : Distinct(retired'[v])
    BY <1>1, <1>8 DEF Tombs
  <2>2. ASSUME NEW h \in Generations
        PROVE  cleanup'[h] \in {"draining", "pending", "running"} <=>
                 source[h] # None /\ h \in Elements(retired'[At(h)])
    <3>1. CASE h = g
      BY <1>5, <1>6, <1>8, <3>1
    <3>2. CASE h # g
      <4>1. source[h] # None => (h \in Elements(retired'[At(h)]) <=> h \in Elements(retired[At(h)]))
        BY <1>8, <1>9, <3>2
      <4> QED
        BY <1>1, <1>5, <3>2, <4>1 DEF Tombs
    <3> QED
      BY <3>1, <3>2
  <2> QED
    BY <2>1, <2>2 DEF Tombs, Elements, Distinct, At
<1>11. RefsTell'
  <2>1. /\ cleanup'[g] = "draining" => refs[g] > 0
        /\ cleanup'[g] \in {"pending", "running", "finished"} => refs[g] = 0
    <3>1. refs[g] \in Nat
      BY <1>2
    <3> QED
      BY <1>5, <3>1
  <2> QED
    BY <1>1, <1>5, <2>1 DEF RefsTell
<1> QED
  BY <1>5, <1>8, <1>10, <1>11

(* A swap of the current generation, by a publication or by Close. *)
LEMMA SwapStep ==
  ASSUME HostInv, NEW w \in Workspaces, NEW new \in Generations \union {NoGeneration},
         current' = [current EXCEPT ![w] = new], Retire(w, current[w]),
         UNCHANGED <<source, noChange, refs, worker, working, holding, loaded>>,
         \/ new = NoGeneration /\ UNCHANGED prep
         \/ /\ new \in Generations /\ prep[new] = "sealed" /\ prep' = [prep EXCEPT ![new] = "published"]
            /\ ~noChange[new] /\ At(new) = w /\ w \in loaded
  PROVE  /\ ManagersExact' /\ HoldersFinite' /\ RefsExact' /\ RefsTell' /\ Tombs'
         /\ cleanup' \in [Generations -> {"none", "draining", "pending", "running", "finished"}]
         /\ retired' \in [Workspaces -> Seq(Generations)]
         /\ current' \in [Workspaces -> Generations \union {NoGeneration}]
         /\ \A h \in Generations : cleanup'[h] = "pending" => cleanup[h] = "pending" \/ h \in Retired(current[w])
         /\ \A h \in Generations : Gone(h)' <=> Gone(h)
<1>1. TypeOK /\ ManagersExact /\ RefsTell /\ Tombs /\ RefsExact /\ HoldersFinite
  BY HostParts, TombstoneParts
<1>2. PICK old \in Generations \union {NoGeneration} : old = current[w]
  BY <1>1 DEF TypeOK
<1>3. /\ cleanup \in [Generations -> {"none", "draining", "pending", "running", "finished"}]
      /\ retired \in [Workspaces -> Seq(Generations)] /\ refs \in [Generations -> Nat]
      /\ current \in [Workspaces -> Generations \union {NoGeneration}]
      /\ prep \in [Generations -> {"free", "open", "sealed", "published", "closed"}]
  BY <1>1 DEF TypeOK
<1>4. \A h \in Generations : h # NoGeneration
  BY DEF NoGeneration, Generations
<1>5. /\ current' \in [Workspaces -> Generations \union {NoGeneration}]
      /\ current'[w] = new /\ \A v \in Workspaces \ {w} : current'[v] = current[v]
  BY <1>3
<1>6. HoldersFinite' /\ RefsExact'
  BY <1>1 DEF HoldersFinite, HoldersOf, RefsExact
<1>7. old \in Generations =>
        prep[old] = "published" /\ ~noChange[old] /\ At(old) = w /\ cleanup[old] = "none"
  BY <1>1, <1>2, <1>4 DEF ManagersExact
<1>8. /\ cleanup' \in [Generations -> {"none", "draining", "pending", "running", "finished"}]
      /\ retired' \in [Workspaces -> Seq(Generations)]
      /\ old \in Generations => cleanup'[old] = IF refs[old] > 0 THEN "draining" ELSE "pending"
      /\ \A h \in Generations \ {old} : cleanup'[h] = cleanup[h]
      /\ Elements(retired'[w]) \subseteq Elements(retired[w]) \union {old}
      /\ old = NoGeneration => retired' = retired
      /\ \A v \in Workspaces \ {w} : retired'[v] = retired[v]
      /\ RefsTell' /\ Tombs'
  <2>1. CASE old = NoGeneration
    <3>1. cleanup' = cleanup /\ retired' = retired
      BY <1>2, <2>1 DEF Retire
    <3> QED
      BY <1>1, <1>3, <1>4, <2>1, <3>1 DEF RefsTell, Tombs, At
  <2>2. CASE old \in Generations
    <3>1. Retire(w, old)
      BY <1>2
    <3> QED
      BY <1>2, <1>4, <2>2, <3>1, RetireStep
  <2> QED
    BY <2>1, <2>2
<1>9. /\ \A h \in Generations : prep'[h] = "published" <=> prep[h] = "published" \/ h = new
      /\ \A h \in Generations : prep'[h] = "free" <=> prep[h] = "free"
      /\ \A h \in Generations : prep'[h] = "closed" <=> prep[h] = "closed"
      /\ new \in Generations => cleanup[new] = "none" /\ refs[new] = 0 /\ new # old
  <2>1. CASE new = NoGeneration
    BY <1>4, <2>1
  <2>2. CASE new \in Generations
    BY <1>1, <1>3, <1>4, <1>7, <2>2 DEF ManagersExact
  <2> QED
    BY <2>1, <2>2
<1>10. \A h \in Generations : /\ cleanup'[h] \in {"running", "finished"} <=> cleanup[h] \in {"running", "finished"}
                              /\ cleanup'[h] \in {"running", "finished"} => cleanup'[h] = cleanup[h]
                              /\ cleanup'[h] = "none" => cleanup[h] = "none" /\ h # old
  BY <1>7, <1>8
<1>11. ManagersExact'
  <2>1. \A h \in Generations : prep'[h] # "published" \/ noChange[h] => cleanup'[h] = "none" /\ refs[h] = 0
    BY <1>1, <1>7, <1>8, <1>9 DEF ManagersExact
  <2>2. \A v \in Workspaces : current'[v] # NoGeneration =>
          /\ prep'[current'[v]] = "published" /\ ~noChange[current'[v]]
          /\ At(current'[v]) = v /\ cleanup'[current'[v]] = "none" /\ v \in loaded
    <3>1. \A v \in Workspaces \ {w} : current[v] # NoGeneration =>
            /\ current[v] \in Generations /\ prep[current[v]] = "published" /\ ~noChange[current[v]]
            /\ At(current[v]) = v /\ cleanup[current[v]] = "none" /\ v \in loaded
      BY <1>1, <1>3 DEF ManagersExact
    <3>2. \A v \in Workspaces \ {w} : current'[v] # NoGeneration =>
          /\ prep'[current'[v]] = "published" /\ ~noChange[current'[v]]
          /\ At(current'[v]) = v /\ cleanup'[current'[v]] = "none" /\ v \in loaded
      <4>1. \A v \in Workspaces \ {w} : current[v] # NoGeneration => current[v] # old
        BY <1>4, <1>7, <3>1
      <4> QED
        BY <1>5, <1>8, <1>9, <3>1, <4>1
    <3>3. new # NoGeneration =>
          /\ prep'[new] = "published" /\ ~noChange[new] /\ At(new) = w /\ cleanup'[new] = "none"
          /\ w \in loaded
      BY <1>8, <1>9
    <3> QED
      BY <1>5, <3>2, <3>3
  <2>3. \A h \in Generations : prep'[h] = "published" /\ ~noChange[h] /\ cleanup'[h] = "none" => current'[At(h)] = h
    <3>1. ASSUME NEW h \in Generations, prep'[h] = "published", ~noChange[h], cleanup'[h] = "none"
          PROVE  current'[At(h)] = h
      <4>1. CASE h = new
        BY <1>4, <1>5, <4>1
      <4>2. CASE h # new
        <5>1. current[At(h)] = h /\ h # old
          BY <1>1, <1>9, <1>10, <3>1, <4>2 DEF ManagersExact
        <5>2. At(h) # w /\ At(h) \in Workspaces
          <6>1. source[h] # None
            BY <1>9, <3>1, <4>2, HostParts DEF CallsOwnTheirs
          <6> QED
            BY <1>1, <1>2, <5>1, <6>1, HostAssumption DEF TypeOK, At
        <5> QED
          BY <1>5, <5>1, <5>2
      <4> QED
        BY <4>1, <4>2
    <3> QED
      BY <3>1
  <2>4. \A v \in Workspaces : \A j \in DOMAIN retired'[v] :
          prep'[retired'[v][j]] = "published" /\ At(retired'[v][j]) = v
    <3>1. \A v \in Workspaces : \A x \in Elements(retired[v]) :
            x \in Generations /\ prep[x] = "published" /\ At(x) = v
      <4>1. \A v \in Workspaces : retired[v] \in Seq(Generations)
        BY <1>3
      <4>2. \A v \in Workspaces : Elements(retired[v]) \subseteq Generations
        BY <4>1, SeqFacts
      <4> QED
        BY <1>1, <4>2 DEF ManagersExact, Elements
    <3>2. \A v \in Workspaces : \A x \in Elements(retired'[v]) : prep'[x] = "published" /\ At(x) = v
      <4>1. \A v \in Workspaces \ {w} : \A x \in Elements(retired'[v]) : prep'[x] = "published" /\ At(x) = v
        BY <1>8, <1>9, <3>1
      <4>2. \A x \in Elements(retired'[w]) : prep'[x] = "published" /\ At(x) = w
        <5>1. CASE old = NoGeneration
          BY <1>8, <1>9, <3>1, <5>1
        <5>2. CASE old \in Generations
          BY <1>7, <1>8, <1>9, <3>1, <5>2
        <5> QED
          BY <5>1, <5>2
      <4> QED
        BY <4>1, <4>2
    <3> QED
      BY <3>2 DEF Elements
  <2>5. \A v \in Workspaces : working[v] # NoGeneration =>
          cleanup'[working[v]] = "running" /\ At(working[v]) = v
    <3>1. \A v \in Workspaces : working[v] # NoGeneration =>
            working[v] \in Generations /\ cleanup[working[v]] = "running" /\ At(working[v]) = v
      BY <1>1 DEF ManagersExact, TypeOK
    <3> QED
      BY <1>10, <3>1
  <2>6. \A h \in Generations : cleanup'[h] = "running" => working[At(h)] = h
    BY <1>1, <1>10 DEF ManagersExact
  <2>7. \A v \in Workspaces : working[v] # NoGeneration <=> worker[v] \in {"close", "finish"}
    BY <1>1 DEF ManagersExact
  <2> QED
    BY <2>1, <2>2, <2>3, <2>4, <2>5, <2>6, <2>7 DEF ManagersExact, At
<1>12. \A h \in Generations : cleanup'[h] = "pending" => cleanup[h] = "pending" \/ h \in Retired(current[w])
  <2>1. ASSUME NEW h \in Generations, cleanup'[h] = "pending", h = old
        PROVE  h \in Retired(old)
    <3>1. refs[old] \in Nat /\ ~(refs[old] > 0)
      BY <1>3, <1>8, <2>1
    <3> QED
      BY <1>4, <2>1, <3>1 DEF Retired
  <2> QED
    BY <1>2, <1>8, <2>1
<1>13. \A h \in Generations : Gone(h)' <=> Gone(h)
  BY <1>9, <1>10 DEF Gone, Built, At
<1> QED
  BY <1>5, <1>6, <1>8, <1>11, <1>12, <1>13

LEMMA CloseManagerStep ==
  ASSUME HostInv, NEW w \in Workspaces, CloseManager(w)
  PROVE  HostInv'
<1>1. TypeOK /\ ClosesExact /\ LeasedWhileOpen /\ CleanupIsScheduled
  BY HostParts
<1>2. /\ UNCHANGED <<genVars, leaseVars, refs, worker, working, callVars, loaded, closed, holding>>
      /\ current' = [current EXCEPT ![w] = NoGeneration] /\ Retire(w, current[w])
      /\ kicks' = kicks \union Retired(current[w])
      /\ closePc' = [closePc EXCEPT ![w] = "waiting"]
  BY DEF CloseManager
<1>3. /\ ManagersExact' /\ HoldersFinite' /\ RefsExact' /\ RefsTell' /\ Tombs'
      /\ cleanup' \in [Generations -> {"none", "draining", "pending", "running", "finished"}]
      /\ retired' \in [Workspaces -> Seq(Generations)]
      /\ current' \in [Workspaces -> Generations \union {NoGeneration}]
      /\ \A h \in Generations : cleanup'[h] = "pending" => cleanup[h] = "pending" \/ h \in Retired(current[w])
      /\ \A h \in Generations : Gone(h)' <=> Gone(h)
  <2>1. UNCHANGED <<source, prep, noChange, refs, worker, working, holding, loaded>>
    BY <1>2 DEF genVars
  <2> QED
    BY <1>2, <2>1, SwapStep
<1>4. TypeOK'
  <2>1. kicks' \subseteq Generations
    BY <1>1, <1>2 DEF TypeOK, Retired, NoGeneration
  <2>2. closePc' \in [Workspaces -> {"open", "waiting", "closed"}]
    BY <1>1, <1>2 DEF TypeOK
  <2> QED
    BY <1>1, <1>2, <1>3, <2>1, <2>2 DEF TypeOK, genVars, leaseVars, callVars
<1>5. ClosesExact' /\ LeasedWhileOpen'
  BY <1>1, <1>2, <1>3 DEF ClosesExact, LeasedWhileOpen, Built, genVars, leaseVars
<1>6. CleanupIsScheduled'
  BY <1>1, <1>2, <1>3 DEF CleanupIsScheduled, At, genVars, callVars
<1>7. CallsOwnTheirs'
  BY <1>2, HostParts, CallsFrame DEF genVars, callVars
<1> QED
  BY <1>3, <1>4, <1>5, <1>6, <1>7, HostAgain

(* No manager notices a change of what is not published. *)
LEMMA PublishedFrame ==
  ASSUME HostInv,
         UNCHANGED <<source, noChange, current, retired, refs, cleanup, worker, working, holding, loaded>>,
         \A g \in Generations : prep'[g] = "published" <=> prep[g] = "published"
  PROVE  ManagersExact' /\ HoldersFinite' /\ RefsExact' /\ RefsTell' /\ Tombs'
<1>1. ManagersExact /\ HoldersFinite /\ RefsExact /\ RefsTell /\ Tombs /\ TypeOK
  BY TombstoneParts, HostParts
<1>2. \A w \in Workspaces : /\ current[w] \in Generations \union {NoGeneration}
                            /\ \A i \in DOMAIN retired[w] : retired[w][i] \in Generations
  <2>1. \A w \in Workspaces : current[w] \in Generations \union {NoGeneration} /\ retired[w] \in Seq(Generations)
    BY <1>1 DEF TypeOK
  <2> QED
    BY <2>1
<1>3. ManagersExact'
  BY <1>1, <1>2 DEF ManagersExact, At
<1>4. HoldersFinite' /\ RefsExact' /\ RefsTell' /\ Tombs'
  BY <1>1 DEF RefsExact, RefsTell, Tombs, HoldersFinite, HoldersOf, At
<1> QED
  BY <1>3, <1>4

-----------------------------------------------------------------------------
(* Activation calls *)

(* A call that goes on with its own Prepared objects. *)
LEMMA CallGoesOn ==
  ASSUME HostInv, NEW c \in Calls, callPc[c] # "idle", callPc'[c] # "idle",
         \A d \in Calls \ {c} : callPc'[d] = callPc[d],
         UNCHANGED <<source, items, loaded>>,
         \A g \in Generations : g \notin items[c] => prep'[g] = prep[g],
         \A g \in items[c] :
            /\ prep'[g] # "free"
            /\ callPc'[c] = "prepared" => prep'[g] = "open"
            /\ callPc'[c] = "sealed" => prep'[g] = "sealed"
            /\ callPc'[c] = "publishing" => prep'[g] \in {"sealed", "published"}
            /\ callPc'[c] \in {"answered", "done"} => prep'[g] \in {"published", "closed"},
         \A d \in Calls : writer' = d <=> callPc'[d] = "publishing",
         closed' => writer' = None
  PROVE  CallsOwnTheirs' /\ \A g \in Generations : prep'[g] = "free" <=> prep[g] = "free"
<1>1. TypeOK /\ CallsOwnTheirs
  BY HostParts
<1>2. \A g \in items[c] : g \in Generations /\ prep[g] # "free"
  BY <1>1 DEF CallsOwnTheirs, TypeOK
<1>3. \A g \in Generations : prep'[g] = "free" <=> prep[g] = "free"
  BY <1>2
<1>4. Used' = Used
  BY <1>3 DEF Used
<1>5. Used' \subseteq 1..Cardinality(Used')
  BY <1>1, <1>4 DEF CallsOwnTheirs
<1>6. \A g \in Generations : prep'[g] \in {"open", "sealed"} => \E d \in Calls : g \in items[d]
  BY <1>1 DEF CallsOwnTheirs
<1>7. ASSUME NEW d \in Calls
      PROVE  /\ callPc'[d] = "idle" => items[d] = {}
             /\ callPc'[d] # "idle" => loaded = Workspaces
             /\ writer' = d <=> callPc'[d] = "publishing"
             /\ \A g \in items[d] :
                  /\ callPc'[d] = "prepared" => prep'[g] = "open"
                  /\ callPc'[d] = "sealed" => prep'[g] = "sealed"
                  /\ callPc'[d] = "publishing" => prep'[g] \in {"sealed", "published"}
                  /\ callPc'[d] \in {"answered", "done"} => prep'[g] \in {"published", "closed"}
  <2>1. CASE d = c
    BY <1>1, <2>1 DEF CallsOwnTheirs
  <2>2. CASE d # c
    <3>1. \A g \in items[d] : g \in Generations /\ g \notin items[c]
      BY <1>1, <2>2 DEF CallsOwnTheirs, TypeOK
    <3>2. callPc'[d] = callPc[d] /\ \A g \in items[d] : prep'[g] = prep[g]
      BY <2>2, <3>1
    <3> QED
      BY <1>1, <3>2 DEF CallsOwnTheirs
  <2> QED
    BY <2>1, <2>2
<1>8. CallsOwnTheirs'
  <2>1. /\ \A g \in Generations : prep'[g] = "free" <=> source'[g] = None
        /\ \A d, e \in Calls : d # e => items[d] \intersect items[e] = {}
    BY <1>1, <1>3 DEF CallsOwnTheirs
  <2> QED
    BY <1>5, <1>6, <1>7, <2>1 DEF CallsOwnTheirs
<1> QED
  BY <1>3, <1>8

LEMMA SealStep ==
  ASSUME HostInv, NEW c \in Calls, Seal(c)
  PROVE  HostInv'
<1>1. TypeOK /\ ClosesExact /\ LeasedWhileOpen /\ CleanupIsScheduled /\ ManagersExact /\ CallsOwnTheirs
  BY HostParts
<1>2. /\ UNCHANGED <<source, noChange, closes, leaseVars, managerVars, workerVars, items, replaced,
                     writer, hostVars, holding>>
      /\ callPc[c] = "prepared" /\ callPc' = [callPc EXCEPT ![c] = "sealed"]
      /\ prep' = [g \in Generations |-> IF g \in items[c] THEN "sealed" ELSE prep[g]]
      /\ \A g \in items[c] : g \in Generations /\ prep[g] = "open"
  BY <1>1 DEF Seal, TypeOK
<1>3. /\ callPc' \in [Calls -> {"idle", "prepared", "sealed", "publishing", "answered", "done"}]
      /\ callPc'[c] = "sealed" /\ \A d \in Calls \ {c} : callPc'[d] = callPc[d]
      /\ prep' \in [Generations -> {"free", "open", "sealed", "published", "closed"}]
      /\ \A g \in Generations : /\ g \in items[c] => prep'[g] = "sealed" /\ prep[g] = "open"
                                /\ g \notin items[c] => prep'[g] = prep[g]
  BY <1>1, <1>2 DEF TypeOK
<1>4. \A d \in Calls : writer' = d <=> callPc'[d] = "publishing"
  BY <1>1, <1>2, <1>3 DEF CallsOwnTheirs
<1>5. closed' => writer' = None
  BY <1>1, <1>2 DEF CallsOwnTheirs, hostVars
<1>6. CallsOwnTheirs' /\ \A g \in Generations : prep'[g] = "free" <=> prep[g] = "free"
  <2>1. UNCHANGED <<source, items, loaded>>
    BY <1>2 DEF hostVars
  <2>2. \A g \in items[c] : prep'[g] = "sealed"
    BY <1>2, <1>3
  <2> QED
    BY <1>2, <1>3, <1>4, <1>5, <2>1, <2>2, CallGoesOn
<1>7. TypeOK'
  BY <1>1, <1>2, <1>3 DEF TypeOK, leaseVars, managerVars, workerVars, hostVars
<1>8. \A g \in Generations : prep'[g] \in {"published", "closed"} <=> prep[g] \in {"published", "closed"}
  BY <1>3
<1>9. \A g \in Generations : Gone(g)' <=> Gone(g)
  BY <1>2, <1>3, <1>6 DEF Gone, Built, At, managerVars, workerVars
<1>10. ClosesExact' /\ LeasedWhileOpen'
  <2>1. \A w \in Workspaces : /\ relBusy[w] \in Generations \union {NoGeneration}
                              /\ \A i \in DOMAIN relq[w] : relq[w][i] \in Generations
    <3>1. \A w \in Workspaces : relq[w] \in Seq(Generations) /\ relBusy[w] \in Generations \union {NoGeneration}
      BY <1>1 DEF TypeOK
    <3> QED
      BY <3>1
  <2> QED
    BY <1>1, <1>2, <1>6, <1>9, <2>1 DEF ClosesExact, LeasedWhileOpen, Built, leaseVars
<1>11. ManagersExact' /\ HoldersFinite' /\ RefsExact' /\ RefsTell' /\ Tombs'
  <2>1. \A g \in Generations : prep'[g] = "published" <=> prep[g] = "published"
    BY <1>3
  <2>2. UNCHANGED <<source, noChange, current, retired, refs, cleanup, worker, working, holding, loaded>>
    BY <1>2 DEF managerVars, workerVars, hostVars
  <2> QED
    BY <2>1, <2>2, PublishedFrame
<1>12. CleanupIsScheduled'
  BY <1>1, <1>2 DEF CleanupIsScheduled, At, managerVars, workerVars
<1> QED
  BY <1>6, <1>7, <1>10, <1>11, <1>12, HostAgain

(* A call closes some of its generations that are built and still open. *)
LEMMA CallCloses ==
  ASSUME HostInv, NEW c \in Calls, NEW G \in SUBSET Generations, CloseResources(G),
         UNCHANGED <<source, noChange, managerVars, workerVars, hostVars, holding>>,
         \A g \in G : Built(g) /\ prep[g] \notin {"published", "closed"},
         prep' \in [Generations -> {"free", "open", "sealed", "published", "closed"}],
         \A g \in Generations : prep'[g] = "free" <=> prep[g] = "free",
         \A g \in Generations : prep'[g] = "published" <=> prep[g] = "published",
         \A g \in Generations : Built(g) => (prep'[g] = "closed" <=> prep[g] = "closed" \/ g \in G)
  PROVE  /\ ClosesExact' /\ LeasedWhileOpen'
         /\ closes' \in [Generations -> Nat] /\ beat' \in [Generations -> BOOLEAN]
         /\ relq' \in [Workspaces -> Seq(Generations)]
         /\ UNCHANGED <<row, relBusy, accepting>>
         /\ ManagersExact' /\ HoldersFinite' /\ RefsExact' /\ RefsTell' /\ Tombs'
<1>1. ClosesExact /\ ManagersExact
  BY HostParts
<1>2. \A g \in G : closes[g] = 0
  BY <1>1 DEF ClosesExact, ManagersExact, Gone
<1>3. \A g \in Generations : Gone(g)' <=> Gone(g) \/ g \in G
  BY DEF Gone, Built, At, managerVars, workerVars
<1>4. UNCHANGED <<source, noChange>>
  OBVIOUS
<1>5. /\ ClosesExact' /\ LeasedWhileOpen'
      /\ closes' \in [Generations -> Nat] /\ beat' \in [Generations -> BOOLEAN]
      /\ relq' \in [Workspaces -> Seq(Generations)]
      /\ UNCHANGED <<row, relBusy, accepting>>
  BY <1>2, <1>3, <1>4, CloseResourcesStep
<1>6. UNCHANGED <<source, noChange, current, retired, refs, cleanup, worker, working, holding, loaded>>
  BY DEF managerVars, workerVars, hostVars
<1> QED
  BY <1>5, <1>6, PublishedFrame

LEMMA DiscardStep ==
  ASSUME HostInv, NEW c \in Calls, Discard(c)
  PROVE  HostInv'
<1>1. TypeOK /\ CleanupIsScheduled /\ CallsOwnTheirs
  BY HostParts
<1>2. PICK open \in SUBSET Generations : open = {g \in items[c] : prep[g] = "open"}
  BY <1>1 DEF TypeOK
<1>3. PICK G \in SUBSET Generations : G = {g \in open : ~noChange[g]}
  OBVIOUS
<1>4. /\ UNCHANGED <<source, noChange, managerVars, workerVars, items, replaced, writer, hostVars, holding>>
      /\ callPc[c] \in {"prepared", "answered"} /\ callPc' = [callPc EXCEPT ![c] = "done"]
      /\ prep' = [g \in Generations |-> IF g \in open THEN "closed" ELSE prep[g]]
      /\ CloseResources(G)
  BY <1>2, <1>3 DEF Discard
<1>5. /\ callPc' \in [Calls -> {"idle", "prepared", "sealed", "publishing", "answered", "done"}]
      /\ callPc'[c] = "done" /\ \A d \in Calls \ {c} : callPc'[d] = callPc[d]
      /\ prep' \in [Generations -> {"free", "open", "sealed", "published", "closed"}]
      /\ \A g \in Generations : /\ g \in open => prep'[g] = "closed" /\ prep[g] = "open"
                                /\ g \notin open => prep'[g] = prep[g]
  BY <1>1, <1>2, <1>4 DEF TypeOK
<1>6. \A d \in Calls : writer' = d <=> callPc'[d] = "publishing"
  BY <1>1, <1>4, <1>5 DEF CallsOwnTheirs
<1>7. closed' => writer' = None
  BY <1>1, <1>4 DEF CallsOwnTheirs, hostVars
<1>8. CallsOwnTheirs' /\ \A g \in Generations : prep'[g] = "free" <=> prep[g] = "free"
  <2>1. UNCHANGED <<source, items, loaded>> /\ callPc[c] # "idle"
    BY <1>4 DEF hostVars
  <2>2. \A g \in Generations : g \notin items[c] => prep'[g] = prep[g]
    BY <1>2, <1>5
  <2>3. \A g \in items[c] : prep'[g] \in {"published", "closed"}
    BY <1>1, <1>2, <1>4, <1>5 DEF CallsOwnTheirs, TypeOK
  <2> QED
    BY <1>5, <1>6, <1>7, <2>1, <2>2, <2>3, CallGoesOn
<1>9. /\ ClosesExact' /\ LeasedWhileOpen'
      /\ closes' \in [Generations -> Nat] /\ beat' \in [Generations -> BOOLEAN]
      /\ relq' \in [Workspaces -> Seq(Generations)]
      /\ UNCHANGED <<row, relBusy, accepting>>
      /\ ManagersExact' /\ HoldersFinite' /\ RefsExact' /\ RefsTell' /\ Tombs'
  <2>1. UNCHANGED <<source, noChange, managerVars, workerVars, hostVars, holding>>
    BY <1>4
  <2>2. \A g \in G : Built(g) /\ prep[g] \notin {"published", "closed"}
    BY <1>3, <1>5 DEF Built
  <2>3. \A g \in Generations : /\ prep'[g] = "published" <=> prep[g] = "published"
                               /\ Built(g) => (prep'[g] = "closed" <=> prep[g] = "closed" \/ g \in G)
    BY <1>3, <1>5 DEF Built
  <2> QED
    BY <1>4, <1>5, <1>8, <2>1, <2>2, <2>3, CallCloses
<1>10. TypeOK'
  BY <1>1, <1>4, <1>5, <1>9 DEF TypeOK, managerVars, workerVars, hostVars
<1>11. CleanupIsScheduled'
  BY <1>1, <1>4 DEF CleanupIsScheduled, At, managerVars, workerVars
<1> QED
  BY <1>8, <1>9, <1>10, <1>11, HostAgain

LEMMA ActivateRefusedStep ==
  ASSUME HostInv, NEW c \in Calls, ActivateRefused(c)
  PROVE  HostInv'
<1>1. TypeOK /\ CleanupIsScheduled /\ CallsOwnTheirs
  BY HostParts
<1>2. PICK open \in SUBSET Generations : open = items[c]
  BY <1>1 DEF TypeOK
<1>3. PICK G \in SUBSET Generations : G = {g \in open : ~noChange[g]}
  OBVIOUS
<1>4. /\ UNCHANGED <<source, noChange, managerVars, workerVars, items, replaced, writer, hostVars, holding>>
      /\ callPc[c] = "sealed" /\ callPc' = [callPc EXCEPT ![c] = "answered"]
      /\ prep' = [g \in Generations |-> IF g \in open THEN "closed" ELSE prep[g]]
      /\ CloseResources(G)
  BY <1>2, <1>3 DEF ActivateRefused
<1>5. /\ callPc' \in [Calls -> {"idle", "prepared", "sealed", "publishing", "answered", "done"}]
      /\ callPc'[c] = "answered" /\ \A d \in Calls \ {c} : callPc'[d] = callPc[d]
      /\ prep' \in [Generations -> {"free", "open", "sealed", "published", "closed"}]
      /\ \A g \in Generations : /\ g \in open => prep'[g] = "closed" /\ prep[g] = "sealed"
                                /\ g \notin open => prep'[g] = prep[g]
  BY <1>1, <1>2, <1>4 DEF TypeOK, CallsOwnTheirs
<1>6. \A d \in Calls : writer' = d <=> callPc'[d] = "publishing"
  BY <1>1, <1>4, <1>5 DEF CallsOwnTheirs
<1>7. closed' => writer' = None
  BY <1>1, <1>4 DEF CallsOwnTheirs, hostVars
<1>8. CallsOwnTheirs' /\ \A g \in Generations : prep'[g] = "free" <=> prep[g] = "free"
  <2>1. UNCHANGED <<source, items, loaded>> /\ callPc[c] # "idle"
    BY <1>4 DEF hostVars
  <2>2. \A g \in Generations : g \notin items[c] => prep'[g] = prep[g]
    BY <1>2, <1>5
  <2>3. \A g \in items[c] : prep'[g] = "closed"
    BY <1>2, <1>5
  <2> QED
    BY <1>5, <1>6, <1>7, <2>1, <2>2, <2>3, CallGoesOn
<1>9. /\ ClosesExact' /\ LeasedWhileOpen'
      /\ closes' \in [Generations -> Nat] /\ beat' \in [Generations -> BOOLEAN]
      /\ relq' \in [Workspaces -> Seq(Generations)]
      /\ UNCHANGED <<row, relBusy, accepting>>
      /\ ManagersExact' /\ HoldersFinite' /\ RefsExact' /\ RefsTell' /\ Tombs'
  <2>1. UNCHANGED <<source, noChange, managerVars, workerVars, hostVars, holding>>
    BY <1>4
  <2>2. \A g \in G : Built(g) /\ prep[g] \notin {"published", "closed"}
    BY <1>3, <1>5 DEF Built
  <2>3. \A g \in Generations : /\ prep'[g] = "published" <=> prep[g] = "published"
                               /\ Built(g) => (prep'[g] = "closed" <=> prep[g] = "closed" \/ g \in G)
    BY <1>3, <1>5 DEF Built
  <2> QED
    BY <1>4, <1>5, <1>8, <2>1, <2>2, <2>3, CallCloses
<1>10. TypeOK'
  BY <1>1, <1>4, <1>5, <1>9 DEF TypeOK, managerVars, workerVars, hostVars
<1>11. CleanupIsScheduled'
  BY <1>1, <1>4 DEF CleanupIsScheduled, At, managerVars, workerVars
<1> QED
  BY <1>8, <1>9, <1>10, <1>11, HostAgain

LEMMA ActivateCommittedStep ==
  ASSUME HostInv, NEW c \in Calls, ActivateCommitted(c)
  PROVE  HostInv'
<1>1. TypeOK /\ CleanupIsScheduled /\ CallsOwnTheirs /\ ClosesExact /\ LeasedWhileOpen
  BY HostParts
<1>2. /\ UNCHANGED <<genVars, leaseVars, managerVars, workerVars, items, replaced, hostVars, holding>>
      /\ callPc[c] = "sealed" /\ writer = None /\ ~closed
      /\ writer' = c /\ callPc' = [callPc EXCEPT ![c] = "publishing"]
  BY DEF ActivateCommitted
<1>3. UNCHANGED <<source, prep, noChange, closes, row, beat, relq, relBusy, accepting, current, retired,
                  refs, cleanup, worker, working, kicks, loaded, closed, closePc>>
  BY <1>2 DEF genVars, leaseVars, managerVars, workerVars, hostVars
<1>4. /\ callPc' \in [Calls -> {"idle", "prepared", "sealed", "publishing", "answered", "done"}]
      /\ callPc'[c] = "publishing" /\ \A d \in Calls \ {c} : callPc'[d] = callPc[d]
  BY <1>1, <1>2 DEF TypeOK
<1>5. \A d \in Calls : writer' = d <=> callPc'[d] = "publishing"
  BY <1>1, <1>2, <1>4, HostAssumption DEF CallsOwnTheirs
<1>6. CallsOwnTheirs'
  <2>1. closed' => writer' = None
    BY <1>2, <1>3
  <2>2. \A g \in items[c] : prep'[g] = "sealed"
    BY <1>1, <1>2, <1>3 DEF CallsOwnTheirs
  <2> QED
    BY <1>2, <1>3, <1>4, <1>5, <2>1, <2>2, CallGoesOn
<1>7. TypeOK'
  BY <1>1, <1>2, <1>3, <1>4 DEF TypeOK
<1>8. CleanupIsScheduled'
  BY <1>1, <1>2, <1>3, HostAssumption DEF CleanupIsScheduled, At
<1>9. ClosesExact' /\ LeasedWhileOpen'
  BY <1>1, <1>3, ClosesFrame
<1>10. ManagersExact' /\ HoldersFinite' /\ RefsExact' /\ RefsTell' /\ Tombs'
  BY <1>2, <1>3, ManagersFrame
<1> QED
  BY <1>6, <1>7, <1>8, <1>9, <1>10, HostAgain

LEMMA PublishStep ==
  ASSUME HostInv, NEW c \in Calls, NEW g \in Generations, Publish(c, g)
  PROVE  HostInv'
<1>1. TypeOK /\ CleanupIsScheduled /\ CallsOwnTheirs /\ ClosesExact /\ LeasedWhileOpen /\ ManagersExact
  BY HostParts
<1>2. /\ UNCHANGED <<source, noChange, closes, leaseVars, refs, workerVars, callPc, items, writer,
                     hostVars, holding>>
      /\ writer = c /\ g \in items[c] /\ prep[g] = "sealed" /\ prep' = [prep EXCEPT ![g] = "published"]
  BY DEF Publish
<1>3. UNCHANGED <<source, noChange, closes, row, beat, relq, relBusy, accepting, refs, worker, working,
                  kicks, callPc, items, writer, loaded, closed, closePc, holding>>
  BY <1>2 DEF leaseVars, workerVars, hostVars
<1>4. /\ prep' \in [Generations -> {"free", "open", "sealed", "published", "closed"}]
      /\ prep'[g] = "published" /\ \A h \in Generations \ {g} : prep'[h] = prep[h]
      /\ prep \in [Generations -> {"free", "open", "sealed", "published", "closed"}]
  BY <1>1, <1>2 DEF TypeOK
<1>5. callPc[c] = "publishing" /\ source[g] # None /\ loaded = Workspaces
  BY <1>1, <1>2 DEF CallsOwnTheirs
<1>6. PICK w \in Workspaces : w = At(g)
  BY <1>1, <1>5, HostAssumption DEF TypeOK, At
<1>7. /\ CallsOwnTheirs' /\ \A h \in Generations : prep'[h] = "free" <=> prep[h] = "free"
  <2>1. \A h \in items[c] : prep'[h] \in {"sealed", "published"}
    <3>1. \A h \in items[c] : h \in Generations /\ prep[h] \in {"sealed", "published"}
      BY <1>1, <1>5 DEF CallsOwnTheirs, TypeOK
    <3> QED
      BY <1>4, <3>1
  <2>2. \A h \in Generations : h \notin items[c] => prep'[h] = prep[h]
    BY <1>2, <1>4
  <2>3. \A d \in Calls : writer' = d <=> callPc'[d] = "publishing"
    BY <1>1, <1>3 DEF CallsOwnTheirs
  <2>4. closed' => writer' = None
    BY <1>1, <1>3 DEF CallsOwnTheirs
  <2>5. \A d \in Calls \ {c} : callPc'[d] = callPc[d]
    BY <1>3
  <2> QED
    BY <1>3, <1>5, <2>1, <2>2, <2>3, <2>4, <2>5, CallGoesOn
<1>8. ASSUME \A h \in Generations : Gone(h)' <=> Gone(h)
      PROVE  ClosesExact' /\ LeasedWhileOpen'
  <2>1. \A v \in Workspaces : /\ relBusy[v] \in Generations \union {NoGeneration}
                              /\ \A i \in DOMAIN relq[v] : relq[v][i] \in Generations
    <3>1. \A v \in Workspaces : relq[v] \in Seq(Generations) /\ relBusy[v] \in Generations \union {NoGeneration}
      BY <1>1 DEF TypeOK
    <3> QED
      BY <3>1
  <2> QED
    BY <1>1, <1>3, <1>7, <1>8, <2>1 DEF ClosesExact, LeasedWhileOpen, Built
<1>9. CASE noChange[g]
  <2>1. UNCHANGED <<current, cleanup, retired, replaced>>
    BY <1>9 DEF Publish
  <2>2. \A h \in Generations : Gone(h)' <=> Gone(h)
    BY <1>3, <1>4, <1>9, <2>1 DEF Gone, Built, At
  <2>3. TypeOK'
    BY <1>1, <1>3, <1>4, <2>1 DEF TypeOK
  <2>4. CleanupIsScheduled'
    BY <1>1, <1>3, <2>1 DEF CleanupIsScheduled, At
  <2>5. HoldersFinite' /\ RefsExact' /\ RefsTell' /\ Tombs'
    BY <1>3, <2>1, HostParts, TombstoneParts
       DEF HoldersFinite, HoldersOf, RefsExact, RefsTell, Tombs, At
  <2>6. ManagersExact'
    <3>1. \A v \in Workspaces : /\ current[v] \in Generations \union {NoGeneration}
                                /\ \A i \in DOMAIN retired[v] : retired[v][i] \in Generations
      <4>1. \A v \in Workspaces : retired[v] \in Seq(Generations) /\ current[v] \in Generations \union {NoGeneration}
        BY <1>1 DEF TypeOK
      <4> QED
        BY <4>1
    <3>2. \A h \in Generations : /\ prep'[h] # "published" => prep[h] # "published"
                                 /\ prep[h] = "published" => prep'[h] = "published"
                                 /\ prep'[h] = "published" /\ ~noChange[h] => prep[h] = "published"
      BY <1>2, <1>4, <1>9
    <3> QED
      BY <1>1, <1>3, <2>1, <3>1, <3>2 DEF ManagersExact, At
  <2> QED
    BY <1>7, <1>8, <2>2, <2>3, <2>4, <2>5, <2>6, HostAgain
<1>10. CASE ~noChange[g]
  <2>1. /\ current' = [current EXCEPT ![w] = g] /\ Retire(w, current[w])
        /\ replaced' = [replaced EXCEPT ![c] = @ \union Retired(current[w])]
    BY <1>6, <1>10 DEF Publish
  <2>2. /\ ManagersExact' /\ HoldersFinite' /\ RefsExact' /\ RefsTell' /\ Tombs'
        /\ cleanup' \in [Generations -> {"none", "draining", "pending", "running", "finished"}]
        /\ retired' \in [Workspaces -> Seq(Generations)]
        /\ current' \in [Workspaces -> Generations \union {NoGeneration}]
        /\ \A h \in Generations : cleanup'[h] = "pending" => cleanup[h] = "pending" \/ h \in Retired(current[w])
        /\ \A h \in Generations : Gone(h)' <=> Gone(h)
    <3>1. UNCHANGED <<source, noChange, refs, worker, working, holding, loaded>>
      BY <1>3
    <3>2. /\ g \in Generations /\ prep[g] = "sealed" /\ prep' = [prep EXCEPT ![g] = "published"]
          /\ ~noChange[g] /\ At(g) = w /\ w \in loaded
      BY <1>2, <1>5, <1>6, <1>10
    <3> QED
      BY <2>1, <3>1, <3>2, SwapStep
  <2>3. /\ replaced' \in [Calls -> SUBSET Generations]
        /\ replaced'[c] = replaced[c] \union Retired(current[w])
        /\ \A d \in Calls \ {c} : replaced'[d] = replaced[d]
    <3>1. replaced \in [Calls -> SUBSET Generations] /\ current[w] \in Generations \union {NoGeneration}
      BY <1>1 DEF TypeOK
    <3>2. Retired(current[w]) \subseteq Generations
      BY <3>1 DEF Retired
    <3> QED
      BY <2>1, <3>1, <3>2
  <2>4. TypeOK'
    BY <1>1, <1>3, <1>4, <2>2, <2>3 DEF TypeOK
  <2>5. CleanupIsScheduled'
    <3>1. ASSUME NEW h \in Generations, cleanup'[h] = "pending"
          PROVE  \/ worker[At(h)] # "off" \/ h \in kicks
                 \/ \E d \in Calls : writer = d /\ h \in replaced'[d]
      <4>1. CASE h \in Retired(current[w])
        BY <1>2, <2>3, <4>1
      <4>2. CASE cleanup[h] = "pending"
        BY <1>1, <2>3, <4>2 DEF CleanupIsScheduled
      <4> QED
        BY <2>2, <3>1, <4>1, <4>2
    <3> QED
      BY <1>3, <3>1 DEF CleanupIsScheduled, At
  <2> QED
    BY <1>7, <1>8, <2>2, <2>4, <2>5, HostAgain
<1> QED
  BY <1>9, <1>10

LEMMA UnlockStep ==
  ASSUME HostInv, NEW c \in Calls, Unlock(c)
  PROVE  HostInv'
<1>1. TypeOK /\ CleanupIsScheduled /\ CallsOwnTheirs /\ ClosesExact /\ LeasedWhileOpen
  BY HostParts
<1>2. /\ UNCHANGED <<genVars, leaseVars, managerVars, worker, working, items, replaced, hostVars, holding>>
      /\ writer = c /\ \A g \in items[c] : prep[g] = "published"
      /\ writer' = None /\ kicks' = kicks \union replaced[c]
      /\ callPc' = [callPc EXCEPT ![c] = "answered"]
  BY DEF Unlock
<1>3. UNCHANGED <<source, prep, noChange, closes, row, beat, relq, relBusy, accepting, current, retired,
                  refs, cleanup, worker, working, loaded, closed, closePc>>
  BY <1>2 DEF genVars, leaseVars, managerVars, hostVars
<1>4. /\ callPc' \in [Calls -> {"idle", "prepared", "sealed", "publishing", "answered", "done"}]
      /\ callPc'[c] = "answered" /\ \A d \in Calls \ {c} : callPc'[d] = callPc[d]
  BY <1>1, <1>2 DEF TypeOK
<1>5. \A d \in Calls : writer' = d <=> callPc'[d] = "publishing"
  BY <1>1, <1>2, <1>4, HostAssumption DEF CallsOwnTheirs
<1>6. CallsOwnTheirs'
  <2>1. closed' => writer' = None
    BY <1>2
  <2>2. \A g \in items[c] : prep'[g] = "published"
    BY <1>2, <1>3
  <2>3. callPc[c] # "idle"
    BY <1>1, <1>2 DEF CallsOwnTheirs
  <2> QED
    BY <1>2, <1>3, <1>4, <1>5, <2>1, <2>2, <2>3, CallGoesOn
<1>7. TypeOK'
  <2>1. kicks' \subseteq Generations
    BY <1>1, <1>2 DEF TypeOK
  <2> QED
    BY <1>1, <1>2, <1>3, <1>4, <2>1 DEF TypeOK
<1>8. CleanupIsScheduled'
  BY <1>1, <1>2, <1>3 DEF CleanupIsScheduled, At
<1>9. ClosesExact' /\ LeasedWhileOpen'
  BY <1>1, <1>3, ClosesFrame
<1>10. ManagersExact' /\ HoldersFinite' /\ RefsExact' /\ RefsTell' /\ Tombs'
  BY <1>2, <1>3, ManagersFrame
<1> QED
  BY <1>6, <1>7, <1>8, <1>9, <1>10, HostAgain

LEMMA CloseRegistryStep ==
  ASSUME HostInv, CloseRegistry
  PROVE  HostInv'
<1>1. TypeOK /\ CleanupIsScheduled /\ CallsOwnTheirs /\ ClosesExact /\ LeasedWhileOpen
  BY HostParts
<1>2. /\ UNCHANGED <<genVars, leaseVars, managerVars, workerVars, callVars, loaded, closePc, holding>>
      /\ writer = None /\ closed' = TRUE
  BY DEF CloseRegistry
<1>3. TypeOK'
  BY <1>1, <1>2 DEF TypeOK, genVars, leaseVars, managerVars, workerVars, callVars
<1>4. CallsOwnTheirs'
  <2>1. Used' = Used
    BY <1>2 DEF Used, genVars
  <2> QED
    BY <1>1, <1>2, <2>1 DEF CallsOwnTheirs, genVars, callVars
<1>5. CleanupIsScheduled'
  BY <1>1, <1>2, ScheduledFrame DEF genVars, managerVars, workerVars, callVars
<1>6. ClosesExact' /\ LeasedWhileOpen'
  BY <1>1, <1>2, ClosesFrame DEF genVars, leaseVars, managerVars, workerVars
<1>7. ManagersExact' /\ HoldersFinite' /\ RefsExact' /\ RefsTell' /\ Tombs'
  BY <1>2, ManagersFrame DEF genVars, managerVars, workerVars
<1> QED
  BY <1>3, <1>4, <1>5, <1>6, <1>7, HostAgain

-----------------------------------------------------------------------------
(* Preparation *)

LEMMA AssignFacts ==
  ASSUME HostInv, NEW T \in SUBSET States, IsFiniteSet(T),
         Cardinality(Used) + Cardinality(T) <= MaxGenerations
  PROVE  /\ \A s \in T : Assign(T)[s] \in Generations /\ Assign(T)[s] \notin Used
         /\ \A s, t \in T : Assign(T)[s] = Assign(T)[t] => s = t
         /\ Used \union {Assign(T)[s] : s \in T} \subseteq 1..Cardinality(Used \union {Assign(T)[s] : s \in T})
<1> DEFINE n == Cardinality(Used)
           m == Cardinality(T)
           R == n + 1 .. n + m
           f == Assign(T)
           New == {f[s] : s \in T}
<1>1. Used \subseteq 1..n
  BY HostParts DEF CallsOwnTheirs
<1>2. IsFiniteSet(Used) /\ n \in Nat
  <2>1. IsFiniteSet(1..MaxGenerations)
    BY FS_Interval, HostAssumption
  <2>2. Used \in SUBSET (1..MaxGenerations)
    BY DEF Used, Generations
  <2>3. IsFiniteSet(Used)
    BY <2>1, <2>2, FS_Subset
  <2> QED
    BY <2>3, FS_CardinalityType
<1>3. m \in Nat
  BY FS_CardinalityType
<1> HIDE DEF n, m
<1>4. IsFiniteSet(R) /\ Cardinality(R) = m
  <2>1. n + 1 \in Int /\ n + m \in Int
    BY <1>2, <1>3
  <2>2. IsFiniteSet(R) /\ Cardinality(R) = IF n + 1 > n + m THEN 0 ELSE (n + m) - (n + 1) + 1
    BY <2>1, FS_Interval
  <2> QED
    BY <1>2, <1>3, <2>2
<1>5. \E b \in [T -> R] : \A s, t \in T : b[s] = b[t] => s = t
  <2>1. ExistsBijection(T, R)
    <3>1. Cardinality(T) = Cardinality(R)
      BY <1>4 DEF m
    <3> QED
      BY <1>4, <3>1, FS_SameCardinalityBij
  <2> QED
    BY <2>1 DEF ExistsBijection, Bijection, Injection, IsInjective
<1>6. f \in [T -> R] /\ \A s, t \in T : f[s] = f[t] => s = t
  <2>1. f = CHOOSE b \in [T -> R] : \A s, t \in T : b[s] = b[t] => s = t
    BY DEF Assign, n, m
  <2> QED
    BY <1>5, <2>1
<1>7. \A s \in T : f[s] \in 1..MaxGenerations /\ f[s] \notin 1..n
  <2>1. n + m <= MaxGenerations
    BY DEF n, m
  <2>2. \A x \in R : x \in 1..MaxGenerations /\ x \notin 1..n
    BY <1>2, <1>3, <2>1, HostAssumption
  <2> QED
    BY <1>6, <2>2
<1>8. IsFiniteSet(New) /\ Cardinality(New) = m
  <2>1. f \in Surjection(T, New) /\ f \in Injection(T, New)
    BY <1>6 DEF Surjection, Injection, IsInjective
  <2>2. /\ IsFiniteSet(New)
        /\ Cardinality(New) = Cardinality(T) <=> f \in Injection(T, New)
    BY <2>1, FS_Surjection
  <2> QED
    BY <2>1, <2>2 DEF m
<1>9. New \subseteq R /\ Used \intersect New = {}
  BY <1>1, <1>6, <1>7
<1>10. Cardinality(Used \union New) = n + m
  <2>1. Cardinality(Used \union New) = Cardinality(Used) + Cardinality(New) - Cardinality(Used \intersect New)
    BY <1>2, <1>8, FS_Union
  <2>2. Cardinality(Used \intersect New) = 0
    BY <1>9, FS_EmptySet
  <2> QED
    BY <1>2, <1>3, <1>8, <2>1, <2>2 DEF n
<1>11. 1..n \subseteq 1..(n + m) /\ R \subseteq 1..(n + m)
  BY <1>2, <1>3
<1>12. Used \union New \subseteq 1..Cardinality(Used \union New)
  BY <1>1, <1>9, <1>10, <1>11
<1> QED
  BY <1>1, <1>6, <1>7, <1>12 DEF Generations

(* What a preparation of the states T into Prepared objects N of state st is. *)
Fresh(T, N, st) ==
  /\ \A g \in N : /\ prep[g] = "free" /\ prep'[g] = st /\ source'[g] \in T
                  /\ noChange'[g] <=> Unchanged(source'[g])
                  /\ row'[g] = IF noChange'[g] THEN row[g] ELSE "live"
  /\ \A g \in Generations \ N : /\ prep'[g] = prep[g] /\ source'[g] = source[g]
                                /\ noChange'[g] = noChange[g] /\ row'[g] = row[g]
  /\ \A g, h \in N : source'[g] = source'[h] => g = h
  /\ \A s \in T : Assign(T)[s] \in N /\ source'[Assign(T)[s]] = s
  /\ prep' \in [Generations -> {"free", "open", "sealed", "published", "closed"}]
  /\ source' \in [Generations -> States \union {None}]
  /\ noChange' \in [Generations -> BOOLEAN]
  /\ row' \in [Generations -> {"none", "live", "expired", "released"}]
  /\ Used' \subseteq 1..Cardinality(Used')

LEMMA PreparedIsFresh ==
  ASSUME HostInv, NEW T \in SUBSET States, IsFiniteSet(T),
         NEW st \in {"open", "published", "closed"}, PrepareAs(T, st)
  PROVE  \E N \in SUBSET Generations : Fresh(T, N, st)
<1> DEFINE f == Assign(T)
           Of(g) == CHOOSE s \in T : f[s] = g
           N == {f[s] : s \in T}
<1>1. /\ Cardinality(Used) + Cardinality(T) <= MaxGenerations
      /\ source' = [g \in Generations |-> IF g \in N THEN Of(g) ELSE source[g]]
      /\ noChange' = [g \in Generations |-> IF g \in N THEN Unchanged(Of(g)) ELSE noChange[g]]
      /\ prep' = [g \in Generations |-> IF g \in N THEN st ELSE prep[g]]
      /\ row' = [g \in Generations |-> IF g \in N /\ ~Unchanged(Of(g)) THEN "live" ELSE row[g]]
  BY DEF PrepareAs
<1>2. TypeOK
  BY HostParts
<1>3. /\ \A s \in T : f[s] \in Generations /\ f[s] \notin Used
      /\ \A s, t \in T : f[s] = f[t] => s = t
      /\ Used \union N \subseteq 1..Cardinality(Used \union N)
  BY <1>1, AssignFacts
<1> HIDE DEF f
<1>4. \A g \in N : Of(g) \in T /\ f[Of(g)] = g
  OBVIOUS
<1>5. \A s \in T : Of(f[s]) = s
  BY <1>3
<1> HIDE DEF Of
<1>6. N \in SUBSET Generations /\ \A g \in N : prep[g] = "free"
  BY <1>3 DEF Used
<1>7. \A s \in T : f[s] \in N
  OBVIOUS
<1> HIDE DEF N
<1>8. \A x : Unchanged(x) \in BOOLEAN
  BY DEF Unchanged
<1>9. /\ prep' \in [Generations -> {"free", "open", "sealed", "published", "closed"}]
      /\ source' \in [Generations -> States \union {None}]
      /\ noChange' \in [Generations -> BOOLEAN]
      /\ row' \in [Generations -> {"none", "live", "expired", "released"}]
  BY <1>1, <1>2, <1>4, <1>8 DEF TypeOK
<1>10. Used' = Used \union N
  BY <1>1, <1>6 DEF Used
<1>11. /\ \A g \in N : /\ prep[g] = "free" /\ prep'[g] = st /\ source'[g] \in T
                       /\ source'[g] = Of(g)
       /\ \A g \in Generations \ N : /\ prep'[g] = prep[g] /\ source'[g] = source[g]
                                     /\ noChange'[g] = noChange[g] /\ row'[g] = row[g]
  BY <1>1, <1>4, <1>6
<1>12. \A g \in N : /\ noChange'[g] <=> Unchanged(source'[g])
                    /\ row'[g] = IF noChange'[g] THEN row[g] ELSE "live"
  <2>1. ASSUME NEW g \in N
        PROVE  /\ noChange'[g] = Unchanged(Of(g))
               /\ row'[g] = IF Unchanged(Of(g)) THEN row[g] ELSE "live"
    BY <1>1, <1>6
  <2> QED
    BY <1>11, <2>1
<1>13. /\ \A g, h \in N : source'[g] = source'[h] => g = h
       /\ \A s \in T : f[s] \in N /\ source'[f[s]] = s
  BY <1>4, <1>5, <1>7, <1>11
<1>14. Used' \subseteq 1..Cardinality(Used')
  BY <1>3, <1>10
<1>15. Fresh(T, N, st)
  BY <1>9, <1>11, <1>12, <1>13, <1>14 DEF Fresh, f
<1> QED
  BY <1>6, <1>15

(* What is known of the generations that a preparation takes. *)
LEMMA FreshUnknown ==
  ASSUME HostInv, NEW T \in SUBSET States, NEW N \in SUBSET Generations, NEW st, Fresh(T, N, st)
  PROVE  \A g \in N : /\ cleanup[g] = "none" /\ refs[g] = 0 /\ closes[g] = 0 /\ ~beat[g]
                      /\ row[g] = "none" /\ ~noChange[g] /\ source'[g] \in States /\ source'[g] # None
                      /\ \A w \in Workspaces : /\ current[w] # g /\ working[w] # g
                                               /\ g \notin Elements(retired[w])
                      /\ \A c \in Calls : g \notin items[c]
<1>1. TypeOK /\ ClosesExact /\ LeasedWhileOpen /\ ManagersExact /\ CallsOwnTheirs
  BY HostParts
<1>2. ASSUME NEW g \in N
      PROVE  /\ prep[g] = "free" /\ cleanup[g] = "none" /\ refs[g] = 0 /\ closes[g] = 0 /\ ~beat[g]
             /\ row[g] = "none" /\ ~noChange[g] /\ source'[g] \in States /\ source'[g] # None
  <2>1. prep[g] = "free" /\ source'[g] \in T
    BY DEF Fresh
  <2>2. cleanup[g] = "none" /\ refs[g] = 0
    BY <1>1, <2>1 DEF ManagersExact
  <2>3. closes[g] = 0 /\ ~beat[g] /\ row[g] = "none" /\ ~noChange[g]
    BY <1>1, <2>1 DEF ClosesExact, LeasedWhileOpen, Gone, Built
  <2> QED
    BY <2>1, <2>2, <2>3, HostAssumption
<1>3. ASSUME NEW g \in N, NEW w \in Workspaces
      PROVE  current[w] # g /\ working[w] # g /\ g \notin Elements(retired[w])
  <2>1. prep[g] = "free" /\ g # NoGeneration /\ cleanup[g] = "none"
    BY <1>2 DEF NoGeneration, Generations
  <2>2. current[w] # g /\ working[w] # g
    BY <1>1, <2>1 DEF ManagersExact
  <2>3. g \notin Elements(retired[w])
    BY <1>1, <2>1 DEF ManagersExact, Elements
  <2> QED
    BY <2>2, <2>3
<1>4. ASSUME NEW g \in N, NEW c \in Calls PROVE g \notin items[c]
  BY <1>1, <1>2, ZenonT(60) DEF CallsOwnTheirs, TypeOK
<1> QED
  BY <1>2, <1>3, <1>4

(* No manager and no cleanup notices them, as long as they are not published. *)
LEMMA FreshUnnoticed ==
  ASSUME HostInv, NEW T \in SUBSET States, NEW N \in SUBSET Generations,
         NEW st \in {"open", "closed"}, Fresh(T, N, st),
         UNCHANGED <<managerVars, workerVars, replaced, writer, loaded, holding>>
  PROVE  /\ ManagersExact' /\ HoldersFinite' /\ RefsExact' /\ RefsTell' /\ Tombs'
         /\ CleanupIsScheduled'
<1>1. TypeOK /\ CleanupIsScheduled /\ ManagersExact /\ HoldersFinite /\ RefsExact /\ RefsTell /\ Tombs
  BY HostParts, TombstoneParts
<1>2. UNCHANGED <<current, retired, refs, cleanup, worker, working, kicks, replaced, writer, loaded, holding>>
  BY DEF managerVars, workerVars
<1>3. \A g \in N : /\ cleanup[g] = "none" /\ refs[g] = 0 /\ prep'[g] # "published"
                   /\ \A w \in Workspaces : /\ current[w] # g /\ working[w] # g
                                            /\ g \notin Elements(retired[w])
  <2>1. \A g \in N : prep'[g] # "published"
    BY DEF Fresh
  <2> QED
    BY <2>1, FreshUnknown, ZenonT(60)
<1>4. /\ \A g \in N : source'[g] \in States
      /\ \A g \in Generations \ N : /\ prep'[g] = prep[g] /\ source'[g] = source[g]
                                    /\ noChange'[g] = noChange[g]
                                    /\ At(g)' = At(g)
  BY FreshUnknown DEF Fresh, At
<1>5. HoldersFinite' /\ RefsExact' /\ RefsTell'
  BY <1>1, <1>2 DEF HoldersFinite, HoldersOf, RefsExact, RefsTell
<1>6. Tombs'
  <2>1. ASSUME NEW g \in N
        PROVE  ~(cleanup[g] \in {"draining", "pending", "running"}) /\ g \notin Elements(retired[WorkspaceOf[source'[g]]])
    <3>1. WorkspaceOf[source'[g]] \in Workspaces
      BY <1>4, HostAssumption
    <3> QED
      BY <1>3, <3>1
  <2>2. ASSUME NEW g \in Generations \ N
        PROVE  cleanup[g] \in {"draining", "pending", "running"} <=>
                 source'[g] # None /\ g \in Elements(retired[WorkspaceOf[source'[g]]])
    BY <1>1, <1>4 DEF Tombs, At
  <2>3. ASSUME NEW g \in Generations
        PROVE  cleanup[g] \in {"draining", "pending", "running"} <=>
                 source'[g] # None /\ g \in Elements(retired[WorkspaceOf[source'[g]]])
    BY <2>1, <2>2
  <2> QED
    BY <1>1, <1>2, <2>3 DEF Tombs, At, Elements
<1>7. CleanupIsScheduled'
  <2>1. ASSUME NEW g \in Generations, cleanup[g] = "pending"
        PROVE  g \in Generations \ N
    BY <1>3, <2>1
  <2> QED
    BY <1>1, <1>2, <1>4, <2>1 DEF CleanupIsScheduled, At
<1>8. ManagersExact'
  <2>1. \A g \in Generations : prep'[g] # "published" \/ noChange'[g] => cleanup[g] = "none" /\ refs[g] = 0
    BY <1>1, <1>3, <1>4 DEF ManagersExact
  <2>2. \A w \in Workspaces : current[w] # NoGeneration =>
          /\ prep'[current[w]] = "published" /\ ~noChange'[current[w]]
          /\ WorkspaceOf[source'[current[w]]] = w /\ cleanup[current[w]] = "none" /\ w \in loaded
    <3>1. \A w \in Workspaces : current[w] # NoGeneration => current[w] \in Generations \ N
      BY <1>1, <1>3 DEF TypeOK
    <3> QED
      BY <1>1, <1>4, <3>1 DEF ManagersExact, At
  <2>3. \A g \in Generations : prep'[g] = "published" /\ ~noChange'[g] /\ cleanup[g] = "none"
                                 => current[WorkspaceOf[source'[g]]] = g
    BY <1>1, <1>3, <1>4 DEF ManagersExact, At
  <2>4. \A w \in Workspaces : \A i \in DOMAIN retired[w] :
          prep'[retired[w][i]] = "published" /\ WorkspaceOf[source'[retired[w][i]]] = w
    <3>1. ASSUME NEW w \in Workspaces, NEW i \in DOMAIN retired[w]
          PROVE  retired[w][i] \in Generations \ N
      <4>1. retired[w] \in Seq(Generations) /\ retired[w][i] \in Elements(retired[w])
        BY <1>1 DEF TypeOK, Elements
      <4> QED
        BY <1>3, <4>1, SeqFacts
    <3> QED
      BY <1>1, <1>4, <3>1 DEF ManagersExact, At
  <2>5. \A w \in Workspaces : working[w] # NoGeneration => cleanup[working[w]] = "running" /\ WorkspaceOf[source'[working[w]]] = w
    <3>1. \A w \in Workspaces : working[w] # NoGeneration => working[w] \in Generations \ N
      BY <1>1, <1>3 DEF TypeOK
    <3> QED
      BY <1>1, <1>4, <3>1 DEF ManagersExact, At
  <2>6. \A g \in Generations : cleanup[g] = "running" => working[WorkspaceOf[source'[g]]] = g
    BY <1>1, <1>3, <1>4 DEF ManagersExact, At
  <2>7. \A w \in Workspaces : working[w] # NoGeneration <=> worker[w] \in {"close", "finish"}
    BY <1>1 DEF ManagersExact
  <2> QED
    BY <1>2, <2>1, <2>2, <2>3, <2>4, <2>5, <2>6, <2>7 DEF ManagersExact, At
<1> QED
  BY <1>5, <1>6, <1>7, <1>8

LEMMA FreshLeased ==
  ASSUME HostInv, NEW T \in SUBSET States, NEW N \in SUBSET Generations,
         NEW st \in {"open", "published"}, Fresh(T, N, st),
         UNCHANGED <<closes, cleanup, worker, relq, relBusy>>,
         beat' = [g \in Generations |-> beat[g] \/ row'[g] # row[g]]
  PROVE  ClosesExact' /\ LeasedWhileOpen' /\ beat' \in [Generations -> BOOLEAN]
<1>1. TypeOK /\ ClosesExact /\ LeasedWhileOpen
  BY HostParts
<1>2. /\ \A g \in N : /\ cleanup[g] = "none" /\ closes[g] = 0 /\ ~beat[g] /\ row[g] = "none"
                      /\ prep'[g] = st /\ row'[g] = IF noChange'[g] THEN row[g] ELSE "live"
      /\ \A g \in Generations \ N : /\ prep'[g] = prep[g] /\ source'[g] = source[g]
                                    /\ noChange'[g] = noChange[g] /\ row'[g] = row[g]
  <2>1. \A g \in N : cleanup[g] = "none" /\ closes[g] = 0 /\ ~beat[g] /\ row[g] = "none"
    BY FreshUnknown
  <2> QED
    BY <2>1 DEF Fresh
<1>3. \A g \in N : ~Gone(g)'
  BY <1>2 DEF Gone
<1>4. \A g \in Generations \ N : Gone(g)' <=> Gone(g)
  BY <1>2 DEF Gone, Built, At
<1>5. \A g \in Generations : closes'[g] = IF Gone(g)' THEN 1 ELSE 0
  BY <1>1, <1>2, <1>3, <1>4 DEF ClosesExact
<1>6. ClosesExact'
  <2>1. \A g \in Generations : prep'[g] = "free" => row'[g] = "none" /\ ~noChange'[g]
    BY <1>1, <1>2 DEF ClosesExact
  <2>2. \A w \in Workspaces : /\ relBusy[w] # NoGeneration => relBusy[w] \in Generations
                              /\ \A i \in DOMAIN relq[w] : relq[w][i] \in Generations
    <3>1. \A w \in Workspaces : relq[w] \in Seq(Generations) /\ relBusy[w] \in Generations \union {NoGeneration}
      BY <1>1 DEF TypeOK
    <3> QED
      BY <3>1
  <2>3. \A g \in Generations : prep[g] # "free" => prep'[g] # "free"
    BY <1>2
  <2> QED
    BY <1>1, <1>5, <2>1, <2>2, <2>3 DEF ClosesExact
<1>7. LeasedWhileOpen'
  <2>1. \A g \in N : beat'[g] <=> ~noChange'[g]
    BY <1>2
  <2>2. \A g \in Generations \ N : beat'[g] <=> beat[g]
    BY <1>2
  <2> QED
    BY <1>1, <1>2, <2>1, <2>2 DEF LeasedWhileOpen, Built
<1> QED
  BY <1>1, <1>6, <1>7 DEF TypeOK

LEMMA PrepareStep ==
  ASSUME HostInv, NEW c \in Calls, Prepare(c)
  PROVE  HostInv'
<1>1. TypeOK /\ CallsOwnTheirs
  BY HostParts
<1>2. PICK T \in SUBSET States : T = Targets[c] /\ IsFiniteSet(T)
  BY HostAssumption
<1>3. /\ Serving /\ writer = None /\ callPc[c] = "idle" /\ PrepareAs(T, "open")
      /\ beat' = [g \in Generations |-> beat[g] \/ row'[g] # row[g]]
      /\ items' = [items EXCEPT ![c] = {g \in Generations : prep'[g] # prep[g]}]
      /\ callPc' = [callPc EXCEPT ![c] = "prepared"]
      /\ UNCHANGED <<closes, relq, relBusy, accepting, managerVars, workerVars, replaced, writer,
                     hostVars, holding>>
  BY <1>2 DEF Prepare
<1>4. PICK N \in SUBSET Generations : Fresh(T, N, "open")
  BY <1>2, <1>3, PreparedIsFresh
<1>5. /\ ManagersExact' /\ HoldersFinite' /\ RefsExact' /\ RefsTell' /\ Tombs' /\ CleanupIsScheduled'
      /\ ClosesExact' /\ LeasedWhileOpen' /\ beat' \in [Generations -> BOOLEAN]
  <2>1. UNCHANGED <<managerVars, workerVars, replaced, writer, loaded, holding>>
    BY <1>3 DEF hostVars
  <2>2. UNCHANGED <<closes, cleanup, worker, relq, relBusy>>
    BY <1>3 DEF managerVars, workerVars
  <2> QED
    BY <1>3, <1>4, <2>1, <2>2, FreshUnnoticed, FreshLeased
<1>6. /\ items' \in [Calls -> SUBSET Generations]
      /\ items'[c] = N /\ \A d \in Calls \ {c} : items'[d] = items[d]
      /\ callPc' \in [Calls -> {"idle", "prepared", "sealed", "publishing", "answered", "done"}]
      /\ callPc'[c] = "prepared" /\ \A d \in Calls \ {c} : callPc'[d] = callPc[d]
  <2>1. {g \in Generations : prep'[g] # prep[g]} = N
    BY <1>4 DEF Fresh
  <2>2. /\ items \in [Calls -> SUBSET Generations]
        /\ callPc \in [Calls -> {"idle", "prepared", "sealed", "publishing", "answered", "done"}]
    BY <1>1 DEF TypeOK
  <2> QED
    BY <1>3, <2>1, <2>2
<1>7. TypeOK'
  <2>1. /\ prep' \in [Generations -> {"free", "open", "sealed", "published", "closed"}]
        /\ source' \in [Generations -> States \union {None}]
        /\ noChange' \in [Generations -> BOOLEAN]
        /\ row' \in [Generations -> {"none", "live", "expired", "released"}]
    BY <1>4 DEF Fresh
  <2> QED
    BY <1>1, <1>3, <1>5, <1>6, <2>1 DEF TypeOK, managerVars, workerVars, hostVars
<1>8. CallsOwnTheirs'
  <2>1. /\ \A g \in N : prep[g] = "free" /\ prep'[g] = "open" /\ source'[g] # None
                        /\ \A d \in Calls : g \notin items[d]
        /\ \A g \in Generations \ N : prep'[g] = prep[g] /\ source'[g] = source[g]
        /\ Used' \subseteq 1..Cardinality(Used')
    <3>1. \A g \in N : source'[g] # None /\ \A d \in Calls : g \notin items[d]
      BY <1>3, <1>4, FreshUnknown
    <3> QED
      BY <1>4, <3>1 DEF Fresh
  <2>2. \A g \in Generations : prep'[g] = "free" <=> source'[g] = None
    BY <1>1, <2>1 DEF CallsOwnTheirs
  <2>3. \A g \in Generations : prep'[g] \in {"open", "sealed"} => \E d \in Calls : g \in items'[d]
    <3>1. ASSUME NEW g \in Generations \ N, prep'[g] \in {"open", "sealed"}
          PROVE  \E d \in Calls : g \in items'[d]
      <4>1. PICK d \in Calls : g \in items[d]
        BY <1>1, <2>1, <3>1 DEF CallsOwnTheirs
      <4>2. d # c
        BY <1>1, <1>3, <4>1 DEF CallsOwnTheirs
      <4> QED
        BY <1>6, <4>1, <4>2
    <3> QED
      BY <1>6, <3>1
  <2>4. \A d, e \in Calls : d # e => items'[d] \intersect items'[e] = {}
    BY <1>1, <1>6, <2>1 DEF CallsOwnTheirs
  <2>5. \A d \in Calls \ {c} : \A g \in items[d] : prep'[g] = prep[g]
    <3>1. \A d \in Calls : items[d] \subseteq Generations
      BY <1>1 DEF TypeOK
    <3> QED
      BY <2>1, <3>1
  <2>6. ASSUME NEW d \in Calls
        PROVE  /\ callPc'[d] = "idle" => items'[d] = {}
               /\ callPc'[d] # "idle" => loaded = Workspaces
               /\ writer = d <=> callPc'[d] = "publishing"
               /\ \A g \in items'[d] :
                    /\ callPc'[d] = "prepared" => prep'[g] = "open"
                    /\ callPc'[d] = "sealed" => prep'[g] = "sealed"
                    /\ callPc'[d] = "publishing" => prep'[g] \in {"sealed", "published"}
                    /\ callPc'[d] \in {"answered", "done"} => prep'[g] \in {"published", "closed"}
    <3>1. CASE d = c
      BY <1>3, <1>6, <2>1, <3>1, HostAssumption DEF Serving
    <3>2. CASE d # c
      <4>1. callPc'[d] = callPc[d] /\ items'[d] = items[d] /\ \A g \in items[d] : prep'[g] = prep[g]
        BY <1>6, <2>5, <3>2
      <4> QED
        BY <1>1, <4>1 DEF CallsOwnTheirs
    <3> QED
      BY <3>1, <3>2
  <2>7. UNCHANGED <<writer, loaded, closed>> /\ (closed => writer = None)
    BY <1>3 DEF hostVars
  <2> QED
    BY <2>1, <2>2, <2>3, <2>4, <2>6, <2>7 DEF CallsOwnTheirs
<1> QED
  BY <1>5, <1>7, <1>8, HostAgain

LEMMA PrepareFailsStep ==
  ASSUME HostInv, NEW c \in Calls, PrepareFails(c)
  PROVE  HostInv'
<1>1. TypeOK /\ CallsOwnTheirs /\ ClosesExact /\ LeasedWhileOpen
  BY HostParts
<1>2. PICK T \in SUBSET States :
        /\ T \in SUBSET Targets[c] /\ PrepareAs(T, "closed")
        /\ LET opened == {g \in Generations : row'[g] # row[g]}
           IN /\ closes' = [g \in Generations |-> closes[g] + (IF g \in opened THEN 1 ELSE 0)]
              /\ relq' = Enqueued(opened, source')
  BY HostAssumption DEF PrepareFails
<1>3. IsFiniteSet(T)
  BY <1>2, HostAssumption, FS_Subset
<1>4. /\ Serving /\ writer = None /\ callPc[c] = "idle"
      /\ callPc' = [callPc EXCEPT ![c] = "done"]
      /\ UNCHANGED <<beat, relBusy, accepting, managerVars, workerVars, items, replaced, writer,
                     hostVars, holding>>
  BY DEF PrepareFails
<1>5. PICK N \in SUBSET Generations : Fresh(T, N, "closed")
  BY <1>2, <1>3, PreparedIsFresh
<1>6. /\ ManagersExact' /\ HoldersFinite' /\ RefsExact' /\ RefsTell' /\ Tombs' /\ CleanupIsScheduled'
  <2>1. UNCHANGED <<managerVars, workerVars, replaced, writer, loaded, holding>>
    BY <1>4 DEF hostVars
  <2> QED
    BY <1>5, <2>1, FreshUnnoticed
<1>7. /\ \A g \in N : /\ prep[g] = "free" /\ cleanup[g] = "none" /\ closes[g] = 0 /\ ~beat[g]
                      /\ row[g] = "none" /\ source'[g] # None
                      /\ prep'[g] = "closed" /\ row'[g] = IF noChange'[g] THEN row[g] ELSE "live"
                      /\ \A d \in Calls : g \notin items[d]
      /\ \A g \in Generations \ N : /\ prep'[g] = prep[g] /\ source'[g] = source[g]
                                    /\ noChange'[g] = noChange[g] /\ row'[g] = row[g]
      /\ Used' \subseteq 1..Cardinality(Used')
      /\ prep' \in [Generations -> {"free", "open", "sealed", "published", "closed"}]
      /\ source' \in [Generations -> States \union {None}]
      /\ noChange' \in [Generations -> BOOLEAN]
      /\ row' \in [Generations -> {"none", "live", "expired", "released"}]
  <2>1. \A g \in N : /\ cleanup[g] = "none" /\ closes[g] = 0 /\ ~beat[g] /\ row[g] = "none"
                      /\ source'[g] # None /\ \A d \in Calls : g \notin items[d]
    BY <1>3, <1>5, FreshUnknown
  <2> QED
    BY <1>5, <2>1 DEF Fresh
<1>8. PICK opened \in SUBSET Generations : opened = {g \in Generations : row'[g] # row[g]}
  OBVIOUS
<1>9. /\ closes' = [g \in Generations |-> closes[g] + (IF g \in opened THEN 1 ELSE 0)]
      /\ relq' = Enqueued(opened, source')
      /\ opened = {g \in N : ~noChange'[g]}
  <2>1. opened = {g \in N : ~noChange'[g]}
    BY <1>7, <1>8
  <2> QED
    BY <1>2, <1>8, <2>1
<1>10. closes' \in [Generations -> Nat]
       /\ \A g \in Generations : closes'[g] = IF g \in opened THEN 1 ELSE closes[g]
  BY <1>1, <1>7, <1>9 DEF TypeOK
<1>11. PICK U \in SUBSET Generations : U = {g \in Generations : prep'[g] # "free"}
  OBVIOUS
<1>12. /\ relq' \in [Workspaces -> Seq(Generations)]
       /\ \A w \in Workspaces : \A i \in DOMAIN relq'[w] : relq'[w][i] \in U
  <2>1. opened \in SUBSET U
    BY <1>7, <1>9, <1>11
  <2>2. \A w \in Workspaces : \A i \in DOMAIN relq[w] : relq[w][i] \in U
    <3>1. \A w \in Workspaces : relq[w] \in Seq(Generations)
      BY <1>1 DEF TypeOK
    <3>2. \A w \in Workspaces : \A i \in DOMAIN relq[w] : relq[w][i] \in Generations
      BY <3>1
    <3> QED
      BY <1>1, <1>7, <1>11, <3>2 DEF ClosesExact
  <2>3. PICK src : src = source'
    OBVIOUS
  <2>4. relq' = Enqueued(opened, src)
    BY <1>9, <2>3
  <2> QED
    BY <1>1, <2>1, <2>2, <2>4, EnqueuedElements
<1>13. ClosesExact'
  <2>1. ASSUME NEW g \in N PROVE closes'[g] = IF Gone(g)' THEN 1 ELSE 0
    <3>1. Gone(g)' <=> ~noChange'[g]
      BY <1>4, <1>7 DEF Gone, Built, managerVars
    <3> QED
      BY <1>7, <1>9, <1>10, <3>1
  <2>2. ASSUME NEW g \in Generations \ N PROVE closes'[g] = IF Gone(g)' THEN 1 ELSE 0
    <3>1. Gone(g)' <=> Gone(g)
      BY <1>4, <1>7 DEF Gone, Built, At, managerVars, workerVars
    <3>2. closes'[g] = closes[g]
      BY <1>9, <1>10
    <3> QED
      BY <1>1, <3>1, <3>2 DEF ClosesExact
  <2>3. \A g \in Generations : closes'[g] = IF Gone(g)' THEN 1 ELSE 0
    BY <2>1, <2>2
  <2>4. \A g \in Generations : prep'[g] = "free" => row'[g] = "none" /\ ~noChange'[g]
    BY <1>1, <1>7 DEF ClosesExact
  <2>5. \A w \in Workspaces :
          /\ relBusy'[w] # NoGeneration => prep'[relBusy'[w]] # "free"
          /\ \A i \in DOMAIN relq'[w] : prep'[relq'[w][i]] # "free"
    <3>1. \A w \in Workspaces : relBusy[w] \in Generations \union {NoGeneration}
      BY <1>1 DEF TypeOK
    <3>2. \A w \in Workspaces : relBusy[w] # NoGeneration => prep'[relBusy[w]] # "free"
      BY <1>1, <1>7, <3>1 DEF ClosesExact
    <3> QED
      BY <1>4, <1>11, <1>12, <3>2
  <2> QED
    BY <2>3, <2>4, <2>5 DEF ClosesExact
<1>14. LeasedWhileOpen'
  <2>1. \A g \in N : ~beat'[g] /\ (~noChange'[g] => closes'[g] = 1)
    BY <1>4, <1>7, <1>9, <1>10
  <2>2. \A g \in Generations \ N : beat'[g] = beat[g] /\ closes'[g] = closes[g]
    BY <1>4, <1>9, <1>10
  <2> QED
    BY <1>1, <1>7, <2>1, <2>2 DEF LeasedWhileOpen, Built
<1>15. /\ callPc' \in [Calls -> {"idle", "prepared", "sealed", "publishing", "answered", "done"}]
       /\ callPc'[c] = "done" /\ \A d \in Calls \ {c} : callPc'[d] = callPc[d]
  BY <1>1, <1>4 DEF TypeOK
<1>16. TypeOK'
  BY <1>1, <1>4, <1>7, <1>10, <1>12, <1>15 DEF TypeOK, managerVars, workerVars, hostVars
<1>17. CallsOwnTheirs'
  <2>1. \A g \in Generations : prep'[g] = "free" <=> source'[g] = None
    BY <1>1, <1>7 DEF CallsOwnTheirs
  <2>2. \A g \in Generations : prep'[g] \in {"open", "sealed"} => \E d \in Calls : g \in items[d]
    BY <1>1, <1>7 DEF CallsOwnTheirs
  <2>3. \A d \in Calls : \A g \in items[d] : prep'[g] = prep[g]
    <3>1. \A d \in Calls : items[d] \subseteq Generations
      BY <1>1 DEF TypeOK
    <3> QED
      BY <1>7, <3>1
  <2>4. ASSUME NEW d \in Calls
        PROVE  /\ callPc'[d] = "idle" => items[d] = {}
               /\ callPc'[d] # "idle" => loaded = Workspaces
               /\ writer = d <=> callPc'[d] = "publishing"
               /\ \A g \in items[d] :
                    /\ callPc'[d] = "prepared" => prep'[g] = "open"
                    /\ callPc'[d] = "sealed" => prep'[g] = "sealed"
                    /\ callPc'[d] = "publishing" => prep'[g] \in {"sealed", "published"}
                    /\ callPc'[d] \in {"answered", "done"} => prep'[g] \in {"published", "closed"}
    <3>1. CASE d = c
      <4>1. items[c] = {}
        BY <1>1, <1>4 DEF CallsOwnTheirs
      <4> QED
        BY <1>4, <1>15, <3>1, <4>1, HostAssumption DEF Serving
    <3>2. CASE d # c
      BY <1>1, <1>15, <2>3, <3>2 DEF CallsOwnTheirs
    <3> QED
      BY <3>1, <3>2
  <2>5. \A d, e \in Calls : d # e => items[d] \intersect items[e] = {}
    BY <1>1 DEF CallsOwnTheirs
  <2>6. UNCHANGED <<writer, items, loaded, closed>> /\ (closed => writer = None)
    BY <1>4 DEF hostVars
  <2> QED
    BY <1>7, <2>1, <2>2, <2>4, <2>5, <2>6 DEF CallsOwnTheirs
<1> QED
  BY <1>6, <1>13, <1>14, <1>16, <1>17, HostAgain

LEMMA ReloadStep ==
  ASSUME HostInv, NEW w \in Workspaces, NEW s \in States \union {None}, Reload(w, s)
  PROVE  HostInv'
<1>1. /\ TypeOK /\ CallsOwnTheirs /\ ClosesExact /\ LeasedWhileOpen /\ CleanupIsScheduled /\ ManagersExact
      /\ HoldersFinite /\ RefsExact /\ RefsTell /\ Tombs
  BY HostParts, TombstoneParts
<1>2. /\ ~closed /\ w \notin loaded /\ loaded' = loaded \union {w}
      /\ UNCHANGED <<relq, relBusy, retired, refs, cleanup, workerVars, callVars, closed, closePc, holding>>
  BY DEF Reload
<1>3. \A c \in Calls : callPc[c] = "idle" /\ items[c] = {}
  BY <1>1, <1>2 DEF CallsOwnTheirs
<1>4. current[w] = NoGeneration
  BY <1>1, <1>2 DEF ManagersExact
<1>5. HoldersFinite' /\ RefsExact' /\ RefsTell'
  BY <1>1, <1>2 DEF HoldersFinite, HoldersOf, RefsExact, RefsTell
<1>6. CASE s = None
  <2>1. accepting' = [accepting EXCEPT ![w] = FALSE] /\ UNCHANGED <<genVars, row, beat, current>>
    BY <1>6 DEF Reload
  <2>2. TypeOK'
    <3>1. accepting' \in [Workspaces -> BOOLEAN] /\ loaded' \subseteq Workspaces
      BY <1>1, <1>2, <2>1 DEF TypeOK
    <3> QED
      BY <1>1, <1>2, <2>1, <3>1 DEF TypeOK, genVars, workerVars, callVars
  <2>3. ClosesExact' /\ LeasedWhileOpen'
    BY <1>1, <1>2, <2>1, ClosesFrame DEF genVars, workerVars
  <2>4. CleanupIsScheduled'
    BY <1>1, <1>2, <2>1, ScheduledFrame DEF genVars, workerVars, callVars
  <2>5. Tombs' /\ ManagersExact'
    BY <1>1, <1>2, <2>1 DEF Tombs, ManagersExact, At, genVars, workerVars
  <2>6. CallsOwnTheirs'
    <3>1. Used' = Used
      BY <2>1 DEF Used, genVars
    <3> QED
      BY <1>1, <1>2, <1>3, <2>1, <3>1 DEF CallsOwnTheirs, genVars, callVars
  <2> QED
    BY <1>5, <2>2, <2>3, <2>4, <2>5, <2>6, HostAgain
<1>7. CASE s \in States
  <2>1. PICK T \in SUBSET States : T = {s} /\ IsFiniteSet(T)
    BY <1>7, FS_Singleton, ZenonT(60)
  <2>2. /\ WorkspaceOf[s] = w /\ PrepareAs(T, "published")
        /\ beat' = [g \in Generations |-> beat[g] \/ row'[g] # row[g]]
        /\ current' = [current EXCEPT ![w] = Assign(T)[s]]
        /\ UNCHANGED <<closes, accepting>>
    BY <1>7, <2>1, HostAssumption DEF Reload
  <2>3. PICK N \in SUBSET Generations : Fresh(T, N, "published")
    BY <2>1, <2>2, PreparedIsFresh
  <2>4. PICK new \in N : new = Assign(T)[s]
    BY <2>1, <2>3 DEF Fresh
  <2>5. N = {new}
    BY <2>1, <2>3, <2>4 DEF Fresh
  <2>6. /\ prep[new] = "free" /\ prep'[new] = "published" /\ source'[new] = s /\ ~noChange'[new]
        /\ cleanup[new] = "none" /\ refs[new] = 0 /\ new # NoGeneration
        /\ \A v \in Workspaces : current[v] # new /\ working[v] # new /\ new \notin Elements(retired[v])
        /\ \A c \in Calls : new \notin items[c]
    <3>1. /\ prep[new] = "free" /\ prep'[new] = "published" /\ source'[new] = s
          /\ noChange'[new] <=> Unchanged(s)
      BY <2>1, <2>3, <2>4 DEF Fresh
    <3>2. ~Unchanged(s)
      BY <1>4, <2>2 DEF Unchanged
    <3>3. /\ cleanup[new] = "none" /\ refs[new] = 0
          /\ \A v \in Workspaces : current[v] # new /\ working[v] # new /\ new \notin Elements(retired[v])
          /\ \A c \in Calls : new \notin items[c]
      BY <2>3, FreshUnknown
    <3>4. new # NoGeneration
      BY DEF NoGeneration, Generations
    <3> QED
      BY <3>1, <3>2, <3>3, <3>4
  <2>7. /\ \A g \in Generations \ {new} : /\ prep'[g] = prep[g] /\ source'[g] = source[g]
                                          /\ noChange'[g] = noChange[g] /\ row'[g] = row[g]
                                          /\ At(g)' = At(g)
        /\ Used' \subseteq 1..Cardinality(Used')
        /\ prep' \in [Generations -> {"free", "open", "sealed", "published", "closed"}]
        /\ source' \in [Generations -> States \union {None}]
        /\ noChange' \in [Generations -> BOOLEAN]
        /\ row' \in [Generations -> {"none", "live", "expired", "released"}]
    BY <2>3, <2>5 DEF Fresh, At
  <2>8. /\ current' \in [Workspaces -> Generations \union {NoGeneration}]
        /\ current'[w] = new /\ \A v \in Workspaces \ {w} : current'[v] = current[v]
    BY <1>1, <2>2, <2>4 DEF TypeOK
  <2>9. ClosesExact' /\ LeasedWhileOpen' /\ beat' \in [Generations -> BOOLEAN]
    <3>1. UNCHANGED <<closes, cleanup, worker, relq, relBusy>>
      BY <1>2, <2>2 DEF workerVars
    <3> QED
      BY <2>2, <2>3, <3>1, FreshLeased
  <2>10. TypeOK'
    <3>1. loaded' \subseteq Workspaces
      BY <1>1, <1>2 DEF TypeOK
    <3> QED
      BY <1>1, <1>2, <2>2, <2>7, <2>8, <2>9, <3>1 DEF TypeOK, workerVars, callVars
  <2>11. CleanupIsScheduled'
    <3>1. \A g \in Generations : cleanup[g] = "pending" => g # new
      BY <2>6
    <3> QED
      BY <1>1, <1>2, <2>7, <3>1 DEF CleanupIsScheduled, At, workerVars, callVars
  <2>12. Tombs'
    <3>1. WorkspaceOf[source'[new]] = w
      BY <2>2, <2>6
    <3>2. ASSUME NEW g \in Generations \ {new}
          PROVE  cleanup[g] \in {"draining", "pending", "running"} <=>
                   source'[g] # None /\ g \in Elements(retired[WorkspaceOf[source'[g]]])
      BY <1>1, <2>7 DEF Tombs, At
    <3>3. ASSUME NEW g \in Generations
          PROVE  cleanup[g] \in {"draining", "pending", "running"} <=>
                   source'[g] # None /\ g \in Elements(retired[WorkspaceOf[source'[g]]])
      BY <2>6, <3>1, <3>2
    <3> QED
      BY <1>1, <1>2, <3>3 DEF Tombs, At, Elements
  <2>13. ManagersExact'
    <3>1. \A g \in Generations : prep'[g] # "published" \/ noChange'[g] => cleanup[g] = "none" /\ refs[g] = 0
      BY <1>1, <2>6, <2>7 DEF ManagersExact
    <3>2. \A v \in Workspaces : current'[v] # NoGeneration =>
            /\ prep'[current'[v]] = "published" /\ ~noChange'[current'[v]]
            /\ WorkspaceOf[source'[current'[v]]] = v /\ cleanup[current'[v]] = "none" /\ v \in loaded'
      <4>1. \A v \in Workspaces \ {w} : current[v] # NoGeneration => current[v] \in Generations \ {new}
        BY <1>1, <2>6 DEF TypeOK
      <4>2. \A v \in Workspaces \ {w} : current'[v] # NoGeneration =>
              /\ prep'[current'[v]] = "published" /\ ~noChange'[current'[v]]
              /\ WorkspaceOf[source'[current'[v]]] = v /\ cleanup[current'[v]] = "none" /\ v \in loaded'
        BY <1>1, <1>2, <2>7, <2>8, <4>1 DEF ManagersExact, At
      <4> QED
        BY <1>2, <2>2, <2>6, <2>8, <4>2
    <3>3. ASSUME NEW g \in Generations, prep'[g] = "published", ~noChange'[g], cleanup[g] = "none"
          PROVE  current'[WorkspaceOf[source'[g]]] = g
      <4>1. CASE g = new
        BY <2>2, <2>6, <2>8, <4>1
      <4>2. CASE g # new
        <5>1. current[At(g)] = g /\ WorkspaceOf[source'[g]] = At(g) /\ source[g] # None
          BY <1>1, <2>7, <3>3, <4>2 DEF ManagersExact, CallsOwnTheirs, At
        <5>2. At(g) \in Workspaces /\ At(g) # w
          BY <1>1, <1>4, <5>1, HostAssumption DEF TypeOK, At, NoGeneration, Generations
        <5> QED
          BY <2>8, <5>1, <5>2
      <4> QED
        BY <4>1, <4>2
    <3>4. \A v \in Workspaces : \A i \in DOMAIN retired[v] :
            prep'[retired[v][i]] = "published" /\ WorkspaceOf[source'[retired[v][i]]] = v
      <4>1. ASSUME NEW v \in Workspaces, NEW i \in DOMAIN retired[v]
            PROVE  retired[v][i] \in Generations \ {new}
        <5>1. retired[v] \in Seq(Generations) /\ retired[v][i] \in Elements(retired[v])
          BY <1>1 DEF TypeOK, Elements
        <5> QED
          BY <2>6, <5>1, SeqFacts
      <4> QED
        BY <1>1, <2>7, <4>1 DEF ManagersExact, At
    <3>5. \A v \in Workspaces : working[v] # NoGeneration =>
            cleanup[working[v]] = "running" /\ WorkspaceOf[source'[working[v]]] = v
      <4>1. \A v \in Workspaces : working[v] # NoGeneration => working[v] \in Generations \ {new}
        BY <1>1, <2>6 DEF TypeOK
      <4> QED
        BY <1>1, <2>7, <4>1 DEF ManagersExact, At
    <3>6. \A g \in Generations : cleanup[g] = "running" => working[WorkspaceOf[source'[g]]] = g
      BY <1>1, <2>6, <2>7 DEF ManagersExact, At
    <3>7. \A v \in Workspaces : working[v] # NoGeneration <=> worker[v] \in {"close", "finish"}
      BY <1>1 DEF ManagersExact
    <3> QED
      BY <1>2, <3>1, <3>2, <3>3, <3>4, <3>5, <3>6, <3>7 DEF ManagersExact, At, workerVars
  <2>14. CallsOwnTheirs'
    <3>1. \A g \in Generations : prep'[g] = "free" <=> source'[g] = None
      BY <1>1, <2>6, <2>7, <1>7, HostAssumption DEF CallsOwnTheirs
    <3>2. \A g \in Generations : prep'[g] \in {"open", "sealed"} => \E d \in Calls : g \in items[d]
      BY <1>1, <2>6, <2>7 DEF CallsOwnTheirs
    <3>3. UNCHANGED <<callPc, items, writer, closed>>
      BY <1>2 DEF callVars
    <3> QED
      BY <1>1, <1>3, <2>7, <3>1, <3>2, <3>3 DEF CallsOwnTheirs
  <2> QED
    BY <1>5, <2>9, <2>10, <2>11, <2>12, <2>13, <2>14, HostAgain
<1> QED
  BY <1>6, <1>7

-----------------------------------------------------------------------------
(* The theorems about the runtime host                                     *)

LEMMA HostNext ==
  ASSUME HostInv, Next
  PROVE  HostInv'
<1>1. CASE \E c \in Calls : Unlock(c) \/ Discard(c)
  BY <1>1, UnlockStep, DiscardStep
<1>2. CASE \E c \in Calls, g \in Generations : Publish(c, g)
  BY <1>2, PublishStep
<1>3. CASE \E r \in Readers, w \in Workspaces : Acquire(r, w)
  BY <1>3, AcquireStep
<1>4. CASE \E r \in Readers : Release(r)
  BY <1>4, ReleaseStep
<1>5. CASE \E g \in Generations : Kick(g)
  BY <1>5, KickStep
<1>6. CASE \E g \in Generations : Expire(g) \/ Renew(g)
  BY <1>6, LeaseSteps
<1>7. CASE \E w \in Workspaces : WorkerNext(w) \/ WorkerClose(w) \/ WorkerFinish(w)
  BY <1>7, WorkerNextStep, WorkerCloseStep, WorkerFinishStep
<1>8. CASE \E w \in Workspaces : TakeRelease(w) \/ EndRelease(w) \/ CloseQueue(w)
  BY <1>8, LeaseSteps
<1>9. CASE CloseRegistry
  BY <1>9, CloseRegistryStep
<1>10. CASE \E w \in Workspaces : CloseManager(w)
  BY <1>10, CloseManagerStep
<1>11. CASE \E c \in Calls : Prepare(c) \/ PrepareFails(c) \/ Seal(c)
  BY <1>11, PrepareStep, PrepareFailsStep, SealStep
<1>12. CASE \E c \in Calls : ActivateCommitted(c) \/ ActivateRefused(c)
  BY <1>12, ActivateCommittedStep, ActivateRefusedStep
<1>13. CASE \E w \in Workspaces, s \in States \union {None} : Reload(w, s)
  BY <1>13, ReloadStep
<1> QED
  BY <1>1, <1>2, <1>3, <1>4, <1>5, <1>6, <1>7, <1>8, <1>9, <1>10, <1>11, <1>12, <1>13
     DEF Next, Background

LEMMA HostStutters ==
  ASSUME HostInv, UNCHANGED vars
  PROVE  HostInv'
BY HostParts, ClosesFrame, CallsFrame, ManagersFrame, ScheduledFrame, HostAgain
   DEF vars, genVars, leaseVars, managerVars, workerVars, callVars, hostVars, TypeOK

(* HostInv is inductive: whatever calls, readers, workers and the shutdown do, *)
(* the bookkeeping of the managers agrees.                                     *)
THEOREM HostInvariance == Spec => []HostInv
<1>1. HostInv /\ [Next]_vars => HostInv'
  BY HostNext, HostStutters
<1> QED
  BY <1>1, InitHost, PTL DEF Spec

(* Manager, Registry: leases, tombstones, scheduled cleanups and the calls'    *)
(* own objects agree with what is open, in every reachable state.              *)
THEOREM HostStaysConsistent == Spec => []Consistent
<1>1. HostInv => Consistent
  BY DEF HostInv
<1> QED
  BY <1>1, HostInvariance, PTL

LEMMA ReadersHaveOpen ==
  ASSUME HostInv
  PROVE  ReadersProtected
<1>1. /\ TypeOK /\ ClosesExact /\ LeasedWhileOpen /\ ManagersExact /\ RefsTell /\ RefsExact
      /\ HoldersFinite
  BY HostParts, TombstoneParts
<1>2. ASSUME NEW r \in Readers, NEW g \in Generations, holding[r] = g
      PROVE  closes[g] = 0 /\ beat[g]
  <2>1. HoldersOf(g) # {} /\ IsFiniteSet(HoldersOf(g))
    BY <1>1, <1>2 DEF HoldersOf, HoldersFinite
  <2>2. refs[g] # 0
    BY <1>1, <2>1, FS_EmptySet DEF RefsExact
  <2>3. prep[g] = "published" /\ ~noChange[g]
    BY <1>1, <2>2 DEF ManagersExact
  <2>4. cleanup[g] \notin {"running", "finished"}
    BY <1>1, <2>2 DEF RefsTell
  <2>5. closes[g] = 0
    BY <1>1, <2>3, <2>4 DEF ClosesExact, Gone
  <2> QED
    BY <1>1, <2>3, <2>5 DEF LeasedWhileOpen, Built
<1> QED
  BY <1>1, <1>2 DEF ReadersProtected, TypeOK

(* Manager.release, retireLocked and the worker: the runtime a reader has      *)
(* acquired stays open and its lease renewed until the reader releases it.     *)
THEOREM ReadersKeepTheirRuntime == Spec => []ReadersProtected
<1>1. HostInv => ReadersProtected
  BY ReadersHaveOpen
<1> QED
  BY <1>1, HostInvariance, PTL

LEMMA OpenHasAnOwner ==
  ASSUME HostInv
  PROVE  NothingLeaks
<1>1. /\ TypeOK /\ ClosesExact /\ ManagersExact /\ CallsOwnTheirs /\ Tombs
  BY HostParts, TombstoneParts
<1>2. SUFFICES ASSUME NEW g \in Generations, Built(g), closes[g] = 0
               PROVE  \/ \E w \in Workspaces : current[w] = g
                      \/ \E w \in Workspaces : \E i \in DOMAIN retired[w] : retired[w][i] = g
                      \/ \E c \in Calls : g \in items[c] /\ callPc[c] \in {"prepared", "sealed", "publishing"}
  BY DEF NothingLeaks
<1>3. /\ prep[g] \in {"open", "sealed", "published"} /\ cleanup[g] # "finished"
      /\ cleanup[g] \in {"none", "draining", "pending", "running"}
  BY <1>1, <1>2 DEF ClosesExact, Gone, Built, TypeOK
<1>4. source[g] # None /\ At(g) \in Workspaces
  BY <1>1, <1>3, HostAssumption DEF CallsOwnTheirs, TypeOK, At
<1>5. CASE prep[g] \in {"open", "sealed"}
  <2>1. PICK c \in Calls : g \in items[c]
    BY <1>1, <1>5 DEF CallsOwnTheirs
  <2>2. callPc[c] \in {"prepared", "sealed", "publishing"}
    BY <1>1, <1>5, <2>1 DEF CallsOwnTheirs, TypeOK
  <2> QED
    BY <2>1, <2>2
<1>6. CASE prep[g] = "published" /\ cleanup[g] = "none"
  BY <1>1, <1>2, <1>4, <1>6 DEF ManagersExact, Built
<1>7. CASE cleanup[g] \in {"draining", "pending", "running"}
  <2>1. g \in Elements(retired[At(g)])
    BY <1>1, <1>7 DEF Tombs
  <2> QED
    BY <1>4, <2>1 DEF Elements
<1> QED
  BY <1>3, <1>5, <1>6, <1>7

(* Prepared.Close, abort, publish and the worker: what is built and not closed *)
(* is current, a tombstone, or in the hands of a call that will see to it.     *)
THEOREM NothingEverLeaks == Spec => []NothingLeaks
<1>1. HostInv => NothingLeaks
  BY OpenHasAnOwner
<1> QED
  BY <1>1, HostInvariance, PTL

-----------------------------------------------------------------------------
(* The runtime host implements SharedRuntimes                              *)

SharedStep == [Shared!Next]_(Shared!sharedVars)

(* What tells the life of a generation, and its home. *)
Life(g) ==
  IF ~Built(g) THEN "absent"
  ELSE IF closes[g] > 0 THEN "closed"
  ELSE IF prep[g] # "published" THEN "ready"
  ELSE IF cleanup[g] = "none" THEN "serving" ELSE "retired"

Home(g) == IF Built(g) THEN At(g) ELSE NoGeneration

LEMMA LifeIsPointwise ==
  /\ RuntimeLife = [g \in Generations |-> Life(g)]
  /\ RuntimeHome = [g \in Generations |-> Home(g)]
  /\ RuntimeLife' = [g \in Generations |-> Life(g)']
  /\ RuntimeHome' = [g \in Generations |-> Home(g)']
BY DEF RuntimeLife, RuntimeHome, Life, Home

(* A step that SharedRuntimes does not see: a Prepared object may be sealed,   *)
(* a tombstone may get on with its cleanup, and Prepared objects without a     *)
(* runtime may come and go.                                                    *)
Unseen(g) ==
  /\ source'[g] = source[g] /\ noChange'[g] = noChange[g] /\ closes'[g] = closes[g]
  /\ \/ prep'[g] = prep[g]
     \/ prep[g] = "open" /\ prep'[g] = "sealed"
     \/ noChange[g] /\ prep[g] # "free" /\ prep'[g] # "free"
  /\ cleanup'[g] = "none" <=> cleanup[g] = "none"

LEMMA UnseenLives ==
  ASSUME NEW g \in Generations, Unseen(g)
  PROVE  Life(g)' = Life(g) /\ Home(g)' = Home(g)
<1>1. Built(g)' <=> Built(g)
  BY DEF Unseen, Built
<1>2. Built(g) => (prep'[g] = "published" <=> prep[g] = "published")
  BY DEF Unseen, Built
<1> QED
  BY <1>1, <1>2 DEF Unseen, Life, Home, At

LEMMA AllUnseen ==
  ASSUME \A g \in Generations : Unseen(g)
  PROVE  UNCHANGED <<RuntimeLife, RuntimeHome>>
<1>1. \A g \in Generations : Life(g)' = Life(g) /\ Home(g)' = Home(g)
  BY UnseenLives
<1> QED
  BY <1>1, LifeIsPointwise

LEMMA UnseenStutters ==
  ASSUME \A g \in Generations : Unseen(g), UNCHANGED holding
  PROVE  SharedStep
BY AllUnseen DEF SharedStep, Shared!sharedVars

LEMMA NothingHappens ==
  ASSUME UNCHANGED <<genVars, cleanup, holding>>
  PROVE  SharedStep
<1>1. \A g \in Generations : Unseen(g)
  BY DEF Unseen, genVars
<1> QED
  BY <1>1, UnseenStutters

LEMMA CleanupGoesOn ==
  ASSUME UNCHANGED <<genVars, holding>>,
         \A g \in Generations : cleanup'[g] = "none" <=> cleanup[g] = "none"
  PROVE  SharedStep
<1>1. \A g \in Generations : Unseen(g)
  BY DEF Unseen, genVars
<1> QED
  BY <1>1, UnseenStutters

(* What HostInv says of the lives. *)
LEMMA OpenUntilCleaned ==
  ASSUME HostInv, NEW g \in Generations, Built(g)
  PROVE  /\ closes[g] = IF Gone(g) THEN 1 ELSE 0
         /\ closes[g] > 0 <=> Gone(g)
         /\ prep[g] # "published" => cleanup[g] = "none"
         /\ source[g] \in States /\ At(g) \in Workspaces
<1>1. TypeOK /\ ClosesExact /\ ManagersExact /\ CallsOwnTheirs
  BY HostParts
<1>2. source[g] \in States
  BY <1>1 DEF TypeOK, CallsOwnTheirs, Built
<1> QED
  BY <1>1, <1>2, HostAssumption DEF ClosesExact, ManagersExact, At

LEMMA ServingIsCurrent ==
  ASSUME HostInv, NEW g \in Generations
  PROVE  Life(g) = "serving" <=> /\ Built(g) /\ At(g) \in Workspaces /\ current[At(g)] = g
                                 /\ prep[g] = "published" /\ cleanup[g] = "none"
<1>1. ManagersExact
  BY HostParts
<1>2. ASSUME Life(g) = "serving"
      PROVE  /\ Built(g) /\ At(g) \in Workspaces /\ current[At(g)] = g
             /\ prep[g] = "published" /\ cleanup[g] = "none"
  <2>1. Built(g) /\ prep[g] = "published" /\ cleanup[g] = "none"
    BY <1>2 DEF Life
  <2> QED
    BY <1>1, <2>1, OpenUntilCleaned DEF ManagersExact, Built
<1>3. ASSUME Built(g), prep[g] = "published", cleanup[g] = "none"
      PROVE  Life(g) = "serving"
  <2>1. ~Gone(g)
    BY <1>3 DEF Gone
  <2> QED
    BY <1>3, <2>1, OpenUntilCleaned DEF Life
<1> QED
  BY <1>2, <1>3

LEMMA CurrentServes ==
  ASSUME HostInv, NEW w \in Workspaces, current[w] # NoGeneration
  PROVE  /\ current[w] \in Generations /\ Built(current[w]) /\ At(current[w]) = w
         /\ Life(current[w]) = "serving" /\ Home(current[w]) = w
<1>1. TypeOK /\ ManagersExact
  BY HostParts
<1>2. PICK g \in Generations : g = current[w]
  BY <1>1 DEF TypeOK
<1>3. prep[g] = "published" /\ ~noChange[g] /\ At(g) = w /\ cleanup[g] = "none"
  BY <1>1, <1>2 DEF ManagersExact
<1>4. Built(g)
  BY <1>3 DEF Built
<1> QED
  BY <1>2, <1>3, <1>4, ServingIsCurrent DEF Home

LEMMA OneServes ==
  ASSUME HostInv, NEW w \in Workspaces
  PROVE  Shared!ServingAt(w) = IF current[w] = NoGeneration THEN {} ELSE {current[w]}
<1>1. \A g \in Generations : RuntimeLife[g] = Life(g) /\ RuntimeHome[g] = Home(g)
  BY LifeIsPointwise
<1>2. Shared!ServingAt(w) = {g \in Generations : Life(g) = "serving" /\ Home(g) = w}
  BY <1>1 DEF Shared!ServingAt
<1>3. \A g \in Generations : Life(g) = "serving" /\ Home(g) = w => current[w] = g
  BY ServingIsCurrent DEF Home
<1>4. current[w] # NoGeneration => /\ current[w] \in Generations /\ Life(current[w]) = "serving"
                                   /\ Home(current[w]) = w
  BY CurrentServes
<1>5. \A g \in Generations : g # NoGeneration
  BY DEF Generations, NoGeneration
<1> QED
  BY <1>2, <1>3, <1>4, <1>5

(* Runtimes that were never published are closed: Prepared.Close, abortSealed. *)
LEMMA ClosedUnused ==
  ASSUME HostInv, NEW G \in SUBSET Generations,
         \A g \in G : prep[g] \in {"open", "sealed"},
         prep' = [g \in Generations |-> IF g \in G THEN "closed" ELSE prep[g]],
         CloseResources({g \in G : ~noChange[g]}),
         UNCHANGED <<source, noChange, cleanup, holding>>
  PROVE  SharedStep
<1>1. PICK N \in SUBSET Generations : N = {g \in G : ~noChange[g]}
  OBVIOUS
<1>2. /\ \A g \in Generations : closes'[g] = closes[g] + (IF g \in N THEN 1 ELSE 0)
      /\ \A g \in Generations : closes[g] \in Nat
  BY <1>1, HostParts DEF CloseResources, TypeOK
<1>3. \A g \in N : Life(g) = "ready" /\ Life(g)' = "closed" /\ Home(g)' = Home(g)
  <2>1. SUFFICES ASSUME NEW g \in N PROVE Life(g) = "ready" /\ Life(g)' = "closed" /\ Home(g)' = Home(g)
    OBVIOUS
  <2>2. /\ g \in G /\ ~noChange[g] /\ prep[g] \in {"open", "sealed"} /\ prep'[g] = "closed"
        /\ closes'[g] = closes[g] + 1
    BY <1>1, <1>2
  <2>3. Built(g) /\ Built(g)'
    BY <2>2 DEF Built
  <2>4. closes[g] = 0
    <3>1. cleanup[g] = "none" /\ ~Gone(g)
      BY <2>2, <2>3, OpenUntilCleaned DEF Gone
    <3> QED
      BY <2>3, <3>1, OpenUntilCleaned
  <2>5. closes'[g] > 0
    BY <2>2, <2>4
  <2> QED
    BY <2>2, <2>3, <2>4, <2>5 DEF Life, Home, At
<1>4. \A g \in Generations \ N : Life(g)' = Life(g) /\ Home(g)' = Home(g)
  <2>1. SUFFICES ASSUME NEW g \in Generations \ N PROVE Unseen(g)
    BY UnseenLives
  <2>2. closes'[g] = closes[g]
    BY <1>2
  <2>3. \/ prep'[g] = prep[g]
        \/ noChange[g] /\ prep[g] # "free" /\ prep'[g] # "free"
    BY <1>1
  <2> QED
    BY <2>2, <2>3 DEF Unseen
<1>5. /\ \A g \in Generations : RuntimeLife[g] = Life(g)
      /\ RuntimeLife' = [g \in Generations |-> IF g \in N THEN "closed" ELSE RuntimeLife[g]]
      /\ RuntimeHome' = RuntimeHome
  BY <1>3, <1>4, LifeIsPointwise
<1>6. Shared!Discard(N)
  BY <1>3, <1>5 DEF Shared!Discard
<1> QED
  BY <1>6 DEF SharedStep, Shared!Next

LEMMA DiscardShared ==
  ASSUME HostInv, NEW c \in Calls, Discard(c)
  PROVE  SharedStep
<1>1. PICK open \in SUBSET Generations : open = {g \in items[c] : prep[g] = "open"}
  BY HostParts DEF TypeOK
<1>2. /\ prep' = [g \in Generations |-> IF g \in open THEN "closed" ELSE prep[g]]
      /\ CloseResources({g \in open : ~noChange[g]})
      /\ UNCHANGED <<source, noChange, cleanup, holding>>
  BY <1>1 DEF Discard, managerVars
<1>3. \A g \in open : prep[g] \in {"open", "sealed"}
  BY <1>1
<1> QED
  BY <1>2, <1>3, ClosedUnused

LEMMA RefusedShared ==
  ASSUME HostInv, NEW c \in Calls, ActivateRefused(c)
  PROVE  SharedStep
<1>1. PICK sealed \in SUBSET Generations : sealed = items[c]
  BY HostParts DEF TypeOK
<1>2. /\ prep' = [g \in Generations |-> IF g \in sealed THEN "closed" ELSE prep[g]]
      /\ CloseResources({g \in sealed : ~noChange[g]})
      /\ UNCHANGED <<source, noChange, cleanup, holding>>
  BY <1>1 DEF ActivateRefused, managerVars
<1>3. \A g \in sealed : prep[g] \in {"open", "sealed"}
  BY <1>1, HostParts DEF ActivateRefused, CallsOwnTheirs
<1> QED
  BY <1>2, <1>3, ClosedUnused

(* retireLocked takes the current generation of w out of service. *)
LEMMA RetireSeen ==
  ASSUME HostInv, NEW w \in Workspaces, Retire(w, current[w])
  PROVE  \A g \in Generations : IF g = current[w] THEN cleanup'[g] # "none"
                                                  ELSE cleanup'[g] = cleanup[g]
<1>1. TypeOK
  BY HostParts
<1>2. CASE current[w] = NoGeneration
  BY <1>2 DEF Retire, NoGeneration, Generations
<1>3. CASE current[w] # NoGeneration
  <2>1. cleanup' = [cleanup EXCEPT ![current[w]] = RetiredAs(current[w])]
    BY <1>3 DEF Retire
  <2>2. RetiredAs(current[w]) # "none"
    BY DEF RetiredAs
  <2> QED
    BY <1>1, <2>1, <2>2 DEF TypeOK
<1> QED
  BY <1>2, <1>3

LEMMA PublishShared ==
  ASSUME HostInv, NEW c \in Calls, NEW g \in Generations, Publish(c, g)
  PROVE  SharedStep
<1>1. /\ UNCHANGED <<source, noChange, closes, holding>>
      /\ prep[g] = "sealed" /\ prep' = [prep EXCEPT ![g] = "published"]
  BY DEF Publish
<1>2. /\ prep'[g] = "published" /\ \A h \in Generations \ {g} : prep'[h] = prep[h]
  BY <1>1, HostParts DEF TypeOK
<1>3. CASE noChange[g]
  <2>1. cleanup' = cleanup
    BY <1>3 DEF Publish
  <2>2. \A h \in Generations : Unseen(h)
    BY <1>1, <1>2, <1>3, <2>1 DEF Unseen
  <2> QED
    BY <1>1, <2>2, UnseenStutters
<1>4. CASE ~noChange[g]
  <2>1. Built(g) /\ At(g) \in Workspaces /\ cleanup[g] = "none"
    BY <1>1, <1>4, OpenUntilCleaned DEF Built
  <2>2. PICK w \in Workspaces : w = At(g)
    BY <2>1
  <2>3. \A h \in Generations : IF h = current[w] THEN cleanup'[h] # "none" ELSE cleanup'[h] = cleanup[h]
    BY <1>4, <2>2, RetireSeen DEF Publish
  <2>4. current[w] # g
    <3>1. g # NoGeneration
      BY DEF Generations, NoGeneration
    <3> QED
      BY <1>1, <3>1, HostParts DEF ManagersExact
  <2>5. closes[g] = 0
    <3>1. ~Gone(g)
      BY <1>1, <2>1 DEF Gone
    <3> QED
      BY <2>1, <3>1, OpenUntilCleaned
  <2>6. Life(g) = "ready" /\ Life(g)' = "serving" /\ Home(g) = w /\ Home(g)' = w
    <3>1. cleanup'[g] = "none" /\ Built(g)'
      BY <1>1, <1>2, <1>4, <2>1, <2>3, <2>4 DEF Built
    <3> QED
      BY <1>1, <1>2, <2>1, <2>2, <2>5, <3>1 DEF Life, Home, At
  <2>7. \A h \in Generations \ {g} : /\ Home(h)' = Home(h)
                                     /\ Life(h)' = IF h \in Shared!ServingAt(w) THEN "retired" ELSE Life(h)
    <3>1. SUFFICES ASSUME NEW h \in Generations \ {g}
                   PROVE  /\ Home(h)' = Home(h)
                          /\ Life(h)' = IF h \in Shared!ServingAt(w) THEN "retired" ELSE Life(h)
      OBVIOUS
    <3>2. CASE h = current[w]
      <4>1. /\ Built(h) /\ Life(h) = "serving" /\ h # NoGeneration
        BY <3>2, CurrentServes DEF Generations, NoGeneration
      <4>2. h \in Shared!ServingAt(w)
        BY <3>2, <4>1, OneServes
      <4>3. /\ Life(h)' = "retired" /\ Home(h)' = Home(h)
        BY <1>1, <1>2, <2>3, <3>2, <4>1 DEF Life, Home, Built, At
      <4> QED
        BY <4>2, <4>3
    <3>3. CASE h # current[w]
      <4>1. h \notin Shared!ServingAt(w)
        BY <3>3, OneServes
      <4>2. Unseen(h)
        BY <1>1, <1>2, <2>3, <3>3 DEF Unseen
      <4> QED
        BY <4>1, <4>2, UnseenLives
    <3> QED
      BY <3>2, <3>3
  <2>8. /\ \A h \in Generations : RuntimeLife[h] = Life(h) /\ RuntimeHome[h] = Home(h)
        /\ RuntimeLife' = [h \in Generations |->
                             IF h = g THEN "serving"
                             ELSE IF h \in Shared!ServingAt(RuntimeHome[g]) THEN "retired" ELSE RuntimeLife[h]]
        /\ RuntimeHome' = RuntimeHome
    BY <2>6, <2>7, LifeIsPointwise
  <2>9. Shared!TakeOver(g)
    BY <1>1, <2>6, <2>8 DEF Shared!TakeOver
  <2> QED
    BY <2>9 DEF SharedStep, Shared!Next
<1> QED
  BY <1>3, <1>4

LEMMA CloseManagerShared ==
  ASSUME HostInv, NEW w \in Workspaces, CloseManager(w)
  PROVE  SharedStep
<1>1. UNCHANGED <<source, prep, noChange, closes, holding>> /\ Retire(w, current[w])
  BY DEF CloseManager, genVars
<1>2. \A h \in Generations : IF h = current[w] THEN cleanup'[h] # "none" ELSE cleanup'[h] = cleanup[h]
  BY <1>1, RetireSeen
<1>3. \A h \in Generations : h # current[w] => Life(h)' = Life(h) /\ Home(h)' = Home(h)
  <2>1. SUFFICES ASSUME NEW h \in Generations, h # current[w] PROVE Unseen(h)
    BY UnseenLives
  <2> QED
    BY <1>1, <1>2, <2>1 DEF Unseen
<1>4. CASE current[w] = NoGeneration
  <2>1. \A h \in Generations : h # current[w]
    BY <1>4 DEF Generations, NoGeneration
  <2>2. UNCHANGED <<RuntimeLife, RuntimeHome>>
    BY <1>3, <2>1, LifeIsPointwise
  <2> QED
    BY <1>1, <2>2 DEF SharedStep, Shared!sharedVars
<1>5. CASE current[w] # NoGeneration
  <2>1. PICK g \in Generations : g = current[w]
    BY <1>5, CurrentServes
  <2>2. Built(g) /\ Life(g) = "serving"
    BY <1>5, <2>1, CurrentServes
  <2>3. Life(g)' = "retired" /\ Home(g)' = Home(g)
    BY <1>1, <1>2, <2>1, <2>2 DEF Life, Home, Built, At
  <2>4. /\ RuntimeLife[g] = "serving"
        /\ RuntimeLife' = [RuntimeLife EXCEPT ![g] = "retired"]
        /\ RuntimeHome' = RuntimeHome
    BY <1>3, <2>1, <2>2, <2>3, LifeIsPointwise
  <2>5. Shared!Withdraw(g)
    BY <1>1, <2>4 DEF Shared!Withdraw
  <2> QED
    BY <2>5 DEF SharedStep, Shared!Next
<1> QED
  BY <1>4, <1>5

LEMMA WorkerCloseShared ==
  ASSUME HostInv, NEW w \in Workspaces, WorkerClose(w)
  PROVE  SharedStep
<1>1. TypeOK /\ ManagersExact /\ RefsTell /\ RefsExact /\ HoldersFinite
  BY HostParts, TombstoneParts
<1>2. PICK g \in Generations : g = working[w]
  BY <1>1 DEF WorkerClose, ManagersExact, TypeOK, NoGeneration
<1>3. /\ UNCHANGED <<source, prep, noChange, cleanup, holding>> /\ worker[w] = "close"
      /\ closes' = [h \in Generations |-> closes[h] + (IF h \in {g} THEN 1 ELSE 0)]
  BY <1>2 DEF WorkerClose, CloseResources, managerVars
<1>4. /\ closes'[g] = closes[g] + 1 /\ \A h \in Generations \ {g} : closes'[h] = closes[h]
  BY <1>1, <1>3 DEF TypeOK
<1>5. /\ cleanup[g] = "running" /\ At(g) = w /\ Built(g) /\ prep[g] = "published" /\ refs[g] = 0
  <2>1. cleanup[g] = "running" /\ At(g) = w
    BY <1>1, <1>2 DEF ManagersExact, NoGeneration, Generations
  <2> QED
    BY <1>1, <2>1 DEF ManagersExact, RefsTell, Built
<1>6. closes[g] = 0
  <2>1. ~Gone(g)
    BY <1>3, <1>5 DEF Gone
  <2> QED
    BY <1>5, <2>1, OpenUntilCleaned
<1>7. \A r \in Readers : holding[r] # g
  <2>1. HoldersOf(g) = {}
    BY <1>1, <1>5, FS_EmptySet DEF RefsExact, HoldersFinite
  <2> QED
    BY <2>1 DEF HoldersOf
<1>8. Life(g) = "retired" /\ Life(g)' = "closed" /\ Home(g)' = Home(g)
  <2>1. closes'[g] > 0
    BY <1>4, <1>6
  <2> QED
    BY <1>3, <1>5, <1>6, <2>1 DEF Life, Home, Built, At
<1>9. \A h \in Generations \ {g} : Life(h)' = Life(h) /\ Home(h)' = Home(h)
  <2>1. SUFFICES ASSUME NEW h \in Generations \ {g} PROVE Unseen(h)
    BY UnseenLives
  <2> QED
    BY <1>3, <1>4 DEF Unseen
<1>10. /\ RuntimeLife[g] = "retired"
       /\ RuntimeLife' = [RuntimeLife EXCEPT ![g] = "closed"]
       /\ RuntimeHome' = RuntimeHome
  BY <1>8, <1>9, LifeIsPointwise
<1>11. Shared!Close(g)
  BY <1>3, <1>7, <1>10 DEF Shared!Close
<1> QED
  BY <1>11 DEF SharedStep, Shared!Next

LEMMA ReadersShared ==
  ASSUME HostInv, NEW r \in Readers
  PROVE  /\ \A w \in Workspaces : Acquire(r, w) => SharedStep
         /\ Release(r) => SharedStep
<1>1. ASSUME NEW w \in Workspaces, Acquire(r, w) PROVE SharedStep
  <2>1. /\ holding[r] = NoGeneration /\ current[w] # NoGeneration
        /\ holding' = [holding EXCEPT ![r] = current[w]]
        /\ UNCHANGED <<source, prep, noChange, closes, cleanup>>
    BY <1>1 DEF Acquire, genVars
  <2>2. PICK g \in Generations : g = current[w] /\ Life(g) = "serving"
    BY <2>1, CurrentServes
  <2>3. \A h \in Generations : Unseen(h)
    BY <2>1 DEF Unseen
  <2>4. UNCHANGED <<RuntimeLife, RuntimeHome>> /\ RuntimeLife[g] = "serving"
    BY <2>2, <2>3, AllUnseen, LifeIsPointwise
  <2>5. Shared!Take(r, g)
    BY <2>1, <2>2, <2>4 DEF Shared!Take
  <2> QED
    BY <2>5 DEF SharedStep, Shared!Next
<1>2. ASSUME Release(r) PROVE SharedStep
  <2>1. /\ holding[r] # NoGeneration /\ holding' = [holding EXCEPT ![r] = NoGeneration]
        /\ UNCHANGED <<source, prep, noChange, closes>>
        /\ \/ cleanup' = cleanup
           \/ /\ cleanup[holding[r]] = "draining"
              /\ cleanup' = [cleanup EXCEPT ![holding[r]] = "pending"]
    BY <1>2 DEF Release, genVars
  <2>2. \A h \in Generations : cleanup'[h] = "none" <=> cleanup[h] = "none"
    BY <2>1, HostParts DEF TypeOK
  <2>3. \A h \in Generations : Unseen(h)
    BY <2>1, <2>2 DEF Unseen
  <2>4. UNCHANGED <<RuntimeLife, RuntimeHome>>
    BY <2>3, AllUnseen
  <2>5. Shared!Return(r)
    BY <2>1, <2>4 DEF Shared!Return
  <2> QED
    BY <2>5 DEF SharedStep, Shared!Next
<1> QED
  BY <1>1, <1>2

(* A preparation builds the runtimes of the states that are not current. *)
LEMMA FreshBuilds ==
  ASSUME HostInv, NEW T \in SUBSET States, NEW N \in SUBSET Generations,
         NEW st \in {"open", "closed"}, NEW as \in {"ready", "closed"}, Fresh(T, N, st),
         UNCHANGED <<cleanup, holding>>,
         \A g \in Generations : closes'[g] = IF as = "closed" /\ g \in N /\ ~noChange'[g] THEN 1 ELSE closes[g]
  PROVE  SharedStep
<1>1. /\ \A g \in N : /\ prep[g] = "free" /\ prep'[g] = st
                      /\ source'[g] \in States /\ cleanup[g] = "none" /\ closes[g] = 0
      /\ \A g \in Generations \ N : /\ prep'[g] = prep[g] /\ source'[g] = source[g]
                                    /\ noChange'[g] = noChange[g]
  <2>1. \A g \in N : source'[g] \in States /\ cleanup[g] = "none" /\ closes[g] = 0
    BY FreshUnknown
  <2> QED
    BY <2>1 DEF Fresh
<1>2. PICK B \in SUBSET Generations : B = {g \in N : ~noChange'[g]}
  OBVIOUS
<1>3. \A g \in B : Life(g) = "absent" /\ Life(g)' = as /\ Home(g)' = At(g)' /\ At(g)' \in Workspaces
  <2>1. SUFFICES ASSUME NEW g \in B
                 PROVE  Life(g) = "absent" /\ Life(g)' = as /\ Home(g)' = At(g)' /\ At(g)' \in Workspaces
    OBVIOUS
  <2>2. /\ g \in N /\ ~noChange'[g] /\ prep[g] = "free" /\ prep'[g] = st
        /\ source'[g] \in States /\ closes[g] = 0
        /\ closes'[g] = IF as = "closed" THEN 1 ELSE 0
    BY <1>1, <1>2
  <2>3. ~Built(g) /\ Built(g)'
    BY <2>2 DEF Built
  <2>4. Life(g)' = as
    <3>1. prep'[g] # "published"
      BY <2>2
    <3>2. CASE as = "closed"
      BY <2>2, <2>3, <3>2 DEF Life
    <3>3. CASE as = "ready"
      BY <2>2, <2>3, <3>1, <3>3 DEF Life
    <3> QED
      BY <3>2, <3>3
  <2> QED
    BY <2>2, <2>3, <2>4, HostAssumption DEF Life, Home, At
<1>4. \A g \in Generations \ B : Life(g)' = Life(g) /\ Home(g)' = Home(g)
  <2>1. SUFFICES ASSUME NEW g \in Generations \ B PROVE Life(g)' = Life(g) /\ Home(g)' = Home(g)
    OBVIOUS
  <2>2. CASE g \in N
    <3>1. ~Built(g) /\ ~Built(g)'
      BY <1>1, <1>2, <2>2 DEF Built
    <3> QED
      BY <3>1 DEF Life, Home
  <2>3. CASE g \notin N
    <3>1. Unseen(g)
      BY <1>1, <2>3 DEF Unseen
    <3> QED
      BY <3>1, UnseenLives
  <2> QED
    BY <2>2, <2>3
<1>5. PICK at \in [B -> Workspaces] : \A g \in B : at[g] = At(g)'
  <2>1. [g \in B |-> At(g)'] \in [B -> Workspaces]
    BY <1>3
  <2> QED
    BY <2>1
<1>6. /\ \A g \in Generations : RuntimeLife[g] = Life(g)
      /\ RuntimeLife' = [g \in Generations |-> IF g \in B THEN as ELSE RuntimeLife[g]]
      /\ RuntimeHome' = [g \in Generations |-> IF g \in B THEN at[g] ELSE RuntimeHome[g]]
  BY <1>3, <1>4, <1>5, LifeIsPointwise
<1>7. Shared!Build(B, at, as)
  BY <1>3, <1>6 DEF Shared!Build
<1> QED
  BY <1>7 DEF SharedStep, Shared!Next

LEMMA PrepareShared ==
  ASSUME HostInv, NEW c \in Calls, Prepare(c)
  PROVE  SharedStep
<1>1. PICK T \in SUBSET States : T = Targets[c] /\ IsFiniteSet(T)
  BY HostAssumption
<1>2. PrepareAs(T, "open") /\ UNCHANGED <<closes, cleanup, holding>>
  BY <1>1 DEF Prepare, managerVars
<1>3. PICK N \in SUBSET Generations : Fresh(T, N, "open")
  BY <1>1, <1>2, PreparedIsFresh
<1>4. PICK as \in {"ready", "closed"} : as = "ready"
  OBVIOUS
<1>5. \A g \in Generations : closes'[g] = IF as = "closed" /\ g \in N /\ ~noChange'[g] THEN 1 ELSE closes[g]
  BY <1>2, <1>4
<1> QED
  BY <1>2, <1>3, <1>5, FreshBuilds

LEMMA PrepareFailsShared ==
  ASSUME HostInv, NEW c \in Calls, PrepareFails(c)
  PROVE  SharedStep
<1>1. PICK T \in SUBSET States :
        /\ T \in SUBSET Targets[c] /\ PrepareAs(T, "closed")
        /\ LET opened == {g \in Generations : row'[g] # row[g]}
           IN closes' = [g \in Generations |-> closes[g] + (IF g \in opened THEN 1 ELSE 0)]
  BY HostAssumption DEF PrepareFails
<1>2. IsFiniteSet(T)
  BY <1>1, HostAssumption, FS_Subset
<1>3. UNCHANGED <<cleanup, holding>>
  BY DEF PrepareFails, managerVars
<1>4. PICK N \in SUBSET Generations : Fresh(T, N, "closed")
  BY <1>1, <1>2, PreparedIsFresh
<1>5. PICK opened \in SUBSET Generations : opened = {g \in Generations : row'[g] # row[g]}
  OBVIOUS
<1>6. opened = {g \in N : ~noChange'[g]}
  <2>1. \A g \in N : row[g] = "none"
    BY <1>4, FreshUnknown
  <2>2. /\ \A g \in N : row'[g] = IF noChange'[g] THEN row[g] ELSE "live"
        /\ \A g \in Generations \ N : row'[g] = row[g]
    BY <1>4 DEF Fresh
  <2> QED
    BY <1>5, <2>1, <2>2
<1>7. PICK as \in {"ready", "closed"} : as = "closed"
  OBVIOUS
<1>8. \A g \in Generations : closes'[g] = IF as = "closed" /\ g \in N /\ ~noChange'[g] THEN 1 ELSE closes[g]
  <2>1. closes' = [g \in Generations |-> closes[g] + (IF g \in opened THEN 1 ELSE 0)]
    BY <1>1, <1>5
  <2>2. \A g \in N : closes[g] = 0
    BY <1>4, FreshUnknown
  <2>3. \A g \in Generations : closes[g] \in Nat
    BY HostParts DEF TypeOK
  <2> QED
    BY <1>6, <1>7, <2>1, <2>2, <2>3
<1> QED
  BY <1>3, <1>4, <1>8, FreshBuilds

LEMMA ReloadShared ==
  ASSUME HostInv, NEW w \in Workspaces, NEW s \in States \union {None}, Reload(w, s)
  PROVE  SharedStep
<1>1. w \notin loaded /\ UNCHANGED <<cleanup, holding>>
  BY DEF Reload
<1>2. current[w] = NoGeneration
  BY <1>1, HostParts DEF ManagersExact
<1>3. CASE s = None
  <2>1. UNCHANGED <<genVars, cleanup, holding>>
    BY <1>1, <1>3 DEF Reload
  <2> QED
    BY <2>1, NothingHappens
<1>4. CASE s \in States
  <2>1. PICK T \in SUBSET States : T = {s} /\ IsFiniteSet(T)
    BY <1>4, FS_Singleton, ZenonT(60)
  <2>2. WorkspaceOf[s] = w /\ PrepareAs(T, "published") /\ closes' = closes
    BY <1>4, <2>1, HostAssumption DEF Reload
  <2>3. PICK N \in SUBSET Generations : Fresh(T, N, "published")
    BY <2>1, <2>2, PreparedIsFresh
  <2>4. PICK new \in N : new = Assign(T)[s]
    BY <2>1, <2>3 DEF Fresh
  <2>5. N = {new}
    BY <2>1, <2>3, <2>4 DEF Fresh
  <2>6. /\ prep[new] = "free" /\ prep'[new] = "published" /\ source'[new] = s /\ ~noChange'[new]
        /\ cleanup[new] = "none" /\ closes[new] = 0
    <3>1. /\ prep[new] = "free" /\ prep'[new] = "published" /\ source'[new] = s
          /\ noChange'[new] <=> Unchanged(s)
      BY <2>1, <2>3, <2>4 DEF Fresh
    <3>2. ~Unchanged(s)
      BY <1>2, <2>2 DEF Unchanged
    <3>3. cleanup[new] = "none" /\ closes[new] = 0
      BY <2>3, FreshUnknown
    <3> QED
      BY <3>1, <3>2, <3>3
  <2>7. Life(new) = "absent" /\ Life(new)' = "serving" /\ Home(new)' = w
    <3>1. ~Built(new) /\ Built(new)'
      BY <2>6 DEF Built
    <3> QED
      BY <1>1, <2>2, <2>6, <3>1 DEF Life, Home, At
  <2>8. \A g \in Generations \ {new} : Life(g)' = Life(g) /\ Home(g)' = Home(g)
    <3>1. SUFFICES ASSUME NEW g \in Generations \ {new} PROVE Unseen(g)
      BY UnseenLives
    <3>2. prep'[g] = prep[g] /\ source'[g] = source[g] /\ noChange'[g] = noChange[g]
      BY <2>3, <2>5 DEF Fresh
    <3> QED
      BY <1>1, <2>2, <3>2 DEF Unseen
  <2>9. /\ RuntimeLife[new] = "absent"
        /\ RuntimeLife' = [RuntimeLife EXCEPT ![new] = "serving"]
        /\ RuntimeHome' = [RuntimeHome EXCEPT ![new] = w]
    BY <2>7, <2>8, LifeIsPointwise
  <2>10. Shared!ServingAt(w) = {}
    BY <1>2, OneServes
  <2>11. Shared!Start(new, w)
    BY <1>1, <2>9, <2>10 DEF Shared!Start
  <2> QED
    BY <2>11 DEF SharedStep, Shared!Next
<1> QED
  BY <1>3, <1>4

(* Everything else goes unseen. *)
LEMMA SealShared ==
  ASSUME HostInv, NEW c \in Calls, Seal(c)
  PROVE  SharedStep
<1>1. /\ \A g \in items[c] : prep[g] = "open"
      /\ prep' = [g \in Generations |-> IF g \in items[c] THEN "sealed" ELSE prep[g]]
      /\ UNCHANGED <<source, noChange, closes, cleanup, holding>>
  BY DEF Seal, managerVars
<1>2. \A g \in Generations : prep'[g] = prep[g] \/ (prep[g] = "open" /\ prep'[g] = "sealed")
  BY <1>1
<1>3. \A g \in Generations : Unseen(g)
  BY <1>1, <1>2 DEF Unseen
<1> QED
  BY <1>1, <1>3, UnseenStutters

LEMMA CleanupShared ==
  ASSUME HostInv
  PROVE  /\ \A g \in Generations : Kick(g) => SharedStep
         /\ \A w \in Workspaces : WorkerNext(w) \/ WorkerFinish(w) => SharedStep
<1>1. TypeOK /\ ManagersExact
  BY HostParts
<1>2. ASSUME NEW g \in Generations, Kick(g) PROVE SharedStep
  <2>1. /\ UNCHANGED <<genVars, holding>>
        /\ \/ cleanup' = cleanup
           \/ cleanup[g] = "draining" /\ cleanup' = [cleanup EXCEPT ![g] = "pending"]
    BY <1>2 DEF Kick
  <2>2. \A h \in Generations : cleanup'[h] = "none" <=> cleanup[h] = "none"
    BY <1>1, <2>1 DEF TypeOK
  <2> QED
    BY <2>1, <2>2, CleanupGoesOn
<1>3. ASSUME NEW w \in Workspaces, WorkerNext(w) PROVE SharedStep
  <2>1. /\ UNCHANGED <<genVars, holding>>
        /\ \/ cleanup' = cleanup
           \/ \E i \in Pending(w) : cleanup' = [cleanup EXCEPT ![retired[w][i]] = "running"]
    BY <1>3 DEF WorkerNext
  <2>2. \A i \in Pending(w) : cleanup[retired[w][i]] = "pending"
    BY DEF Pending
  <2>3. \A h \in Generations : cleanup'[h] = "none" <=> cleanup[h] = "none"
    BY <1>1, <2>1, <2>2 DEF TypeOK
  <2> QED
    BY <2>1, <2>3, CleanupGoesOn
<1>4. ASSUME NEW w \in Workspaces, WorkerFinish(w) PROVE SharedStep
  <2>1. /\ UNCHANGED <<genVars, holding>> /\ worker[w] = "finish"
        /\ cleanup' = [cleanup EXCEPT ![working[w]] = "finished"]
    BY <1>4 DEF WorkerFinish
  <2>2. cleanup[working[w]] = "running"
    BY <1>1, <2>1 DEF ManagersExact
  <2>3. \A h \in Generations : cleanup'[h] = "none" <=> cleanup[h] = "none"
    BY <1>1, <2>1, <2>2 DEF TypeOK
  <2> QED
    BY <2>1, <2>3, CleanupGoesOn
<1> QED
  BY <1>2, <1>3, <1>4

LEMMA QuietShared ==
  ASSUME \/ \E c \in Calls : ActivateCommitted(c) \/ Unlock(c)
         \/ \E g \in Generations : Expire(g) \/ Renew(g)
         \/ \E w \in Workspaces : TakeRelease(w) \/ EndRelease(w) \/ CloseQueue(w)
         \/ CloseRegistry
         \/ UNCHANGED vars
  PROVE  SharedStep
<1>1. CASE \E c \in Calls : ActivateCommitted(c) \/ Unlock(c)
  BY <1>1, NothingHappens DEF ActivateCommitted, Unlock, managerVars
<1>2. CASE \E g \in Generations : Expire(g) \/ Renew(g)
  BY <1>2, NothingHappens DEF Expire, Renew, managerVars
<1>3. CASE \E w \in Workspaces : TakeRelease(w) \/ EndRelease(w) \/ CloseQueue(w)
  BY <1>3, NothingHappens DEF TakeRelease, EndRelease, CloseQueue, managerVars
<1>4. CASE CloseRegistry \/ UNCHANGED vars
  BY <1>4, NothingHappens DEF CloseRegistry, vars, managerVars
<1> QED
  BY <1>1, <1>2, <1>3, <1>4

LEMMA NextIsShared ==
  ASSUME HostInv, [Next]_vars
  PROVE  SharedStep
<1>1. CASE \E c \in Calls : Discard(c) \/ Seal(c) \/ ActivateRefused(c)
  BY <1>1, DiscardShared, SealShared, RefusedShared
<1>2. CASE \E c \in Calls, g \in Generations : Publish(c, g)
  BY <1>2, PublishShared
<1>3. CASE \E r \in Readers : Release(r) \/ \E w \in Workspaces : Acquire(r, w)
  BY <1>3, ReadersShared
<1>4. CASE \/ \E g \in Generations : Kick(g)
           \/ \E w \in Workspaces : WorkerNext(w) \/ WorkerFinish(w)
  BY <1>4, CleanupShared
<1>5. CASE \E w \in Workspaces : WorkerClose(w) \/ CloseManager(w)
  BY <1>5, WorkerCloseShared, CloseManagerShared
<1>6. CASE \E c \in Calls : Prepare(c) \/ PrepareFails(c)
  BY <1>6, PrepareShared, PrepareFailsShared
<1>7. CASE \E w \in Workspaces, s \in States \union {None} : Reload(w, s)
  BY <1>7, ReloadShared
<1>8. CASE \/ \E c \in Calls : ActivateCommitted(c) \/ Unlock(c)
           \/ \E g \in Generations : Expire(g) \/ Renew(g)
           \/ \E w \in Workspaces : TakeRelease(w) \/ EndRelease(w) \/ CloseQueue(w)
           \/ CloseRegistry
           \/ UNCHANGED vars
  BY <1>8, QuietShared
<1> QED
  BY <1>1, <1>2, <1>3, <1>4, <1>5, <1>6, <1>7, <1>8 DEF Next, Background

LEMMA InitIsShared == Init => Shared!Init
<1> SUFFICES ASSUME Init PROVE Shared!Init
  OBVIOUS
<1>1. \A g \in Generations : ~Built(g)
  BY DEF Init, Built
<1>2. \A g \in Generations : Life(g) = "absent" /\ Home(g) = NoGeneration
  BY <1>1 DEF Life, Home
<1> QED
  BY <1>2, LifeIsPointwise DEF Shared!Init, Init

(* manager.go, registry.go: whatever preparations, cutovers, readers, workers  *)
(* and the shutdown do, the host does what SharedRuntimes promises: a runtime  *)
(* is handed out only while it is the one of its workspace, and is closed      *)
(* once, after its readers have returned it.                                   *)
THEOREM HostRefinement == Spec => ImplementsSharedRuntimes
<1>1. HostInv /\ [Next]_vars => [Shared!Next]_(Shared!sharedVars)
  BY NextIsShared DEF SharedStep
<1> QED
  BY <1>1, InitIsShared, HostInvariance, PTL DEF Spec, ImplementsSharedRuntimes, Shared!Spec

-----------------------------------------------------------------------------
(* Activation end to end *)

DurableTypes ==
  /\ pointer \in [Workspaces -> States \union {None}]
  /\ status \in [States -> {"absent", "validated", "active", "draining", "failed"}]
  /\ artifact \in [States -> States \union {None}]
  /\ deployment \in [Deployments -> {"absent", "pending", "active", "superseded", "failed", "cancelled"}]
  /\ prior \in [Deployments -> [Workspaces -> States \union {None}]]

CutoverInv == HostInv /\ DurableTypes /\ PointersNameActive

(* A deployment's states are the targets of any of its calls. *)
LEMMA StatesOfCall ==
  ASSUME NEW c \in Calls, DeploymentOf[c] # None
  PROVE  StatesOf(DeploymentOf[c]) = Targets[c]
<1>1. \A e \in {e \in Calls : DeploymentOf[e] = DeploymentOf[c]} : Targets[e] = Targets[c]
  BY CutoverAssumption
<1> QED
  BY <1>1 DEF StatesOf

(* The transactions of ActivateDeployment and of Publish keep the pointers and *)
(* the statuses together.                                                      *)
LEMMA ActivatedAgrees ==
  ASSUME DurableTypes, PointersNameActive, NEW S \in SUBSET States,
         \A s, t \in S : WorkspaceOf[s] = WorkspaceOf[t] => s = t,
         Activated(S)
  PROVE  /\ pointer' \in [Workspaces -> States \union {None}]
         /\ status' \in [States -> {"absent", "validated", "active", "draining", "failed"}]
         /\ PointersNameActive'
         /\ \A s \in S : pointer'[WorkspaceOf[s]] = s
         /\ \A w \in Workspaces : (\A s \in S : WorkspaceOf[s] # w) => pointer'[w] = pointer[w]
<1>1. /\ pointer \in [Workspaces -> States \union {None}]
      /\ status \in [States -> {"absent", "validated", "active", "draining", "failed"}]
  BY DEF DurableTypes
<1>2. /\ \A w \in Workspaces :
           pointer'[w] = IF \E s \in S : WorkspaceOf[s] = w THEN CHOOSE s \in S : WorkspaceOf[s] = w
                         ELSE pointer[w]
      /\ pointer' = [w \in Workspaces |-> pointer'[w]]
  BY DEF Activated
<1>3. /\ status' \in [States -> {"absent", "validated", "active", "draining", "failed"}]
      /\ \A s \in States : status'[s] = "active" <=>
            s \in S \/ (status[s] = "active" /\ \A t \in S : WorkspaceOf[t] # WorkspaceOf[s])
      /\ \A s \in States : s \notin S /\ status[s] = "failed" => status'[s] = "failed"
  <2>1. /\ status' = [s \in States |-> status'[s]]
        /\ \A s \in States :
             status'[s] = CASE s \in S -> "active"
                            [] s \notin S /\ status[s] = "active"
                                 /\ (\E t \in S : WorkspaceOf[t] = WorkspaceOf[s]) -> "draining"
                            [] OTHER -> status[s]
    BY DEF Activated
  <2>2. ASSUME NEW s \in States, s \in S PROVE status'[s] = "active"
    BY <2>1, <2>2
  <2>3. ASSUME NEW s \in States, s \notin S, status[s] = "active", \E t \in S : WorkspaceOf[t] = WorkspaceOf[s]
        PROVE  status'[s] = "draining"
    BY <2>1, <2>3
  <2>4. ASSUME NEW s \in States, s \notin S, ~(status[s] = "active" /\ \E t \in S : WorkspaceOf[t] = WorkspaceOf[s])
        PROVE  status'[s] = status[s]
    BY <2>1, <2>4
  <2>5. \A s \in States : status'[s] \in {"absent", "validated", "active", "draining", "failed"}
    BY <1>1, <2>2, <2>3, <2>4
  <2> QED
    BY <2>1, <2>2, <2>3, <2>4, <2>5
<1>4. \A s \in S : WorkspaceOf[s] \in Workspaces /\ pointer'[WorkspaceOf[s]] = s
  <2>1. ASSUME NEW s \in S
        PROVE  WorkspaceOf[s] \in Workspaces /\ pointer'[WorkspaceOf[s]] = s
    <3>1. WorkspaceOf[s] \in Workspaces
      BY HostAssumption
    <3>2. (CHOOSE t \in S : WorkspaceOf[t] = WorkspaceOf[s]) = s
      OBVIOUS
    <3> QED
      BY <1>2, <3>1, <3>2
  <2> QED
    BY <2>1
<1>5. \A w \in Workspaces : (\A s \in S : WorkspaceOf[s] # w) => pointer'[w] = pointer[w]
  BY <1>2
<1>6. pointer' \in [Workspaces -> States \union {None}]
  <2>1. \A w \in Workspaces : pointer'[w] \in States \union {None}
    BY <1>1, <1>4, <1>5
  <2> QED
    BY <1>2, <2>1
<1>7. ASSUME NEW s \in States, status'[s] = "active"
      PROVE  pointer'[WorkspaceOf[s]] = s
  <2>1. CASE s \in S
    BY <1>4, <2>1
  <2>2. CASE s \notin S
    <3>1. status[s] = "active" /\ \A r \in S : WorkspaceOf[r] # WorkspaceOf[s]
      BY <1>3, <1>7, <2>2
    <3>2. WorkspaceOf[s] \in Workspaces
      BY HostAssumption
    <3> QED
      BY <1>5, <3>1, <3>2 DEF PointersNameActive
  <2> QED
    BY <2>1, <2>2
<1>8. ASSUME NEW w \in Workspaces, pointer'[w] # None
      PROVE  /\ WorkspaceOf[pointer'[w]] = w
             /\ \/ status'[pointer'[w]] = "active"
                \/ pointer'[w] \in RefreshStates /\ status'[pointer'[w]] = "failed"
  <2>1. ASSUME NEW s \in S, WorkspaceOf[s] = w
        PROVE  pointer'[w] = s /\ status'[s] = "active"
    BY <1>3, <1>4, <2>1
  <2>2. CASE \A s \in S : WorkspaceOf[s] # w
    <3>1. pointer'[w] = pointer[w]
      BY <1>5, <2>2
    <3>2. PICK r \in States : r = pointer[w]
      BY <1>1, <1>8, <3>1
    <3>3. /\ WorkspaceOf[r] = w
          /\ status[r] = "active" \/ (r \in RefreshStates /\ status[r] = "failed")
      BY <1>8, <3>1, <3>2 DEF PointersNameActive
    <3>4. r \notin S
      BY <2>2, <3>3
    <3> QED
      BY <1>3, <2>2, <3>1, <3>2, <3>3, <3>4
  <2> QED
    BY <2>1, <2>2
<1>9. PointersNameActive'
  <2>1. UNCHANGED RefreshStates
    BY DEF RefreshStates, Refreshes
  <2> QED
    BY <1>7, <1>8, <2>1 DEF PointersNameActive
<1> QED
  BY <1>3, <1>4, <1>5, <1>6, <1>9

(* How the statuses of refresh candidates begin and fail. *)
Validated(s) == status[s] = "absent" /\ status' = [status EXCEPT ![s] = "validated"]
Failed(c) == status' = [s \in States |-> IF s \in Targets[c] THEN "failed" ELSE status[s]]

(* What a step of the composition does to pointers, statuses and runtimes. *)
LEMMA CutoverSteps ==
  ASSUME CutoverInv, CutoverNext
  PROVE  /\ Next \/ UNCHANGED vars
         /\ \/ UNCHANGED <<pointer, status>>
            \/ UNCHANGED pointer /\ \E s \in States : Validated(s)
            \/ UNCHANGED pointer /\ \E c \in Refreshes : Failed(c)
            \/ \E c \in Calls : ActivateCommitted(c) /\ Activated(Targets[c])
<1>1. CASE Background /\ UNCHANGED durableVars
  BY <1>1 DEF Next, durableVars
<1>2. CASE \E w \in Workspaces : Reload(w, pointer[w]) /\ UNCHANGED durableVars
  BY <1>2 DEF Next, durableVars, CutoverInv, DurableTypes
<1>3. CASE \E d \in Deployments : CreateDeployment(d) \/ CancelDeployment(d)
  BY <1>3 DEF CreateDeployment, CancelDeployment
<1>4. ASSUME NEW c \in Calls, DeployPrepare(c) \/ DeployVerify(c)
      PROVE  Next /\ UNCHANGED <<pointer, status>>
  BY <1>4 DEF Next, DeployPrepare, DeployVerify
<1>5. ASSUME NEW c \in Calls, DeployActivate(c)
      PROVE  /\ Next
             /\ UNCHANGED <<pointer, status>> \/ (ActivateCommitted(c) /\ Activated(Targets[c]))
  BY <1>5, StatesOfCall DEF Next, DeployActivate, DeployTransaction, DeployRepeated
<1>6. ASSUME NEW c \in Calls, QueueRefresh(c)
      PROVE  UNCHANGED <<vars, pointer>> /\ \E s \in States : Validated(s)
  <2>1. PICK s \in Targets[c] : /\ status[s] = "absent"
                                /\ status' = [status EXCEPT ![s] = "validated"]
                                /\ UNCHANGED <<vars, pointer>>
    BY <1>6 DEF QueueRefresh
  <2>2. s \in States
    BY HostAssumption
  <2> QED
    BY <2>1, <2>2 DEF Validated
<1>7. ASSUME NEW c \in Calls, SubmissionFails(c)
      PROVE  UNCHANGED <<vars, pointer>> /\ c \in Refreshes /\ Failed(c)
  BY <1>7 DEF SubmissionFails, Failed
<1>8. ASSUME NEW c \in Calls, RefreshPrepare(c)
      PROVE  /\ Next /\ UNCHANGED pointer
             /\ UNCHANGED status \/ (c \in Refreshes /\ Failed(c))
  BY <1>8 DEF Next, RefreshPrepare, FailCandidate, Failed
<1>9. ASSUME NEW c \in Calls, RefreshActivate(c)
      PROVE  /\ Next
             /\ \/ UNCHANGED <<pointer, status>>
                \/ UNCHANGED pointer /\ c \in Refreshes /\ Failed(c)
                \/ ActivateCommitted(c) /\ Activated(Targets[c])
  BY <1>9 DEF Next, RefreshActivate, FailCandidate, Failed
<1>10. CASE \E c \in Calls : QueueRefresh(c) \/ SubmissionFails(c)
  BY <1>6, <1>7, <1>10
<1>11. CASE \E c \in Calls : RefreshPrepare(c) \/ RefreshActivate(c)
  BY <1>8, <1>9, <1>11
<1> QED
  BY <1>1, <1>2, <1>3, <1>4, <1>5, <1>10, <1>11 DEF CutoverNext

(* The rows the composition adds keep their types. *)
LEMMA DurableStep ==
  ASSUME CutoverInv, CutoverNext
  PROVE  DurableTypes' /\ PointersNameActive'
<1> DEFINE Kinds == {"absent", "validated", "active", "draining", "failed"}
           Outcomes == {"absent", "pending", "active", "superseded", "failed", "cancelled"}
<1>1. /\ pointer \in [Workspaces -> States \union {None}] /\ status \in [States -> Kinds]
      /\ artifact \in [States -> States \union {None}] /\ deployment \in [Deployments -> Outcomes]
      /\ prior \in [Deployments -> [Workspaces -> States \union {None}]]
      /\ DurableTypes /\ PointersNameActive
  BY DEF CutoverInv, DurableTypes
<1>2. /\ pointer' \in [Workspaces -> States \union {None}] /\ status' \in [States -> Kinds]
      /\ PointersNameActive'
  <2>1. CASE UNCHANGED <<pointer, status>>
    BY <1>1, <2>1 DEF PointersNameActive, RefreshStates, Refreshes
  <2>3. ASSUME NEW c \in Calls, Activated(Targets[c])
        PROVE  /\ pointer' \in [Workspaces -> States \union {None}] /\ status' \in [States -> Kinds]
               /\ PointersNameActive'
    <3>1. /\ Targets[c] \in SUBSET States
          /\ \A s, t \in Targets[c] : WorkspaceOf[s] = WorkspaceOf[t] => s = t
      BY HostAssumption
    <3> QED
      BY <1>1, <2>3, <3>1, ActivatedAgrees
  <2>4. ASSUME NEW s \in States, Validated(s), UNCHANGED pointer
        PROVE  status' \in [States -> Kinds] /\ PointersNameActive'
    <3>1. /\ status' \in [States -> Kinds] /\ status[s] = "absent" /\ status'[s] = "validated"
          /\ \A r \in States \ {s} : status'[r] = status[r]
      BY <1>1, <2>4 DEF Validated
    <3>2. \A w \in Workspaces : pointer[w] # None => pointer[w] \in States \ {s}
      BY <1>1, <3>1 DEF PointersNameActive
    <3>3. UNCHANGED RefreshStates
      BY DEF RefreshStates, Refreshes
    <3> QED
      BY <1>1, <2>4, <3>1, <3>2, <3>3 DEF PointersNameActive
  <2>5. ASSUME NEW c \in Refreshes, Failed(c), UNCHANGED pointer
        PROVE  status' \in [States -> Kinds] /\ PointersNameActive'
    <3>1. /\ status' \in [States -> Kinds]
          /\ \A s \in States : status'[s] = IF s \in Targets[c] THEN "failed" ELSE status[s]
      BY <1>1, <2>5 DEF Failed
    <3>2. Targets[c] \subseteq RefreshStates /\ UNCHANGED RefreshStates
      BY DEF RefreshStates, Refreshes
    <3>3. \A w \in Workspaces : pointer[w] # None => pointer[w] \in States
      BY <1>1
    <3> QED
      BY <1>1, <2>5, <3>1, <3>2, <3>3 DEF PointersNameActive
  <2>7. \/ UNCHANGED <<pointer, status>>
        \/ UNCHANGED pointer /\ \E s \in States : Validated(s)
        \/ UNCHANGED pointer /\ \E c \in Refreshes : Failed(c)
        \/ \E c \in Calls : Activated(Targets[c])
    BY CutoverSteps
  <2> QED
    BY <1>1, <2>1, <2>3, <2>4, <2>5, <2>7
<1>3. deployment' \in [Deployments -> Outcomes]
  <2>1. CASE UNCHANGED deployment
    BY <1>1, <2>1
  <2>2. ASSUME NEW d \in Deployments, CreateDeployment(d) \/ CancelDeployment(d) \/ Fail(d)
        PROVE  deployment' \in [Deployments -> Outcomes]
    BY <1>1, <2>2 DEF CreateDeployment, CancelDeployment, Fail
  <2>3. ASSUME NEW d, DeployTransaction(d) PROVE deployment' \in [Deployments -> Outcomes]
    BY <1>1, <2>3 DEF DeployTransaction
  <2>4. \A c \in Calls : DeploymentOf[c] # None => DeploymentOf[c] \in Deployments
    BY CutoverAssumption
  <2>5. ASSUME NEW c \in Calls, DeployPrepare(c) \/ DeployVerify(c) \/ DeployActivate(c)
        PROVE  deployment' \in [Deployments -> Outcomes]
    BY <2>1, <2>2, <2>3, <2>4, <2>5 DEF DeployPrepare, DeployVerify, DeployActivate, DeployRepeated
  <2>6. ASSUME NEW c \in Calls,
               QueueRefresh(c) \/ SubmissionFails(c) \/ RefreshPrepare(c) \/ RefreshActivate(c)
        PROVE  UNCHANGED deployment
    BY <2>6 DEF QueueRefresh, SubmissionFails, RefreshPrepare, RefreshActivate
  <2> QED
    BY <2>1, <2>2, <2>5, <2>6 DEF CutoverNext, durableVars
<1>4. artifact' \in [States -> States \union {None}]
  <2>1. CASE UNCHANGED artifact
    BY <1>1, <2>1
  <2>2. ASSUME NEW c \in Calls, QueueRefresh(c)
        PROVE  artifact' \in [States -> States \union {None}]
    <3>1. PICK s \in Targets[c] : /\ pointer[WorkspaceOf[s]] # None
                                  /\ artifact' = [artifact EXCEPT ![s] = artifact[pointer[WorkspaceOf[s]]]]
      BY <2>2 DEF QueueRefresh
    <3>2. s \in States /\ WorkspaceOf[s] \in Workspaces
      BY HostAssumption
    <3>3. pointer[WorkspaceOf[s]] \in States
      BY <1>1, <3>1, <3>2
    <3>4. artifact[pointer[WorkspaceOf[s]]] \in States \union {None}
      BY <1>1, <3>3
    <3> QED
      BY <1>1, <3>1, <3>4
  <2> QED
    BY <2>1, <2>2 DEF CutoverNext, durableVars, CreateDeployment, CancelDeployment, DeployPrepare,
       DeployVerify, DeployActivate, SubmissionFails, RefreshPrepare, RefreshActivate
<1>5. prior' \in [Deployments -> [Workspaces -> States \union {None}]]
  <2>1. CASE UNCHANGED prior
    BY <1>1, <2>1
  <2>2. ASSUME NEW d \in Deployments, CreateDeployment(d)
        PROVE  prior' \in [Deployments -> [Workspaces -> States \union {None}]]
    BY <1>1, <2>2 DEF CreateDeployment
  <2> QED
    BY <2>1, <2>2 DEF CutoverNext, durableVars, CancelDeployment, DeployPrepare,
       DeployVerify, DeployActivate, QueueRefresh, SubmissionFails, RefreshPrepare, RefreshActivate
<1> QED
  BY <1>2, <1>3, <1>4, <1>5 DEF DurableTypes

LEMMA CutoverKeeps ==
  ASSUME CutoverInv, [CutoverNext]_cutoverVars
  PROVE  CutoverInv' /\ [Next]_vars
<1>1. CASE CutoverNext
  <2>1. [Next]_vars
    BY <1>1, CutoverSteps
  <2>2. HostInv'
    BY <2>1, HostNext, HostStutters DEF CutoverInv
  <2> QED
    BY <1>1, <2>1, <2>2, DurableStep DEF CutoverInv
<1>2. CASE UNCHANGED cutoverVars
  <2>1. UNCHANGED vars /\ UNCHANGED durableVars
    BY <1>2 DEF cutoverVars
  <2>2. HostInv'
    BY <2>1, HostStutters DEF CutoverInv
  <2>3. DurableTypes' /\ PointersNameActive'
    BY <2>1 DEF CutoverInv, durableVars, DurableTypes, PointersNameActive, RefreshStates, Refreshes
  <2> QED
    BY <2>1, <2>2, <2>3 DEF CutoverInv
<1> QED
  BY <1>1, <1>2

LEMMA InitCutover == CutoverInit => CutoverInv /\ Init
<1> SUFFICES ASSUME CutoverInit PROVE CutoverInv /\ Init
  OBVIOUS
<1>1. Init /\ HostInv
  BY InitHost DEF CutoverInit
<1>2. DurableTypes
  <2>1. pointer \in [Workspaces -> States \union {None}]
    BY CutoverAssumption DEF CutoverInit
  <2>2. status \in [States -> {"absent", "validated", "active", "draining", "failed"}]
    BY DEF CutoverInit
  <2>3. artifact \in [States -> States \union {None}]
    BY DEF CutoverInit
  <2>4. /\ deployment \in [Deployments -> {"absent", "pending", "active", "superseded", "failed", "cancelled"}]
        /\ prior \in [Deployments -> [Workspaces -> States \union {None}]]
    BY CutoverAssumption DEF CutoverInit
  <2> QED
    BY <2>1, <2>2, <2>3, <2>4 DEF DurableTypes
<1>3. PointersNameActive
  <2>1. \A w \in Workspaces : pointer[w] # None => WorkspaceOf[pointer[w]] = w
    BY CutoverAssumption DEF CutoverInit
  <2>2. \A s \in States : status[s] = "active" <=> \E w \in Workspaces : pointer[w] = s
    BY DEF CutoverInit
  <2>3. None \notin States /\ \A w \in Workspaces : pointer[w] \in States \union {None}
    BY HostAssumption, <1>2 DEF DurableTypes
  <2> QED
    BY <2>1, <2>2, <2>3 DEF PointersNameActive
<1> QED
  BY <1>1, <1>2, <1>3 DEF CutoverInv

-----------------------------------------------------------------------------
(* The theorems about activation end to end                                *)

(* Whatever deployments and refreshes do, the managers are consistent, the     *)
(* durable rows keep their types, and the active serving states are those the  *)
(* pointers name, but for the published states of failed submissions.          *)
THEOREM CutoverInvariance == CutoverSpec => []CutoverInv
<1> QED
  BY InitCutover, CutoverKeeps, PTL DEF CutoverSpec

(* The deployments and refreshes use the registry as RuntimeHost allows: the   *)
(* composition is a behaviour of the host, so what is proved of the host holds *)
(* of it.                                                                      *)
THEOREM ActivationsUseTheHost == CutoverSpec => Spec
<1>1. CutoverInit => CutoverInv /\ Init
  BY InitCutover
<1>2. CutoverInv /\ [CutoverNext]_cutoverVars => CutoverInv' /\ [Next]_vars
  BY CutoverKeeps
<1> QED
  BY <1>1, <1>2, PTL DEF CutoverSpec, Spec

(* Deployments and refreshes therefore get from the host what SharedRuntimes   *)
(* promises its readers.                                                       *)
THEOREM ActivationsShareRuntimes == CutoverSpec => ImplementsSharedRuntimes
<1> QED
  BY ActivationsUseTheHost, HostRefinement

-----------------------------------------------------------------------------
(* The managers follow the pointers, but for repeated activations              *)

CutoverFull == CutoverInv /\ CallsServeTargets /\ CutoverCatchesUp /\ ActiveWasActivated

Underway == {"prepared", "sealed", "publishing"}

(* What each part of CutoverFull reads. *)
LEMMA TargetsFrame ==
  ASSUME CallsServeTargets,
         \A c \in Calls : callPc'[c] \in Underway =>
           /\ callPc[c] \in Underway /\ items'[c] = items[c]
           /\ \A g \in items[c] : source'[g] = source[g] /\ noChange'[g] = noChange[g]
           /\ callPc'[c] # "prepared" =>
                callPc[c] # "prepared" \/ \A g \in items[c] : ~noChange[g]
  PROVE  CallsServeTargets'
<1> SUFFICES ASSUME NEW c \in Calls, callPc'[c] \in Underway
             PROVE  /\ {source'[g] : g \in items'[c]} = Targets[c]
                    /\ \A g, h \in items'[c] : source'[g] = source'[h] => g = h
                    /\ callPc'[c] # "prepared" => \A g \in items'[c] : ~noChange'[g]
  BY DEF CallsServeTargets, Underway
<1>1. /\ {source[g] : g \in items[c]} = Targets[c]
      /\ \A g, h \in items[c] : source[g] = source[h] => g = h
      /\ callPc[c] # "prepared" => \A g \in items[c] : ~noChange[g]
  BY DEF CallsServeTargets, Underway
<1> QED
  BY <1>1

(* A call that has published stays so. *)
Kept ==
  \A c \in Calls :
    /\ items[c] \subseteq items'[c]
    /\ Published(c) => /\ callPc'[c] \in {"answered", "done"} /\ items'[c] = items[c]
                       /\ \A g \in items[c] : prep'[g] = "published"

LEMMA RepeatsKept ==
  ASSUME Kept
  PROVE  /\ \A c \in Calls : Published(c) => Published(c)'
         /\ \A c \in Calls : Repeats(c) => Repeats(c)'
         /\ \A w \in Workspaces : Strayed(w) /\ current'[w] = current[w] => Strayed(w)'
<1>1. \A c \in Calls : Published(c) => Published(c)'
  <2> TAKE c \in Calls
  <2> SUFFICES ASSUME Published(c) PROVE Published(c)'
    OBVIOUS
  <2>1. callPc'[c] \in {"answered", "done"} /\ items'[c] = items[c]
        /\ \A g \in items[c] : prep'[g] = "published"
    BY DEF Kept
  <2>2. items[c] # {}
    BY DEF Published
  <2> QED
    BY <2>1, <2>2 DEF Published
<1>2. \A c \in Calls : Repeats(c) => Repeats(c)'
  BY <1>1 DEF Repeats
<1>3. \A w \in Workspaces : Strayed(w) /\ current'[w] = current[w] => Strayed(w)'
  <2> TAKE w \in Workspaces
  <2> SUFFICES ASSUME Strayed(w), current'[w] = current[w] PROVE Strayed(w)'
    OBVIOUS
  <2>1. PICK c \in Calls : current[w] \in items[c] /\ Repeats(c)
    BY DEF Strayed
  <2>2. current'[w] \in items'[c]
    BY <2>1 DEF Kept
  <2>3. Repeats(c)'
    BY <2>1, <1>2
  <2> QED
    BY <2>2, <2>3 DEF Strayed
<1> QED
  BY <1>1, <1>2, <1>3

LEMMA CatchesUpFrame ==
  ASSUME CutoverCatchesUp, Kept, loaded \subseteq Workspaces,
         UNCHANGED <<pointer, loaded, writer>>, ~closed' => ~closed,
         \A w \in loaded : closed' \/ current'[w] = current[w],
         \A w \in loaded : current[w] # NoGeneration => source'[current[w]] = source[current[w]],
         \A c \in Calls : writer = c =>
           /\ items'[c] = items[c]
           /\ \A g \in items[c] : /\ source'[g] = source[g]
                                  /\ prep'[g] = "sealed" <=> prep[g] = "sealed"
  PROVE  CutoverCatchesUp'
<1>1. ASSUME NEW w \in loaded', ~closed'
      PROVE  Follows(w)' \/ Strayed(w)'
             \/ \E c \in Calls : \E g \in items'[c] : writer' = c /\ prep'[g] = "sealed" /\ At(g)' = w
  <2>1. w \in loaded /\ w \in Workspaces /\ ~closed /\ current'[w] = current[w]
    BY <1>1
  <2>2. CASE Follows(w)
    BY <2>1, <2>2 DEF Follows
  <2>3. ASSUME NEW c \in Calls, NEW g \in items[c], writer = c, prep[g] = "sealed", At(g) = w
        PROVE  g \in items'[c] /\ writer' = c /\ prep'[g] = "sealed" /\ At(g)' = w
    BY <2>3 DEF At
  <2>4. CASE Strayed(w)
    BY <2>1, <2>4, RepeatsKept
  <2> QED
    BY <2>1, <2>2, <2>3, <2>4 DEF CutoverCatchesUp
<1>2. ASSUME NEW c \in Calls, NEW g \in items'[c], writer' = c, prep'[g] = "sealed", ~Repeats(c)'
      PROVE  pointer'[WorkspaceOf[source'[g]]] = source'[g]
  <2>1. ~Repeats(c)
    BY <1>2, RepeatsKept
  <2> QED
    BY <1>2, <2>1 DEF CutoverCatchesUp, At
<1> QED
  BY <1>1, <1>2 DEF CutoverCatchesUp, At

LEMMA ActivatedFrame ==
  ASSUME ActiveWasActivated, Kept,
         \A d \in Deployments : deployment'[d] = "active" => deployment[d] = "active",
         \A c \in Calls : callPc[c] = "publishing" => callPc'[c] = "publishing"
  PROVE  ActiveWasActivated'
BY RepeatsKept DEF ActiveWasActivated

(* With these, what only touches readers, leases and cleanups stays quiet. *)
LEMMA QuietStep ==
  ASSUME CutoverFull, UNCHANGED <<source, noChange, prep, callPc, items, writer, loaded, pointer>>,
         ~closed' => ~closed, closed' \/ UNCHANGED current,
         \A d \in Deployments : deployment'[d] = "active" => deployment[d] = "active"
  PROVE  CallsServeTargets' /\ CutoverCatchesUp' /\ ActiveWasActivated'
<1>1. CallsServeTargets /\ CutoverCatchesUp /\ ActiveWasActivated /\ loaded \subseteq Workspaces
  BY HostParts DEF CutoverFull, CutoverInv, TypeOK
<1>2. Kept
  BY DEF Kept, Published
<1>3. CallsServeTargets'
  BY <1>1, TargetsFrame
<1>4. CutoverCatchesUp'
  BY <1>1, <1>2, CatchesUpFrame
<1> QED
  BY <1>1, <1>2, <1>3, <1>4, ActivatedFrame

LEMMA BackgroundSteps ==
  ASSUME HostInv, Background
  PROVE  \/ \E c \in Calls : Unlock(c) \/ Discard(c)
         \/ \E c \in Calls, g \in Generations : Publish(c, g)
         \/ /\ UNCHANGED <<source, noChange, prep, callPc, items, writer, loaded>>
            /\ ~closed' => ~closed
            /\ closed' \/ UNCHANGED current
            /\ \A r \in Readers : holding'[r] # holding[r] /\ holding'[r] # NoGeneration =>
                 Serving /\ writer = None
<1>0. holding \in [Readers -> Generations \union {NoGeneration}] /\ closed \in BOOLEAN
  BY HostParts DEF TypeOK
<1>1. ASSUME NEW r \in Readers, NEW w \in Workspaces, Acquire(r, w)
      PROVE  UNCHANGED <<source, noChange, prep, callPc, items, writer, loaded, closed, current>>
             /\ Serving /\ writer = None
  BY <1>1 DEF Acquire, genVars, callVars, hostVars
<1>2. ASSUME NEW r \in Readers, Release(r)
      PROVE  UNCHANGED <<source, noChange, prep, callPc, items, writer, loaded, closed, current>>
             /\ \A u \in Readers : holding'[u] = holding[u] \/ holding'[u] = NoGeneration
  <2>1. holding' = [holding EXCEPT ![r] = NoGeneration]
    BY <1>2 DEF Release
  <2> QED
    BY <1>0, <1>2, <2>1 DEF Release, genVars, callVars, hostVars
<1>3. ASSUME NEW g \in Generations, Kick(g) \/ Expire(g) \/ Renew(g)
      PROVE  UNCHANGED <<source, noChange, prep, callPc, items, writer, loaded, closed, current, holding>>
  BY <1>3 DEF Kick, Expire, Renew, genVars, callVars, hostVars, managerVars
<1>4. ASSUME NEW w \in Workspaces, WorkerNext(w) \/ WorkerClose(w) \/ WorkerFinish(w)
      PROVE  UNCHANGED <<source, noChange, prep, callPc, items, writer, loaded, closed, current, holding>>
  BY <1>4 DEF WorkerNext, WorkerClose, WorkerFinish, genVars, callVars, hostVars, managerVars
<1>5. ASSUME NEW w \in Workspaces, TakeRelease(w) \/ EndRelease(w) \/ CloseQueue(w)
      PROVE  UNCHANGED <<source, noChange, prep, callPc, items, writer, loaded, closed, current, holding>>
  BY <1>5 DEF TakeRelease, EndRelease, CloseQueue, genVars, callVars, hostVars, managerVars
<1>6. ASSUME CloseRegistry
      PROVE  UNCHANGED <<source, noChange, prep, callPc, items, writer, loaded, current, holding>> /\ closed'
  BY <1>6 DEF CloseRegistry, genVars, callVars, managerVars
<1>7. ASSUME NEW w \in Workspaces, CloseManager(w)
      PROVE  UNCHANGED <<source, noChange, prep, callPc, items, writer, loaded, holding>> /\ closed'
  BY <1>7 DEF CloseManager, genVars, callVars
<1> QED
  BY <1>1, <1>2, <1>3, <1>4, <1>5, <1>6, <1>7 DEF Background

(* The parts of the invariant that the steps below use. *)
LEMMA FullParts ==
  ASSUME CutoverFull
  PROVE  /\ HostInv /\ TypeOK /\ CallsOwnTheirs /\ ManagersExact /\ DurableTypes /\ PointersNameActive
         /\ CallsServeTargets /\ CutoverCatchesUp /\ ActiveWasActivated
         /\ None \notin Calls /\ \A c \in Calls : writer = c <=> callPc[c] = "publishing"
         /\ loaded \subseteq Workspaces
BY HostParts, HostAssumption DEF CutoverFull, CutoverInv, CallsOwnTheirs, TypeOK

(* Without a cutover under way every loaded manager serves its pointer or what *)
(* a repeated activation gave it.                                              *)
LEMMA QuietFollows ==
  ASSUME CutoverFull, writer = None, ~closed
  PROVE  \A w \in loaded : Follows(w) \/ Strayed(w)
BY FullParts DEF CutoverCatchesUp

LEMMA DiscardServes ==
  ASSUME CutoverFull, NEW c \in Calls, Discard(c), UNCHANGED pointer,
         \A d \in Deployments : deployment'[d] = "active" => deployment[d] = "active"
  PROVE  CallsServeTargets' /\ CutoverCatchesUp' /\ ActiveWasActivated'
<1>1. /\ UNCHANGED <<source, noChange, current, items, writer, loaded, closed>>
      /\ callPc' = [callPc EXCEPT ![c] = "done"]
      /\ prep' = [g \in Generations |-> IF g \in {h \in items[c] : prep[h] = "open"} THEN "closed" ELSE prep[g]]
  BY DEF Discard, managerVars, hostVars
<1>2. callPc'[c] = "done" /\ \A d \in Calls \ {c} : callPc'[d] = callPc[d]
  BY <1>1, FullParts DEF TypeOK
<1>3. \A g \in Generations : prep'[g] = "sealed" <=> prep[g] = "sealed"
  BY <1>1
<1>4. \A d \in Calls : items[d] \subseteq Generations
  BY FullParts DEF TypeOK
<1>5. CallsServeTargets'
  BY <1>1, <1>2, FullParts, TargetsFrame DEF Underway
<1>0. Kept
  BY <1>1, <1>2, <1>4 DEF Kept, Published
<1>6. CutoverCatchesUp'
  BY <1>0, <1>1, <1>3, <1>4, FullParts, CatchesUpFrame
<1>7. ActiveWasActivated'
  <2>1. callPc[c] # "publishing"
    BY DEF Discard
  <2> QED
    BY <1>0, <1>2, <2>1, FullParts, ActivatedFrame
<1> QED
  BY <1>5, <1>6, <1>7

LEMMA SealServes ==
  ASSUME CutoverFull, NEW c \in Calls, Seal(c), UNCHANGED pointer,
         \A g \in items[c] : ~noChange[g],
         \A d \in Deployments : deployment'[d] = "active" => deployment[d] = "active"
  PROVE  CallsServeTargets' /\ CutoverCatchesUp' /\ ActiveWasActivated'
<1>1. /\ UNCHANGED <<source, noChange, current, items, writer, loaded, closed>>
      /\ callPc[c] = "prepared" /\ callPc' = [callPc EXCEPT ![c] = "sealed"]
      /\ prep' = [g \in Generations |-> IF g \in items[c] THEN "sealed" ELSE prep[g]]
  BY DEF Seal, managerVars, hostVars
<1>2. callPc'[c] = "sealed" /\ \A d \in Calls \ {c} : callPc'[d] = callPc[d]
  BY <1>1, FullParts DEF TypeOK
<1>3. \A d \in Calls : writer = d => items[d] \intersect items[c] = {}
  BY <1>1, FullParts DEF CallsOwnTheirs
<1>4. \A d \in Calls : writer = d => \A g \in items[d] : prep'[g] = "sealed" <=> prep[g] = "sealed"
  BY <1>1, <1>3, FullParts DEF TypeOK
<1>5. CallsServeTargets'
  BY <1>1, <1>2, FullParts, TargetsFrame DEF Underway
<1>0. Kept
  <2>1. ASSUME NEW e \in Calls, Published(e)
        PROVE  e # c /\ \A g \in items[e] : prep'[g] = "published"
    <3>1. e # c
      BY <1>1, <2>1 DEF Published
    <3>2. items[e] \intersect items[c] = {} /\ items[e] \subseteq Generations
      BY <3>1, FullParts DEF CallsOwnTheirs, TypeOK
    <3> QED
      BY <1>1, <2>1, <3>1, <3>2 DEF Published
  <2> QED
    BY <1>1, <1>2, <2>1 DEF Kept, Published
<1>6. CutoverCatchesUp'
  BY <1>0, <1>1, <1>4, FullParts, CatchesUpFrame
<1>7. ActiveWasActivated'
  BY <1>0, <1>1, <1>2, FullParts, ActivatedFrame
<1> QED
  BY <1>5, <1>6, <1>7

LEMMA RefusedServes ==
  ASSUME CutoverFull, NEW c \in Calls, ActivateRefused(c), UNCHANGED pointer,
         \A d \in Deployments : deployment'[d] = "active" => deployment[d] = "active"
  PROVE  CallsServeTargets' /\ CutoverCatchesUp' /\ ActiveWasActivated'
<1>1. /\ UNCHANGED <<source, noChange, current, items, writer, loaded, closed>>
      /\ callPc[c] = "sealed" /\ callPc' = [callPc EXCEPT ![c] = "answered"] /\ writer = None
  BY DEF ActivateRefused, managerVars, hostVars
<1>2. callPc'[c] = "answered" /\ \A d \in Calls \ {c} : callPc'[d] = callPc[d]
  BY <1>1, FullParts DEF TypeOK
<1>3. CallsServeTargets'
  BY <1>1, <1>2, FullParts, TargetsFrame DEF Underway
<1>0. Kept
  <2>1. prep' = [g \in Generations |-> IF g \in items[c] THEN "closed" ELSE prep[g]]
    BY DEF ActivateRefused
  <2>2. ASSUME NEW e \in Calls, Published(e)
        PROVE  e # c /\ \A g \in items[e] : prep'[g] = "published"
    <3>1. e # c
      BY <1>1, <2>2 DEF Published
    <3>2. items[e] \intersect items[c] = {} /\ items[e] \subseteq Generations
      BY <3>1, FullParts DEF CallsOwnTheirs, TypeOK
    <3> QED
      BY <2>1, <2>2, <3>2, <3>1 DEF Published
  <2> QED
    BY <1>1, <1>2, <2>2 DEF Kept, Published
<1>4. CutoverCatchesUp'
  BY <1>0, <1>1, FullParts, CatchesUpFrame
<1>5. ActiveWasActivated'
  BY <1>0, <1>1, <1>2, FullParts, ActivatedFrame
<1> QED
  BY <1>3, <1>4, <1>5

(* The callback moves the pointers of the call's targets; the runtimes that    *)
(* will follow them are the sealed ones it goes on to publish.                 *)
LEMMA CommittedServes ==
  ASSUME CutoverFull, NEW c \in Calls, ActivateCommitted(c), Activated(Targets[c]),
         \A d \in Deployments : deployment'[d] = "active" => deployment[d] = "active" \/ d = DeploymentOf[c]
  PROVE  CallsServeTargets' /\ CutoverCatchesUp' /\ ActiveWasActivated'
<1>1. /\ UNCHANGED <<source, noChange, prep, current, items, loaded, closed>>
      /\ callPc[c] = "sealed" /\ callPc' = [callPc EXCEPT ![c] = "publishing"]
      /\ writer = None /\ writer' = c /\ ~closed
  BY DEF ActivateCommitted, genVars, managerVars, hostVars
<1>2. callPc'[c] = "publishing" /\ \A d \in Calls \ {c} : callPc'[d] = callPc[d]
  BY <1>1, FullParts DEF TypeOK
<1>3. /\ Targets[c] \in SUBSET States
      /\ \A s, t \in Targets[c] : WorkspaceOf[s] = WorkspaceOf[t] => s = t
  BY HostAssumption
<1>4. /\ \A s \in Targets[c] : pointer'[WorkspaceOf[s]] = s
      /\ \A w \in Workspaces : (\A s \in Targets[c] : WorkspaceOf[s] # w) => pointer'[w] = pointer[w]
  BY <1>3, FullParts, ActivatedAgrees
<1>5. {source[g] : g \in items[c]} = Targets[c] /\ \A g \in items[c] : prep[g] = "sealed"
  BY <1>1, FullParts DEF CallsServeTargets, CallsOwnTheirs
<1>6. CallsServeTargets'
  BY <1>1, <1>2, FullParts, TargetsFrame DEF Underway
<1>0. Kept
  BY <1>1, <1>2 DEF Kept, Published
<1>7. CutoverCatchesUp'
  <2>1. ASSUME NEW w \in loaded'
        PROVE  Follows(w)' \/ Strayed(w)'
               \/ \E d \in Calls : \E g \in items'[d] : writer' = d /\ prep'[g] = "sealed" /\ At(g)' = w
    <3>1. w \in loaded /\ w \in Workspaces
      BY <1>1, <2>1, FullParts DEF TypeOK
    <3>2. CASE \A s \in Targets[c] : WorkspaceOf[s] # w
      <4>1. (Follows(w) \/ Strayed(w)) /\ pointer'[w] = pointer[w] /\ current'[w] = current[w]
        BY <1>1, <1>4, <3>1, <3>2, QuietFollows
      <4>2. CASE Follows(w)
        BY <1>1, <4>1, <4>2 DEF Follows
      <4> QED
        BY <1>0, <3>1, <4>1, <4>2, RepeatsKept
    <3>3. ASSUME NEW s \in Targets[c], WorkspaceOf[s] = w
          PROVE  \E g \in items'[c] : writer' = c /\ prep'[g] = "sealed" /\ At(g)' = w
      <4>1. PICK g \in items[c] : source[g] = s
        BY <1>5
      <4> QED
        BY <1>1, <1>5, <3>3, <4>1 DEF At
    <3> QED
      BY <3>2, <3>3
  <2>2. ASSUME NEW d \in Calls, NEW g \in items'[d], writer' = d
        PROVE  pointer'[WorkspaceOf[source'[g]]] = source'[g]
    BY <1>1, <1>4, <1>5, <2>2
  <2> QED
    BY <2>1, <2>2 DEF CutoverCatchesUp, At
<1>8. ActiveWasActivated'
  <2>1. ASSUME NEW d \in Deployments, deployment'[d] = "active"
        PROVE  \E e \in Calls : DeploymentOf[e] = d /\ (callPc'[e] = "publishing" \/ Published(e)')
    <3>1. CASE d = DeploymentOf[c]
      BY <1>2, <3>1
    <3>2. CASE deployment[d] = "active"
      <4>1. PICK e \in Calls : DeploymentOf[e] = d /\ (callPc[e] = "publishing" \/ Published(e))
        BY <3>2, FullParts DEF ActiveWasActivated
      <4>2. callPc[e] # "publishing"
        BY <1>1, FullParts
      <4> QED
        BY <1>0, <4>1, <4>2, RepeatsKept
    <3> QED
      BY <2>1, <3>1, <3>2
  <2> QED
    BY <2>1 DEF ActiveWasActivated
<1> QED
  BY <1>6, <1>7, <1>8

(* An activation of an active deployment moves no pointer; its call publishes  *)
(* all the same, and counts as one that repeats.                               *)
LEMMA RepeatedServes ==
  ASSUME CutoverFull, NEW c \in Calls, ActivateCommitted(c), UNCHANGED <<pointer, deployment>>,
         DeploymentOf[c] \in Deployments \ {None}, deployment[DeploymentOf[c]] = "active"
  PROVE  CallsServeTargets' /\ CutoverCatchesUp' /\ ActiveWasActivated'
<1>1. /\ UNCHANGED <<source, noChange, prep, current, items, loaded, closed>>
      /\ callPc[c] = "sealed" /\ callPc' = [callPc EXCEPT ![c] = "publishing"]
      /\ writer = None /\ writer' = c /\ ~closed
  BY DEF ActivateCommitted, genVars, managerVars, hostVars
<1>2. callPc'[c] = "publishing" /\ \A d \in Calls \ {c} : callPc'[d] = callPc[d]
  BY <1>1, FullParts DEF TypeOK
<1>3. Kept
  BY <1>1, <1>2 DEF Kept, Published
<1>4. PICK e \in Calls : DeploymentOf[e] = DeploymentOf[c] /\ Published(e)
  <2>1. PICK e \in Calls : DeploymentOf[e] = DeploymentOf[c] /\ (callPc[e] = "publishing" \/ Published(e))
    BY FullParts DEF ActiveWasActivated
  <2>2. callPc[e] # "publishing"
    BY <1>1, FullParts
  <2> QED
    BY <2>1, <2>2
<1>5. Repeats(c)'
  <2>1. e # c
    BY <1>1, <1>4 DEF Published
  <2>2. Published(e)'
    BY <1>3, <1>4, RepeatsKept
  <2> QED
    BY <1>4, <2>1, <2>2 DEF Repeats
<1>6. CallsServeTargets'
  BY <1>1, <1>2, FullParts, TargetsFrame DEF Underway
<1>7. \A w \in loaded' : Follows(w)' \/ Strayed(w)'
  <2>1. ASSUME NEW w \in loaded' PROVE Follows(w)' \/ Strayed(w)'
    <3>1. w \in loaded /\ w \in Workspaces /\ current'[w] = current[w]
      BY <1>1, <2>1, FullParts
    <3>2. CASE Follows(w)
      BY <1>1, <3>1, <3>2 DEF Follows
    <3>3. CASE Strayed(w)
      BY <1>3, <3>1, <3>3, RepeatsKept
    <3> QED
      BY <1>1, <3>1, <3>2, <3>3, QuietFollows
  <2> QED
    BY <2>1
<1>8. CutoverCatchesUp'
  BY <1>1, <1>5, <1>7, FullParts DEF CutoverCatchesUp
<1>9. ActiveWasActivated'
  BY <1>1, <1>2, <1>3, FullParts, ActivatedFrame
<1> QED
  BY <1>6, <1>8, <1>9

LEMMA PublishServes ==
  ASSUME CutoverFull, NEW c \in Calls, NEW g \in Generations, Publish(c, g), UNCHANGED <<pointer, deployment>>
  PROVE  CallsServeTargets' /\ CutoverCatchesUp' /\ ActiveWasActivated'
<1>1. /\ UNCHANGED <<source, noChange, callPc, items, writer, loaded, closed>>
      /\ writer = c /\ g \in items[c] /\ prep[g] = "sealed" /\ prep' = [prep EXCEPT ![g] = "published"]
  BY DEF Publish, hostVars
<1>2. prep'[g] = "published" /\ \A h \in Generations \ {g} : prep'[h] = prep[h]
  BY <1>1, FullParts DEF TypeOK
<1>3. callPc[c] = "publishing" /\ ~noChange[g] /\ source[g] \in Targets[c]
  BY <1>1, FullParts DEF CallsServeTargets
<1>4. source[g] \in States /\ source[g] # None /\ At(g) \in Workspaces
  BY <1>3, HostAssumption DEF At
<1>5. current' = [current EXCEPT ![At(g)] = g]
  BY <1>3 DEF Publish
<1>6. current'[At(g)] = g /\ \A w \in Workspaces \ {At(g)} : current'[w] = current[w]
  BY <1>4, <1>5, FullParts DEF TypeOK
<1>7. g # NoGeneration
  BY DEF Generations, NoGeneration
<1>0. Kept
  <2>1. \A e \in Calls : items[e] \subseteq Generations
    BY FullParts DEF TypeOK
  <2> QED
    BY <1>1, <1>2, <2>1 DEF Kept, Published
<1>8. CallsServeTargets' /\ ActiveWasActivated'
  BY <1>0, <1>1, FullParts, TargetsFrame, ActivatedFrame DEF Underway
<1>9. pointer[At(g)] = source[g] \/ Repeats(c)
  BY <1>1, FullParts DEF CutoverCatchesUp
<1>10. ASSUME NEW w \in loaded', ~closed'
       PROVE  Follows(w)' \/ Strayed(w)'
              \/ \E d \in Calls : \E h \in items'[d] : writer' = d /\ prep'[h] = "sealed" /\ At(h)' = w
  <2>1. w \in loaded /\ w \in Workspaces /\ ~closed
    BY <1>1, <1>10, FullParts DEF TypeOK
  <2>2. CASE w = At(g) /\ ~Repeats(c)
    BY <1>1, <1>4, <1>6, <1>7, <1>9, <2>2 DEF Follows, At
  <2>3. CASE w = At(g) /\ Repeats(c)
    <3>1. current'[w] \in items'[c] /\ Repeats(c)'
      BY <1>0, <1>1, <1>6, <2>3, RepeatsKept
    <3> QED
      BY <3>1 DEF Strayed
  <2>4. CASE w # At(g) /\ Follows(w)
    BY <1>1, <1>6, <2>1, <2>4 DEF Follows
  <2>5. CASE w # At(g) /\ Strayed(w)
    BY <1>0, <1>6, <2>1, <2>5, RepeatsKept
  <2>6. ASSUME w # At(g), NEW d \in Calls, NEW h \in items[d], writer = d, prep[h] = "sealed", At(h) = w
        PROVE  h \in items'[d] /\ writer' = d /\ prep'[h] = "sealed" /\ At(h)' = w
    <3>1. h \in Generations \ {g}
      BY <2>6, FullParts DEF TypeOK
    <3> QED
      BY <1>1, <1>2, <2>6, <3>1 DEF At
  <2> QED
    BY <2>1, <2>2, <2>3, <2>4, <2>5, <2>6, FullParts DEF CutoverCatchesUp
<1>11. ASSUME NEW d \in Calls, NEW h \in items'[d], writer' = d, prep'[h] = "sealed", ~Repeats(d)'
       PROVE  pointer'[WorkspaceOf[source'[h]]] = source'[h]
  <2>1. h \in Generations /\ ~Repeats(d)
    BY <1>0, <1>1, <1>11, FullParts, RepeatsKept DEF TypeOK
  <2> QED
    BY <1>1, <1>2, <1>11, <2>1, FullParts DEF CutoverCatchesUp, At
<1> QED
  BY <1>8, <1>10, <1>11 DEF CutoverCatchesUp, At

LEMMA UnlockServes ==
  ASSUME CutoverFull, NEW c \in Calls, Unlock(c), UNCHANGED <<pointer, deployment>>
  PROVE  CallsServeTargets' /\ CutoverCatchesUp' /\ ActiveWasActivated'
<1>1. /\ UNCHANGED <<source, noChange, prep, current, items, loaded, closed>>
      /\ writer = c /\ writer' = None /\ callPc' = [callPc EXCEPT ![c] = "answered"]
      /\ \A g \in items[c] : prep[g] = "published"
  BY DEF Unlock, genVars, managerVars, hostVars
<1>2. callPc'[c] = "answered" /\ \A d \in Calls \ {c} : callPc'[d] = callPc[d]
  BY <1>1, FullParts DEF TypeOK
<1>0. Kept
  BY <1>1, <1>2 DEF Kept, Published
<1>3. CallsServeTargets'
  BY <1>1, <1>2, FullParts, TargetsFrame DEF Underway
<1>4. Published(c)'
  <2>1. callPc[c] = "publishing"
    BY <1>1, FullParts
  <2>2. items[c] # {}
    BY <2>1, FullParts, HostAssumption DEF CallsServeTargets
  <2> QED
    BY <1>1, <1>2, <2>2 DEF Published
<1>5. ActiveWasActivated'
  <2>1. ASSUME NEW d \in Deployments, deployment[d] = "active"
        PROVE  \E e \in Calls : DeploymentOf[e] = d /\ Published(e)'
    <3>1. PICK e \in Calls : DeploymentOf[e] = d /\ (callPc[e] = "publishing" \/ Published(e))
      BY <2>1, FullParts DEF ActiveWasActivated
    <3>2. callPc[e] = "publishing" => e = c
      BY <1>1, FullParts
    <3> QED
      BY <1>0, <1>4, <3>1, <3>2, RepeatsKept
  <2> QED
    BY <2>1 DEF ActiveWasActivated
<1>6. ASSUME NEW w \in loaded', ~closed' PROVE Follows(w)' \/ Strayed(w)'
  <2>1. w \in loaded /\ w \in Workspaces /\ ~closed /\ current'[w] = current[w]
    BY <1>1, <1>6, FullParts
  <2>2. Follows(w) \/ Strayed(w)
    BY <1>1, <2>1, FullParts DEF CutoverCatchesUp
  <2>3. CASE Follows(w)
    BY <1>1, <2>1, <2>3 DEF Follows
  <2> QED
    BY <1>0, <2>1, <2>2, <2>3, RepeatsKept
<1>7. CutoverCatchesUp'
  BY <1>1, <1>6, FullParts DEF CutoverCatchesUp
<1> QED
  BY <1>3, <1>5, <1>7

(* Preparations: what is prepared is what the call is to activate.             *)
LEMMA PreparedServes ==
  ASSUME CutoverFull, NEW c \in Calls, Prepare(c), UNCHANGED <<pointer, deployment>>
  PROVE  CallsServeTargets' /\ CutoverCatchesUp' /\ ActiveWasActivated'
<1>1. /\ Serving /\ writer = None /\ callPc[c] = "idle" /\ PrepareAs(Targets[c], "open")
      /\ items' = [items EXCEPT ![c] = {g \in Generations : prep'[g] # prep[g]}]
      /\ callPc' = [callPc EXCEPT ![c] = "prepared"]
      /\ UNCHANGED <<managerVars, writer, hostVars>>
  BY DEF Prepare
<1>2. UNCHANGED <<current, loaded, closed>>
  BY <1>1 DEF managerVars, hostVars
<1>3. Targets[c] \in SUBSET States /\ IsFiniteSet(Targets[c])
  BY HostAssumption
<1>4. PICK N \in SUBSET Generations : Fresh(Targets[c], N, "open")
  BY <1>1, <1>3, FullParts, PreparedIsFresh
<1>5. /\ items'[c] = N /\ \A d \in Calls \ {c} : items'[d] = items[d]
      /\ callPc'[c] = "prepared" /\ \A d \in Calls \ {c} : callPc'[d] = callPc[d]
  <2>1. {g \in Generations : prep'[g] # prep[g]} = N
    BY <1>4 DEF Fresh
  <2> QED
    BY <1>1, <2>1, FullParts DEF TypeOK
<1>6. \A d \in Calls : \A g \in items[d] : g \in Generations \ N
  <2>1. \A g \in N : prep[g] = "free"
    BY <1>4 DEF Fresh
  <2>2. \A d \in Calls : \A g \in items[d] : g \in Generations /\ prep[g] # "free"
    BY FullParts, ZenonT(60) DEF TypeOK, CallsOwnTheirs
  <2> QED
    BY <2>1, <2>2
<1>7. \A g \in Generations \ N : source'[g] = source[g] /\ noChange'[g] = noChange[g]
  BY <1>4 DEF Fresh
<1>8. CallsServeTargets'
  <2>1. ASSUME NEW d \in Calls \ {c}, callPc'[d] \in Underway
        PROVE  /\ {source'[g] : g \in items'[d]} = Targets[d]
               /\ \A g, h \in items'[d] : source'[g] = source'[h] => g = h
               /\ callPc'[d] # "prepared" => \A g \in items'[d] : ~noChange'[g]
    <3>1. callPc[d] = callPc'[d] /\ items'[d] = items[d]
      BY <1>5
    <3>2. \A g \in items[d] : source'[g] = source[g] /\ noChange'[g] = noChange[g]
      BY <1>6, <1>7
    <3>3. /\ {source[g] : g \in items[d]} = Targets[d]
          /\ \A g, h \in items[d] : source[g] = source[h] => g = h
          /\ callPc[d] # "prepared" => \A g \in items[d] : ~noChange[g]
      BY <2>1, <3>1, FullParts DEF CallsServeTargets, Underway
    <3> QED
      BY <3>1, <3>2, <3>3
  <2>2. /\ {source'[g] : g \in items'[c]} = Targets[c]
        /\ \A g, h \in items'[c] : source'[g] = source'[h] => g = h
    BY <1>4, <1>5 DEF Fresh
  <2> QED
    BY <1>5, <2>1, <2>2 DEF CallsServeTargets, Underway
<1>9. \A w \in Workspaces : current[w] # NoGeneration => source'[current[w]] = source[current[w]]
  BY <1>4, <1>7, FullParts DEF ManagersExact, TypeOK, Fresh
<1>0. Kept
  <2>1. items[c] = {}
    BY <1>1, FullParts DEF CallsOwnTheirs
  <2>2. \A e \in Calls : Published(e) => e # c
    BY <1>1 DEF Published
  <2>3. \A e \in Calls : \A g \in items[e] : prep'[g] = prep[g]
    BY <1>4, <1>6 DEF Fresh
  <2> QED
    BY <1>5, <2>1, <2>2, <2>3 DEF Kept, Published
<1>10. CutoverCatchesUp'
  <2>1. \A d \in Calls : writer # d
    BY <1>1, FullParts
  <2> QED
    BY <1>0, <1>1, <1>2, <1>9, <2>1, FullParts, CatchesUpFrame
<1>11. ActiveWasActivated'
  BY <1>0, <1>1, <1>5, FullParts, ActivatedFrame
<1> QED
  BY <1>8, <1>10, <1>11

LEMMA PrepareFailsServes ==
  ASSUME CutoverFull, NEW c \in Calls, PrepareFails(c), UNCHANGED pointer,
         \A d \in Deployments : deployment'[d] = "active" => deployment[d] = "active"
  PROVE  CallsServeTargets' /\ CutoverCatchesUp' /\ ActiveWasActivated'
<1>1. /\ writer = None /\ callPc[c] = "idle"
      /\ callPc' = [callPc EXCEPT ![c] = "done"]
      /\ UNCHANGED <<managerVars, items, writer, hostVars>>
  BY DEF PrepareFails
<1>2. UNCHANGED <<current, loaded, closed>>
  BY <1>1 DEF managerVars, hostVars
<1>3. PICK T \in SUBSET Targets[c] : PrepareAs(T, "closed")
  BY DEF PrepareFails
<1>4. T \in SUBSET States /\ IsFiniteSet(T)
  BY HostAssumption, FS_Subset
<1>5. PICK N \in SUBSET Generations : Fresh(T, N, "closed")
  BY <1>3, <1>4, FullParts, PreparedIsFresh
<1>6. \A g \in Generations : prep[g] # "free" => source'[g] = source[g] /\ noChange'[g] = noChange[g]
  BY <1>5 DEF Fresh
<1>7. callPc'[c] = "done" /\ \A d \in Calls \ {c} : callPc'[d] = callPc[d]
  BY <1>1, FullParts DEF TypeOK
<1>8. \A d \in Calls : callPc[d] \in Underway => \A g \in items[d] : g \in Generations /\ prep[g] # "free"
  BY FullParts DEF TypeOK, CallsOwnTheirs, Underway
<1>9. CallsServeTargets'
  BY <1>1, <1>6, <1>7, <1>8, FullParts, TargetsFrame DEF Underway
<1>10. \A w \in Workspaces : current[w] # NoGeneration => source'[current[w]] = source[current[w]]
  BY <1>6, FullParts DEF ManagersExact, TypeOK
<1>0. Kept
  <2>1. ASSUME NEW e \in Calls, Published(e)
        PROVE  e # c /\ \A g \in items[e] : prep'[g] = "published"
    <3>1. e # c
      BY <1>1, <2>1 DEF Published
    <3>2. \A g \in items[e] : g \in Generations /\ prep[g] = "published"
      BY <2>1, FullParts DEF Published, TypeOK
    <3>3. \A g \in Generations : prep[g] = "published" => prep'[g] = "published"
      BY <1>5 DEF Fresh
    <3> QED
      BY <3>1, <3>2, <3>3
  <2> QED
    BY <1>1, <1>7, <2>1 DEF Kept, Published
<1>11. CutoverCatchesUp'
  <2>1. \A d \in Calls : writer # d
    BY <1>1, FullParts
  <2> QED
    BY <1>0, <1>1, <1>2, <1>10, <2>1, FullParts, CatchesUpFrame
<1>12. ActiveWasActivated'
  BY <1>0, <1>1, <1>7, FullParts, ActivatedFrame
<1> QED
  BY <1>9, <1>11, <1>12

(* Reload gives a manager the runtime of its pointer. *)
LEMMA ReloadServes ==
  ASSUME CutoverFull, NEW w \in Workspaces, Reload(w, pointer[w]), UNCHANGED <<pointer, deployment>>
  PROVE  CallsServeTargets' /\ CutoverCatchesUp' /\ ActiveWasActivated'
<1>1. /\ ~closed /\ w \notin loaded /\ loaded' = loaded \union {w}
      /\ UNCHANGED <<callPc, items, writer, closed>>
  BY DEF Reload, callVars
<1>2. \A c \in Calls : callPc[c] = "idle"
  BY <1>1, FullParts DEF CallsOwnTheirs
<1>3. CallsServeTargets' /\ ActiveWasActivated'
  <2>1. \A e \in Calls : ~Published(e) /\ callPc[e] # "publishing"
    BY <1>2 DEF Published
  <2>2. \A d \in Deployments : deployment[d] # "active"
    BY <2>1, FullParts DEF ActiveWasActivated
  <2> QED
    BY <1>1, <1>2, <2>2 DEF CallsServeTargets, ActiveWasActivated
<1>4. \A c \in Calls : writer # c
  BY <1>2, FullParts
<1>5. current[w] = NoGeneration
  BY <1>1, FullParts DEF ManagersExact
<1>6. \A v \in loaded : Follows(v)
  <2>1. \A v \in loaded : ~Strayed(v)
    BY <1>2 DEF Strayed, Repeats, Published
  <2> QED
    BY <1>1, <1>4, <2>1, FullParts DEF CutoverCatchesUp
<1>7. \A v \in loaded' : Follows(v)'
  <2>1. CASE pointer[w] = None
    <3>1. UNCHANGED <<source, current>>
      BY <2>1 DEF Reload, genVars
    <3> QED
      BY <1>1, <1>5, <1>6, <2>1, <3>1 DEF Follows
  <2>2. CASE pointer[w] # None
    <3>1. PICK s \in States : s = pointer[w]
      BY <2>2, FullParts DEF DurableTypes
    <3>2. PrepareAs({s}, "published") /\ current' = [current EXCEPT ![w] = Assign({s})[s]]
      BY <2>2, <3>1 DEF Reload
    <3>3. {s} \in SUBSET States /\ IsFiniteSet({s})
      BY FS_Singleton
    <3>4. PICK N \in SUBSET Generations : Fresh({s}, N, "published")
      BY <3>2, <3>3, FullParts, PreparedIsFresh
    <3>5. Assign({s})[s] \in Generations /\ source'[Assign({s})[s]] = s
      BY <3>4 DEF Fresh
    <3>6. current'[w] = Assign({s})[s] /\ \A v \in Workspaces \ {w} : current'[v] = current[v]
      BY <3>2, FullParts DEF TypeOK
    <3>7. current'[w] # NoGeneration /\ source'[current'[w]] = pointer'[w]
      BY <3>1, <3>5, <3>6 DEF Generations, NoGeneration
    <3>8. \A v \in Workspaces : current[v] # NoGeneration => source'[current[v]] = source[current[v]]
      BY <3>4, FullParts DEF ManagersExact, TypeOK, Fresh
    <3>9. \A v \in loaded : v \in Workspaces /\ v # w
      BY <1>1, FullParts DEF TypeOK
    <3>10. \A v \in loaded : Follows(v)'
      BY <1>6, <3>6, <3>8, <3>9 DEF Follows
    <3> QED
      BY <1>1, <2>2, <3>7, <3>10 DEF Follows
  <2> QED
    BY <2>1, <2>2
<1> QED
  BY <1>1, <1>3, <1>4, <1>7 DEF CutoverCatchesUp

(* No other step makes a deployment active. *)
LEMMA FailsActivateNothing ==
  ASSUME DurableTypes, NEW d, Fail(d)
  PROVE  \A e \in Deployments : deployment'[e] = "active" => deployment[e] = "active"
BY DEF DurableTypes, Fail

LEMMA DeploySteps ==
  ASSUME CutoverFull, NEW c \in Calls, DeployPrepare(c) \/ DeployVerify(c) \/ DeployActivate(c)
  PROVE  CallsServeTargets' /\ CutoverCatchesUp' /\ ActiveWasActivated'
<1>1. DeploymentOf[c] # None /\ DurableTypes
  BY FullParts DEF DeployPrepare, DeployVerify, DeployActivate
<1>2. c \notin Refreshes
  BY <1>1 DEF Refreshes
<1>3. CASE DeployPrepare(c)
  <2>1. CASE Prepare(c) /\ UNCHANGED deployment
    BY <1>2, <1>3, <2>1, PreparedServes DEF DeployPrepare
  <2>2. CASE PrepareFails(c) /\ Fail(DeploymentOf[c])
    BY <1>1, <1>3, <2>2, PrepareFailsServes, FailsActivateNothing DEF DeployPrepare
  <2> QED
    BY <1>3, <2>1, <2>2 DEF DeployPrepare
<1>4. CASE DeployVerify(c)
  <2>1. CASE Seal(c) /\ (\A g \in items[c] : ~noChange[g]) /\ UNCHANGED deployment
    BY <1>4, <2>1, SealServes DEF DeployVerify
  <2>2. CASE Discard(c) /\ Fail(DeploymentOf[c])
    BY <1>1, <1>4, <2>2, DiscardServes, FailsActivateNothing DEF DeployVerify
  <2> QED
    BY <1>4, <2>1, <2>2 DEF DeployVerify
<1>5. CASE DeployActivate(c)
  <2>1. CASE ActivateCommitted(c) /\ DeployTransaction(DeploymentOf[c])
    <3>1. Activated(Targets[c])
      BY <1>1, <2>1, StatesOfCall DEF DeployTransaction
    <3>2. \A d \in Deployments : deployment'[d] = "active" => deployment[d] = "active" \/ d = DeploymentOf[c]
      BY <2>1 DEF DeployTransaction
    <3> QED
      BY <2>1, <3>1, <3>2, CommittedServes
  <2>2. CASE ActivateCommitted(c) /\ DeployRepeated(DeploymentOf[c])
    <3>1. deployment[DeploymentOf[c]] = "active" /\ UNCHANGED <<pointer, deployment>>
      BY <2>2 DEF DeployRepeated
    <3>2. DeploymentOf[c] \in Deployments \ {None}
      BY <1>1, CutoverAssumption
    <3> QED
      BY <2>2, <3>1, <3>2, RepeatedServes
  <2>3. CASE ActivateRefused(c) /\ UNCHANGED <<pointer, status, deployment>>
    BY <2>3, RefusedServes
  <2> QED
    BY <1>5, <2>1, <2>2, <2>3 DEF DeployActivate
<1> QED
  BY <1>3, <1>4, <1>5

LEMMA RefreshSteps ==
  ASSUME CutoverFull, NEW c \in Calls,
         QueueRefresh(c) \/ SubmissionFails(c) \/ RefreshPrepare(c) \/ RefreshActivate(c)
  PROVE  CallsServeTargets' /\ CutoverCatchesUp' /\ ActiveWasActivated'
<1>1. c \in Refreshes /\ UNCHANGED deployment
  BY DEF QueueRefresh, SubmissionFails, RefreshPrepare, RefreshActivate
<1>2. CASE QueueRefresh(c) \/ SubmissionFails(c)
  <2>1. UNCHANGED <<vars, pointer>>
    BY <1>2 DEF QueueRefresh, SubmissionFails
  <2>2. UNCHANGED <<source, noChange, prep, callPc, items, writer, loaded, closed, current>>
    BY <2>1 DEF vars, genVars, callVars, hostVars, managerVars
  <2> QED
    BY <1>1, <2>1, <2>2, QuietStep
<1>3. CASE RefreshPrepare(c)
  <2>1. UNCHANGED pointer
    BY <1>3 DEF RefreshPrepare
  <2>2. CASE Prepare(c)
    BY <1>1, <2>1, <2>2, PreparedServes
  <2>3. CASE PrepareFails(c)
    BY <1>1, <2>1, <2>3, PrepareFailsServes
  <2>4. CASE Seal(c) /\ \A g \in items[c] : ~noChange[g]
    BY <1>1, <2>1, <2>4, SealServes
  <2>5. CASE Discard(c)
    BY <1>1, <2>1, <2>5, DiscardServes
  <2> QED
    BY <1>3, <2>2, <2>3, <2>4, <2>5 DEF RefreshPrepare
<1>4. CASE RefreshActivate(c)
  <2>1. CASE ActivateCommitted(c) /\ Activated(Targets[c])
    BY <1>1, <2>1, CommittedServes
  <2>2. CASE ActivateRefused(c) /\ UNCHANGED pointer
    BY <1>1, <2>2, RefusedServes
  <2> QED
    BY <1>4, <2>1, <2>2 DEF RefreshActivate
<1> QED
  BY <1>2, <1>3, <1>4

LEMMA FullKeeps ==
  ASSUME CutoverFull, [CutoverNext]_cutoverVars
  PROVE  CutoverFull'
<1>1. CutoverInv'
  BY CutoverKeeps DEF CutoverFull
<1> SUFFICES CallsServeTargets' /\ CutoverCatchesUp' /\ ActiveWasActivated'
  BY <1>1 DEF CutoverFull
<1>2. CASE Background /\ UNCHANGED durableVars
  <2>1. UNCHANGED <<pointer, deployment>>
    BY <1>2 DEF durableVars
  <2>2. CASE \E c \in Calls : Unlock(c) \/ Discard(c)
    BY <2>1, <2>2, UnlockServes, DiscardServes
  <2>3. CASE \E c \in Calls, g \in Generations : Publish(c, g)
    BY <2>1, <2>3, PublishServes
  <2>4. CASE /\ UNCHANGED <<source, noChange, prep, callPc, items, writer, loaded>>
             /\ ~closed' => ~closed
             /\ closed' \/ UNCHANGED current
    BY <2>1, <2>4, QuietStep
  <2> QED
    BY <1>2, <2>2, <2>3, <2>4, BackgroundSteps, FullParts
<1>3. CASE \E w \in Workspaces : Reload(w, pointer[w]) /\ UNCHANGED durableVars
  BY <1>3, ReloadServes DEF durableVars
<1>4. ASSUME NEW d \in Deployments, CreateDeployment(d) \/ CancelDeployment(d)
      PROVE  CallsServeTargets' /\ CutoverCatchesUp' /\ ActiveWasActivated'
  <2>1. UNCHANGED <<vars, pointer>> /\ \A e \in Deployments : deployment'[e] = "active" => deployment[e] = "active"
    BY <1>4, FullParts DEF CreateDeployment, CancelDeployment, DurableTypes
  <2>2. UNCHANGED <<source, noChange, prep, callPc, items, writer, loaded, closed, current>>
    BY <2>1 DEF vars, genVars, callVars, hostVars, managerVars
  <2> QED
    BY <2>1, <2>2, QuietStep
<1>5. CASE \E c \in Calls : DeployPrepare(c) \/ DeployVerify(c) \/ DeployActivate(c)
  BY <1>5, DeploySteps
<1>6. CASE \E c \in Calls : QueueRefresh(c) \/ SubmissionFails(c) \/ RefreshPrepare(c) \/ RefreshActivate(c)
  BY <1>6, RefreshSteps
<1>7. CASE UNCHANGED cutoverVars
  <2>1. UNCHANGED <<source, noChange, prep, callPc, items, writer, loaded, closed, current, pointer, deployment>>
    BY <1>7 DEF cutoverVars, durableVars, vars, genVars, callVars, hostVars, managerVars
  <2> QED
    BY <2>1, QuietStep
<1> QED
  BY <1>2, <1>3, <1>4, <1>5, <1>6, <1>7 DEF CutoverNext

LEMMA InitFull == CutoverInit => CutoverFull
<1> SUFFICES ASSUME CutoverInit PROVE CutoverFull
  OBVIOUS
<1>1. CutoverInv /\ Init
  BY InitCutover
<1>2. CallsServeTargets /\ CutoverCatchesUp
  BY <1>1, HostAssumption DEF Init, CallsServeTargets, CutoverCatchesUp
<1>3. ActiveWasActivated
  BY DEF CutoverInit, ActiveWasActivated
<1> QED
  BY <1>1, <1>2, <1>3 DEF CutoverFull

(* Service.Activate, Publish and the Registry's cutover: the pointers and the  *)
(* statuses agree but for failed submissions of refreshes, calls publish what  *)
(* they prepared, and the managers catch up with the pointers but for what     *)
(* repeated activations publish.                                               *)
THEOREM CutoverStaysConsistent == CutoverSpec => []CutoverConsistent
<1>1. CutoverInit => CutoverFull
  BY InitFull
<1>2. CutoverFull /\ [CutoverNext]_cutoverVars => CutoverFull'
  BY FullKeeps
<1>3. CutoverFull => CutoverConsistent
  BY HostParts DEF CutoverFull, CutoverInv, CutoverConsistent, CutoverTypeOK, DurableTypes
<1> QED
  BY <1>1, <1>2, <1>3, PTL DEF CutoverSpec

(* When no cutover is under way, what a manager serves is what                 *)
(* workspace_active_serving_states names or what a repeated activation         *)
(* published, for any competing deployments and refreshes.                     *)
THEOREM ManagersServePointers == CutoverSpec => []MemoryServesPointer
<1>1. CutoverInit => CutoverFull
  BY InitFull
<1>2. CutoverFull /\ [CutoverNext]_cutoverVars => CutoverFull'
  BY FullKeeps
<1>3. CutoverFull => MemoryServesPointer
  BY QuietFollows DEF MemoryServesPointer, Serving
<1> QED
  BY <1>1, <1>2, <1>3, PTL DEF CutoverSpec

(* Registry.ActivatePreparedSet switches its workspaces together: when a       *)
(* reader acquires a runtime, no workspace serves what its pointer no longer   *)
(* names, but for what a repeated activation published.                        *)
THEOREM RolloutsAreNotMixed == CutoverSpec => NoMixedRollout
<1> DEFINE Acquired == \E r \in Readers : holding'[r] # holding[r] /\ holding'[r] # NoGeneration
           Unmixed == Acquired => \A w \in Workspaces :
                                    current[w] # NoGeneration => source[current[w]] = pointer[w] \/ Strayed(w)
<1>1. CutoverInit => CutoverFull
  BY InitFull
<1>2. CutoverFull /\ [CutoverNext]_cutoverVars => CutoverFull'
  BY FullKeeps
<1>3. ASSUME CutoverFull, CutoverNext PROVE Unmixed
  <2> SUFFICES ASSUME Acquired PROVE Serving /\ writer = None
    BY <1>3, QuietFollows DEF Serving, Follows
  <2>1. CASE UNCHANGED holding
    BY <2>1
  <2>2. CASE Background
    <3>1. ASSUME \E c \in Calls : Unlock(c) \/ Discard(c) PROVE UNCHANGED holding
      BY <3>1 DEF Unlock, Discard
    <3>2. ASSUME \E c \in Calls, g \in Generations : Publish(c, g) PROVE UNCHANGED holding
      BY <3>2 DEF Publish
    <3> QED
      BY <1>3, <2>1, <2>2, <3>1, <3>2, BackgroundSteps, FullParts
  <2>3. ASSUME NEW w \in Workspaces, NEW s, Reload(w, s) PROVE UNCHANGED holding
    BY <2>3 DEF Reload
  <2>4. ASSUME NEW c \in Calls, Prepare(c) \/ PrepareFails(c) \/ Seal(c) \/ Discard(c)
                                  \/ ActivateCommitted(c) \/ ActivateRefused(c)
        PROVE  UNCHANGED holding
    BY <2>4 DEF Prepare, PrepareFails, Seal, Discard, ActivateCommitted, ActivateRefused
  <2>5. ASSUME UNCHANGED vars PROVE UNCHANGED holding
    BY <2>5 DEF vars
  <2> QED
    BY <1>3, <2>1, <2>2, <2>3, <2>4, <2>5 DEF CutoverNext, CreateDeployment, CancelDeployment,
       DeployPrepare, DeployVerify, DeployActivate, QueueRefresh, SubmissionFails, RefreshPrepare,
       RefreshActivate
<1>4. CutoverFull /\ [CutoverNext]_cutoverVars =>
        [\A r \in Readers :
           holding'[r] # holding[r] /\ holding'[r] # NoGeneration =>
             \A w \in Workspaces :
               current[w] # NoGeneration => source[current[w]] = pointer[w] \/ Strayed(w)]_cutoverVars
  BY <1>3
<1> QED
  BY <1>1, <1>2, <1>4, PTL DEF CutoverSpec, NoMixedRollout
=============================================================================
