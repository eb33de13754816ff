--------------------------- MODULE WorkloadProofs ---------------------------
(***************************************************************************)
(* Machine-checked facts about the workload admission controller, for any  *)
(* callers, classes, workspaces and limits.                                *)
(***************************************************************************)
EXTENDS WorkloadFairness, SequenceTheorems, FiniteSetTheorems, WellFoundedInduction, TLAPS

-----------------------------------------------------------------------------
(* Queues: sequences without repetition                                    *)

LEMMA SeqFacts ==
  ASSUME NEW S, NEW q \in Seq(S)
  PROVE  /\ Len(q) \in Nat /\ DOMAIN q = 1..Len(q)
         /\ \A i \in 1..Len(q) : q[i] \in S
         /\ ToSet(q) \subseteq S
BY DEF ToSet

LEMMA AppendElements ==
  ASSUME NEW S, NEW q \in Seq(S), NEW x \in S
  PROVE  /\ Append(q, x) \in Seq(S)
         /\ ToSet(Append(q, x)) = ToSet(q) \cup {x}
         /\ IsInjective(q) /\ x \notin ToSet(q) => IsInjective(Append(q, x))
<1>1. /\ Append(q, x) \in Seq(S) /\ Len(Append(q, x)) = Len(q) + 1
      /\ \A i \in 1..Len(q) : Append(q, x)[i] = q[i]
      /\ Append(q, x)[Len(q) + 1] = x
  BY AppendProperties
<1>2. DOMAIN q = 1..Len(q) /\ DOMAIN Append(q, x) = 1..(Len(q) + 1) /\ Len(q) \in Nat
  BY <1>1
<1>3. \A i \in 1..(Len(q) + 1) : i \in 1..Len(q) \/ i = Len(q) + 1
  BY <1>2
<1>4. ToSet(Append(q, x)) = ToSet(q) \cup {x}
  BY <1>1, <1>2, <1>3 DEF ToSet
<1>5. ASSUME IsInjective(q), x \notin ToSet(q) PROVE IsInjective(Append(q, x))
  <2>1. \A i \in 1..Len(q) : q[i] # x
    BY <1>2, <1>5 DEF ToSet
  <2> QED
    BY <1>1, <1>2, <1>3, <1>5, <2>1 DEF IsInjective
<1> QED
  BY <1>1, <1>4, <1>5

(* The elements behind the one that is removed move up. *)
LEMMA RemoveShifts ==
  ASSUME NEW S, NEW q \in Seq(S), NEW k \in DOMAIN q
  PROVE  /\ RemoveAt(q, k) \in Seq(S) /\ Len(RemoveAt(q, k)) = Len(q) - 1
         /\ \A i \in 1..(Len(q) - 1) : RemoveAt(q, k)[i] = IF i < k THEN q[i] ELSE q[i + 1]
<1> DEFINE front == SubSeq(q, 1, k - 1)
           back == SubSeq(q, k + 1, Len(q))
<1>0. /\ Len(q) \in Nat /\ k \in 1..Len(q) /\ DOMAIN q = 1..Len(q)
      /\ k \in Int /\ Len(q) \in Int /\ k - 1 \in Int /\ k + 1 \in Int
  OBVIOUS
<1>1. /\ front \in Seq(S) /\ Len(front) = k - 1
      /\ \A i \in 1..(k - 1) : front[i] = q[i]
  <2>1. \A i \in 1..(k - 1) : q[i] \in S
    BY <1>0
  <2>2. /\ SubSeq(q, 1, k - 1) \in Seq(S)
        /\ Len(SubSeq(q, 1, k - 1)) = IF 1 <= k - 1 THEN (k - 1) - 1 + 1 ELSE 0
        /\ \A i \in 1..((k - 1) - 1 + 1) : SubSeq(q, 1, k - 1)[i] = q[1 + i - 1]
    BY <1>0, <2>1, SubSeqProperties, SMTT(60)
  <2>3. (k - 1) - 1 + 1 = k - 1 /\ \A i \in 1..(k - 1) : 1 + i - 1 = i
    BY <1>0
  <2> QED
    BY <1>0, <2>2, <2>3, SMTT(60)
<1>2. /\ back \in Seq(S) /\ Len(back) = Len(q) - k
      /\ \A i \in 1..(Len(q) - k) : back[i] = q[k + i]
  <2>1. \A i \in (k + 1)..Len(q) : q[i] \in S
    BY <1>0
  <2>2. /\ SubSeq(q, k + 1, Len(q)) \in Seq(S)
        /\ Len(SubSeq(q, k + 1, Len(q))) = IF k + 1 <= Len(q) THEN Len(q) - (k + 1) + 1 ELSE 0
        /\ \A i \in 1..(Len(q) - (k + 1) + 1) : SubSeq(q, k + 1, Len(q))[i] = q[(k + 1) + i - 1]
    BY <1>0, <2>1, SubSeqProperties, SMTT(60)
  <2>3. Len(q) - (k + 1) + 1 = Len(q) - k /\ \A i \in 1..(Len(q) - k) : (k + 1) + i - 1 = k + i
    BY <1>0
  <2> QED
    BY <1>0, <2>2, <2>3, SMTT(60)
<1>3. RemoveAt(q, k) = front \o back
  BY DEF RemoveAt
<1> HIDE DEF front, back
<1>4. /\ RemoveAt(q, k) \in Seq(S) /\ Len(RemoveAt(q, k)) = Len(q) - 1
      /\ \A i \in 1..(Len(q) - 1) : RemoveAt(q, k)[i] = IF i < k THEN q[i] ELSE q[i + 1]
  <2>1. /\ front \o back \in Seq(S)
        /\ Len(front \o back) = Len(front) + Len(back)
        /\ \A i \in 1..(Len(front) + Len(back)) :
             (front \o back)[i] = IF i <= Len(front) THEN front[i] ELSE back[i - Len(front)]
    BY <1>1, <1>2, ConcatProperties, SMTT(60)
  <2>2. ASSUME NEW i \in 1..(Len(q) - 1)
        PROVE  (front \o back)[i] = IF i < k THEN q[i] ELSE q[i + 1]
    <3>1. i \in 1..(Len(front) + Len(back)) /\ i \in Nat
      BY <1>0, <1>1, <1>2, SMTT(60)
    <3>2. CASE i < k
      BY <1>0, <1>1, <2>1, <3>1, <3>2, SMTT(60)
    <3>3. CASE ~(i < k)
      <4>1. i - (k - 1) \in 1..(Len(q) - k) /\ k + (i - (k - 1)) = i + 1
        BY <1>0, <3>3
      <4>2. (front \o back)[i] = back[i - (k - 1)]
        BY <1>0, <1>1, <2>1, <3>1, <3>3, SMTT(60)
      <4> QED
        BY <1>2, <3>3, <4>1, <4>2, SMTT(60)
    <3> QED
      BY <3>2, <3>3
  <2> QED
    BY <1>0, <1>1, <1>2, <1>3, <2>1, <2>2, SMTT(60)
<1> QED
  BY <1>4

LEMMA RemoveElements ==
  ASSUME NEW S, NEW q \in Seq(S), NEW k \in DOMAIN q, IsInjective(q)
  PROVE  /\ RemoveAt(q, k) \in Seq(S) /\ Len(RemoveAt(q, k)) = Len(q) - 1
         /\ ToSet(RemoveAt(q, k)) = ToSet(q) \ {q[k]}
         /\ IsInjective(RemoveAt(q, k))
<1>0. Len(q) \in Nat /\ k \in 1..Len(q) /\ DOMAIN q = 1..Len(q)
  OBVIOUS
<1>4. /\ RemoveAt(q, k) \in Seq(S) /\ Len(RemoveAt(q, k)) = Len(q) - 1
      /\ \A i \in 1..(Len(q) - 1) : RemoveAt(q, k)[i] = IF i < k THEN q[i] ELSE q[i + 1]
  BY RemoveShifts
<1>5. DOMAIN RemoveAt(q, k) = 1..(Len(q) - 1)
  BY <1>4
<1>6. ToSet(RemoveAt(q, k)) \subseteq ToSet(q) \ {q[k]}
  <2>1. ASSUME NEW i \in 1..(Len(q) - 1)
        PROVE  RemoveAt(q, k)[i] \in ToSet(q) /\ RemoveAt(q, k)[i] # q[k]
    <3>1. CASE i < k
      <4>1. i \in 1..Len(q) /\ i # k
        BY <1>0, <3>1
      <4> QED
        BY <1>0, <1>4, <3>1, <4>1 DEF ToSet, IsInjective
    <3>2. CASE ~(i < k)
      <4>1. i + 1 \in 1..Len(q) /\ i + 1 # k
        BY <1>0, <3>2
      <4> QED
        BY <1>0, <1>4, <3>2, <4>1 DEF ToSet, IsInjective
    <3> QED
      BY <3>1, <3>2
  <2> QED
    BY <1>5, <2>1 DEF ToSet
<1>7. ToSet(q) \ {q[k]} \subseteq ToSet(RemoveAt(q, k))
  <2>1. ASSUME NEW i \in 1..Len(q), q[i] # q[k] PROVE q[i] \in ToSet(RemoveAt(q, k))
    <3>1. CASE i < k
      BY <1>0, <1>4, <1>5, <3>1, SMTT(60) DEF ToSet
    <3>2. CASE i > k
      <4>1. i - 1 \in 1..(Len(q) - 1) /\ ~(i - 1 < k) /\ (i - 1) + 1 = i
        BY <1>0, <3>2
      <4> QED
        BY <1>4, <1>5, <4>1 DEF ToSet
    <3> QED
      BY <1>0, <2>1, <3>1, <3>2
  <2> QED
    BY <1>0, <2>1 DEF ToSet
<1>8. IsInjective(RemoveAt(q, k))
  <2> DEFINE at(i) == IF i < k THEN i ELSE i + 1
  <2>1. ASSUME NEW i \in 1..(Len(q) - 1)
        PROVE  RemoveAt(q, k)[i] = q[at(i)] /\ at(i) \in DOMAIN q
    BY <1>0, <1>4
  <2>2. ASSUME NEW i \in 1..(Len(q) - 1), NEW j \in 1..(Len(q) - 1), at(i) = at(j)
        PROVE  i = j
    BY <1>0, <2>2
  <2> HIDE DEF at
  <2>3. ASSUME NEW i \in 1..(Len(q) - 1), NEW j \in 1..(Len(q) - 1),
               RemoveAt(q, k)[i] = RemoveAt(q, k)[j]
        PROVE  i = j
    <3>1. q[at(i)] = q[at(j)] /\ at(i) \in DOMAIN q /\ at(j) \in DOMAIN q
      BY <2>1, <2>3
    <3>2. at(i) = at(j)
      BY <3>1 DEF IsInjective
    <3> QED
      BY <2>2, <3>2
  <2> QED
    BY <1>5, <2>3 DEF IsInjective
<1> QED
  BY <1>4, <1>6, <1>7, <1>8
(* The first position of an element that occurs once is its only position, *)
(* as SelectInSeq computes it.                                              *)
LEMMA FirstPosition ==
  ASSUME NEW S, NEW q \in Seq(S), IsInjective(q), NEW k \in DOMAIN q
  PROVE  {i \in 1..Len(q) : q[i] = q[k]} = {k} /\ Min({k}) = k
<1>1. {i \in 1..Len(q) : q[i] = q[k]} = {k}
  BY DEF IsInjective
<1>2. k \in Int
  OBVIOUS
<1>3. Min({k}) = k
  BY <1>2 DEF Min
<1> QED
  BY <1>1, <1>3

(* RemoveFirst takes out an element that occurs once. *)
LEMMA RemoveFirstElement ==
  ASSUME NEW S, NEW q \in Seq(S), IsInjective(q), NEW x \in ToSet(q)
  PROVE  /\ RemoveFirst(q, x) \in Seq(S)
         /\ Len(RemoveFirst(q, x)) = Len(q) - 1
         /\ ToSet(RemoveFirst(q, x)) = ToSet(q) \ {x}
         /\ IsInjective(RemoveFirst(q, x))
<1>1. PICK k \in DOMAIN q : q[k] = x
  BY DEF ToSet
<1>2. {i \in 1..Len(q) : q[i] = x} = {k} /\ Min({k}) = k
  BY <1>1, FirstPosition
<1>3. SelectInSeq(q, LAMBDA v : v = x) = k
  BY <1>2 DEF SelectInSeq
<1>4. RemoveFirst(q, x) = RemoveAt(q, k)
  BY <1>1, <1>3 DEF RemoveFirst
<1>5. /\ RemoveAt(q, k) \in Seq(S) /\ Len(RemoveAt(q, k)) = Len(q) - 1
      /\ ToSet(RemoveAt(q, k)) = ToSet(q) \ {q[k]}
      /\ IsInjective(RemoveAt(q, k))
  BY RemoveElements
<1> QED
  BY <1>1, <1>4, <1>5

(* A queue gives up its head. *)
LEMMA TailElements ==
  ASSUME NEW S, NEW q \in Seq(S), q # <<>>, IsInjective(q)
  PROVE  /\ Head(q) \in ToSet(q)
         /\ Tail(q) \in Seq(S)
         /\ Len(Tail(q)) = Len(q) - 1
         /\ ToSet(Tail(q)) = ToSet(q) \ {Head(q)}
         /\ IsInjective(Tail(q))
<1>1. /\ Len(q) \in Nat /\ Len(q) > 0 /\ DOMAIN q = 1..Len(q)
      /\ Head(q) = q[1]
      /\ Tail(q) \in Seq(S) /\ Len(Tail(q)) = Len(q) - 1
      /\ \A i \in 1..Len(Tail(q)) : Tail(q)[i] = q[i + 1]
  BY HeadTailProperties, EmptySeq
<1>2. DOMAIN Tail(q) = 1..(Len(q) - 1)
  BY <1>1
<1>3. \A i \in 1..(Len(q) - 1) : Tail(q)[i] = q[i + 1] /\ i + 1 \in 1..Len(q) /\ i + 1 # 1
  BY <1>1
<1>4. \A i \in 1..Len(q) : i # 1 => i - 1 \in 1..(Len(q) - 1) /\ Tail(q)[i - 1] = q[i]
  BY <1>1
<1>5. ToSet(Tail(q)) \subseteq ToSet(q) \ {q[1]}
  BY <1>1, <1>2, <1>3 DEF ToSet, IsInjective
<1>6. ToSet(q) \ {q[1]} \subseteq ToSet(Tail(q))
  <2>1. ASSUME NEW i \in 1..Len(q), q[i] # q[1] PROVE q[i] \in ToSet(Tail(q))
    <3>1. i - 1 \in DOMAIN Tail(q) /\ Tail(q)[i - 1] = q[i]
      BY <1>2, <1>4, <2>1
    <3> QED
      BY <3>1 DEF ToSet
  <2> QED
    BY <1>1, <2>1 DEF ToSet
<1>7. IsInjective(Tail(q))
  <2> SUFFICES ASSUME NEW i \in 1..(Len(q) - 1), NEW j \in 1..(Len(q) - 1),
                      Tail(q)[i] = Tail(q)[j]
               PROVE  i = j
    BY <1>2 DEF IsInjective
  <2>1. q[i + 1] = q[j + 1] /\ i + 1 \in 1..Len(q) /\ j + 1 \in 1..Len(q)
    BY <1>3
  <2>2. i + 1 = j + 1
    BY <1>1, <2>1 DEF IsInjective
  <2> QED
    BY <2>2
<1>8. Head(q) \in ToSet(q)
  BY <1>1 DEF ToSet
<1> QED
  BY <1>1, <1>5, <1>6, <1>7, <1>8

(* A sequence is empty exactly when it has no element, and a sequence of    *)
(* one element has no other.                                                *)
LEMMA EmptyQueue ==
  ASSUME NEW S, NEW q \in Seq(S)
  PROVE  /\ Len(q) \in Nat /\ (q = <<>> <=> Len(q) = 0) /\ (q = <<>> <=> ToSet(q) = {})
         /\ Len(q) > 0 => \A i \in 0..(Len(q) - 1) : q[i + 1] \in ToSet(q)
<1>1. Len(q) \in Nat /\ DOMAIN q = 1..Len(q) /\ (q = <<>> <=> Len(q) = 0)
  BY EmptySeq
<1>2. q = <<>> => ToSet(q) = {}
  BY <1>1 DEF ToSet
<1>3. q # <<>> => q[1] \in ToSet(q)
  BY <1>1 DEF ToSet
<1>4. \A i \in 0..(Len(q) - 1) : i + 1 \in 1..Len(q)
  BY <1>1
<1> QED
  BY <1>1, <1>2, <1>3, <1>4 DEF ToSet

-----------------------------------------------------------------------------
(* Sums over the classes                                                   *)

(* The sum of f over classOrder, as queueLimitReasonLocked adds it up. *)
Sums(f) == CHOOSE sum : sum = [i \in 0 .. Len(ClassOrder) |->
                                 IF i = 0 THEN 0 ELSE sum[i - 1] + f[ClassOrder[i]]]
Total(f) == Sums(f)[Len(ClassOrder)]

LEMMA TotalQueuedIsTotal == TotalQueued = Total(queued)
BY DEF TotalQueued, Total, Sums

(* A nonempty set of naturals has a least element. *)
LEMMA LeastExists ==
  ASSUME NEW S \in SUBSET Nat, S # {}
  PROVE  \E m \in S : \A x \in S : m <= x
<1> DEFINE R == OpToRel(<, Nat)
<1>1. IsWellFoundedOn(R, Nat)
  BY NatLessThanWellFounded
<1>2. \E m \in S : \A x \in S : <<x, m>> \notin R
  <2> HIDE DEF R
  <2> QED
    BY <1>1, WFMin
<1>3. \A x, m \in Nat : <<x, m>> \notin R => m <= x
  BY DEF OpToRel
<1> QED
  BY <1>2, <1>3

(* The partial sums exist. *)
LEMMA SumsExist ==
  ASSUME NEW f \in [Classes -> Int]
  PROVE  /\ Sums(f) = [i \in 0 .. Len(ClassOrder) |->
                         IF i = 0 THEN 0 ELSE Sums(f)[i - 1] + f[ClassOrder[i]]]
         /\ Sums(f) \in [0 .. Len(ClassOrder) -> Int]
<1> DEFINE n == Len(ClassOrder)
           g == [i \in 1..n |-> f[ClassOrder[i]]]
           Partial(k, s) == /\ s \in [0..k -> Int] /\ s[0] = 0
                            /\ \A i \in 1..k : s[i] = s[i - 1] + g[i]
           Bad == {k \in 0..n : ~\E s : Partial(k, s)}
<1>1. n \in Nat /\ \A i \in 1..n : ClassOrder[i] \in Classes
  BY ConfigAssumption DEF ValidConfig
<1>2. g \in [1..n -> Int]
  BY <1>1
<1> HIDE DEF n, g
<1>3. Bad = {}
  <2> SUFFICES ASSUME Bad # {} PROVE FALSE
    OBVIOUS
  <2>1. Bad \in SUBSET Nat
    BY <1>1
  <2>2. PICK m \in Bad : \A x \in Bad : m <= x
    <3> HIDE DEF Bad
    <3> QED
      BY <2>1, LeastExists
  <2>3. m # 0
    <3>1. Partial(0, [i \in 0..0 |-> 0])
      OBVIOUS
    <3> QED
      BY <3>1, <2>2
  <2>4. m \in 1..n /\ m - 1 \in 0..n /\ m - 1 \notin Bad
    <3>1. m \in 1..n /\ m - 1 \in 0..n /\ ~(m <= m - 1)
      BY <1>1, <2>2, <2>3
    <3> QED
      BY <3>1, <2>2
  <2>5. PICK s : Partial(m - 1, s)
    BY <2>4
  <2>6. Partial(m, [i \in 0..m |-> IF i = m THEN s[m - 1] + g[m] ELSE s[i]])
    <3> DEFINE t == [i \in 0..m |-> IF i = m THEN s[m - 1] + g[m] ELSE s[i]]
    <3>1. s \in [0..(m - 1) -> Int] /\ s[0] = 0 /\ g[m] \in Int /\ m \in Nat /\ m > 0
      BY <1>1, <1>2, <2>4, <2>5
    <3>2. s[m - 1] + g[m] \in Int
      BY <3>1
    <3>3. t \in [0..m -> Int] /\ t[0] = 0
      BY <3>1, <3>2
    <3>4. \A i \in 1..m : t[i] = t[i - 1] + g[i]
      BY <2>5, <3>1
    <3> QED
      BY <3>3, <3>4
  <2> QED
    BY <2>2, <2>6
<1>4. PICK s : Partial(n, s)
  BY <1>1, <1>3
<1>5. s = [i \in 0..n |-> IF i = 0 THEN 0 ELSE s[i - 1] + g[i]]
  BY <1>1, <1>4
<1>6. \A i \in 1..n : g[i] = f[ClassOrder[i]]
  BY DEF g
<1>7. \A t : [i \in 0..n |-> IF i = 0 THEN 0 ELSE t[i - 1] + g[i]]
             = [i \in 0..n |-> IF i = 0 THEN 0 ELSE t[i - 1] + f[ClassOrder[i]]]
  BY <1>1, <1>6
<1>8. Sums(f) = [i \in 0..n |-> IF i = 0 THEN 0 ELSE Sums(f)[i - 1] + f[ClassOrder[i]]]
  <2>1. s = [i \in 0..n |-> IF i = 0 THEN 0 ELSE s[i - 1] + f[ClassOrder[i]]]
    BY <1>5, <1>7
  <2> QED
    BY <2>1 DEF Sums, n
<1>9. Sums(f) = [i \in 0..n |-> IF i = 0 THEN 0 ELSE Sums(f)[i - 1] + g[i]]
  BY <1>7, <1>8
<1> DEFINE Odd == {k \in 0..n : Sums(f)[k] \notin Int}
<1>10. Odd = {}
  <2> SUFFICES ASSUME Odd # {} PROVE FALSE
    OBVIOUS
  <2>1. Odd \in SUBSET Nat
    BY <1>1
  <2>2. PICK m \in Odd : \A x \in Odd : m <= x
    <3> HIDE DEF Odd
    <3> QED
      BY <2>1, LeastExists
  <2>3. m # 0
    BY <1>1, <1>9, <2>2
  <2>4. m \in 1..n /\ m - 1 \in 0..n /\ ~(m <= m - 1)
    BY <1>1, <2>2, <2>3
  <2>5. Sums(f)[m - 1] \in Int
    BY <2>2, <2>4
  <2>6. Sums(f)[m] = Sums(f)[m - 1] + g[m] /\ g[m] \in Int
    BY <1>1, <1>2, <1>9, <2>4
  <2> QED
    BY <2>2, <2>5, <2>6
<1>11. Sums(f) \in [0..n -> Int]
  BY <1>9, <1>10
<1> QED
  BY <1>8, <1>11 DEF n

(* A sum of larger terms is larger. *)
LEMMA TotalMonotone ==
  ASSUME NEW f \in [Classes -> Int], NEW g \in [Classes -> Int],
         \A c \in Classes : f[c] <= g[c]
  PROVE  Total(f) \in Int /\ Total(g) \in Int /\ Total(f) <= Total(g)
<1> DEFINE n == Len(ClassOrder)
           Bad == {k \in 0..n : ~(Sums(f)[k] <= Sums(g)[k])}
<1>1. n \in Nat /\ \A i \in 1..n : ClassOrder[i] \in Classes
  BY ConfigAssumption, SMTT(60) DEF ValidConfig
<1>2. /\ Sums(f) \in [0..n -> Int]
      /\ Sums(f) = [i \in 0..n |-> IF i = 0 THEN 0 ELSE Sums(f)[i - 1] + f[ClassOrder[i]]]
  BY SumsExist
<1>3. /\ Sums(g) \in [0..n -> Int]
      /\ Sums(g) = [i \in 0..n |-> IF i = 0 THEN 0 ELSE Sums(g)[i - 1] + g[ClassOrder[i]]]
  BY SumsExist
<1>4. Total(f) = Sums(f)[n] /\ Total(g) = Sums(g)[n]
  BY DEF Total
<1> HIDE DEF n
<1>5. Bad = {}
  <2> SUFFICES ASSUME Bad # {} PROVE FALSE
    OBVIOUS
  <2>1. Bad \in SUBSET Nat
    BY <1>1
  <2>2. PICK m \in Bad : \A x \in Bad : m <= x
    <3> HIDE DEF Bad
    <3> QED
      BY <2>1, LeastExists
  <2>3. m # 0
    BY <1>1, <1>2, <1>3, <2>2
  <2>4. m \in 1..n /\ m - 1 \in 0..n /\ ~(m <= m - 1)
    BY <1>1, <2>2, <2>3
  <2>5. Sums(f)[m - 1] <= Sums(g)[m - 1]
    BY <2>2, <2>4
  <2>6. /\ Sums(f)[m] = Sums(f)[m - 1] + f[ClassOrder[m]]
        /\ Sums(g)[m] = Sums(g)[m - 1] + g[ClassOrder[m]]
    BY <1>1, <1>2, <1>3, <2>4
  <2>7. /\ f[ClassOrder[m]] \in Int /\ g[ClassOrder[m]] \in Int
        /\ f[ClassOrder[m]] <= g[ClassOrder[m]]
        /\ Sums(f)[m - 1] \in Int /\ Sums(g)[m - 1] \in Int
    BY <1>1, <1>2, <1>3, <2>4
  <2> QED
    BY <2>2, <2>5, <2>6, <2>7
<1>6. n \in 0..n
  BY <1>1
<1>7. Sums(f)[n] \in Int /\ Sums(g)[n] \in Int
  BY <1>2, <1>3, <1>6
<1>8. Sums(f)[n] <= Sums(g)[n]
  BY <1>5, <1>6
<1> QED
  BY <1>4, <1>7, <1>8

-----------------------------------------------------------------------------
(* The invariant                                                           *)

Waiting == {p \in Callers : state[p] = "waiting"}
FinitelyMany == IsFiniteSet(active) /\ IsFiniteSet(Waiting)

(* The caller that is between its enqueue and the test of the limits. *)
Entering(p) == pc[p] = "acquire" /\ state[p] = "waiting"

(* The queues without the waiter that the limits are still to be tested     *)
(* for: they keep the limits inside the lock, too.                          *)
Settled(c) == IF \E p \in Callers : Entering(p) /\ ClassOf(p) = c
                THEN queued[c] - 1 ELSE queued[c]
SettledAt(c, w) ==
  IF \E p \in Callers : Entering(p) /\ request[p] = [class |-> c, workspace |-> w]
    THEN Len(queues[c][w]) - 1 ELSE Len(queues[c][w])
SettledBounded ==
  /\ Total([c \in Classes |-> Settled(c)]) <= MaximumQueued
  /\ \A c \in Classes :
       /\ Settled(c) <= ClassMaximumQueued[c]
       /\ \A w \in AllWorkspaces : SettledAt(c, w) <= MaximumQueuedPerWorkspace[c]

CallersAgree == \A p \in Callers : CallerAgrees(p)

AdmissionInv ==
  /\ TypeOK /\ CountersMatchLeases /\ QueuesConsistent /\ SettledBounded
  /\ CallersAgree /\ OneInLock /\ CloseProgresses /\ FinitelyMany
  /\ WithinLimits /\ WorkConserving

-----------------------------------------------------------------------------
(* What one critical section does to the queues                            *)

LEMMA Modulo ==
  ASSUME NEW a \in Nat, NEW n \in Nat, n > 0
  PROVE  a % n \in Nat /\ a % n < n
OBVIOUS

LEMMA ModuloOnce ==
  ASSUME NEW n \in Nat, n > 0, NEW a \in Nat, a < 2 * n
  PROVE  a % n = IF a < n THEN a ELSE a - n
OBVIOUS

(* The scheduling loop stays inside the class order. *)
LEMMA ClassChoice ==
  ASSUME classCursor \in Offsets, NEW o \in Offsets
  PROVE  ClassAt(o) \in Classes /\ ClassCursorAfter(o) \in Offsets
<1>1. /\ Len(ClassOrder) \in Nat /\ Len(ClassOrder) > 0
      /\ DOMAIN ClassOrder = 1..Len(ClassOrder)
  BY ConfigAssumption DEF ValidConfig
<1>2. classCursor + o \in Nat /\ classCursor + o + 1 \in Nat
  BY <1>1 DEF Offsets
<1>3. /\ (classCursor + o) % Len(ClassOrder) \in Nat
      /\ (classCursor + o) % Len(ClassOrder) < Len(ClassOrder)
  BY <1>1, <1>2, Modulo
<1>4. /\ (classCursor + o + 1) % Len(ClassOrder) \in Nat
      /\ (classCursor + o + 1) % Len(ClassOrder) < Len(ClassOrder)
  BY <1>1, <1>2, Modulo
<1>5. ((classCursor + o) % Len(ClassOrder)) + 1 \in DOMAIN ClassOrder
  BY <1>1, <1>3
<1>6. ClassAt(o) \in Classes
  BY <1>5 DEF ClassAt, Classes, ToSet
<1>7. ClassCursorAfter(o) \in Offsets
  BY <1>1, <1>4 DEF ClassCursorAfter, Offsets
<1> QED
  BY <1>6, <1>7

(* The class queue loses the waiter p of workspace w: what pop and remove    *)
(* have in common.                                                          *)
QueueLoses(c, w, p) ==
  \E q \in Seq(Callers), r \in Seq(AllWorkspaces), k \in Nat :
    /\ queues' = [queues EXCEPT ![c] = [queues[c] EXCEPT ![w] = q]]
    /\ order' = [order EXCEPT ![c] = r]
    /\ cursor' = [cursor EXCEPT ![c] = k]
    /\ queued' = [queued EXCEPT ![c] = queued[c] - 1]
    /\ Len(q) = Len(queues[c][w]) - 1 /\ IsInjective(q)
    /\ ToSet(q) = ToSet(queues[c][w]) \ {p}
    /\ IsInjective(r)
    /\ ToSet(r) = IF q = <<>> THEN ToSet(order[c]) \ {w} ELSE ToSet(order[c])
    /\ k < Len(r) \/ k = 0

(* The invariant's view of one class queue. *)
LEMMA QueueFacts ==
  ASSUME TypeOK, QueuesConsistent, NEW c \in Classes
  PROVE  /\ order[c] \in Seq(AllWorkspaces) /\ cursor[c] \in Nat /\ queued[c] \in Nat
         /\ IsInjective(order[c])
         /\ ToSet(order[c]) = {v \in AllWorkspaces : queues[c][v] # <<>>}
         /\ cursor[c] < Len(order[c]) \/ cursor[c] = 0
         /\ queued[c] = Cardinality(WaitingIn(c))
         /\ \A v \in AllWorkspaces : /\ queues[c][v] \in Seq(Callers)
                                     /\ ToSet(queues[c][v]) = WaitingFor(c, v)
                                     /\ IsInjective(queues[c][v])
<1>1. /\ order[c] \in Seq(AllWorkspaces) /\ cursor[c] \in Nat /\ queued[c] \in Nat
      /\ \A v \in AllWorkspaces : queues[c][v] \in Seq(Callers)
  BY DEF TypeOK
<1> QED
  BY <1>1 DEF QueuesConsistent, QueueConsistent

(* A class with waiters has a next one, at the cursor or at the front. *)
LEMMA NextExists ==
  ASSUME TypeOK, QueuesConsistent, CallersAgree, NEW c \in Classes, queued[c] > 0
  PROVE  /\ Len(order[c]) \in Nat /\ Position(c) \in 0 .. Len(order[c]) - 1
         /\ order[c][Position(c) + 1] = NextWorkspace(c)
         /\ NextWorkspace(c) \in AllWorkspaces /\ NextWorkspace(c) \in ToSet(order[c])
         /\ queues[c][NextWorkspace(c)] # <<>>
         /\ NextWaiter(c) \in Callers
         /\ state[NextWaiter(c)] = "waiting"
         /\ request[NextWaiter(c)] = [class |-> c, workspace |-> NextWorkspace(c)]
<1>1. /\ order[c] \in Seq(AllWorkspaces) /\ cursor[c] \in Nat
      /\ ToSet(order[c]) = {v \in AllWorkspaces : queues[c][v] # <<>>}
      /\ queued[c] = Cardinality(WaitingIn(c))
      /\ \A v \in AllWorkspaces : queues[c][v] \in Seq(Callers)
      /\ \A v \in AllWorkspaces : ToSet(queues[c][v]) = WaitingFor(c, v)
      /\ \A v \in AllWorkspaces : IsInjective(queues[c][v])
  BY QueueFacts
<1>2. PICK p \in WaitingIn(c) : TRUE
  <2>1. WaitingIn(c) = {} => queued[c] = 0
    BY <1>1, FS_EmptySet
  <2> QED
    BY <2>1, QueueFacts
<1>3. p \in Callers /\ state[p] = "waiting" /\ ClassOf(p) = c
  BY <1>2 DEF WaitingIn
<1>4. request[p] \in Requests
  BY <1>3 DEF CallersAgree, CallerAgrees
<1>5. WorkspaceOf(p) \in AllWorkspaces /\ request[p] = [class |-> c, workspace |-> WorkspaceOf(p)]
  BY <1>3, <1>4 DEF Requests, ClassOf, WorkspaceOf
<1>6. p \in WaitingFor(c, WorkspaceOf(p))
  BY <1>3, <1>5 DEF WaitingFor
<1>7. queues[c][WorkspaceOf(p)] # <<>>
  BY <1>1, <1>5, <1>6, EmptyQueue
<1>8. ToSet(order[c]) # {}
  BY <1>1, <1>5, <1>7
<1>9. /\ Len(order[c]) \in Nat /\ Len(order[c]) > 0
      /\ \A i \in 0..(Len(order[c]) - 1) : order[c][i + 1] \in ToSet(order[c])
  BY <1>1, <1>8, EmptyQueue
<1>10. Position(c) \in 0 .. Len(order[c]) - 1
  BY <1>1, <1>9 DEF Position
<1>11. NextWorkspace(c) \in ToSet(order[c])
  BY <1>9, <1>10 DEF NextWorkspace
<1>12. NextWorkspace(c) \in AllWorkspaces /\ queues[c][NextWorkspace(c)] # <<>>
  BY <1>1, <1>11
<1>13. NextWaiter(c) \in WaitingFor(c, NextWorkspace(c))
  BY <1>1, <1>12, TailElements DEF NextWaiter
<1> QED
  BY <1>9, <1>10, <1>11, <1>12, <1>13 DEF NextWorkspace, WaitingFor

LEMMA PopLoses ==
  ASSUME TypeOK, QueuesConsistent, CallersAgree, NEW c \in Classes, queued[c] > 0, pop(c)
  PROVE  QueueLoses(c, NextWorkspace(c), NextWaiter(c))
<1> DEFINE w == NextWorkspace(c)
           q == Tail(queues[c][w])
           last == Len(queues[c][w]) = 1
           r == IF last THEN RemoveAt(order[c], Position(c) + 1) ELSE order[c]
           k == IF last THEN IF Position(c) >= Len(order[c]) - 1 THEN 0 ELSE Position(c)
                        ELSE (Position(c) + 1) % Len(order[c])
<1>1. /\ queues \in [Classes -> [AllWorkspaces -> Seq(Callers)]]
      /\ order[c] \in Seq(AllWorkspaces) /\ IsInjective(order[c])
      /\ \A v \in AllWorkspaces : queues[c][v] \in Seq(Callers) /\ IsInjective(queues[c][v])
  BY QueueFacts DEF TypeOK
<1>2. /\ Len(order[c]) \in Nat /\ Position(c) \in 0 .. Len(order[c]) - 1
      /\ order[c][Position(c) + 1] = w
      /\ w \in AllWorkspaces /\ queues[c][w] # <<>>
  BY NextExists
<1>3. /\ queues' = [queues EXCEPT ![c] = [queues[c] EXCEPT ![w] = q]]
      /\ order' = [order EXCEPT ![c] = r]
      /\ cursor' = [cursor EXCEPT ![c] = k]
      /\ queued' = [queued EXCEPT ![c] = queued[c] - 1]
  BY <1>1, <1>2 DEF pop, TypeOK
<1>4. Position(c) + 1 \in DOMAIN order[c]
  BY <1>1, <1>2
<1>5. /\ q \in Seq(Callers) /\ Len(q) = Len(queues[c][w]) - 1 /\ IsInjective(q)
      /\ ToSet(q) = ToSet(queues[c][w]) \ {NextWaiter(c)}
  BY <1>1, <1>2, TailElements DEF NextWaiter
<1>6. Len(queues[c][w]) \in Nat /\ Len(q) \in Nat /\ (q = <<>> <=> Len(q) = 0)
  BY <1>1, <1>2, <1>5, EmptyQueue
<1>7. last <=> q = <<>>
  BY <1>5, <1>6
<1>8. /\ RemoveAt(order[c], Position(c) + 1) \in Seq(AllWorkspaces)
      /\ Len(RemoveAt(order[c], Position(c) + 1)) = Len(order[c]) - 1
      /\ IsInjective(RemoveAt(order[c], Position(c) + 1))
      /\ ToSet(RemoveAt(order[c], Position(c) + 1)) = ToSet(order[c]) \ {w}
  BY <1>1, <1>2, <1>4, RemoveElements
<1>9. /\ (Position(c) + 1) % Len(order[c]) \in Nat
      /\ (Position(c) + 1) % Len(order[c]) < Len(order[c])
  BY <1>2, Modulo
<1>10. /\ r \in Seq(AllWorkspaces) /\ IsInjective(r)
       /\ ToSet(r) = IF q = <<>> THEN ToSet(order[c]) \ {w} ELSE ToSet(order[c])
  BY <1>1, <1>7, <1>8
<1>11. k \in Nat /\ (k < Len(r) \/ k = 0)
  BY <1>2, <1>8, <1>9
<1> HIDE DEF q, r, k, last
<1>12. QueueLoses(c, w, NextWaiter(c))
  <2> HIDE DEF w
  <2> QED
    BY <1>3, <1>5, <1>10, <1>11 DEF QueueLoses
<1> QED
  BY <1>12

LEMMA RemoveLoses ==
  ASSUME TypeOK, QueuesConsistent, CallersAgree, NEW p \in Callers, state[p] = "waiting", remove(p)
  PROVE  /\ ClassOf(p) \in Classes /\ WorkspaceOf(p) \in AllWorkspaces
         /\ request[p] = [class |-> ClassOf(p), workspace |-> WorkspaceOf(p)]
         /\ QueueLoses(ClassOf(p), WorkspaceOf(p), p)
<1> DEFINE c == ClassOf(p)
           w == WorkspaceOf(p)
           q == RemoveFirst(queues[c][w], p)
           last == Len(queues[c][w]) = 1
           index == SelectInSeq(order[c], LAMBDA x : x = w) - 1
           moved == IF index < cursor[c] THEN cursor[c] - 1 ELSE cursor[c]
           r == IF last THEN RemoveFirst(order[c], w) ELSE order[c]
           k == IF ~last THEN cursor[c] ELSE IF moved >= Len(order[c]) - 1 THEN 0 ELSE moved
<1>0. request[p] \in Requests
  BY DEF CallersAgree, CallerAgrees
<1>1. c \in Classes /\ w \in AllWorkspaces /\ request[p] = [class |-> c, workspace |-> w]
  BY <1>0 DEF Requests, ClassOf, WorkspaceOf
<1>2. /\ queues' = [queues EXCEPT ![c] = [queues[c] EXCEPT ![w] = q]]
      /\ order' = [order EXCEPT ![c] = r]
      /\ cursor' = [cursor EXCEPT ![c] = k]
      /\ queued' = [queued EXCEPT ![c] = queued[c] - 1]
  BY <1>1 DEF remove, TypeOK
<1> HIDE DEF c, w
<1>3. /\ order[c] \in Seq(AllWorkspaces) /\ IsInjective(order[c])
      /\ ToSet(order[c]) = {v \in AllWorkspaces : queues[c][v] # <<>>}
      /\ queues[c][w] \in Seq(Callers) /\ IsInjective(queues[c][w])
      /\ ToSet(queues[c][w]) = WaitingFor(c, w)
      /\ cursor[c] \in Nat /\ (cursor[c] < Len(order[c]) \/ cursor[c] = 0)
  BY <1>1, QueueFacts
<1>4. p \in ToSet(queues[c][w])
  BY <1>1, <1>3 DEF WaitingFor
<1>5. /\ q \in Seq(Callers) /\ Len(q) = Len(queues[c][w]) - 1 /\ IsInjective(q)
      /\ ToSet(q) = ToSet(queues[c][w]) \ {p}
  BY <1>3, <1>4, RemoveFirstElement
<1>6. /\ Len(queues[c][w]) \in Nat /\ Len(q) \in Nat /\ (q = <<>> <=> Len(q) = 0)
      /\ queues[c][w] # <<>>
  BY <1>3, <1>4, <1>5, EmptyQueue
<1>7. last <=> q = <<>>
  BY <1>5, <1>6
<1>8. w \in ToSet(order[c])
  BY <1>1, <1>3, <1>6
<1>9. /\ RemoveFirst(order[c], w) \in Seq(AllWorkspaces)
      /\ Len(RemoveFirst(order[c], w)) = Len(order[c]) - 1
      /\ IsInjective(RemoveFirst(order[c], w))
      /\ ToSet(RemoveFirst(order[c], w)) = ToSet(order[c]) \ {w}
  BY <1>3, <1>8, RemoveFirstElement
<1>10. Len(order[c]) \in Nat /\ Len(order[c]) > 0 /\ index \in 0 .. Len(order[c]) - 1
  <2>1. PICK i \in DOMAIN order[c] : order[c][i] = w
    BY <1>8 DEF ToSet
  <2>2. {j \in 1..Len(order[c]) : order[c][j] = w} = {i} /\ Min({i}) = i
    BY <1>3, <2>1, FirstPosition
  <2>3. SelectInSeq(order[c], LAMBDA x : x = w) = i
    BY <2>2 DEF SelectInSeq
  <2> QED
    BY <1>3, <2>1, <2>3
<1>11. /\ r \in Seq(AllWorkspaces) /\ IsInjective(r)
       /\ ToSet(r) = IF q = <<>> THEN ToSet(order[c]) \ {w} ELSE ToSet(order[c])
  BY <1>3, <1>7, <1>9
<1> HIDE DEF index
<1>12. k \in Nat /\ (k < Len(r) \/ k = 0)
  BY <1>3, <1>9, <1>10
<1> HIDE DEF q, r, k, last, moved
<1>13. QueueLoses(c, w, p)
  BY <1>2, <1>5, <1>11, <1>12 DEF QueueLoses
<1> QED
  BY <1>1, <1>13 DEF c, w

(* The variables of the class queues. *)
QueueTypes ==
  /\ queues \in [Classes -> [AllWorkspaces -> Seq(Callers)]]
  /\ order \in [Classes -> Seq(AllWorkspaces)]
  /\ cursor \in [Classes -> Nat] /\ queued \in [Classes -> Nat]

(* The waiters of a class are finitely many. *)
LEMMA WaitersFinite ==
  ASSUME FinitelyMany, NEW c
  PROVE  IsFiniteSet(WaitingIn(c)) /\ Cardinality(WaitingIn(c)) \in Nat
<1>1. WaitingIn(c) \subseteq Waiting
  BY DEF WaitingIn, Waiting
<1>2. IsFiniteSet(WaitingIn(c))
  BY <1>1, FS_Subset DEF FinitelyMany
<1> QED
  BY <1>2, FS_CardinalityType

(* A step that takes one waiter out of its queue and leaves the others. *)
LEMMA LosesKeepsQueues ==
  ASSUME QueueTypes, TypeOK, QueuesConsistent, FinitelyMany,
         NEW c \in Classes, NEW w \in AllWorkspaces, NEW p \in Callers,
         state[p] = "waiting", request[p] = [class |-> c, workspace |-> w],
         QueueLoses(c, w, p),
         state'[p] # "waiting",
         \A q \in Callers : q # p => (state'[q] = "waiting" <=> state[q] = "waiting"),
         \A q \in Callers : q # p /\ state[q] = "waiting" => request'[q] = request[q]
  PROVE  QueueTypes' /\ QueuesConsistent' /\ IsFiniteSet(Waiting')
<1>1. PICK q \in Seq(Callers), r \in Seq(AllWorkspaces), k \in Nat :
    /\ queues' = [queues EXCEPT ![c] = [queues[c] EXCEPT ![w] = q]]
    /\ order' = [order EXCEPT ![c] = r]
    /\ cursor' = [cursor EXCEPT ![c] = k]
    /\ queued' = [queued EXCEPT ![c] = queued[c] - 1]
    /\ Len(q) = Len(queues[c][w]) - 1 /\ IsInjective(q)
    /\ ToSet(q) = ToSet(queues[c][w]) \ {p}
    /\ IsInjective(r)
    /\ ToSet(r) = IF q = <<>> THEN ToSet(order[c]) \ {w} ELSE ToSet(order[c])
    /\ k < Len(r) \/ k = 0
  BY DEF QueueLoses
<1>2. ClassOf(p) = c
  BY DEF ClassOf
<1>3. \A d : WaitingIn(d)' = WaitingIn(d) \ {p}
  BY DEF WaitingIn, ClassOf
<1>4. \A d, v : WaitingFor(d, v)' = WaitingFor(d, v) \ {p}
  BY DEF WaitingFor
<1>5. p \in WaitingIn(c) /\ \A d : d # c => p \notin WaitingIn(d)
  BY <1>2 DEF WaitingIn
<1>6. \A d, v : d # c \/ v # w => p \notin WaitingFor(d, v)
  BY DEF WaitingFor
<1>7. /\ IsFiniteSet(WaitingIn(c)) /\ Cardinality(WaitingIn(c)) \in Nat
      /\ Cardinality(WaitingIn(c) \ {p}) = Cardinality(WaitingIn(c)) - 1
  BY <1>5, WaitersFinite, FS_RemoveElement
<1>8. /\ order[c] \in Seq(AllWorkspaces) /\ queued[c] \in Nat
      /\ ToSet(order[c]) = {v \in AllWorkspaces : queues[c][v] # <<>>}
      /\ queued[c] = Cardinality(WaitingIn(c))
      /\ \A v \in AllWorkspaces : /\ queues[c][v] \in Seq(Callers)
                                  /\ ToSet(queues[c][v]) = WaitingFor(c, v)
                                  /\ IsInjective(queues[c][v])
  BY QueueFacts
<1>9. Cardinality(WaitingIn(c)') \in Nat /\ Cardinality(WaitingIn(c)') = queued[c] - 1
  <2>1. WaitingIn(c)' = WaitingIn(c) \ {p}
    BY <1>3
  <2>2. IsFiniteSet(WaitingIn(c) \ {p})
    BY <1>7, FS_RemoveElement
  <2>3. Cardinality(WaitingIn(c) \ {p}) \in Nat
    BY <2>2, FS_CardinalityType
  <2> QED
    BY <1>7, <1>8, <2>1, <2>3
<1>10. queued[c] - 1 \in Nat
  BY <1>9
<1>11. QueueTypes'
  BY <1>1, <1>10 DEF QueueTypes
<1>12. /\ queues'[c][w] = q /\ \A v \in AllWorkspaces : v # w => queues'[c][v] = queues[c][v]
       /\ order'[c] = r /\ cursor'[c] = k /\ queued'[c] = queued[c] - 1
       /\ \A d \in Classes : d # c => /\ queues'[d] = queues[d] /\ order'[d] = order[d]
                                      /\ cursor'[d] = cursor[d] /\ queued'[d] = queued[d]
  BY <1>1 DEF QueueTypes
<1>13. w \in ToSet(order[c])
  <2>1. p \in ToSet(queues[c][w])
    BY <1>8 DEF WaitingFor
  <2> QED
    BY <1>8, <2>1, EmptyQueue
<1>14. ToSet(r) = {v \in AllWorkspaces : queues'[c][v] # <<>>}
  <2>1. CASE q = <<>>
    BY <1>1, <1>8, <1>12, <2>1
  <2>2. CASE q # <<>>
    BY <1>1, <1>8, <1>12, <1>13, <2>2
  <2> QED
    BY <2>1, <2>2
<1>15. \A v \in AllWorkspaces : IsInjective(queues'[c][v]) /\ ToSet(queues'[c][v]) = WaitingFor(c, v)'
  <2>1. TAKE v \in AllWorkspaces
  <2>2. CASE v = w
    BY <1>1, <1>4, <1>8, <1>12, <2>2
  <2>3. CASE v # w
    <3>1. WaitingFor(c, v)' = WaitingFor(c, v)
      BY <1>4, <1>6, <2>3
    <3> QED
      BY <1>8, <1>12, <2>3, <3>1
  <2> QED
    BY <2>2, <2>3
<1>16. QueueConsistent(c)'
  BY <1>1, <1>9, <1>12, <1>14, <1>15 DEF QueueConsistent
<1>17. ASSUME NEW d \in Classes, d # c PROVE QueueConsistent(d)'
  <2>1. QueueConsistent(d)
    BY DEF QueuesConsistent
  <2>2. WaitingIn(d)' = WaitingIn(d)
    BY <1>3, <1>5, <1>17
  <2>3. \A v \in AllWorkspaces : WaitingFor(d, v)' = WaitingFor(d, v)
    BY <1>4, <1>6, <1>17
  <2>4. /\ queues'[d] = queues[d] /\ order'[d] = order[d]
        /\ cursor'[d] = cursor[d] /\ queued'[d] = queued[d]
    BY <1>12, <1>17
  <2> QED
    BY <2>1, <2>2, <2>3, <2>4 DEF QueueConsistent
<1>18. QueuesConsistent'
  BY <1>16, <1>17 DEF QueuesConsistent
<1>19. IsFiniteSet(Waiting')
  <2>1. Waiting' = Waiting \ {p}
    BY DEF Waiting
  <2> QED
    BY <2>1, FS_RemoveElement DEF FinitelyMany
<1> QED
  BY <1>11, <1>18, <1>19

(* A step that leaves the queues and the waiters alone. *)
LEMMA QueuesUnchanged ==
  ASSUME QueueTypes, QueuesConsistent, FinitelyMany, UNCHANGED queueVars,
         \A q \in Callers : state'[q] = "waiting" <=> state[q] = "waiting",
         \A q \in Callers : state[q] = "waiting" => request'[q] = request[q]
  PROVE  QueueTypes' /\ QueuesConsistent' /\ IsFiniteSet(Waiting')
<1>1. \A d : WaitingIn(d)' = WaitingIn(d)
  BY DEF WaitingIn, ClassOf
<1>2. \A d, v : WaitingFor(d, v)' = WaitingFor(d, v)
  BY DEF WaitingFor
<1>3. UNCHANGED <<queues, order, cursor, queued>>
  BY DEF queueVars
<1>4. QueuesConsistent'
  BY <1>1, <1>2, <1>3 DEF QueuesConsistent, QueueConsistent
<1>5. Waiting' = Waiting
  BY DEF Waiting
<1> QED
  BY <1>3, <1>4, <1>5 DEF QueueTypes, FinitelyMany

(* A new waiter goes to the end of its workspace's queue. *)
LEMMA EnqueueKeepsQueues ==
  ASSUME QueueTypes, TypeOK, QueuesConsistent, FinitelyMany,
         NEW c \in Classes, NEW w \in AllWorkspaces, NEW p \in Callers,
         state[p] # "waiting", enqueue(p, c, w),
         state'[p] = "waiting", request'[p] = [class |-> c, workspace |-> w],
         \A q \in Callers : q # p => state'[q] = state[q] /\ request'[q] = request[q]
  PROVE  QueueTypes' /\ QueuesConsistent' /\ IsFiniteSet(Waiting')
<1> DEFINE q == Append(queues[c][w], p)
           r == IF queues[c][w] = <<>> THEN Append(order[c], w) ELSE order[c]
<1>1. /\ queues' = [queues EXCEPT ![c] = [queues[c] EXCEPT ![w] = q]]
      /\ order' = [order EXCEPT ![c] = r]
      /\ queued' = [queued EXCEPT ![c] = queued[c] + 1]
      /\ cursor' = cursor
  BY DEF enqueue, QueueTypes
<1>2. \A d : WaitingIn(d)' = IF d = c THEN WaitingIn(d) \cup {p} ELSE WaitingIn(d)
  BY DEF WaitingIn, ClassOf
<1>3. \A d, v : WaitingFor(d, v)' = IF d = c /\ v = w THEN WaitingFor(d, v) \cup {p}
                                                      ELSE WaitingFor(d, v)
  BY DEF WaitingFor
<1>4. p \notin WaitingIn(c) /\ \A d, v : p \notin WaitingFor(d, v)
  BY DEF WaitingIn, WaitingFor
<1>5. /\ order[c] \in Seq(AllWorkspaces) /\ cursor[c] \in Nat /\ queued[c] \in Nat
      /\ IsInjective(order[c])
      /\ ToSet(order[c]) = {v \in AllWorkspaces : queues[c][v] # <<>>}
      /\ cursor[c] < Len(order[c]) \/ cursor[c] = 0
      /\ queued[c] = Cardinality(WaitingIn(c))
      /\ \A v \in AllWorkspaces : /\ queues[c][v] \in Seq(Callers)
                                  /\ ToSet(queues[c][v]) = WaitingFor(c, v)
                                  /\ IsInjective(queues[c][v])
  BY QueueFacts
<1>6. /\ q \in Seq(Callers) /\ ToSet(q) = ToSet(queues[c][w]) \cup {p} /\ IsInjective(q)
  <2>1. p \notin ToSet(queues[c][w])
    BY <1>4, <1>5
  <2> QED
    BY <1>5, <2>1, AppendElements
<1>7. q # <<>>
  BY <1>6, EmptyQueue
<1>8. /\ r \in Seq(AllWorkspaces) /\ IsInjective(r) /\ ToSet(r) = ToSet(order[c]) \cup {w}
      /\ Len(r) \in Nat /\ Len(order[c]) \in Nat /\ Len(r) >= Len(order[c])
  <2>1. CASE queues[c][w] = <<>>
    <3>1. w \notin ToSet(order[c])
      BY <1>5, <2>1
    <3>2. /\ Append(order[c], w) \in Seq(AllWorkspaces) /\ IsInjective(Append(order[c], w))
          /\ ToSet(Append(order[c], w)) = ToSet(order[c]) \cup {w}
      BY <1>5, <3>1, AppendElements
    <3>3. Len(Append(order[c], w)) = Len(order[c]) + 1 /\ Len(order[c]) \in Nat
      BY <1>5
    <3> QED
      BY <2>1, <3>2, <3>3
  <2>2. CASE queues[c][w] # <<>>
    <3>1. w \in ToSet(order[c]) /\ Len(order[c]) \in Nat
      BY <1>5, <2>2
    <3> QED
      BY <1>5, <2>2, <3>1
  <2> QED
    BY <2>1, <2>2
<1>9. Cardinality(WaitingIn(c)') = queued[c] + 1
  <2>1. WaitingIn(c)' = WaitingIn(c) \cup {p}
    BY <1>2
  <2> QED
    BY <1>4, <1>5, <2>1, WaitersFinite, FS_AddElement, ZenonT(60)
<1> HIDE DEF q, r
<1>10. QueueTypes'
  BY <1>1, <1>5, <1>6, <1>8, SMTT(60) DEF QueueTypes
<1>11. /\ queues'[c][w] = q /\ \A v \in AllWorkspaces : v # w => queues'[c][v] = queues[c][v]
       /\ order'[c] = r /\ queued'[c] = queued[c] + 1
       /\ \A d \in Classes : d # c => /\ queues'[d] = queues[d] /\ order'[d] = order[d]
                                      /\ queued'[d] = queued[d]
  BY <1>1 DEF QueueTypes
<1>12. ToSet(r) = {v \in AllWorkspaces : queues'[c][v] # <<>>}
  BY <1>5, <1>7, <1>8, <1>11
<1>13. \A v \in AllWorkspaces : IsInjective(queues'[c][v]) /\ ToSet(queues'[c][v]) = WaitingFor(c, v)'
  BY <1>3, <1>5, <1>6, <1>11
<1>14. cursor'[c] < Len(r) \/ cursor'[c] = 0
  BY <1>1, <1>5, <1>8
<1>15. QueueConsistent(c)'
  BY <1>8, <1>9, <1>11, <1>12, <1>13, <1>14 DEF QueueConsistent
<1>16. ASSUME NEW d \in Classes, d # c PROVE QueueConsistent(d)'
  <2>1. QueueConsistent(d)
    BY DEF QueuesConsistent
  <2>2. WaitingIn(d)' = WaitingIn(d) /\ \A v : WaitingFor(d, v)' = WaitingFor(d, v)
    BY <1>2, <1>3, <1>16
  <2>3. /\ queues'[d] = queues[d] /\ order'[d] = order[d]
        /\ cursor'[d] = cursor[d] /\ queued'[d] = queued[d]
    BY <1>1, <1>11, <1>16
  <2> QED
    BY <2>1, <2>2, <2>3 DEF QueueConsistent
<1>17. QueuesConsistent'
  BY <1>15, <1>16 DEF QueuesConsistent
<1>18. IsFiniteSet(Waiting')
  <2>1. Waiting' = Waiting \cup {p}
    BY DEF Waiting
  <2> QED
    BY <2>1, FS_AddElement DEF FinitelyMany
<1> QED
  BY <1>10, <1>17, <1>18

(* Exactly the waiters are in a queue that its class's order names. *)
LEMMA InOrderWaits ==
  ASSUME TypeOK, QueuesConsistent, CallersAgree, NEW p \in Callers
  PROVE  InOrder(p) <=> state[p] = "waiting"
<1>1. ASSUME InOrder(p) PROVE state[p] = "waiting"
  <2>1. PICK c \in Classes : \E w \in ToSet(order[c]) : p \in ToSet(queues[c][w])
    BY <1>1 DEF InOrder
  <2>2. PICK w \in ToSet(order[c]) : p \in ToSet(queues[c][w])
    BY <2>1
  <2>3. w \in AllWorkspaces /\ ToSet(queues[c][w]) = WaitingFor(c, w)
    BY QueueFacts
  <2> QED
    BY <2>2, <2>3 DEF WaitingFor
<1>2. ASSUME state[p] = "waiting" PROVE InOrder(p)
  <2>1. request[p] \in Requests
    BY <1>2 DEF CallersAgree, CallerAgrees
  <2>2. PICK c \in Classes, w \in AllWorkspaces : request[p] = [class |-> c, workspace |-> w]
    BY <2>1 DEF Requests
  <2>3. p \in WaitingFor(c, w)
    BY <1>2, <2>2 DEF WaitingFor
  <2>4. /\ ToSet(queues[c][w]) = WaitingFor(c, w) /\ queues[c][w] \in Seq(Callers)
        /\ ToSet(order[c]) = {v \in AllWorkspaces : queues[c][v] # <<>>}
    BY QueueFacts
  <2>5. w \in ToSet(order[c])
    BY <2>3, <2>4, EmptyQueue
  <2> QED
    BY <2>3, <2>4, <2>5 DEF InOrder
<1> QED
  BY <1>1, <1>2

(* Close empties the queues and leaves nobody waiting. *)
LEMMA CloseKeepsQueues ==
  ASSUME TypeOK, QueuesConsistent, CallersAgree, Close
  PROVE  /\ QueueTypes' /\ QueuesConsistent' /\ IsFiniteSet(Waiting')
         /\ \A p \in Callers : state'[p] = IF state[p] = "waiting" THEN "rejected" ELSE state[p]
         /\ toNotify' = Waiting
<1>1. \A p \in Callers : InOrder(p) <=> state[p] = "waiting"
  BY InOrderWaits
<1>2. /\ \A p \in Callers : state'[p] = IF state[p] = "waiting" THEN "rejected" ELSE state[p]
      /\ toNotify' = Waiting
  BY <1>1 DEF Close, Waiting
<1>3. Waiting' = {} /\ \A d : WaitingIn(d)' = {} /\ \A v : WaitingFor(d, v)' = {}
  BY <1>2 DEF Waiting, WaitingIn, WaitingFor
<1>4. /\ queues' = [c \in Classes |-> [w \in AllWorkspaces |-> <<>>]]
      /\ order' = [c \in Classes |-> <<>>]
      /\ cursor' = [c \in Classes |-> 0]
      /\ queued' = [c \in Classes |-> 0]
  BY DEF Close
<1>5. \A S : /\ <<>> \in Seq(S)
  OBVIOUS
<1>6. ToSet(<<>>) = {} /\ IsInjective(<<>>)
  BY DEF ToSet, IsInjective
<1>7. QueueTypes'
  BY <1>4, <1>5 DEF QueueTypes
<1>8. QueuesConsistent'
  BY <1>3, <1>4, <1>6, FS_EmptySet DEF QueuesConsistent, QueueConsistent
<1> QED
  BY <1>2, <1>3, <1>7, <1>8, FS_EmptySet

-----------------------------------------------------------------------------
(* What one critical section does to the leases                            *)

LeaseTypes ==
  /\ active \subseteq Callers /\ running \in Nat
  /\ runningClass \in [Classes -> Nat]
  /\ runningWS \in [Classes -> [AllWorkspaces -> Nat]]

LEMMA LeasesFinite ==
  ASSUME FinitelyMany, NEW c
  PROVE  /\ IsFiniteSet(LeasesIn(c)) /\ Cardinality(LeasesIn(c)) \in Nat
         /\ \A w : IsFiniteSet(LeasesFor(c, w)) /\ Cardinality(LeasesFor(c, w)) \in Nat
<1>1. LeasesIn(c) \subseteq active /\ \A w : LeasesFor(c, w) \subseteq active
  BY DEF LeasesIn, LeasesFor
<1>2. IsFiniteSet(LeasesIn(c)) /\ \A w : IsFiniteSet(LeasesFor(c, w))
  BY <1>1, FS_Subset DEF FinitelyMany
<1> QED
  BY <1>2, FS_CardinalityType

LEMMA LeasesUnchanged ==
  ASSUME LeaseTypes, CountersMatchLeases, FinitelyMany, UNCHANGED counters,
         \A q \in active : request'[q] = request[q]
  PROVE  LeaseTypes' /\ CountersMatchLeases' /\ IsFiniteSet(active')
<1>1. UNCHANGED <<running, runningClass, runningWS, active>>
  BY DEF counters
<1>2. \A c, w : LeasesIn(c)' = LeasesIn(c) /\ LeasesFor(c, w)' = LeasesFor(c, w)
  BY <1>1 DEF LeasesIn, LeasesFor, ClassOf
<1> QED
  BY <1>1, <1>2 DEF LeaseTypes, CountersMatchLeases, FinitelyMany

(* A grant adds one lease to the node, its class and its workspace. *)
LEMMA LeaseGranted ==
  ASSUME LeaseTypes, CountersMatchLeases, FinitelyMany,
         NEW c \in Classes, NEW w \in AllWorkspaces, NEW p \in Callers,
         p \notin active, request[p] = [class |-> c, workspace |-> w], request' = request,
         running' = running + 1,
         runningClass' = [runningClass EXCEPT ![c] = runningClass[c] + 1],
         runningWS' = [runningWS EXCEPT ![c] = [runningWS[c] EXCEPT ![w] = runningWS[c][w] + 1]],
         active' = active \cup {p}
  PROVE  LeaseTypes' /\ CountersMatchLeases' /\ IsFiniteSet(active')
<1>1. \A d : LeasesIn(d)' = IF d = c THEN LeasesIn(d) \cup {p} ELSE LeasesIn(d)
  BY DEF LeasesIn, ClassOf
<1>2. \A d, v : LeasesFor(d, v)' = IF d = c /\ v = w THEN LeasesFor(d, v) \cup {p}
                                                    ELSE LeasesFor(d, v)
  BY DEF LeasesFor
<1>3. p \notin LeasesIn(c) /\ p \notin LeasesFor(c, w)
  BY DEF LeasesIn, LeasesFor
<1>4. /\ Cardinality(LeasesIn(c) \cup {p}) = Cardinality(LeasesIn(c)) + 1
      /\ Cardinality(LeasesFor(c, w) \cup {p}) = Cardinality(LeasesFor(c, w)) + 1
  BY <1>3, LeasesFinite, FS_AddElement
<1>5. IsFiniteSet(active') /\ running' = Cardinality(active')
  BY FS_AddElement DEF FinitelyMany, CountersMatchLeases
<1>6. LeaseTypes'
  BY DEF LeaseTypes
<1>7. \A d \in Classes : runningClass'[d] = Cardinality(LeasesIn(d)')
  BY <1>1, <1>4 DEF LeaseTypes, CountersMatchLeases
<1>8. \A d \in Classes, v \in AllWorkspaces : runningWS'[d][v] = Cardinality(LeasesFor(d, v)')
  <2>1. TAKE d \in Classes, v \in AllWorkspaces
  <2>2. runningWS[d][v] = Cardinality(LeasesFor(d, v))
    BY DEF CountersMatchLeases
  <2>3. CASE d = c /\ v = w
    <3>1. runningWS'[d][v] = runningWS[d][v] + 1
      BY <2>3 DEF LeaseTypes
    <3> QED
      BY <1>2, <1>4, <2>2, <2>3, <3>1
  <2>4. CASE ~(d = c /\ v = w)
    <3>1. runningWS'[d][v] = runningWS[d][v]
      BY <2>4 DEF LeaseTypes
    <3> QED
      BY <1>2, <2>2, <2>4, <3>1
  <2> QED
    BY <2>3, <2>4
<1> QED
  BY <1>5, <1>6, <1>7, <1>8 DEF CountersMatchLeases

(* Release takes one lease off the same three counters. *)
LEMMA LeaseReturned ==
  ASSUME LeaseTypes, CountersMatchLeases, FinitelyMany,
         NEW c \in Classes, NEW w \in AllWorkspaces, NEW p \in active,
         request[p] = [class |-> c, workspace |-> w], request' = request,
         running' = running - 1,
         runningClass' = [runningClass EXCEPT ![c] = runningClass[c] - 1],
         runningWS' = [runningWS EXCEPT ![c] = [runningWS[c] EXCEPT ![w] = runningWS[c][w] - 1]],
         active' = active \ {p}
  PROVE  /\ LeaseTypes' /\ CountersMatchLeases' /\ IsFiniteSet(active')
         /\ running' < running /\ \A d \in Classes : runningClass'[d] <= runningClass[d]
<1>1. \A d : LeasesIn(d)' = IF d = c THEN LeasesIn(d) \ {p} ELSE LeasesIn(d)
  BY DEF LeasesIn, ClassOf
<1>2. \A d, v : LeasesFor(d, v)' = IF d = c /\ v = w THEN LeasesFor(d, v) \ {p}
                                                    ELSE LeasesFor(d, v)
  BY DEF LeasesFor
<1>3. p \in LeasesIn(c) /\ p \in LeasesFor(c, w)
  BY DEF LeasesIn, LeasesFor, ClassOf
<1>4. /\ Cardinality(LeasesIn(c) \ {p}) = Cardinality(LeasesIn(c)) - 1
      /\ Cardinality(LeasesFor(c, w) \ {p}) = Cardinality(LeasesFor(c, w)) - 1
      /\ IsFiniteSet(LeasesIn(c) \ {p}) /\ IsFiniteSet(LeasesFor(c, w) \ {p})
  BY <1>3, LeasesFinite, FS_RemoveElement
<1>5. /\ Cardinality(LeasesIn(c)) - 1 \in Nat /\ Cardinality(LeasesFor(c, w)) - 1 \in Nat
  BY <1>4, FS_CardinalityType
<1>6. IsFiniteSet(active') /\ running' = Cardinality(active')
  BY FS_RemoveElement DEF FinitelyMany, CountersMatchLeases
<1>7. running' \in Nat
  BY <1>6, FS_CardinalityType
<1>8. /\ runningClass[c] - 1 \in Nat /\ runningWS[c][w] - 1 \in Nat
  BY <1>5 DEF CountersMatchLeases
<1>9. LeaseTypes'
  BY <1>7, <1>8 DEF LeaseTypes
<1>10. \A d \in Classes : runningClass'[d] = Cardinality(LeasesIn(d)')
  BY <1>1, <1>4 DEF LeaseTypes, CountersMatchLeases
<1>11. \A d \in Classes, v \in AllWorkspaces : runningWS'[d][v] = Cardinality(LeasesFor(d, v)')
  <2>1. TAKE d \in Classes, v \in AllWorkspaces
  <2>2. runningWS[d][v] = Cardinality(LeasesFor(d, v))
    BY DEF CountersMatchLeases
  <2>3. CASE d = c /\ v = w
    <3>1. runningWS'[d][v] = runningWS[d][v] - 1
      BY <2>3 DEF LeaseTypes
    <3> QED
      BY <1>2, <1>4, <2>2, <2>3, <3>1
  <2>4. CASE ~(d = c /\ v = w)
    <3>1. runningWS'[d][v] = runningWS[d][v]
      BY <2>4 DEF LeaseTypes
    <3> QED
      BY <1>2, <2>2, <2>4, <3>1
  <2> QED
    BY <2>3, <2>4
<1>12. running' < running /\ \A d \in Classes : runningClass'[d] <= runningClass[d]
  BY DEF LeaseTypes
<1> QED
  BY <1>6, <1>9, <1>10, <1>11, <1>12 DEF CountersMatchLeases

-----------------------------------------------------------------------------
(* The steps                                                               *)

(* What a turn of scheduleLocked does, for the class, the workspace and the  *)
(* waiter it chooses.                                                       *)
Granted(c, w, p) ==
  /\ ~closed /\ running < MaxRunning /\ Eligible(c) /\ ~Free
  /\ Reserved(c) \/ ~\E d \in Classes : Reserved(d)
  /\ state[p] = "waiting" /\ request[p] = [class |-> c, workspace |-> w]
  /\ QueueLoses(c, w, p)
  /\ classCursor' \in Offsets
  /\ running' = running + 1
  /\ runningClass' = [runningClass EXCEPT ![c] = runningClass[c] + 1]
  /\ runningWS' = [runningWS EXCEPT ![c] = [runningWS[c] EXCEPT ![w] = runningWS[c][w] + 1]]
  /\ active' = active \cup {p}
  /\ state' = [state EXCEPT ![p] = "granted"]
  /\ result' = [result EXCEPT ![p] = "lease"]
  /\ UNCHANGED <<request, contexts, pc, closeVars>>

LEMMA GrantGrants ==
  ASSUME AdmissionInv, NEW o \in Offsets, Grant(o)
  PROVE  \E c \in Classes, w \in AllWorkspaces, p \in Callers : Granted(c, w, p)
<1> DEFINE c == ClassAt(o)
           w == NextWorkspace(c)
           p == NextWaiter(c)
<1>0. TypeOK /\ QueuesConsistent /\ CallersAgree
  BY DEF AdmissionInv
<1>1. c \in Classes /\ ClassCursorAfter(o) \in Offsets
  BY <1>0, ClassChoice DEF TypeOK
<1>2. /\ ~Free /\ Schedulable /\ nextClassLocked(o)
      /\ classCursor' = ClassCursorAfter(o) /\ pop(c)
      /\ running' = running + 1
      /\ runningClass' = [runningClass EXCEPT ![c] = @ + 1]
      /\ runningWS' = [runningWS EXCEPT ![c][WorkspaceOf(p)] = @ + 1]
      /\ active' = active \union {p}
      /\ state' = [state EXCEPT ![p] = "granted"]
      /\ result' = [result EXCEPT ![p] = "lease"]
      /\ UNCHANGED <<request, contexts, pc, closeVars>>
  BY DEF Grant
<1>3. Eligible(c) /\ (Reserved(c) \/ ~\E d \in Classes : Reserved(d))
  BY <1>2 DEF nextClassLocked, Reserved
<1> HIDE DEF c
<1>4. queued[c] > 0
  BY <1>3 DEF Eligible
<1>5. /\ w \in AllWorkspaces /\ p \in Callers /\ state[p] = "waiting"
      /\ request[p] = [class |-> c, workspace |-> w]
  BY <1>0, <1>1, <1>4, NextExists
<1>6. QueueLoses(c, w, p)
  BY <1>0, <1>1, <1>2, <1>4, PopLoses
<1>7. WorkspaceOf(p) = w
  BY <1>5 DEF WorkspaceOf
<1> HIDE DEF w, p
<1>8. /\ runningClass' = [runningClass EXCEPT ![c] = runningClass[c] + 1]
      /\ runningWS' = [runningWS EXCEPT ![c] = [runningWS[c] EXCEPT ![w] = runningWS[c][w] + 1]]
  BY <1>0, <1>1, <1>2, <1>5, <1>7 DEF TypeOK
<1>9. ~closed /\ running < MaxRunning
  BY <1>2 DEF Schedulable
<1>10. Granted(c, w, p)
  BY <1>1, <1>2, <1>3, <1>5, <1>6, <1>8, <1>9 DEF Granted
<1> QED
  BY <1>1, <1>5, <1>10

CallerTypes ==
  /\ closed \in BOOLEAN
  /\ toNotify \subseteq Callers /\ toCancel \subseteq Callers
  /\ classCursor \in Offsets
  /\ request \in [Callers -> Requests \union {NoRequest}]
  /\ state \in [Callers -> {"none", "waiting", "granted", "rejected"}]
  /\ result \in [Callers -> {"empty", "lease", "shutdown"}]
  /\ parentDone \in [Callers -> BOOLEAN] /\ leaseDone \in [Callers -> BOOLEAN]
  /\ pc \in [Callers -> PCs]

LEMMA TypeParts == TypeOK <=> CallerTypes /\ LeaseTypes /\ QueueTypes
BY DEF TypeOK, CallerTypes, LeaseTypes, QueueTypes

LEMMA TypePartsNext == TypeOK' <=> CallerTypes' /\ LeaseTypes' /\ QueueTypes'
BY DEF TypeOK, CallerTypes, LeaseTypes, QueueTypes

(* The step is caller p's. *)
OthersUnchanged(p) ==
  /\ closed' = closed
  /\ \A q \in Callers : q # p =>
       /\ pc'[q] = pc[q] /\ state'[q] = state[q] /\ result'[q] = result[q]
       /\ request'[q] = request[q] /\ leaseDone'[q] = leaseDone[q]
       /\ q \in active' <=> q \in active
       /\ q \in toNotify' <=> q \in toNotify
       /\ q \in toCancel' <=> q \in toCancel

LEMMA OthersAgree ==
  ASSUME CallersAgree, NEW p \in Callers, OthersUnchanged(p), CallerAgrees(p)'
  PROVE  CallersAgree'
<1> SUFFICES ASSUME NEW q \in Callers, q # p PROVE CallerAgrees(q)'
  BY DEF CallersAgree
<1>1. CallerAgrees(q)
  BY DEF CallersAgree
<1> QED
  BY <1>1 DEF OthersUnchanged, CallerAgrees

(* Each step of a caller leaves its own waiter, lease and context in order. *)
LEMMA CallerSteps ==
  ASSUME AdmissionInv, NEW p \in Callers, Caller(p)
  PROVE  CallerTypes' /\ OthersUnchanged(p) /\ CallerAgrees(p)'
<1>0. CallerTypes /\ LeaseTypes /\ CallerAgrees(p) /\ OneInLock /\ CloseProgresses
  BY TypeParts DEF AdmissionInv, CallersAgree
<1>1. CASE \E c \in Classes, w \in Workspaces : Acquire(p, c, w)
  <2>0. PICK c \in Classes, w \in Workspaces : Acquire(p, c, w)
    BY <1>1
  <2> DEFINE ws == IF c \in NodeClasses THEN NodeWorkspace ELSE w
  <2>1. ws \in AllWorkspaces
    BY DEF AllWorkspaces
  <2> HIDE DEF ws
  <2>2. [class |-> c, workspace |-> ws] \in Requests
    BY <2>1 DEF Requests
  <2>3. /\ pc[p] = "idle" /\ ~closed
        /\ request' = [request EXCEPT ![p] = [class |-> c, workspace |-> ws]]
        /\ state' = [state EXCEPT ![p] = "waiting"]
        /\ pc' = [pc EXCEPT ![p] = "acquire"]
        /\ UNCHANGED <<counters, classCursor, result, contexts, closeVars>>
    BY <2>0 DEF Acquire, ws
  <2> QED
    BY <1>0, <2>2, <2>3 DEF CallerTypes, OthersUnchanged, CallerAgrees, Deciding, PCs, InLock,
                            counters, contexts, closeVars
<1>2. CASE AcquireShutdown(p)
  <2>1. UNCHANGED vars
    BY <1>2 DEF AcquireShutdown
  <2> QED
    BY <1>0, <2>1 DEF CallerTypes, OthersUnchanged, CallerAgrees, vars, counters, queueVars,
                      waiterVars, contexts, closeVars
<1>3. CASE AcquireGranted(p)
  BY <1>0, <1>3 DEF CallerTypes, OthersUnchanged, CallerAgrees, Deciding, PCs, AcquireGranted, Admits,
                    counters, closeVars
<1>4. CASE AcquireRejected(p)
  BY <1>0, <1>4 DEF CallerTypes, OthersUnchanged, CallerAgrees, Deciding, PCs, AcquireRejected, Fails,
                    counters, closeVars
<1>5. CASE AcquireWaits(p)
  BY <1>0, <1>5 DEF CallerTypes, OthersUnchanged, CallerAgrees, Deciding, PCs, AcquireWaits,
                    counters, closeVars, waiterVars, contexts
<1>6. CASE ReceiveResult(p)
  <2>1. /\ pc[p] = "select"
        /\ \/ result[p] = "shutdown" /\ Fails(p)
           \/ result[p] = "lease" /\ Admits(p)
           \/ /\ result[p] = "lease"
              /\ result' = [result EXCEPT ![p] = "empty"]
              /\ pc' = [pc EXCEPT ![p] = "dropping"]
              /\ UNCHANGED <<request, state, parentDone>>
        /\ UNCHANGED <<leaseDone, active, classCursor, closed, toNotify, toCancel>>
    BY <1>0, <1>6 DEF CallerTypes, ReceiveResult, counters, closeVars
  <2>2. CASE result[p] = "shutdown" /\ Fails(p)
    BY <1>0, <2>1, <2>2 DEF CallerTypes, OthersUnchanged, CallerAgrees, Deciding, PCs, Fails
  <2>3. CASE result[p] = "lease" /\ Admits(p)
    BY <1>0, <2>1, <2>3 DEF CallerTypes, OthersUnchanged, CallerAgrees, Deciding, PCs, Admits
  <2>4. CASE /\ result[p] = "lease"
             /\ result' = [result EXCEPT ![p] = "empty"]
             /\ pc' = [pc EXCEPT ![p] = "dropping"]
             /\ UNCHANGED <<request, state, parentDone>>
    BY <1>0, <2>1, <2>4 DEF CallerTypes, OthersUnchanged, CallerAgrees, Deciding, PCs
  <2> QED
    BY <2>1, <2>2, <2>3, <2>4
<1>7. CASE SelectCtxDone(p)
  BY <1>0, <1>7 DEF CallerTypes, OthersUnchanged, CallerAgrees, Deciding, PCs, SelectCtxDone,
                    counters, closeVars, waiterVars, contexts
<1>8. CASE SelectTimeout(p)
  BY <1>0, <1>8 DEF CallerTypes, OthersUnchanged, CallerAgrees, Deciding, PCs, SelectTimeout,
                    counters, closeVars, waiterVars, contexts
<1>9. CASE CancelWaiter(p)
  BY <1>0, <1>9 DEF CallerTypes, OthersUnchanged, CallerAgrees, Deciding, PCs, InLock, CancelWaiter,
                    counters, closeVars, contexts
<1>10. CASE CancelLost(p)
  BY <1>0, <1>10, ZenonT(60) DEF CallerTypes, OthersUnchanged, CallerAgrees, Deciding, PCs, CancelLost, Fails,
                     Admits, counters, closeVars
<1>11. CASE LeaveLock(p)
  BY <1>0, <1>11 DEF CallerTypes, OthersUnchanged, CallerAgrees, Deciding, PCs, LeaveLock, Fails,
                     counters, closeVars
<1>12. CASE Release(p)
  BY <1>0, <1>12 DEF CallerTypes, OthersUnchanged, CallerAgrees, Deciding, PCs, InLock, Release,
                     closeVars, waiterVars
<1>13. CASE ExecutionDeadline(p)
  BY <1>0, <1>13 DEF CallerTypes, OthersUnchanged, CallerAgrees, ExecutionDeadline,
                     counters, closeVars, waiterVars
<1>14. CASE ParentDone(p)
  BY <1>0, <1>14 DEF CallerTypes, OthersUnchanged, CallerAgrees, ParentDone,
                     counters, closeVars, waiterVars
<1>15. CASE CloseCancels(p)
  BY <1>0, <1>15 DEF CallerTypes, OthersUnchanged, CallerAgrees, CloseCancels,
                     counters, waiterVars
<1>16. CASE CloseNotifies(p)
  <2>1. closed /\ pc[p] \notin {"acquire", "cancel"}
    BY <1>0, <1>16 DEF CloseNotifies, CloseProgresses, OneInLock
  <2> QED
    BY <1>0, <1>16, <2>1 DEF CallerTypes, OthersUnchanged, CallerAgrees, Deciding, CloseNotifies,
                             counters, contexts
<1>17. \/ \E c \in Classes, w \in Workspaces : Acquire(p, c, w)
       \/ AcquireShutdown(p) \/ AcquireGranted(p) \/ AcquireRejected(p) \/ AcquireWaits(p)
       \/ ReceiveResult(p) \/ SelectCtxDone(p) \/ SelectTimeout(p)
       \/ CancelWaiter(p) \/ CancelLost(p) \/ LeaveLock(p)
       \/ Release(p) \/ ExecutionDeadline(p) \/ ParentDone(p)
       \/ CloseCancels(p) \/ CloseNotifies(p)
  BY DEF Caller
<1> QED
  BY <1>1, <1>2, <1>3, <1>4, <1>5, <1>6, <1>7, <1>8, <1>9, <1>10, <1>11, <1>12, <1>13,
     <1>14, <1>15, <1>16, <1>17

(* No step of a caller undoes what Close has done so far. *)
LEMMA CloseKeepsProgress ==
  ASSUME AdmissionInv, NEW p \in Callers, Caller(p)
  PROVE  CloseProgresses'
<1>0. CallerTypes /\ LeaseTypes /\ CloseProgresses
  BY TypeParts DEF AdmissionInv
<1>1. OthersUnchanged(p)
  BY CallerSteps
<1>2. toNotify' \subseteq toNotify /\ toCancel' \subseteq toCancel
  BY DEF Caller, Acquire, AcquireShutdown, AcquireGranted, AcquireRejected, AcquireWaits, ReceiveResult,
         SelectCtxDone, SelectTimeout, CancelWaiter, CancelLost, LeaveLock, Release, ExecutionDeadline,
         ParentDone, CloseCancels, CloseNotifies, closeVars, vars
<1>3. \/ active' = active /\ toCancel' = toCancel /\ leaseDone'[p] = leaseDone[p]
      \/ p \notin active'
      \/ leaseDone'[p] = TRUE
      \/ leaseDone'[p] = (p \in active) /\ active' = active
  BY <1>0 DEF Caller, Acquire, AcquireShutdown, AcquireGranted, AcquireRejected, AcquireWaits, ReceiveResult,
         SelectCtxDone, SelectTimeout, CancelWaiter, CancelLost, LeaveLock, Release, ExecutionDeadline,
         ParentDone, CloseCancels, CloseNotifies, closeVars, contexts, counters, vars, CallerTypes
<1>4. closed => (p \in active' \ toCancel' => leaseDone'[p])
  BY <1>0, <1>3 DEF CloseProgresses, CallerTypes
<1>5. ASSUME NEW q \in Callers, q # p, closed, q \in active' \ toCancel' PROVE leaseDone'[q]
  BY <1>0, <1>1, <1>5 DEF OthersUnchanged, CloseProgresses
<1>6. active' \subseteq Callers
  BY <1>0 DEF Caller, Acquire, AcquireShutdown, AcquireGranted, AcquireRejected, AcquireWaits, ReceiveResult,
         SelectCtxDone, SelectTimeout, CancelWaiter, CancelLost, LeaveLock, Release, ExecutionDeadline,
         ParentDone, CloseCancels, CloseNotifies, counters, vars, LeaseTypes
<1> QED
  BY <1>0, <1>1, <1>2, <1>4, <1>5, <1>6 DEF CloseProgresses, OthersUnchanged

(* The steps of a caller that neither enqueue nor dequeue nor release. *)
Quiet(p) ==
  /\ UNCHANGED <<queueVars, counters>>
  /\ state'[p] = "waiting" <=> state[p] = "waiting"
  /\ state[p] = "waiting" \/ p \in active => request'[p] = request[p]
  /\ ~Entering(p) /\ ~Entering(p)'
  /\ pc'[p] \in InLock => pc'[p] = pc[p]
  /\ pc[p] \in InLock /\ pc'[p] \notin InLock => ~Schedulable

LEMMA QuietSteps ==
  ASSUME AdmissionInv, NEW p \in Callers, Caller(p)
  PROVE  \/ \E c \in Classes, w \in Workspaces : Acquire(p, c, w)
         \/ AcquireRejected(p) \/ AcquireWaits(p) \/ CancelWaiter(p) \/ Release(p)
         \/ Entering(p) /\ UNCHANGED <<queueVars, counters, state, request, pc>>
         \/ Quiet(p)
<1>0. CallerTypes /\ CallerAgrees(p)
  BY TypeParts DEF AdmissionInv, CallersAgree
<1>1. CASE AcquireShutdown(p)
  <2>1. UNCHANGED <<queueVars, counters, state, request, pc>>
    BY <1>1 DEF AcquireShutdown, vars, waiterVars, counters, queueVars
  <2> QED
    BY <2>1 DEF Quiet, Entering
<1>2. CASE AcquireGranted(p)
  BY <1>0, <1>2 DEF CallerTypes, AcquireGranted, Admits, Quiet, Entering, InLock
<1>3. CASE ReceiveResult(p)
  BY <1>0, <1>3, ZenonT(60) DEF CallerTypes, CallerAgrees, Deciding, ReceiveResult, Admits, Fails, Quiet, Entering, InLock
<1>4. CASE SelectCtxDone(p)
  BY <1>0, <1>4 DEF CallerTypes, SelectCtxDone, Quiet, Entering, InLock, waiterVars
<1>5. CASE SelectTimeout(p)
  BY <1>0, <1>5 DEF CallerTypes, SelectTimeout, Quiet, Entering, InLock, waiterVars
<1>6. CASE CancelLost(p)
  BY <1>0, <1>6 DEF CallerTypes, CallerAgrees, Deciding, CancelLost, Admits, Fails, Quiet, Entering, InLock
<1>7. CASE LeaveLock(p)
  BY <1>0, <1>7 DEF CallerTypes, CallerAgrees, Deciding, LeaveLock, Fails, Quiet, Entering, InLock
<1>8. CASE ExecutionDeadline(p)
  BY <1>0, <1>8 DEF CallerTypes, ExecutionDeadline, Quiet, Entering, InLock, waiterVars
<1>9. CASE ParentDone(p)
  BY <1>0, <1>9 DEF CallerTypes, ParentDone, Quiet, Entering, InLock, waiterVars
<1>10. CASE CloseCancels(p)
  <2>1. UNCHANGED <<queueVars, counters, state, request, pc>>
    BY <1>10 DEF CloseCancels, waiterVars
  <2> QED
    BY <2>1 DEF Quiet, Entering
<1>11. CASE CloseNotifies(p)
  <2>1. UNCHANGED <<queueVars, counters, state, request, pc>>
    BY <1>11 DEF CloseNotifies
  <2> QED
    BY <2>1 DEF Quiet, Entering
<1> QED
  BY <1>1, <1>2, <1>3, <1>4, <1>5, <1>6, <1>7, <1>8, <1>9, <1>10, <1>11 DEF Caller

-----------------------------------------------------------------------------
(* The limits of the queues                                                *)

LEMMA Limits ==
  /\ MaxRunning \in Nat /\ MaximumQueued \in Nat
  /\ ReservedRunning \in [Classes -> Nat] /\ MaximumRunning \in [Classes -> Nat]
  /\ ClassMaximumQueued \in [Classes -> Nat] /\ MaximumQueuedPerWorkspace \in [Classes -> Nat]
BY ConfigAssumption DEF ValidConfig

(* Queues that are no longer than before keep the limits. *)
LEMMA BoundsFollow ==
  ASSUME SettledBounded,
         \A c \in Classes : /\ Settled(c) \in Int /\ Settled(c)' \in Int
                            /\ Settled(c)' <= Settled(c)
                            /\ \A w \in AllWorkspaces :
                                 /\ SettledAt(c, w) \in Int /\ SettledAt(c, w)' \in Int
                                 /\ SettledAt(c, w)' <= SettledAt(c, w)
  PROVE  SettledBounded'
<1> DEFINE f == [c \in Classes |-> Settled(c)]
           g == [c \in Classes |-> Settled(c)']
<1>1. f \in [Classes -> Int] /\ g \in [Classes -> Int] /\ \A c \in Classes : g[c] <= f[c]
  OBVIOUS
<1>2. Total(f) <= MaximumQueued
  BY DEF SettledBounded
<1> HIDE DEF f, g
<1>3. Total(g) \in Int /\ Total(f) \in Int /\ Total(g) <= Total(f)
  BY <1>1, TotalMonotone
<1>4. Total(g) <= MaximumQueued
  BY <1>2, <1>3, Limits
<1>5. Total([c \in Classes |-> Settled(c)']) <= MaximumQueued
  BY <1>4 DEF g
<1>6. ASSUME NEW c \in Classes
      PROVE  /\ Settled(c)' <= ClassMaximumQueued[c]
             /\ \A w \in AllWorkspaces : SettledAt(c, w)' <= MaximumQueuedPerWorkspace[c]
  <2>1. /\ Settled(c) <= ClassMaximumQueued[c]
        /\ \A w \in AllWorkspaces : SettledAt(c, w) <= MaximumQueuedPerWorkspace[c]
    BY DEF SettledBounded
  <2>2. ClassMaximumQueued[c] \in Int /\ MaximumQueuedPerWorkspace[c] \in Int
    BY Limits
  <2> QED
    BY <2>1, <2>2
<1> QED
  BY <1>5, <1>6 DEF SettledBounded

LEMMA SettledTypes ==
  ASSUME QueueTypes
  PROVE  \A c \in Classes : /\ Settled(c) \in Int
                            /\ \A w \in AllWorkspaces : SettledAt(c, w) \in Int
<1> SUFFICES ASSUME NEW c \in Classes
             PROVE  Settled(c) \in Int /\ \A w \in AllWorkspaces : SettledAt(c, w) \in Int
  OBVIOUS
<1>1. queued[c] \in Nat /\ \A w \in AllWorkspaces : Len(queues[c][w]) \in Nat
  BY DEF QueueTypes
<1> QED
  BY <1>1 DEF Settled, SettledAt

LEMMA SettledTypesNext ==
  ASSUME QueueTypes'
  PROVE  \A c \in Classes : /\ Settled(c)' \in Int
                            /\ \A w \in AllWorkspaces : SettledAt(c, w)' \in Int
<1> SUFFICES ASSUME NEW c \in Classes
             PROVE  Settled(c)' \in Int /\ \A w \in AllWorkspaces : SettledAt(c, w)' \in Int
  OBVIOUS
<1>1. queued'[c] \in Nat /\ \A w \in AllWorkspaces : Len(queues'[c][w]) \in Nat
  BY DEF QueueTypes
<1> QED
  BY <1>1 DEF Settled, SettledAt

(* Nobody is entering: the queues are settled. *)
LEMMA NobodyEnters ==
  ASSUME \A p \in Callers : ~Entering(p)
  PROVE  \A c, w : Settled(c) = queued[c] /\ SettledAt(c, w) = Len(queues[c][w])
BY DEF Settled, SettledAt

LEMMA NobodyEntersNext ==
  ASSUME \A p \in Callers : ~Entering(p)'
  PROVE  \A c, w : Settled(c)' = queued'[c] /\ SettledAt(c, w)' = Len(queues'[c][w])
BY DEF Settled, SettledAt

(* p alone is entering: its class and its workspace have one waiter more. *)
LEMMA OneEnters ==
  ASSUME NEW p \in Callers, Entering(p), \A q \in Callers : Entering(q) => q = p,
         NEW d, NEW v, request[p] = [class |-> d, workspace |-> v]
  PROVE  \A c, w : /\ Settled(c) = IF c = d THEN queued[c] - 1 ELSE queued[c]
                   /\ SettledAt(c, w) = IF c = d /\ w = v THEN Len(queues[c][w]) - 1
                                                         ELSE Len(queues[c][w])
<1>1. \A c : (\E q \in Callers : Entering(q) /\ ClassOf(q) = c) <=> c = d
  BY DEF ClassOf
<1>2. \A c, w : (\E q \in Callers : Entering(q) /\ request[q] = [class |-> c, workspace |-> w])
                <=> c = d /\ w = v
  OBVIOUS
<1> QED
  BY <1>1, <1>2 DEF Settled, SettledAt

LEMMA OneEntersNext ==
  ASSUME NEW p \in Callers, Entering(p)', \A q \in Callers : Entering(q)' => q = p,
         NEW d, NEW v, request'[p] = [class |-> d, workspace |-> v]
  PROVE  \A c, w : /\ Settled(c)' = IF c = d THEN queued'[c] - 1 ELSE queued'[c]
                   /\ SettledAt(c, w)' = IF c = d /\ w = v THEN Len(queues'[c][w]) - 1
                                                          ELSE Len(queues'[c][w])
<1>1. \A c : (\E q \in Callers : Entering(q)' /\ ClassOf(q)' = c) <=> c = d
  BY DEF ClassOf
<1>2. \A c, w : (\E q \in Callers : Entering(q)' /\ request'[q] = [class |-> c, workspace |-> w])
                <=> c = d /\ w = v
  OBVIOUS
<1> QED
  BY <1>1, <1>2 DEF Settled, SettledAt

(* What a dequeue does to the lengths. *)
LEMMA LosesLengths ==
  ASSUME QueueTypes, NEW c \in Classes, NEW w \in AllWorkspaces, NEW p, QueueLoses(c, w, p)
  PROVE  /\ \A d \in Classes : queued'[d] = IF d = c THEN queued[d] - 1 ELSE queued[d]
         /\ \A d \in Classes, v \in AllWorkspaces :
              Len(queues'[d][v]) = IF d = c /\ v = w THEN Len(queues[d][v]) - 1
                                                    ELSE Len(queues[d][v])
<1>1. PICK q \in Seq(Callers) :
    /\ queues' = [queues EXCEPT ![c] = [queues[c] EXCEPT ![w] = q]]
    /\ queued' = [queued EXCEPT ![c] = queued[c] - 1]
    /\ Len(q) = Len(queues[c][w]) - 1
  BY DEF QueueLoses
<1>2. \A d \in Classes, v \in AllWorkspaces :
         queues'[d][v] = IF d = c /\ v = w THEN q ELSE queues[d][v]
  BY <1>1 DEF QueueTypes
<1> QED
  BY <1>1, <1>2 DEF QueueTypes

-----------------------------------------------------------------------------
(* The steps keep the invariant                                            *)

(* The parts of the invariant that are about the controller's own state. *)
ControllerInv ==
  /\ QueueTypes /\ QueuesConsistent /\ LeaseTypes /\ CountersMatchLeases /\ FinitelyMany
  /\ SettledBounded /\ OneInLock /\ WithinLimits /\ WorkConserving

LEMMA Parts ==
  AdmissionInv <=> CallerTypes /\ CallersAgree /\ CloseProgresses /\ ControllerInv
BY TypeParts DEF AdmissionInv, ControllerInv

LEMMA PartsNext ==
  AdmissionInv' <=> CallerTypes' /\ CallersAgree' /\ CloseProgresses' /\ ControllerInv'
BY TypePartsNext DEF AdmissionInv, ControllerInv

LEMMA LockFacts ==
  ASSUME OneInLock
  PROVE  /\ Free => \A q \in Callers : ~Entering(q)
         /\ \A p, q \in Callers : pc[p] \in InLock /\ Entering(q) => q = p
BY DEF OneInLock, Free, Entering, InLock

(* A step that leaves the lock where it was, or takes or gives it back. *)
LEMMA LockPasses ==
  ASSUME OneInLock, NEW p \in Callers, closed' = closed,
         \A q \in Callers : q # p => pc'[q] = pc[q],
         pc'[p] \in InLock => pc[p] \in InLock \/ Free,
         pc'[p] \in {"acquire", "cancel"} => pc'[p] = pc[p] \/ ~closed
  PROVE  OneInLock'
<1>1. \A q \in Callers : pc'[p] \in InLock /\ q # p => pc'[q] \notin InLock
  BY DEF OneInLock, Free
<1> QED
  BY <1>1 DEF OneInLock

LEMMA QuietKeeps ==
  ASSUME AdmissionInv, NEW p \in Callers, OthersUnchanged(p), Quiet(p)
  PROVE  ControllerInv'
<1>0. TypeOK /\ ControllerInv /\ CallersAgree
  BY Parts DEF AdmissionInv
<1>1. QueueTypes' /\ QueuesConsistent' /\ IsFiniteSet(Waiting')
  BY <1>0, QueuesUnchanged DEF ControllerInv, Quiet, OthersUnchanged
<1>2. LeaseTypes' /\ CountersMatchLeases' /\ IsFiniteSet(active')
  <2>1. active \subseteq Callers
    BY <1>0 DEF ControllerInv, LeaseTypes
  <2> QED
    BY <1>0, <2>1, LeasesUnchanged DEF ControllerInv, Quiet, OthersUnchanged
<1>3. OneInLock'
  BY <1>0, LockPasses DEF ControllerInv, Quiet, OthersUnchanged, InLock
<1>4. UNCHANGED <<queues, queued, running, runningClass>>
  BY DEF Quiet, queueVars, counters
<1>5. WithinLimits'
  BY <1>0, <1>4 DEF ControllerInv, WithinLimits
<1>6. WorkConserving'
  <2>1. Schedulable' <=> Schedulable
    BY <1>4 DEF Schedulable, Eligible, OthersUnchanged
  <2>2. ASSUME Free' PROVE Free \/ ~Schedulable
    BY <2>2 DEF Free, Quiet, OthersUnchanged
  <2> QED
    BY <1>0, <2>1, <2>2 DEF WorkConserving, ControllerInv
<1>7. SettledBounded'
  <2>1. \A q \in Callers : /\ Entering(q)' <=> Entering(q)
                           /\ Entering(q) => request'[q] = request[q]
    BY DEF Quiet, OthersUnchanged, Entering
  <2>2. \A c, w : Settled(c)' = Settled(c) /\ SettledAt(c, w)' = SettledAt(c, w)
    BY <1>4, <2>1 DEF Settled, SettledAt, ClassOf
  <2>3. QueueTypes /\ SettledBounded
    BY <1>0 DEF ControllerInv
  <2> QED
    BY <2>2, <2>3, BoundsFollow, SettledTypes
<1> QED
  BY <1>1, <1>2, <1>3, <1>5, <1>6, <1>7 DEF ControllerInv, FinitelyMany

(* A new waiter keeps the lock until it has been scheduled and tested. *)
LEMMA AcquireKeeps ==
  ASSUME AdmissionInv, NEW p \in Callers, NEW c \in Classes, NEW w \in Workspaces, Acquire(p, c, w)
  PROVE  ControllerInv'
<1>0. TypeOK /\ ControllerInv /\ CallerTypes /\ CallerAgrees(p)
  BY Parts DEF AdmissionInv, CallersAgree
<1> DEFINE ws == IF c \in NodeClasses THEN NodeWorkspace ELSE w
<1>1. /\ pc[p] = "idle" /\ Free /\ ~closed
      /\ request' = [request EXCEPT ![p] = [class |-> c, workspace |-> ws]]
      /\ state' = [state EXCEPT ![p] = "waiting"]
      /\ enqueue(p, c, ws)
      /\ pc' = [pc EXCEPT ![p] = "acquire"]
      /\ UNCHANGED <<counters, closeVars>>
  BY DEF Acquire
<1>2. ws \in AllWorkspaces
  BY DEF AllWorkspaces
<1> HIDE DEF ws
<1>3. state[p] = "none" /\ p \notin active
  BY <1>0, <1>1 DEF CallerAgrees, Deciding
<1>4. /\ state'[p] = "waiting" /\ request'[p] = [class |-> c, workspace |-> ws] /\ pc'[p] = "acquire"
      /\ \A q \in Callers : q # p => state'[q] = state[q] /\ request'[q] = request[q] /\ pc'[q] = pc[q]
  BY <1>0, <1>1 DEF CallerTypes
<1>5. QueueTypes' /\ QueuesConsistent' /\ IsFiniteSet(Waiting')
  BY <1>0, <1>1, <1>2, <1>3, <1>4, EnqueueKeepsQueues DEF ControllerInv
<1>6. LeaseTypes' /\ CountersMatchLeases' /\ IsFiniteSet(active')
  <2>1. \A q \in active : request'[q] = request[q]
    BY <1>0, <1>3, <1>4 DEF ControllerInv, LeaseTypes
  <2> QED
    BY <1>0, <1>1, <2>1, LeasesUnchanged DEF ControllerInv
<1>7. OneInLock'
  <2>1. closed' = closed
    BY <1>1 DEF closeVars
  <2> QED
    BY <1>0, <1>1, <1>4, <2>1, LockPasses DEF ControllerInv
<1>8. WithinLimits'
  BY <1>0, <1>1 DEF ControllerInv, WithinLimits, counters
<1>9. WorkConserving'
  BY <1>4 DEF WorkConserving, Free, InLock
<1>10. SettledBounded'
  <2>1. \A q \in Callers : ~Entering(q)
    BY <1>0, <1>1, LockFacts DEF ControllerInv
  <2>2. Entering(p)' /\ \A q \in Callers : Entering(q)' => q = p
    BY <1>4, <2>1 DEF Entering
  <2>3. \A d, v : /\ Settled(d)' = IF d = c THEN queued'[d] - 1 ELSE queued'[d]
                  /\ SettledAt(d, v)' = IF d = c /\ v = ws THEN Len(queues'[d][v]) - 1
                                                          ELSE Len(queues'[d][v])
    <3>1. request'[p] = [class |-> c, workspace |-> ws]
      BY <1>4
    <3> QED
      BY <2>2, <3>1, OneEntersNext, SMTT(60)
  <2>4. \A d, v : Settled(d) = queued[d] /\ SettledAt(d, v) = Len(queues[d][v])
    BY <2>1, NobodyEnters
  <2>5. /\ queues' = [queues EXCEPT ![c] = [queues[c] EXCEPT ![ws] = Append(queues[c][ws], p)]]
        /\ queued' = [queued EXCEPT ![c] = queued[c] + 1]
        /\ QueueTypes
    BY <1>0, <1>1 DEF enqueue, ControllerInv, QueueTypes
  <2>6. \A d \in Classes : queued[d] \in Nat /\ queued'[d] = IF d = c THEN queued[d] + 1 ELSE queued[d]
    BY <2>5 DEF QueueTypes
  <2>7. Len(Append(queues[c][ws], p)) = Len(queues[c][ws]) + 1
    BY <1>2, <2>5 DEF QueueTypes
  <2>8. \A d \in Classes, v \in AllWorkspaces :
           /\ Len(queues[d][v]) \in Nat
           /\ Len(queues'[d][v]) = IF d = c /\ v = ws THEN Len(queues[d][v]) + 1 ELSE Len(queues[d][v])
    BY <1>2, <2>5, <2>7 DEF QueueTypes
  <2>9. \A d \in Classes : /\ Settled(d) \in Int /\ Settled(d)' \in Int /\ Settled(d)' <= Settled(d)
                           /\ \A v \in AllWorkspaces :
                                /\ SettledAt(d, v) \in Int /\ SettledAt(d, v)' \in Int
                                /\ SettledAt(d, v)' <= SettledAt(d, v)
    BY <2>3, <2>4, <2>6, <2>8
  <2> QED
    BY <1>0, <2>9, BoundsFollow DEF ControllerInv
<1> QED
  BY <1>5, <1>6, <1>7, <1>8, <1>9, <1>10 DEF ControllerInv, FinitelyMany

(* A waiter within the limits goes to its select and the queues are settled. *)
LEMMA WaitsKeeps ==
  ASSUME AdmissionInv, NEW p \in Callers, AcquireWaits(p)
  PROVE  ControllerInv'
<1>0. TypeOK /\ ControllerInv /\ CallerTypes /\ CallerAgrees(p)
  BY Parts DEF AdmissionInv, CallersAgree
<1>1. /\ pc[p] = "acquire" /\ ~Schedulable /\ state[p] = "waiting" /\ ~OverLimit(p)
      /\ pc' = [pc EXCEPT ![p] = "select"]
      /\ UNCHANGED <<counters, queueVars, request, state, closed>>
  BY DEF AcquireWaits, waiterVars, closeVars
<1>2. pc'[p] = "select" /\ \A q \in Callers : q # p => pc'[q] = pc[q]
  BY <1>0, <1>1 DEF CallerTypes
<1>3. QueueTypes' /\ QueuesConsistent' /\ IsFiniteSet(Waiting')
  BY <1>0, <1>1, QueuesUnchanged DEF ControllerInv
<1>4. LeaseTypes' /\ CountersMatchLeases' /\ IsFiniteSet(active')
  BY <1>0, <1>1, LeasesUnchanged DEF ControllerInv
<1>5. OneInLock'
  BY <1>0, <1>1, <1>2, LockPasses DEF ControllerInv, InLock
<1>6. WithinLimits'
  BY <1>0, <1>1 DEF ControllerInv, WithinLimits, counters
<1>7. WorkConserving'
  BY <1>1 DEF WorkConserving, Schedulable, Eligible, counters, queueVars
<1>8. SettledBounded'
  <2>1. \A q \in Callers : Entering(q) => q = p
    BY <1>0, <1>1, LockFacts DEF ControllerInv, InLock
  <2>2. \A q \in Callers : ~Entering(q)'
    BY <1>1, <1>2, <2>1 DEF Entering
  <2>3. \A c, w : Settled(c)' = queued'[c] /\ SettledAt(c, w)' = Len(queues'[c][w])
    BY <2>2, NobodyEntersNext
  <2>4. queued' = queued /\ queues' = queues
    BY <1>1 DEF queueVars
  <2>5. queued \in [Classes -> Nat] /\ \A c \in Classes, w \in AllWorkspaces : Len(queues[c][w]) \in Nat
    BY <1>0 DEF ControllerInv, QueueTypes
  <2>6. request[p] \in Requests
    BY <1>0, <1>1 DEF CallerAgrees, Deciding
  <2>7. PICK d \in Classes, v \in AllWorkspaces : request[p] = [class |-> d, workspace |-> v]
    BY <2>6 DEF Requests
  <2>8. ClassOf(p) = d /\ WorkspaceOf(p) = v
    BY <2>7 DEF ClassOf, WorkspaceOf
  <2>9. Entering(p)
    BY <1>1 DEF Entering
  <2>10. \A c, w : /\ Settled(c) = IF c = d THEN queued[c] - 1 ELSE queued[c]
                   /\ SettledAt(c, w) = IF c = d /\ w = v THEN Len(queues[c][w]) - 1
                                                         ELSE Len(queues[c][w])
    BY <2>1, <2>7, <2>9, OneEnters
  <2>11. TotalQueued \in Int /\ TotalQueued = Total(queued)
    BY <2>5, TotalMonotone, TotalQueuedIsTotal
  <2>12. /\ TotalQueued <= MaximumQueued
         /\ queued[d] <= ClassMaximumQueued[d]
         /\ Len(queues[d][v]) <= MaximumQueuedPerWorkspace[d]
    BY <1>1, <2>5, <2>8, <2>11, Limits DEF OverLimit
  <2>13. [c \in Classes |-> Settled(c)'] = queued
    BY <2>3, <2>4, <2>5
  <2>14. Total([c \in Classes |-> Settled(c)']) <= MaximumQueued
    BY <2>11, <2>12, <2>13
  <2>15. ASSUME NEW c \in Classes
         PROVE  /\ Settled(c)' <= ClassMaximumQueued[c]
                /\ \A w \in AllWorkspaces : SettledAt(c, w)' <= MaximumQueuedPerWorkspace[c]
    <3>1. /\ Settled(c) <= ClassMaximumQueued[c]
          /\ \A w \in AllWorkspaces : SettledAt(c, w) <= MaximumQueuedPerWorkspace[c]
      BY <1>0 DEF ControllerInv, SettledBounded
    <3> QED
      BY <2>3, <2>4, <2>10, <2>12, <3>1
  <2> QED
    BY <2>14, <2>15 DEF SettledBounded
<1> QED
  BY <1>3, <1>4, <1>5, <1>6, <1>7, <1>8 DEF ControllerInv, FinitelyMany

(* A waiter leaves its queue: too many when it came in, or given up later. *)
LEMMA RemovalKeeps ==
  ASSUME AdmissionInv, NEW p \in Callers, AcquireRejected(p) \/ CancelWaiter(p)
  PROVE  ControllerInv'
<1>0. /\ TypeOK /\ ControllerInv /\ CallerTypes /\ CallersAgree /\ CallerAgrees(p)
      /\ QueueTypes /\ QueuesConsistent /\ FinitelyMany
  BY Parts DEF AdmissionInv, CallersAgree, ControllerInv
<1>1. /\ state[p] = "waiting" /\ remove(p)
      /\ \/ pc[p] = "acquire" /\ ~Schedulable /\ pc'[p] = "idle" /\ state'[p] = "none"
         \/ Free /\ pc'[p] = "cancel" /\ state'[p] = "rejected"
      /\ \A q \in Callers : q # p => pc'[q] = pc[q] /\ state'[q] = state[q] /\ request'[q] = request[q]
      /\ UNCHANGED <<counters, closed>>
  BY <1>0 DEF AcquireRejected, CancelWaiter, Fails, CallerTypes, closeVars
<1> DEFINE c == ClassOf(p)
           w == WorkspaceOf(p)
<1>2. /\ c \in Classes /\ w \in AllWorkspaces
      /\ request[p] = [class |-> c, workspace |-> w]
      /\ QueueLoses(c, w, p)
  BY <1>0, <1>1, RemoveLoses
<1> HIDE DEF c, w
<1>3. QueueTypes' /\ QueuesConsistent' /\ IsFiniteSet(Waiting')
  <2>1. state'[p] # "waiting"
    BY <1>1
  <2> QED
    BY <1>0, <1>1, <1>2, <2>1, LosesKeepsQueues
<1>4. ~closed /\ p \notin active
  BY <1>0, <1>1 DEF CallerAgrees, Deciding
<1>5. LeaseTypes' /\ CountersMatchLeases' /\ IsFiniteSet(active')
  <2>1. \A q \in active : request'[q] = request[q]
    BY <1>0, <1>1, <1>4 DEF ControllerInv, LeaseTypes
  <2> QED
    BY <1>0, <1>1, <2>1, LeasesUnchanged DEF ControllerInv
<1>6. OneInLock'
  BY <1>0, <1>1, <1>4, LockPasses DEF ControllerInv, InLock
<1>7. WithinLimits'
  BY <1>0, <1>1 DEF ControllerInv, WithinLimits, counters
<1>8. /\ \A d \in Classes : queued'[d] = IF d = c THEN queued[d] - 1 ELSE queued[d]
      /\ \A d \in Classes, v \in AllWorkspaces :
           Len(queues'[d][v]) = IF d = c /\ v = w THEN Len(queues[d][v]) - 1
                                                 ELSE Len(queues[d][v])
  BY <1>0, <1>2, LosesLengths
<1>9. (\A d \in Classes : queued[d] \in Nat) /\ \A d \in Classes, v \in AllWorkspaces : Len(queues[d][v]) \in Nat
  BY <1>0 DEF QueueTypes
<1>10. WorkConserving'
  <2>1. CASE pc[p] = "acquire" /\ ~Schedulable
    <3>1. \A d \in Classes : Eligible(d)' => Eligible(d)
      BY <1>1, <1>8, <1>9 DEF Eligible, counters
    <3>2. closed' = closed /\ running' = running
      BY <1>1 DEF counters
    <3> QED
      BY <2>1, <3>1, <3>2 DEF WorkConserving, Schedulable
  <2>2. CASE pc'[p] = "cancel"
    BY <2>2 DEF WorkConserving, Free, InLock
  <2> QED
    BY <1>1, <2>1, <2>2
<1>11. SettledBounded'
  <2>1. CASE pc[p] = "acquire" /\ pc'[p] = "idle"
    <3>1. Entering(p) /\ \A q \in Callers : Entering(q) => q = p
      BY <1>0, <1>1, <2>1, LockFacts DEF ControllerInv, InLock, Entering
    <3>2. \A q \in Callers : ~Entering(q)'
      BY <1>1, <2>1, <3>1 DEF Entering
    <3>3. \A d, v : /\ Settled(d) = IF d = c THEN queued[d] - 1 ELSE queued[d]
                    /\ SettledAt(d, v) = IF d = c /\ v = w THEN Len(queues[d][v]) - 1
                                                          ELSE Len(queues[d][v])
      BY <1>2, <3>1, OneEnters
    <3>4. \A d, v : Settled(d)' = queued'[d] /\ SettledAt(d, v)' = Len(queues'[d][v])
      BY <3>2, NobodyEntersNext
    <3>5. \A d \in Classes : Settled(d) \in Int /\ Settled(d)' \in Int /\ Settled(d)' <= Settled(d)
      BY <1>8, <1>9, <3>3, <3>4
    <3>6. \A d \in Classes, v \in AllWorkspaces :
             /\ SettledAt(d, v) \in Int /\ SettledAt(d, v)' \in Int
             /\ SettledAt(d, v)' <= SettledAt(d, v)
      BY <1>8, <1>9, <3>3, <3>4
    <3> QED
      BY <1>0, <3>5, <3>6, BoundsFollow DEF ControllerInv
  <2>2. CASE Free /\ pc'[p] = "cancel"
    <3>1. \A q \in Callers : ~Entering(q)
      BY <1>0, <2>2, LockFacts DEF ControllerInv
    <3>2. \A q \in Callers : ~Entering(q)'
      BY <1>1, <2>2, <3>1 DEF Entering
    <3>3. \A d, v : Settled(d) = queued[d] /\ SettledAt(d, v) = Len(queues[d][v])
      BY <3>1, NobodyEnters
    <3>4. \A d, v : Settled(d)' = queued'[d] /\ SettledAt(d, v)' = Len(queues'[d][v])
      BY <3>2, NobodyEntersNext
    <3>5. \A d \in Classes : Settled(d) \in Int /\ Settled(d)' \in Int /\ Settled(d)' <= Settled(d)
      BY <1>8, <1>9, <3>3, <3>4
    <3>6. \A d \in Classes, v \in AllWorkspaces :
             /\ SettledAt(d, v) \in Int /\ SettledAt(d, v)' \in Int
             /\ SettledAt(d, v)' <= SettledAt(d, v)
      BY <1>8, <1>9, <3>3, <3>4
    <3> QED
      BY <1>0, <3>5, <3>6, BoundsFollow DEF ControllerInv
  <2> QED
    BY <1>1, <2>1, <2>2
<1> QED
  BY <1>3, <1>5, <1>6, <1>7, <1>10, <1>11 DEF ControllerInv, FinitelyMany

(* Release gives the permit back and schedules before it leaves the lock. *)
LEMMA ReleaseKeeps ==
  ASSUME AdmissionInv, NEW p \in Callers, Release(p)
  PROVE  ControllerInv'
<1>0. /\ TypeOK /\ ControllerInv /\ CallerTypes /\ CallerAgrees(p)
      /\ LeaseTypes /\ CountersMatchLeases /\ FinitelyMany
  BY Parts DEF AdmissionInv, CallersAgree, ControllerInv
<1> DEFINE c == ClassOf(p)
           w == WorkspaceOf(p)
<1>1. /\ pc[p] \in {"holding", "dropping"} /\ Free
      /\ running' = running - 1
      /\ runningClass' = [runningClass EXCEPT ![c] = @ - 1]
      /\ runningWS' = [runningWS EXCEPT ![c][w] = @ - 1]
      /\ active' = active \ {p}
      /\ pc' = [pc EXCEPT ![p] = "release"]
      /\ UNCHANGED <<queueVars, request, state, closed>>
  BY DEF Release, waiterVars, closeVars
<1>2. request[p] \in Requests /\ p \in active
  BY <1>0, <1>1 DEF CallerAgrees, Deciding
<1>3. c \in Classes /\ w \in AllWorkspaces /\ request[p] = [class |-> c, workspace |-> w]
  BY <1>2 DEF Requests, ClassOf, WorkspaceOf
<1> HIDE DEF c, w
<1>4. /\ runningClass' = [runningClass EXCEPT ![c] = runningClass[c] - 1]
      /\ runningWS' = [runningWS EXCEPT ![c] = [runningWS[c] EXCEPT ![w] = runningWS[c][w] - 1]]
      /\ request' = request
  BY <1>0, <1>1, <1>3 DEF LeaseTypes
<1>5. /\ LeaseTypes' /\ CountersMatchLeases' /\ IsFiniteSet(active')
      /\ running' < running /\ \A d \in Classes : runningClass'[d] <= runningClass[d]
  BY <1>0, <1>1, <1>2, <1>3, <1>4, LeaseReturned
<1>6. QueueTypes' /\ QueuesConsistent' /\ IsFiniteSet(Waiting')
  BY <1>0, <1>1, QueuesUnchanged DEF ControllerInv
<1>7. pc'[p] = "release" /\ \A q \in Callers : q # p => pc'[q] = pc[q]
  BY <1>0, <1>1 DEF CallerTypes
<1>8. OneInLock'
  BY <1>0, <1>1, <1>7, LockPasses DEF ControllerInv
<1>9. WithinLimits'
  <2>1. running <= MaxRunning /\ \A d \in Classes : runningClass[d] <= MaximumRunning[d]
    BY <1>0 DEF ControllerInv, WithinLimits
  <2>2. running \in Nat /\ running' \in Nat /\ \A d \in Classes : runningClass[d] \in Nat /\ runningClass'[d] \in Nat
    BY <1>0, <1>5 DEF LeaseTypes
  <2> QED
    BY <1>5, <2>1, <2>2, Limits DEF WithinLimits
<1>10. WorkConserving'
  BY <1>7 DEF WorkConserving, Free, InLock
<1>11. SettledBounded'
  <2>1. \A q \in Callers : ~Entering(q)
    BY <1>0, <1>1, LockFacts DEF ControllerInv
  <2>2. \A q \in Callers : ~Entering(q)'
    BY <1>1, <1>7, <2>1 DEF Entering
  <2>3. \A d, v : Settled(d)' = Settled(d) /\ SettledAt(d, v)' = SettledAt(d, v)
    BY <1>1, <2>1, <2>2 DEF Settled, SettledAt, queueVars
  <2>4. QueueTypes /\ SettledBounded
    BY <1>0 DEF ControllerInv
  <2> QED
    BY <2>3, <2>4, BoundsFollow, SettledTypes
<1> QED
  BY <1>5, <1>6, <1>8, <1>9, <1>10, <1>11 DEF ControllerInv, FinitelyMany

(* A grant: the node and the class stay within their limits, and whoever is  *)
(* in the lock is still in it.                                              *)
LEMMA GrantKeeps ==
  ASSUME AdmissionInv, NEW c \in Classes, NEW w \in AllWorkspaces, NEW p \in Callers, Granted(c, w, p)
  PROVE  AdmissionInv'
<1>0. /\ TypeOK /\ ControllerInv /\ CallerTypes /\ CallersAgree /\ CallerAgrees(p) /\ CloseProgresses
      /\ QueueTypes /\ QueuesConsistent /\ LeaseTypes /\ CountersMatchLeases /\ FinitelyMany
  BY Parts DEF AdmissionInv, CallersAgree, ControllerInv
<1>1. /\ ~closed /\ running < MaxRunning /\ Eligible(c) /\ ~Free
      /\ state[p] = "waiting" /\ request[p] = [class |-> c, workspace |-> w]
      /\ QueueLoses(c, w, p)
      /\ classCursor' \in Offsets
      /\ running' = running + 1
      /\ runningClass' = [runningClass EXCEPT ![c] = runningClass[c] + 1]
      /\ runningWS' = [runningWS EXCEPT ![c] = [runningWS[c] EXCEPT ![w] = runningWS[c][w] + 1]]
      /\ active' = active \cup {p}
      /\ state' = [state EXCEPT ![p] = "granted"]
      /\ result' = [result EXCEPT ![p] = "lease"]
      /\ UNCHANGED <<request, parentDone, leaseDone, pc, closed, toNotify, toCancel>>
  BY DEF Granted, contexts, closeVars
<1>2. /\ pc[p] \in Deciding /\ p \notin active /\ request[p] \in Requests
  BY <1>0, <1>1 DEF CallerAgrees
<1>3. /\ state'[p] = "granted" /\ result'[p] = "lease"
      /\ \A q \in Callers : q # p => state'[q] = state[q] /\ result'[q] = result[q]
  BY <1>0, <1>1 DEF CallerTypes
<1>4. CallerTypes'
  BY <1>0, <1>1 DEF CallerTypes
<1>5. CallersAgree'
  <2>1. CallerAgrees(p)'
    BY <1>1, <1>2, <1>3 DEF CallerAgrees, Deciding
  <2>2. OthersUnchanged(p)
    BY <1>1, <1>3 DEF OthersUnchanged
  <2> QED
    BY <1>0, <2>1, <2>2, OthersAgree
<1>6. CloseProgresses'
  BY <1>0, <1>1 DEF CloseProgresses
<1>7. QueueTypes' /\ QueuesConsistent' /\ IsFiniteSet(Waiting')
  <2>1. /\ state'[p] # "waiting"
        /\ \A q \in Callers : q # p => (state'[q] = "waiting" <=> state[q] = "waiting")
        /\ \A q \in Callers : q # p /\ state[q] = "waiting" => request'[q] = request[q]
    BY <1>1, <1>3
  <2> QED
    BY <1>0, <1>1, <2>1, LosesKeepsQueues
<1>8. LeaseTypes' /\ CountersMatchLeases' /\ IsFiniteSet(active')
  BY <1>0, <1>1, <1>2, LeaseGranted
<1>9. OneInLock'
  BY <1>0, <1>1 DEF ControllerInv, OneInLock
<1>10. WithinLimits'
  <2>1. running <= MaxRunning /\ \A d \in Classes : runningClass[d] <= MaximumRunning[d]
    BY <1>0 DEF ControllerInv, WithinLimits
  <2>2. running \in Nat /\ running' <= MaxRunning
    BY <1>0, <1>1, Limits DEF LeaseTypes
  <2>3. runningClass[c] \in Nat /\ MaximumRunning[c] \in Nat /\ runningClass[c] < MaximumRunning[c]
    BY <1>0, <1>1, Limits DEF LeaseTypes, Eligible
  <2>4. \A d \in Classes : runningClass'[d] = IF d = c THEN runningClass[c] + 1 ELSE runningClass[d]
    BY <1>0, <1>1 DEF LeaseTypes
  <2>5. \A d \in Classes : runningClass'[d] <= MaximumRunning[d]
    BY <2>1, <2>3, <2>4
  <2> QED
    BY <2>2, <2>5 DEF WithinLimits
<1>11. WorkConserving'
  BY <1>1 DEF WorkConserving, Free
<1>12. SettledBounded'
  <2>1. /\ \A d \in Classes : queued'[d] = IF d = c THEN queued[d] - 1 ELSE queued[d]
        /\ \A d \in Classes, v \in AllWorkspaces :
             Len(queues'[d][v]) = IF d = c /\ v = w THEN Len(queues[d][v]) - 1
                                                   ELSE Len(queues[d][v])
    BY <1>0, <1>1, LosesLengths
  <2>2. /\ \A d \in Classes : queued[d] \in Nat
        /\ \A d \in Classes, v \in AllWorkspaces : Len(queues[d][v]) \in Nat
    BY <1>0 DEF QueueTypes
  <2>3. \A q \in Callers : Entering(q)' <=> Entering(q) /\ q # p
    BY <1>1, <1>3 DEF Entering
  <2>4. CASE Entering(p)
    <3>1. \A q \in Callers : Entering(q) => q = p
      BY <1>0, <2>4, LockFacts DEF ControllerInv, Entering, InLock
    <3>2. \A q \in Callers : ~Entering(q)'
      BY <2>3, <3>1
    <3>3. \A d, v : /\ Settled(d) = IF d = c THEN queued[d] - 1 ELSE queued[d]
                    /\ SettledAt(d, v) = IF d = c /\ v = w THEN Len(queues[d][v]) - 1
                                                          ELSE Len(queues[d][v])
      BY <1>1, <2>4, <3>1, OneEnters
    <3>4. \A d, v : Settled(d)' = queued'[d] /\ SettledAt(d, v)' = Len(queues'[d][v])
      BY <3>2, NobodyEntersNext
    <3>5. \A d \in Classes : Settled(d) \in Int /\ Settled(d)' \in Int /\ Settled(d)' <= Settled(d)
      BY <2>1, <2>2, <3>3, <3>4
    <3>6. \A d \in Classes, v \in AllWorkspaces :
             /\ SettledAt(d, v) \in Int /\ SettledAt(d, v)' \in Int
             /\ SettledAt(d, v)' <= SettledAt(d, v)
      BY <2>1, <2>2, <3>3, <3>4
    <3> QED
      BY <1>0, <3>5, <3>6, BoundsFollow DEF ControllerInv
  <2>5. CASE ~Entering(p)
    <3>1. \A d : (\E q \in Callers : Entering(q)' /\ ClassOf(q)' = d)
                 <=> (\E q \in Callers : Entering(q) /\ ClassOf(q) = d)
      BY <1>1, <2>3, <2>5 DEF ClassOf
    <3>2. \A d, v : (\E q \in Callers : Entering(q)' /\ request'[q] = [class |-> d, workspace |-> v])
                    <=> (\E q \in Callers : Entering(q) /\ request[q] = [class |-> d, workspace |-> v])
      BY <1>1, <2>3, <2>5
    <3> DEFINE in(d) == \E q \in Callers : Entering(q) /\ ClassOf(q) = d
               at(d, v) == \E q \in Callers : Entering(q) /\ request[q] = [class |-> d, workspace |-> v]
    <3>3. \A d \in Classes : /\ Settled(d) = IF in(d) THEN queued[d] - 1 ELSE queued[d]
                             /\ Settled(d)' = IF in(d) THEN queued'[d] - 1 ELSE queued'[d]
      BY <3>1 DEF Settled
    <3>4. \A d \in Classes, v \in AllWorkspaces :
             /\ SettledAt(d, v) = IF at(d, v) THEN Len(queues[d][v]) - 1 ELSE Len(queues[d][v])
             /\ SettledAt(d, v)' = IF at(d, v) THEN Len(queues'[d][v]) - 1 ELSE Len(queues'[d][v])
      BY <3>2 DEF SettledAt
    <3> HIDE DEF in, at
    <3>5. \A d \in Classes : Settled(d) \in Int /\ Settled(d)' \in Int /\ Settled(d)' <= Settled(d)
      BY <2>1, <2>2, <3>3
    <3>6. \A d \in Classes, v \in AllWorkspaces :
             /\ SettledAt(d, v) \in Int /\ SettledAt(d, v)' \in Int
             /\ SettledAt(d, v)' <= SettledAt(d, v)
      BY <2>1, <2>2, <3>4, SMTT(60)
    <3> QED
      BY <1>0, <3>5, <3>6, BoundsFollow DEF ControllerInv
  <2> QED
    BY <2>4, <2>5
<1>13. ControllerInv'
  BY <1>7, <1>8, <1>9, <1>10, <1>11, <1>12 DEF ControllerInv, FinitelyMany
<1> QED
  BY <1>4, <1>5, <1>6, <1>13, PartsNext

(* Close rejects every waiter and schedules nobody any more. *)
LEMMA CloseKeeps ==
  ASSUME AdmissionInv, Close
  PROVE  AdmissionInv'
<1>0. /\ TypeOK /\ ControllerInv /\ CallerTypes /\ CallersAgree /\ CloseProgresses
      /\ QueueTypes /\ QueuesConsistent /\ LeaseTypes /\ CountersMatchLeases /\ FinitelyMany
  BY Parts DEF AdmissionInv, ControllerInv
<1>1. /\ ~closed /\ Free /\ closed' = TRUE /\ toCancel' = active
      /\ state' = [p \in Callers |-> IF InOrder(p) THEN "rejected" ELSE state[p]]
      /\ queues' = [d \in Classes |-> [v \in AllWorkspaces |-> <<>>]]
      /\ queued' = [d \in Classes |-> 0]
      /\ UNCHANGED <<counters, classCursor, request, result, parentDone, leaseDone, pc>>
  BY DEF Close, contexts
<1>2. /\ QueueTypes' /\ QueuesConsistent' /\ IsFiniteSet(Waiting')
      /\ \A p \in Callers : state'[p] = IF state[p] = "waiting" THEN "rejected" ELSE state[p]
      /\ toNotify' = Waiting
  BY <1>0, CloseKeepsQueues
<1>3. active' = active /\ running' = running /\ runningClass' = runningClass
  BY <1>1 DEF counters
<1>4. CallerTypes'
  <2>1. state' \in [Callers -> {"none", "waiting", "granted", "rejected"}]
    BY <1>0, <1>1 DEF CallerTypes
  <2>2. Waiting \subseteq Callers /\ active \subseteq Callers
    BY <1>0 DEF Waiting, LeaseTypes
  <2> QED
    BY <1>0, <1>1, <1>2, <2>1, <2>2 DEF CallerTypes
<1>5. CallersAgree'
  <2> SUFFICES ASSUME NEW p \in Callers PROVE CallerAgrees(p)'
    BY DEF CallersAgree
  <2>1. CallerAgrees(p)
    BY <1>0 DEF CallersAgree
  <2>2. pc[p] # "acquire" /\ toNotify = {}
    BY <1>0, <1>1 DEF Free, InLock, CloseProgresses
  <2>3. state'[p] = IF state[p] = "waiting" THEN "rejected" ELSE state[p]
    BY <1>2
  <2>4. state[p] = "waiting" => p \in toNotify'
    BY <1>2 DEF Waiting
  <2> QED
    BY <1>1, <1>3, <2>1, <2>2, <2>3, <2>4 DEF CallerAgrees, Deciding
<1>6. CloseProgresses'
  BY <1>1, <1>3 DEF CloseProgresses
<1>7. LeaseTypes' /\ CountersMatchLeases' /\ IsFiniteSet(active')
  BY <1>0, <1>1, LeasesUnchanged
<1>8. OneInLock'
  BY <1>0, <1>1 DEF ControllerInv, OneInLock, Free, InLock
<1>9. WithinLimits'
  BY <1>0, <1>3 DEF ControllerInv, WithinLimits
<1>10. WorkConserving'
  BY <1>1 DEF WorkConserving, Schedulable
<1>11. SettledBounded'
  <2>1. \A q \in Callers : ~Entering(q) /\ ~Entering(q)'
    BY <1>1 DEF Free, InLock, Entering
  <2>2. \A d, v : Settled(d) = queued[d] /\ SettledAt(d, v) = Len(queues[d][v])
    BY <2>1, NobodyEnters
  <2>3. \A d, v : Settled(d)' = queued'[d] /\ SettledAt(d, v)' = Len(queues'[d][v])
    BY <2>1, NobodyEntersNext
  <2>4. queued \in [Classes -> Nat] /\ \A d \in Classes, v \in AllWorkspaces : Len(queues[d][v]) \in Nat
    BY <1>0 DEF QueueTypes
  <2>5. \A d \in Classes : queued'[d] = 0 /\ \A v \in AllWorkspaces : Len(queues'[d][v]) = 0
    BY <1>1
  <2>6. \A d \in Classes : /\ Settled(d) \in Int /\ Settled(d)' \in Int /\ Settled(d)' <= Settled(d)
                           /\ \A v \in AllWorkspaces :
                                /\ SettledAt(d, v) \in Int /\ SettledAt(d, v)' \in Int
                                /\ SettledAt(d, v)' <= SettledAt(d, v)
    BY <2>2, <2>3, <2>4, <2>5
  <2> QED
    BY <1>0, <2>6, BoundsFollow DEF ControllerInv
<1>12. ControllerInv'
  BY <1>2, <1>7, <1>8, <1>9, <1>10, <1>11 DEF ControllerInv, FinitelyMany
<1> QED
  BY <1>4, <1>5, <1>6, <1>12, PartsNext

(* Nothing that the controller's invariant speaks about changes. *)
LEMMA AsideKeeps ==
  ASSUME ControllerInv, UNCHANGED <<queueVars, counters, state, request, pc, closed>>
  PROVE  ControllerInv'
<1>1. QueueTypes' /\ QueuesConsistent' /\ IsFiniteSet(Waiting')
  BY QueuesUnchanged DEF ControllerInv
<1>2. LeaseTypes' /\ CountersMatchLeases' /\ IsFiniteSet(active')
  BY LeasesUnchanged DEF ControllerInv
<1>3. UNCHANGED <<queues, queued, running, runningClass, state, request, pc, closed>>
  BY DEF queueVars, counters
<1>4. OneInLock' /\ WithinLimits' /\ WorkConserving'
  BY <1>3 DEF ControllerInv, OneInLock, WithinLimits, WorkConserving, Free, Schedulable, Eligible
<1>5. SettledBounded'
  <2>1. \A d, v : Settled(d)' = Settled(d) /\ SettledAt(d, v)' = SettledAt(d, v)
    BY <1>3 DEF Settled, SettledAt, Entering, ClassOf
  <2> QED
    BY <2>1, BoundsFollow, SettledTypes DEF ControllerInv
<1> QED
  BY <1>1, <1>2, <1>4, <1>5 DEF ControllerInv, FinitelyMany

-----------------------------------------------------------------------------
(* The theorems                                                            *)

LEMMA InitInv == Init => AdmissionInv
<1> SUFFICES ASSUME Init PROVE AdmissionInv
  OBVIOUS
<1>1. /\ closed = FALSE /\ toNotify = {} /\ toCancel = {} /\ running = 0 /\ active = {} /\ classCursor = 0
      /\ runningClass = [c \in Classes |-> 0]
      /\ runningWS = [c \in Classes |-> [w \in AllWorkspaces |-> 0]]
      /\ queues = [c \in Classes |-> [w \in AllWorkspaces |-> <<>>]]
      /\ order = [c \in Classes |-> <<>>]
      /\ cursor = [c \in Classes |-> 0] /\ queued = [c \in Classes |-> 0]
      /\ request = [p \in Callers |-> NoRequest]
      /\ state = [p \in Callers |-> "none"] /\ result = [p \in Callers |-> "empty"]
      /\ parentDone = [p \in Callers |-> FALSE] /\ leaseDone = [p \in Callers |-> FALSE]
      /\ pc = [p \in Callers |-> "idle"]
  BY DEF Init
<1>2. 0 \in Offsets
  BY ConfigAssumption DEF Offsets, ValidConfig
<1>3. CallerTypes
  BY <1>1, <1>2 DEF CallerTypes, PCs
<1>4. LeaseTypes /\ QueueTypes
  BY <1>1 DEF LeaseTypes, QueueTypes
<1>5. CountersMatchLeases
  <2>1. \A c, w : LeasesIn(c) = {} /\ LeasesFor(c, w) = {}
    BY <1>1 DEF LeasesIn, LeasesFor
  <2> QED
    BY <1>1, <2>1, FS_EmptySet DEF CountersMatchLeases
<1>6. Waiting = {} /\ \A c, w : WaitingIn(c) = {} /\ WaitingFor(c, w) = {}
  BY <1>1 DEF Waiting, WaitingIn, WaitingFor
<1>7. QueuesConsistent
  <2>1. ToSet(<<>>) = {} /\ IsInjective(<<>>)
    BY DEF ToSet, IsInjective
  <2> QED
    BY <1>1, <1>6, <2>1, FS_EmptySet DEF QueuesConsistent, QueueConsistent
<1>8. FinitelyMany
  BY <1>1, <1>6, FS_EmptySet DEF FinitelyMany
<1>9. CallersAgree /\ OneInLock /\ CloseProgresses
  BY <1>1 DEF CallersAgree, CallerAgrees, OneInLock, CloseProgresses, InLock
<1>10. WithinLimits
  BY <1>1, Limits DEF WithinLimits
<1>11. WorkConserving
  BY <1>1 DEF WorkConserving, Schedulable, Eligible
<1>12. SettledBounded
  <2>1. \A p \in Callers : ~Entering(p)
    BY <1>1 DEF Entering
  <2>2. \A c, w : Settled(c) = queued[c] /\ SettledAt(c, w) = Len(queues[c][w])
    BY <2>1, NobodyEnters
  <2>3. \A c \in Classes : Settled(c) = 0 /\ \A w \in AllWorkspaces : SettledAt(c, w) = 0
    BY <1>1, <2>2
  <2> DEFINE f == [c \in Classes |-> Settled(c)]
  <2>4. f = [c \in Classes |-> 0]
    BY <2>3
  <2>5. Total([c \in Classes |-> 0]) = 0
    <3> DEFINE z == [c \in Classes |-> 0]
               n == Len(ClassOrder)
               Odd == {k \in 0..n : Sums(z)[k] # 0}
    <3>1. n \in Nat /\ \A i \in 1..n : ClassOrder[i] \in Classes
      BY ConfigAssumption DEF ValidConfig
    <3>2. z \in [Classes -> Int] /\ \A c \in Classes : z[c] = 0
      OBVIOUS
    <3> HIDE DEF z
    <3>3. Sums(z) = [i \in 0..n |-> IF i = 0 THEN 0 ELSE Sums(z)[i - 1] + z[ClassOrder[i]]]
      BY <3>2, SumsExist
    <3>4. Total(z) = Sums(z)[n]
      BY DEF Total
    <3> HIDE DEF n
    <3>5. Odd = {}
      <4> SUFFICES ASSUME Odd # {} PROVE FALSE
        OBVIOUS
      <4>1. Odd \in SUBSET Nat
        BY <3>1
      <4>2. PICK m \in Odd : \A x \in Odd : m <= x
        <5> HIDE DEF Odd
        <5> QED
          BY <4>1, LeastExists
      <4>3. m # 0
        BY <3>1, <3>3, <4>2
      <4>4. m \in 1..n /\ m - 1 \in 0..n /\ ~(m <= m - 1)
        BY <3>1, <4>2, <4>3
      <4>5. Sums(z)[m - 1] = 0
        BY <4>2, <4>4
      <4>6. Sums(z)[m] = 0 + 0
        BY <3>1, <3>2, <3>3, <4>4, <4>5
      <4> QED
        BY <4>2, <4>6
    <3>6. Sums(z)[n] = 0
      BY <3>1, <3>5
    <3> QED
      BY <3>4, <3>6 DEF z
  <2>6. Total(f) <= MaximumQueued
    BY <2>4, <2>5, Limits
  <2> QED
    BY <2>3, <2>6, Limits DEF SettledBounded
<1>13. TypeOK
  BY <1>3, <1>4, TypeParts
<1> QED
  BY <1>5, <1>7, <1>8, <1>9, <1>10, <1>11, <1>12, <1>13 DEF AdmissionInv

LEMMA NextInv == AdmissionInv /\ [Next]_vars => AdmissionInv'
<1> SUFFICES ASSUME AdmissionInv, [Next]_vars PROVE AdmissionInv'
  OBVIOUS
<1>0. CallerTypes /\ CallersAgree /\ CloseProgresses /\ ControllerInv
  BY Parts
<1>1. CASE \E p \in Callers : Caller(p)
  <2>1. PICK p \in Callers : Caller(p)
    BY <1>1
  <2>2. CallerTypes' /\ OthersUnchanged(p) /\ CallerAgrees(p)'
    BY <2>1, CallerSteps
  <2>3. CallersAgree'
    BY <1>0, <2>2, OthersAgree
  <2>4. CloseProgresses'
    BY <2>1, CloseKeepsProgress
  <2>5. ControllerInv'
    <3>1. CASE \E c \in Classes, w \in Workspaces : Acquire(p, c, w)
      <4>1. PICK c \in Classes, w \in Workspaces : Acquire(p, c, w)
        BY <3>1
      <4> QED
        BY <4>1, AcquireKeeps
    <3>2. CASE AcquireRejected(p) \/ CancelWaiter(p)
      BY <3>2, RemovalKeeps
    <3>3. CASE AcquireWaits(p)
      BY <3>3, WaitsKeeps
    <3>4. CASE Release(p)
      BY <3>4, ReleaseKeeps
    <3>5. CASE Entering(p) /\ UNCHANGED <<queueVars, counters, state, request, pc>>
      BY <1>0, <2>2, <3>5, AsideKeeps DEF OthersUnchanged
    <3>6. CASE Quiet(p)
      BY <2>2, <3>6, QuietKeeps
    <3>7. \/ \E c \in Classes, w \in Workspaces : Acquire(p, c, w)
          \/ AcquireRejected(p) \/ AcquireWaits(p) \/ CancelWaiter(p) \/ Release(p)
          \/ Entering(p) /\ UNCHANGED <<queueVars, counters, state, request, pc>>
          \/ Quiet(p)
      BY <2>1, QuietSteps
    <3> QED
      BY <3>1, <3>2, <3>3, <3>4, <3>5, <3>6, <3>7
  <2> QED
    BY <2>2, <2>3, <2>4, <2>5, PartsNext
<1>2. CASE \E o \in Offsets : Grant(o)
  <2>1. PICK o \in Offsets : Grant(o)
    BY <1>2
  <2>2. PICK c \in Classes, w \in AllWorkspaces, p \in Callers : Granted(c, w, p)
    BY <2>1, GrantGrants
  <2> QED
    BY <2>2, GrantKeeps
<1>3. CASE Close
  BY <1>3, CloseKeeps
<1>4. CASE UNCHANGED vars
  <2>1. /\ UNCHANGED <<queueVars, counters, state, request, pc, closed>>
        /\ UNCHANGED <<classCursor, result, parentDone, leaseDone, active, toNotify, toCancel>>
    BY <1>4 DEF vars, counters, queueVars, waiterVars, contexts, closeVars
  <2>2. ControllerInv'
    BY <1>0, <2>1, AsideKeeps
  <2>3. CallerTypes' /\ CallersAgree' /\ CloseProgresses'
    BY <1>0, <2>1 DEF CallerTypes, CallersAgree, CallerAgrees, CloseProgresses
  <2> QED
    BY <2>2, <2>3, PartsNext
<1> QED
  BY <1>1, <1>2, <1>3, <1>4 DEF Next

(* Every interleaving of requests, grants, timeouts, cancellations, releases *)
(* and Close keeps the controller's invariant (internal/workload).          *)
THEOREM AdmissionInvariance == Spec => []AdmissionInv
<1>1. Init => AdmissionInv
  BY InitInv
<1>2. AdmissionInv /\ [Next]_vars => AdmissionInv'
  BY NextInv
<1> QED
  BY <1>1, <1>2, PTL DEF Spec

(* Neither the node nor a class ever has more leases out than its limit.    *)
THEOREM AdmissionStaysWithinLimits == Spec => []WithinLimits
<1>1. AdmissionInv => WithinLimits
  BY DEF AdmissionInv
<1> QED
  BY <1>1, AdmissionInvariance, PTL

(* scheduleLocked leaves nobody waiting that could run: outside the lock a   *)
(* waiter's class is at its maximum or the node is full.                    *)
THEOREM PermitsAreNotIdle == Spec => []WorkConserving
<1>1. AdmissionInv => WorkConserving
  BY DEF AdmissionInv
<1> QED
  BY <1>1, AdmissionInvariance, PTL

(* A lease is out exactly while a caller has it or will find it: a grant     *)
(* that races a timeout, a cancellation or Close is neither lost nor        *)
(* released twice.                                                          *)
THEOREM LeasesAreNotLost == Spec => []NoLeaseLost
<1>1. AdmissionInv => NoLeaseLost
  BY DEF AdmissionInv, CallersAgree, CallerAgrees, Deciding, NoLeaseLost
<1> QED
  BY <1>1, AdmissionInvariance, PTL

(* The bookkeeping of the controller: the counters count the leases, the     *)
(* fields of the class queues agree, the queues keep their limits outside   *)
(* the lock, and Close reaches every waiter and every lease.                *)
THEOREM ControllerStaysConsistent == Spec => []Consistent
<1>1. AdmissionInv => Consistent
  <2> SUFFICES ASSUME AdmissionInv PROVE Consistent
    OBVIOUS
  <2>1. /\ TypeOK /\ CountersMatchLeases /\ QueuesConsistent /\ SettledBounded
        /\ CallersAgree /\ OneInLock /\ CloseProgresses
    BY DEF AdmissionInv
  <2>2. QueuesBounded
    <3> SUFFICES ASSUME Free PROVE /\ TotalQueued <= MaximumQueued
                                   /\ \A c \in Classes :
                                        /\ queued[c] <= ClassMaximumQueued[c]
                                        /\ \A w \in AllWorkspaces :
                                             Len(queues[c][w]) <= MaximumQueuedPerWorkspace[c]
      BY DEF QueuesBounded
    <3>1. \A c, w : Settled(c) = queued[c] /\ SettledAt(c, w) = Len(queues[c][w])
      BY <2>1, LockFacts, NobodyEnters
    <3>2. [c \in Classes |-> Settled(c)] = queued
      BY <2>1, <3>1 DEF TypeOK
    <3>3. TotalQueued <= MaximumQueued
      <4>1. Total([c \in Classes |-> Settled(c)]) <= MaximumQueued
        BY <2>1 DEF SettledBounded
      <4> QED
        BY <3>2, <4>1, TotalQueuedIsTotal
    <3> QED
      BY <2>1, <3>1, <3>3 DEF SettledBounded
  <2>3. CloseReachesEveryone
    BY <2>1 DEF CloseReachesEveryone, CloseProgresses, CallersAgree, CallerAgrees, Deciding, TypeOK
  <2> QED
    BY <2>1, <2>2, <2>3 DEF Consistent, CallersAgree
<1> QED
  BY <1>1, AdmissionInvariance, PTL

-----------------------------------------------------------------------------
(* Round robin: the history                                                *)

(* The controller with its history is the controller. *)
LEMMA HistoryObserves == FSpec => Spec
<1>1. FInit => Init
  BY DEF FInit
<1>2. [FNext]_fvars => [Next]_vars
  BY DEF FNext, fvars
<1> QED
  BY <1>1, <1>2, PTL DEF FSpec, Spec

(* A class whose queue stays as it is, and one of which nobody is served. *)
Undisturbed(c) == queues'[c] = queues[c] /\ order'[c] = order[c] /\ cursor'[c] = cursor[c]
NobodyServed(c) == \A w \in AllWorkspaces : ~Served(c, w)

(* What one step does to the queue of one class. *)
LEMMA QueueSteps ==
  ASSUME AdmissionInv, [Next]_vars, NEW c \in Classes
  PROVE  \/ Undisturbed(c) /\ NobodyServed(c)
         \/ (\E p \in Callers, w \in AllWorkspaces : enqueue(p, c, w)) /\ NobodyServed(c)
         \/ /\ \E p \in Callers : state[p] = "waiting" /\ ClassOf(p) = c /\ remove(p)
            /\ NobodyServed(c)
         \/ \E o \in Offsets : Grant(o) /\ ClassAt(o) = c
         \/ (\A w \in AllWorkspaces : queues'[c][w] = <<>>) /\ order'[c] = <<>> /\ NobodyServed(c)
<1>0. /\ TypeOK /\ QueuesConsistent /\ CallersAgree /\ LeaseTypes
      /\ queues \in [Classes -> [AllWorkspaces -> Seq(Callers)]]
      /\ order \in [Classes -> Seq(AllWorkspaces)] /\ cursor \in [Classes -> Nat]
      /\ runningWS \in [Classes -> [AllWorkspaces -> Nat]]
  BY TypeParts DEF AdmissionInv, TypeOK
<1>1. UNCHANGED runningWS => NobodyServed(c)
  BY <1>0 DEF NobodyServed, Served
<1>2. UNCHANGED queueVars => Undisturbed(c)
  BY DEF queueVars, Undisturbed
<1>3. CASE \E p \in Callers : Caller(p)
  <2>1. PICK p \in Callers : Caller(p)
    BY <1>3
  <2>2. ASSUME NEW d \in Classes, NEW w \in Workspaces, Acquire(p, d, w)
        PROVE  \/ Undisturbed(c) /\ NobodyServed(c)
               \/ (\E q \in Callers, v \in AllWorkspaces : enqueue(q, c, v)) /\ NobodyServed(c)
    <3> DEFINE ws == IF d \in NodeClasses THEN NodeWorkspace ELSE w
    <3>1. enqueue(p, d, ws) /\ UNCHANGED runningWS
      BY <2>2 DEF Acquire, counters
    <3>2. ws \in AllWorkspaces
      BY DEF AllWorkspaces
    <3> HIDE DEF ws
    <3>3. d # c => Undisturbed(c)
      BY <1>0, <3>1 DEF enqueue, Undisturbed
    <3> QED
      BY <1>1, <3>1, <3>2, <3>3
  <2>3. CASE AcquireRejected(p) \/ CancelWaiter(p)
    <3>1. state[p] = "waiting" /\ remove(p) /\ UNCHANGED runningWS
      BY <2>3 DEF AcquireRejected, CancelWaiter, counters
    <3>2. ClassOf(p) # c => Undisturbed(c)
      BY <1>0, <3>1 DEF remove, Undisturbed
    <3> QED
      BY <1>1, <3>1, <3>2
  <2>4. CASE Release(p)
    <3>1. UNCHANGED queueVars
      BY <2>4 DEF Release
    <3>2. PICK d, v : runningWS' = [runningWS EXCEPT ![d][v] = runningWS[d][v] - 1]
      BY <2>4 DEF Release
    <3>3. NobodyServed(c)
      BY <1>0, <3>2 DEF NobodyServed, Served
    <3> QED
      BY <1>2, <3>1, <3>3
  <2>5. CASE \/ AcquireWaits(p) \/ Quiet(p)
             \/ Entering(p) /\ UNCHANGED <<queueVars, counters, state, request, pc>>
    <3>1. UNCHANGED <<queueVars, counters>>
      BY <2>5 DEF AcquireWaits, Quiet
    <3> QED
      BY <1>1, <1>2, <3>1 DEF counters
  <2> QED
    BY <2>1, <2>2, <2>3, <2>4, <2>5, QuietSteps
<1>4. CASE \E o \in Offsets : Grant(o)
  <2>1. PICK o \in Offsets : Grant(o)
    BY <1>4
  <2>2. CASE ClassAt(o) # c
    <3>1. pop(ClassAt(o)) /\ \E d, v : d # c /\ runningWS' = [runningWS EXCEPT ![d][v] = @ + 1]
      BY <2>1, <2>2 DEF Grant
    <3>2. Undisturbed(c)
      BY <1>0, <2>2, <3>1 DEF pop, Undisturbed
    <3>3. NobodyServed(c)
      BY <1>0, <3>1 DEF NobodyServed, Served
    <3> QED
      BY <3>2, <3>3
  <2> QED
    BY <2>1, <2>2
<1>5. CASE Close
  <2>1. /\ queues' = [d \in Classes |-> [w \in AllWorkspaces |-> <<>>]]
        /\ order' = [d \in Classes |-> <<>>] /\ UNCHANGED runningWS
    BY <1>5 DEF Close, counters
  <2> QED
    BY <1>1, <2>1
<1>6. CASE UNCHANGED vars
  <2>1. UNCHANGED <<queueVars, counters>>
    BY <1>6 DEF vars
  <2> QED
    BY <1>1, <1>2, <2>1 DEF counters
<1> QED
  BY <1>3, <1>4, <1>5, <1>6 DEF Next

-----------------------------------------------------------------------------
(* Round robin over the workspaces of a class                              *)

(* The positions of a list are served in a circle from the cursor on:       *)
(* position i comes before position j, and element w before element v.      *)
Sooner(i, j, k) == (k < i /\ i < j) \/ (i < j /\ j <= k) \/ (j <= k /\ k < i)
Ahead(r, k, w, v) == \E i, j \in 1..Len(r) : r[i] = w /\ r[j] = v /\ Sooner(i, j, k)

(* A workspace that was passed by one that still waits comes before it. *)
TurnInv ==
  /\ stayed \in [Classes -> [AllWorkspaces -> SUBSET AllWorkspaces]]
  /\ \A c \in Classes : \A w \in AllWorkspaces : \A v \in stayed[c][w] :
        v # w /\ queues[c][w] # <<>> /\ queues[c][v] # <<>> /\ Ahead(order[c], cursor[c], w, v)

(* The element under the cursor comes before all others. *)
LEMMA CursorIsFirst ==
  ASSUME NEW S, NEW r \in Seq(S), IsInjective(r), NEW k \in 0..(Len(r) - 1),
         NEW w, NEW v, w # v, Ahead(r, k, w, v)
  PROVE  r[k + 1] # v
<1>1. PICK i, j \in 1..Len(r) : r[i] = w /\ r[j] = v /\ Sooner(i, j, k)
  BY DEF Ahead
<1>2. ASSUME r[k + 1] = v PROVE j = k + 1
  BY <1>1, <1>2 DEF IsInjective
<1> QED
  BY <1>1, <1>2 DEF Sooner

LEMMA AppendAhead ==
  ASSUME NEW S, NEW r \in Seq(S), NEW x \in S, NEW k \in Nat, NEW w, NEW v, Ahead(r, k, w, v)
  PROVE  Ahead(Append(r, x), k, w, v)
<1>1. PICK i, j \in 1..Len(r) : r[i] = w /\ r[j] = v /\ Sooner(i, j, k)
  BY DEF Ahead
<1>2. /\ Len(Append(r, x)) = Len(r) + 1 /\ Len(r) \in Nat
      /\ \A m \in 1..Len(r) : Append(r, x)[m] = r[m]
  BY AppendProperties
<1>3. i \in 1..Len(Append(r, x)) /\ j \in 1..Len(Append(r, x))
  BY <1>2
<1> QED
  BY <1>1, <1>2, <1>3 DEF Ahead

(* The cursor after the element at m left the list: pop and remove agree. *)
CursorWithout(r, k, m) ==
  LET moved == IF m - 1 < k THEN k - 1 ELSE k
  IN IF moved >= Len(r) - 1 THEN 0 ELSE moved

LEMMA RemoveAhead ==
  ASSUME NEW S, NEW r \in Seq(S), NEW k \in 0..(Len(r) - 1), NEW m \in 1..Len(r),
         NEW w, NEW v, Ahead(r, k, w, v), r[m] # w, r[m] # v
  PROVE  Ahead(RemoveAt(r, m), CursorWithout(r, k, m), w, v)
<1>1. PICK i, j \in 1..Len(r) : r[i] = w /\ r[j] = v /\ Sooner(i, j, k)
  BY DEF Ahead
<1>2. i # m /\ j # m /\ Len(r) \in Nat
  BY <1>1
<1> DEFINE shift(x) == IF x < m THEN x ELSE x - 1
           k2 == CursorWithout(r, k, m)
<1>3. /\ Len(RemoveAt(r, m)) = Len(r) - 1
      /\ \A x \in 1..(Len(r) - 1) : RemoveAt(r, m)[x] = IF x < m THEN r[x] ELSE r[x + 1]
  BY RemoveShifts
<1>4. ASSUME NEW x \in 1..Len(r), x # m
      PROVE  shift(x) \in 1..(Len(r) - 1) /\ RemoveAt(r, m)[shift(x)] = r[x]
  <2>1. shift(x) \in 1..(Len(r) - 1) /\ (x < m <=> shift(x) < m) /\ (~(x < m) => shift(x) + 1 = x)
    BY <1>2, <1>4
  <2> HIDE DEF shift
  <2> QED
    BY <1>3, <2>1, <1>4 DEF shift
<1>5. /\ shift(i) \in 1..(Len(r) - 1) /\ shift(j) \in 1..(Len(r) - 1)
      /\ RemoveAt(r, m)[shift(i)] = w /\ RemoveAt(r, m)[shift(j)] = v
  BY <1>1, <1>2, <1>4
<1>6. Sooner(shift(i), shift(j), k2)
  BY <1>1, <1>2, SMTT(60) DEF Sooner, CursorWithout
<1> HIDE DEF shift, k2
<1>7. Ahead(RemoveAt(r, m), k2, w, v)
  BY <1>3, <1>5, <1>6 DEF Ahead
<1> QED
  BY <1>7 DEF k2

(* The cursor moves on from u: whoever was ahead stays, and u is behind all. *)
LEMMA AdvanceAhead ==
  ASSUME NEW S, NEW r \in Seq(S), IsInjective(r), NEW k \in 0..(Len(r) - 1), NEW w, NEW v, w # v,
         w \in ToSet(r), r[k + 1] # w, Ahead(r, k, w, v) \/ r[k + 1] = v
  PROVE  Ahead(r, (k + 1) % Len(r), w, v)
<1>1. Len(r) \in Nat /\ Len(r) > 0 /\ DOMAIN r = 1..Len(r)
  OBVIOUS
<1>2. PICK i, j \in 1..Len(r) : r[i] = w /\ r[j] = v /\ (Sooner(i, j, k) \/ j = k + 1)
  <2>1. CASE Ahead(r, k, w, v)
    BY <2>1 DEF Ahead
  <2>2. CASE r[k + 1] = v
    <3>1. PICK i \in 1..Len(r) : r[i] = w
      BY <1>1 DEF ToSet
    <3> QED
      BY <1>1, <2>2, <3>1
  <2> QED
    BY <2>1, <2>2
<1>3. i # k + 1 /\ i # j
  BY <1>2
<1>4. (k + 1) % Len(r) = IF k + 1 < Len(r) THEN k + 1 ELSE 0
  <2>0. k + 1 \in Nat /\ k + 1 <= Len(r)
    BY <1>1
  <2>1. PICK n \in Nat, a \in Nat : n = Len(r) /\ a = k + 1
    BY <1>1, <2>0
  <2>2. a < 2 * n /\ a % n = IF a < n THEN a ELSE a - n
    BY <1>1, <2>0, <2>1, ModuloOnce
  <2> QED
    BY <1>1, <2>0, <2>1, <2>2
<1>5. Sooner(i, j, IF k + 1 < Len(r) THEN k + 1 ELSE 0)
  BY <1>1, <1>2, <1>3 DEF Sooner
<1> QED
  BY <1>2, <1>4, <1>5 DEF Ahead

(* The cursor of a class with waiters is a position of its order. *)
LEMMA CursorInOrder ==
  ASSUME AdmissionInv, NEW c \in Classes, NEW w \in AllWorkspaces, queues[c][w] # <<>>
  PROVE  /\ order[c] \in Seq(AllWorkspaces) /\ IsInjective(order[c]) /\ w \in ToSet(order[c])
         /\ cursor[c] \in 0..(Len(order[c]) - 1) /\ Position(c) = cursor[c]
<1>1. /\ order[c] \in Seq(AllWorkspaces) /\ cursor[c] \in Nat /\ IsInjective(order[c])
      /\ ToSet(order[c]) = {v \in AllWorkspaces : queues[c][v] # <<>>}
      /\ cursor[c] < Len(order[c]) \/ cursor[c] = 0
  BY QueueFacts DEF AdmissionInv
<1>2. w \in ToSet(order[c])
  BY <1>1
<1>3. Len(order[c]) \in Nat /\ Len(order[c]) > 0
  BY <1>1, <1>2, EmptyQueue
<1> QED
  BY <1>1, <1>2, <1>3 DEF Position

(* A grant serves the workspace under the cursor, which goes behind the others. *)
LEMMA GrantTurns ==
  ASSUME AdmissionInv, NEW c \in Classes, NEW o \in Offsets, Grant(o), ClassAt(o) = c
  PROVE  /\ NextWorkspace(c) \in AllWorkspaces /\ queues[c][NextWorkspace(c)] # <<>>
         /\ \A w \in AllWorkspaces : Served(c, w) <=> w = NextWorkspace(c)
         /\ \A w \in AllWorkspaces : w # NextWorkspace(c) => queues'[c][w] = queues[c][w]
         /\ \A v, w \in AllWorkspaces :
              /\ v # w /\ w # NextWorkspace(c) /\ queues[c][w] # <<>> /\ queues'[c][v] # <<>>
              /\ v = NextWorkspace(c) \/ Ahead(order[c], cursor[c], w, v)
              => Ahead(order[c], cursor[c], w, v)'
<1> DEFINE x == NextWorkspace(c)
           r == order[c]
           k == cursor[c]
<1>0. /\ TypeOK /\ QueuesConsistent /\ CallersAgree
      /\ queues \in [Classes -> [AllWorkspaces -> Seq(Callers)]]
      /\ order \in [Classes -> Seq(AllWorkspaces)] /\ cursor \in [Classes -> Nat]
      /\ runningWS \in [Classes -> [AllWorkspaces -> Nat]]
  BY DEF AdmissionInv, TypeOK
<1>1. /\ pop(c) /\ queued[c] > 0
      /\ runningWS' = [runningWS EXCEPT ![c][WorkspaceOf(NextWaiter(c))] = @ + 1]
  BY DEF Grant, nextClassLocked, Reserved, Eligible
<1>2. /\ x \in AllWorkspaces /\ queues[c][x] # <<>> /\ r[Position(c) + 1] = x
      /\ WorkspaceOf(NextWaiter(c)) = x
  <2>1. /\ x \in AllWorkspaces /\ queues[c][x] # <<>> /\ r[Position(c) + 1] = x
        /\ request[NextWaiter(c)] = [class |-> c, workspace |-> x]
    BY <1>0, <1>1, NextExists
  <2> QED
    BY <2>1 DEF WorkspaceOf
<1> HIDE DEF x
<1>3. /\ r \in Seq(AllWorkspaces) /\ IsInjective(r) /\ k \in 0..(Len(r) - 1) /\ Position(c) = k
      /\ r[k + 1] = x /\ k + 1 \in 1..Len(r)
  BY <1>2, CursorInOrder
<1>4. /\ queues' = [queues EXCEPT ![c][x] = Tail(@)]
      /\ order'[c] = IF Len(queues[c][x]) = 1 THEN RemoveAt(r, k + 1) ELSE r
      /\ cursor'[c] = IF Len(queues[c][x]) = 1 THEN IF k >= Len(r) - 1 THEN 0 ELSE k
                                               ELSE (k + 1) % Len(r)
  BY <1>0, <1>1, <1>3 DEF pop, x
<1>5. \A w \in AllWorkspaces : Served(c, w) <=> w = x
  BY <1>0, <1>1, <1>2 DEF Served
<1>6. /\ \A w \in AllWorkspaces : w # x => queues'[c][w] = queues[c][w]
      /\ queues'[c][x] = Tail(queues[c][x])
  BY <1>0, <1>2, <1>4
<1>7. Len(queues[c][x]) = 1 => queues'[c][x] = <<>>
  <2>1. queues[c][x] \in Seq(Callers) /\ IsInjective(queues[c][x])
    BY <1>0, <1>2, QueueFacts
  <2>2. Tail(queues[c][x]) \in Seq(Callers) /\ Len(Tail(queues[c][x])) = Len(queues[c][x]) - 1
    BY <1>2, <2>1, TailElements
  <2>3. Tail(queues[c][x]) = <<>> <=> Len(Tail(queues[c][x])) = 0
    BY <2>2, EmptyQueue
  <2> QED
    BY <1>6, <2>2, <2>3
<1>8. ASSUME NEW v \in AllWorkspaces, NEW w \in AllWorkspaces, v # w, w # x,
             queues[c][w] # <<>>, queues'[c][v] # <<>>, v = x \/ Ahead(r, k, w, v)
      PROVE  Ahead(order'[c], cursor'[c], w, v)
  <2>1. w \in ToSet(r)
    BY <1>8, CursorInOrder
  <2>2. CASE Len(queues[c][x]) = 1
    <3>1. v # x /\ Ahead(r, k, w, v)
      BY <1>7, <1>8, <2>2
    <3>2. Ahead(RemoveAt(r, k + 1), CursorWithout(r, k, k + 1), w, v)
      BY <1>3, <1>8, <3>1, RemoveAhead
    <3>3. CursorWithout(r, k, k + 1) = IF k >= Len(r) - 1 THEN 0 ELSE k
      BY <1>3 DEF CursorWithout
    <3> QED
      BY <1>4, <2>2, <3>2, <3>3
  <2>3. CASE Len(queues[c][x]) # 1
    <3>1. Ahead(r, (k + 1) % Len(r), w, v)
      <4> HIDE DEF r, k
      <4> QED
        BY <1>3, <1>8, <2>1, AdvanceAhead
    <3> QED
      BY <1>4, <2>3, <3>1
  <2> QED
    BY <2>2, <2>3
<1>9. \A v, w : Ahead(order[c], cursor[c], w, v)' <=> Ahead(order'[c], cursor'[c], w, v)
  BY DEF Ahead
<1> QED
  BY <1>2, <1>5, <1>6, <1>8, <1>9 DEF x

(* A new waiter joins its workspace or puts it at the end of the order. *)
LEMMA EnqueueTurns ==
  ASSUME AdmissionInv, NEW c \in Classes, NEW x \in AllWorkspaces, NEW p \in Callers, enqueue(p, c, x),
         NEW v \in AllWorkspaces, NEW w \in AllWorkspaces, Ahead(order[c], cursor[c], w, v)
  PROVE  Ahead(order[c], cursor[c], w, v)'
<1>0. /\ order \in [Classes -> Seq(AllWorkspaces)] /\ cursor \in [Classes -> Nat]
  BY DEF AdmissionInv, TypeOK
<1>1. /\ cursor' = cursor
      /\ order'[c] = IF queues[c][x] = <<>> THEN Append(order[c], x) ELSE order[c]
  BY <1>0 DEF enqueue
<1>2. Ahead(Append(order[c], x), cursor[c], w, v)
  BY <1>0, AppendAhead
<1>3. Ahead(order'[c], cursor'[c], w, v)
  BY <1>1, <1>2
<1> QED
  BY <1>3 DEF Ahead

(* The place of an element that occurs once. *)
LEMMA PlaceOf ==
  ASSUME NEW S, NEW r \in Seq(S), IsInjective(r), NEW x \in ToSet(r)
  PROVE  \E m \in 1..Len(r) : /\ r[m] = x /\ RemoveFirst(r, x) = RemoveAt(r, m)
                              /\ SelectInSeq(r, LAMBDA y : y = x) = m
<1>1. PICK m \in DOMAIN r : r[m] = x
  BY DEF ToSet
<1>2. {i \in 1..Len(r) : r[i] = x} = {m} /\ Min({m}) = m
  BY <1>1, FirstPosition
<1>3. SelectInSeq(r, LAMBDA y : y = x) = m
  BY <1>2 DEF SelectInSeq
<1>4. RemoveFirst(r, x) = RemoveAt(r, m)
  BY <1>1, <1>3 DEF RemoveFirst
<1>5. m \in 1..Len(r)
  OBVIOUS
<1> QED
  BY <1>1, <1>3, <1>4, <1>5, Zenon

(* A waiter that leaves takes no turn from a workspace that stays. *)
LEMMA RemoveTurns ==
  ASSUME AdmissionInv, NEW p \in Callers, state[p] = "waiting", remove(p),
         NEW c \in Classes, c = ClassOf(p),
         NEW v \in AllWorkspaces, NEW w \in AllWorkspaces, queues'[c][v] # <<>>, queues'[c][w] # <<>>,
         queues[c][w] # <<>>, Ahead(order[c], cursor[c], w, v)
  PROVE  Ahead(order[c], cursor[c], w, v)'
<1> DEFINE x == WorkspaceOf(p)
           r == order[c]
           k == cursor[c]
<1>0. /\ TypeOK /\ QueuesConsistent /\ CallersAgree
      /\ queues \in [Classes -> [AllWorkspaces -> Seq(Callers)]]
      /\ order \in [Classes -> Seq(AllWorkspaces)] /\ cursor \in [Classes -> Nat]
  BY DEF AdmissionInv, TypeOK
<1>1. /\ x \in AllWorkspaces /\ request[p] = [class |-> c, workspace |-> x]
      /\ QueueLoses(c, x, p)
  BY <1>0, RemoveLoses
<1>2. p \in WaitingFor(c, x) /\ queues[c][x] # <<>> /\ queues[c][x] \in Seq(Callers)
  BY <1>0, <1>1, QueueFacts, EmptyQueue DEF WaitingFor
<1>3. /\ r \in Seq(AllWorkspaces) /\ IsInjective(r) /\ x \in ToSet(r) /\ k \in 0..(Len(r) - 1)
  BY <1>1, <1>2, CursorInOrder
<1>4. PICK m \in 1..Len(r) : /\ r[m] = x /\ RemoveFirst(r, x) = RemoveAt(r, m)
                             /\ SelectInSeq(r, LAMBDA y : y = x) = m
  BY <1>3, PlaceOf
<1>5. /\ order'[c] = IF Len(queues[c][x]) = 1 THEN RemoveAt(r, m) ELSE r
      /\ cursor'[c] = IF Len(queues[c][x]) = 1 THEN CursorWithout(r, k, m) ELSE k
  BY <1>0, <1>4 DEF remove, CursorWithout
<1> HIDE DEF x
<1>6. Len(queues[c][x]) = 1 => queues'[c][x] = <<>>
  <2>1. PICK q \in Seq(Callers) : /\ queues' = [queues EXCEPT ![c] = [queues[c] EXCEPT ![x] = q]]
                                  /\ Len(q) = Len(queues[c][x]) - 1
    BY <1>1 DEF QueueLoses
  <2>2. queues'[c][x] = q
    BY <1>0, <1>1, <2>1
  <2> QED
    BY <2>1, <2>2, EmptyQueue
<1>7. Ahead(order'[c], cursor'[c], w, v)
  <2>1. CASE Len(queues[c][x]) # 1
    BY <1>5, <2>1
  <2>2. CASE Len(queues[c][x]) = 1
    <3>1. r[m] # w /\ r[m] # v
      BY <1>4, <1>6, <2>2
    <3>2. Ahead(RemoveAt(r, m), CursorWithout(r, k, m), w, v)
      BY <1>3, <3>1, RemoveAhead
    <3> QED
      BY <1>5, <2>2, <3>2
  <2> QED
    BY <2>1, <2>2
<1> QED
  BY <1>7 DEF Ahead

LEMMA TurnKept ==
  ASSUME AdmissionInv, TurnInv, [FNext]_fvars
  PROVE  TurnInv'
<1>0. [Next]_vars
  BY DEF FNext, fvars
<1>1. CASE UNCHANGED fvars
  BY <1>1 DEF fvars, vars, history, queueVars, TurnInv, Ahead
<1>2. CASE FNext
  <2>1. stayed' = [c \in Classes |-> [w \in AllWorkspaces |->
           IF queues'[c][w] = <<>> \/ Served(c, w)
             THEN {}
             ELSE {v \in stayed[c][w] \union {x \in AllWorkspaces : Served(c, x)} :
                     queues'[c][v] # <<>>}]]
    BY <1>2 DEF FNext, Observe
  <2>2. stayed' \in [Classes -> [AllWorkspaces -> SUBSET AllWorkspaces]]
    BY <2>1 DEF TurnInv
  <2>3. ASSUME NEW c \in Classes, NEW w \in AllWorkspaces, NEW v \in stayed'[c][w]
        PROVE  /\ v # w /\ queues'[c][w] # <<>> /\ queues'[c][v] # <<>>
               /\ Ahead(order[c], cursor[c], w, v)'
    <3>1. /\ v \in AllWorkspaces /\ queues'[c][w] # <<>> /\ ~Served(c, w) /\ queues'[c][v] # <<>>
          /\ v \in stayed[c][w] \/ Served(c, v)
      BY <2>1, <2>2
    <3>2. v \in stayed[c][w] => v # w /\ queues[c][w] # <<>> /\ Ahead(order[c], cursor[c], w, v)
      BY DEF TurnInv
    <3>3. v # w
      BY <3>1, <3>2
    <3>4. NobodyServed(c) => v \in stayed[c][w]
      BY <3>1 DEF NobodyServed
    <3>5. CASE Undisturbed(c) /\ NobodyServed(c)
      BY <3>1, <3>2, <3>4, <3>5 DEF Undisturbed, Ahead
    <3>6. ASSUME NEW p \in Callers, NEW x \in AllWorkspaces, enqueue(p, c, x), NobodyServed(c)
          PROVE  Ahead(order[c], cursor[c], w, v)'
      BY <3>1, <3>2, <3>4, <3>6, EnqueueTurns
    <3>7. ASSUME NEW p \in Callers, state[p] = "waiting", ClassOf(p) = c, remove(p), NobodyServed(c)
          PROVE  Ahead(order[c], cursor[c], w, v)'
      BY <3>1, <3>2, <3>4, <3>7, RemoveTurns
    <3>8. ASSUME NEW o \in Offsets, Grant(o), ClassAt(o) = c
          PROVE  Ahead(order[c], cursor[c], w, v)'
      <4>1. /\ \A y \in AllWorkspaces : Served(c, y) <=> y = NextWorkspace(c)
            /\ \A y \in AllWorkspaces : y # NextWorkspace(c) => queues'[c][y] = queues[c][y]
        BY <3>8, GrantTurns
      <4>2. w # NextWorkspace(c) /\ queues[c][w] # <<>>
        BY <3>1, <4>1
      <4>3. v = NextWorkspace(c) \/ Ahead(order[c], cursor[c], w, v)
        BY <3>1, <3>2, <4>1
      <4> QED
        BY <3>1, <3>3, <3>8, <4>2, <4>3, GrantTurns
    <3>9. Ahead(order[c], cursor[c], w, v)'
      BY <1>0, <3>1, <3>5, <3>6, <3>7, <3>8, QueueSteps
    <3> QED
      BY <3>1, <3>3, <3>9
  <2> QED
    BY <2>2, <2>3 DEF TurnInv
<1> QED
  BY <1>1, <1>2

(* classQueue goes round the workspaces that wait, however many there are:  *)
(* while one waits, no other that waits as long is served twice, through    *)
(* pops, cancellations and workspaces that leave the order and join it.     *)
THEOREM WaitingWorkspacesTakeTurns == FSpec => WaitingTakeTurns
<1> DEFINE A == \A c \in Classes : \A v, w \in AllWorkspaces :
                  Served(c, v) /\ v # w /\ queues[c][w] # <<>> => v \notin stayed[c][w]
<1>1. FInit => TurnInv
  BY DEF FInit, TurnInv
<1>2. AdmissionInv /\ TurnInv /\ [FNext]_fvars => TurnInv'
  BY TurnKept
<1>3. AdmissionInv /\ TurnInv /\ [FNext]_fvars => [A]_fvars
  <2> SUFFICES ASSUME AdmissionInv, TurnInv, [Next]_vars,
                      NEW c \in Classes, NEW v \in AllWorkspaces, NEW w \in AllWorkspaces,
                      Served(c, v), v # w, v \in stayed[c][w]
               PROVE  FALSE
    BY DEF FNext, fvars
  <2>1. queues[c][v] # <<>> /\ Ahead(order[c], cursor[c], w, v)
    BY DEF TurnInv
  <2>2. ~NobodyServed(c)
    BY DEF NobodyServed
  <2>3. PICK o \in Offsets : Grant(o) /\ ClassAt(o) = c
    BY <2>2, QueueSteps
  <2>4. v = NextWorkspace(c)
    BY <2>3, GrantTurns
  <2>5. /\ order[c] \in Seq(AllWorkspaces) /\ IsInjective(order[c])
        /\ cursor[c] \in 0..(Len(order[c]) - 1) /\ Position(c) = cursor[c]
    BY <2>1, CursorInOrder
  <2>6. order[c][cursor[c] + 1] = v
    BY <2>4, <2>5 DEF NextWorkspace
  <2> QED
    BY <2>1, <2>5, <2>6, CursorIsFirst
<1> QED
  BY <1>1, <1>2, <1>3, HistoryObserves, AdmissionInvariance, PTL DEF FSpec, WaitingTakeTurns

-----------------------------------------------------------------------------
(* Round robin over the classes that borrow                                *)

(* A class that was passed comes, from the cursor on, before all those that *)
(* passed it.                                                               *)
Precedes(d, c) == \A i, j \in Offsets : ClassAt(i) = d /\ ClassAt(j) = c => i < j
BorrowInv ==
  /\ passedClass \in [Classes -> SUBSET Classes]
  /\ \A d \in Classes : \A c \in passedClass[d] : Eligible(d) /\ Precedes(d, c)

(* Every class has one offset from the cursor. *)
LEMMA OffsetsDiffer ==
  ASSUME classCursor \in Offsets, NEW i \in Offsets, NEW j \in Offsets, ClassAt(i) = ClassAt(j)
  PROVE  i = j
<1> DEFINE n == Len(ClassOrder)
<1>1. n \in Nat /\ n > 0 /\ DOMAIN ClassOrder = 1..n
  BY ConfigAssumption DEF ValidConfig
<1>2. classCursor \in 0..(n - 1) /\ i \in 0..(n - 1) /\ j \in 0..(n - 1)
  BY DEF Offsets
<1>3. ClassOrder[((classCursor + i) % n) + 1] = ClassOrder[((classCursor + j) % n) + 1]
  BY DEF ClassAt
<1> HIDE DEF n
<1>4. classCursor + i \in Nat /\ classCursor + i < 2 * n /\ classCursor + j \in Nat /\ classCursor + j < 2 * n
  BY <1>1, <1>2
<1>5. /\ (classCursor + i) % n = IF classCursor + i < n THEN classCursor + i ELSE classCursor + i - n
      /\ (classCursor + j) % n = IF classCursor + j < n THEN classCursor + j ELSE classCursor + j - n
  <2>1. PICK a \in Nat, b \in Nat : a = classCursor + i /\ b = classCursor + j
    BY <1>4
  <2>2. (a % n = IF a < n THEN a ELSE a - n) /\ (b % n = IF b < n THEN b ELSE b - n)
    BY <1>1, <1>4, <2>1, ModuloOnce
  <2> QED
    BY <1>1, <1>2, <2>1, <2>2
<1>6. ((classCursor + i) % n) + 1 \in 1..n /\ ((classCursor + j) % n) + 1 \in 1..n
  BY <1>1, <1>2, <1>5
<1>7. ((classCursor + i) % n) + 1 = ((classCursor + j) % n) + 1
  BY <1>1, <1>3, <1>6, ClassesDiffer DEF IsInjective
<1> QED
  BY <1>1, <1>2, <1>5, <1>7

(* ... and every class has one. *)
LEMMA EveryClassHasOffset ==
  ASSUME classCursor \in Offsets, NEW c \in Classes
  PROVE  \E i \in Offsets : ClassAt(i) = c
<1> DEFINE n == Len(ClassOrder)
<1>1. n \in Nat /\ n > 0 /\ DOMAIN ClassOrder = 1..n
  BY ConfigAssumption DEF ValidConfig
<1>2. PICK m \in 1..n : ClassOrder[m] = c
  BY <1>1 DEF Classes, ToSet
<1> HIDE DEF n
<1>3. classCursor \in 0..(n - 1)
  BY DEF Offsets, n
<1> DEFINE i == IF classCursor < m THEN m - 1 - classCursor ELSE m - 1 - classCursor + n
<1>4. i \in 0..(n - 1) /\ classCursor + i \in Nat /\ classCursor + i < 2 * n
  BY <1>1, <1>2, <1>3
<1>5. (classCursor + i) % n = IF classCursor + i < n THEN classCursor + i ELSE classCursor + i - n
  <2>1. PICK a \in Nat : a = classCursor + i
    BY <1>4
  <2>2. a % n = IF a < n THEN a ELSE a - n
    BY <1>1, <1>4, <2>1, ModuloOnce
  <2> HIDE DEF i
  <2> QED
    BY <1>1, <1>3, <1>4, <2>1, <2>2
<1>6. ((classCursor + i) % n) + 1 = m
  BY <1>1, <1>2, <1>3, <1>5
<1> QED
  BY <1>2, <1>4, <1>6 DEF ClassAt, Offsets, n

(* After a grant at offset o the offsets are counted from the class behind. *)
LEMMA CursorMoves ==
  ASSUME classCursor \in Offsets, NEW o \in Offsets, classCursor' = ClassCursorAfter(o), NEW i \in Offsets
  PROVE  \E k \in Offsets : /\ ClassAt(i)' = ClassAt(k)
                            /\ k = IF o + 1 + i < Len(ClassOrder) THEN o + 1 + i
                                   ELSE o + 1 + i - Len(ClassOrder)
<1> DEFINE n == Len(ClassOrder)
           k == IF o + 1 + i < n THEN o + 1 + i ELSE o + 1 + i - n
<1>1. n \in Nat /\ n > 0
  BY ConfigAssumption DEF ValidConfig
<1>2. classCursor \in 0..(n - 1) /\ i \in 0..(n - 1) /\ o \in 0..(n - 1)
  BY DEF Offsets
<1>3. classCursor' = (classCursor + o + 1) % n
  BY DEF ClassCursorAfter
<1>4. /\ ClassAt(i)' = ClassOrder[((classCursor' + i) % n) + 1]
      /\ ClassAt(k) = ClassOrder[((classCursor + k) % n) + 1]
  BY DEF ClassAt
<1> HIDE DEF n
<1>5. k \in 0..(n - 1)
  BY <1>1, <1>2
<1>6. classCursor + o + 1 \in Nat /\ classCursor + o + 1 < 2 * n
  BY <1>1, <1>2
<1>7. classCursor' = IF classCursor + o + 1 < n THEN classCursor + o + 1 ELSE classCursor + o + 1 - n
  <2>1. PICK a \in Nat : a = classCursor + o + 1
    BY <1>6
  <2>2. a % n = IF a < n THEN a ELSE a - n
    BY <1>1, <1>6, <2>1, ModuloOnce
  <2> QED
    BY <1>1, <1>2, <1>3, <2>1, <2>2
<1>8. classCursor' \in 0..(n - 1)
  BY <1>1, <1>2, <1>7
<1>9. classCursor' + i \in Nat /\ classCursor' + i < 2 * n /\ classCursor + k \in Nat /\ classCursor + k < 2 * n
  BY <1>1, <1>2, <1>5, <1>8
<1>10. /\ (classCursor' + i) % n = IF classCursor' + i < n THEN classCursor' + i ELSE classCursor' + i - n
       /\ (classCursor + k) % n = IF classCursor + k < n THEN classCursor + k ELSE classCursor + k - n
  <2> HIDE DEF k
  <2>1. PICK a \in Nat, b \in Nat : a = classCursor' + i /\ b = classCursor + k
    BY <1>9
  <2>2. (a % n = IF a < n THEN a ELSE a - n) /\ (b % n = IF b < n THEN b ELSE b - n)
    BY <1>1, <1>9, <2>1, ModuloOnce
  <2> QED
    BY <1>1, <1>2, <1>5, <1>8, <2>1, <2>2
<1>11. (classCursor' + i) % n = (classCursor + k) % n
  BY <1>1, <1>2, <1>5, <1>7, <1>8, <1>10
<1> QED
  BY <1>4, <1>5, <1>11 DEF Offsets, n

(* Only a grant serves a class, and it serves the one it chose. *)
LEMMA ClassSteps ==
  ASSUME AdmissionInv, [Next]_vars
  PROVE  \/ UNCHANGED classCursor /\ \A c \in Classes : ~ServedClass(c)
         \/ \E o \in Offsets : /\ Grant(o) /\ \A c \in Classes : ServedClass(c) <=> c = ClassAt(o)
                               /\ \A d \in Classes : d # ClassAt(o) => (Eligible(d)' <=> Eligible(d))
<1>0. /\ runningClass \in [Classes -> Nat] /\ queued \in [Classes -> Nat] /\ classCursor \in Offsets
  BY DEF AdmissionInv, TypeOK
<1>1. UNCHANGED runningClass => \A c \in Classes : ~ServedClass(c)
  BY <1>0 DEF ServedClass
<1>2. CASE \E p \in Callers : Caller(p)
  <2>1. PICK p \in Callers : Caller(p)
    BY <1>2
  <2>2. UNCHANGED classCursor
    BY <2>1 DEF Caller, Acquire, AcquireShutdown, AcquireGranted, AcquireRejected, AcquireWaits,
                ReceiveResult, SelectCtxDone, SelectTimeout, CancelWaiter, CancelLost, LeaveLock,
                Release, ExecutionDeadline, ParentDone, CloseCancels, CloseNotifies, vars
  <2>3. CASE Release(p)
    <3>1. runningClass' = [runningClass EXCEPT ![ClassOf(p)] = runningClass[ClassOf(p)] - 1]
      BY <2>3 DEF Release
    <3>2. \A c \in Classes : ~ServedClass(c)
      BY <1>0, <3>1 DEF ServedClass
    <3> QED
      BY <2>2, <3>2
  <2>4. Release(p) \/ runningClass' = runningClass
    BY <2>1 DEF Caller, Acquire, AcquireShutdown, AcquireGranted, AcquireRejected, AcquireWaits,
                ReceiveResult, SelectCtxDone, SelectTimeout, CancelWaiter, CancelLost, LeaveLock,
                ExecutionDeadline, ParentDone, CloseCancels, CloseNotifies, counters, vars
  <2> QED
    BY <1>1, <2>2, <2>3, <2>4
<1>3. CASE \E o \in Offsets : Grant(o)
  <2>1. PICK o \in Offsets : Grant(o)
    BY <1>3
  <2>2. PICK c \in Classes : c = ClassAt(o)
    BY <1>0, ClassChoice
  <2>3. /\ runningClass' = [runningClass EXCEPT ![c] = runningClass[c] + 1]
        /\ queued' = [queued EXCEPT ![c] = queued[c] - 1]
    BY <2>1, <2>2 DEF Grant, pop
  <2>4. \A d \in Classes : ServedClass(d) <=> d = c
    BY <1>0, <2>3 DEF ServedClass
  <2>5. \A d \in Classes : d # c => (Eligible(d)' <=> Eligible(d))
    BY <1>0, <2>3 DEF Eligible
  <2> QED
    BY <2>1, <2>2, <2>4, <2>5
<1>4. CASE Close
  BY <1>1, <1>4 DEF Close, counters
<1>5. CASE UNCHANGED vars
  BY <1>1, <1>5 DEF vars, counters
<1> QED
  BY <1>2, <1>3, <1>4, <1>5 DEF Next

(* A grant beyond the reservation of its class takes the first eligible one. *)
LEMMA FirstEligible ==
  ASSUME AdmissionInv, NEW o \in Offsets, Grant(o),
         ~(runningClass[ClassAt(o)] < ReservedRunning[ClassAt(o)])
  PROVE  /\ ClassAt(o) \in Classes /\ Eligible(ClassAt(o))
         /\ \A q \in Offsets : q < o => ~Eligible(ClassAt(q))
<1>1. runningClass \in [Classes -> Nat] /\ classCursor \in Offsets
  BY DEF AdmissionInv, TypeOK
<1>2. nextClassLocked(o) /\ ~Reserved(ClassAt(o))
  BY DEF Grant, Reserved
<1>3. ClassAt(o) \in Classes
  BY <1>1, ClassChoice
<1> QED
  BY <1>2, <1>3 DEF nextClassLocked

(* The class served goes to the end, and the others keep their order. *)
LEMMA GrantPrecedes ==
  ASSUME AdmissionInv, NEW o \in Offsets, Grant(o),
         ~(runningClass[ClassAt(o)] < ReservedRunning[ClassAt(o)]),
         NEW d \in Classes, d # ClassAt(o), Eligible(d),
         NEW c \in Classes, c = ClassAt(o) \/ Precedes(d, c)
  PROVE  Precedes(d, c)'
<1> DEFINE n == Len(ClassOrder)
<1>0. classCursor \in Offsets /\ classCursor' = ClassCursorAfter(o) /\ n \in Nat /\ n > 0
  BY ConfigAssumption DEF AdmissionInv, TypeOK, Grant, ValidConfig
<1>1. SUFFICES ASSUME NEW i \in Offsets, NEW j \in Offsets, ClassAt(i)' = d, ClassAt(j)' = c
               PROVE  i < j
  BY DEF Precedes
<1>2. PICK k \in Offsets : /\ ClassAt(k) = d
                           /\ k = IF o + 1 + i < n THEN o + 1 + i ELSE o + 1 + i - n
  BY <1>0, <1>1, CursorMoves
<1>3. PICK m \in Offsets : /\ ClassAt(m) = c
                           /\ m = IF o + 1 + j < n THEN o + 1 + j ELSE o + 1 + j - n
  BY <1>0, <1>1, CursorMoves
<1>4. ~(k < o) /\ k # o
  BY <1>2, FirstEligible
<1>5. o \in 0..(n - 1) /\ i \in 0..(n - 1) /\ j \in 0..(n - 1) /\ k \in 0..(n - 1) /\ m \in 0..(n - 1)
  BY DEF Offsets
<1>6. c = ClassAt(o) => m = o
  BY <1>0, <1>3, OffsetsDiffer
<1>7. Precedes(d, c) => k < m
  BY <1>2, <1>3 DEF Precedes
<1> HIDE DEF n
<1>8. CASE m = o
  BY <1>0, <1>2, <1>3, <1>4, <1>5, <1>8
<1>9. CASE k < m
  BY <1>0, <1>2, <1>3, <1>4, <1>5, <1>9
<1> QED
  BY <1>6, <1>7, <1>8, <1>9

LEMMA BorrowKept ==
  ASSUME AdmissionInv, BorrowInv, [FNext]_fvars
  PROVE  BorrowInv'
<1>1. CASE UNCHANGED fvars
  BY <1>1 DEF fvars, vars, counters, queueVars, history, BorrowInv, Precedes, ClassAt, Eligible
<1>2. CASE FNext
  <2>0. [Next]_vars
    BY <1>2 DEF FNext
  <2>1. passedClass' = [d \in Classes |->
           IF ~Eligible(d)' \/ ServedClass(d) \/ (\E e \in Classes : ServedReserved(e))
             THEN {} ELSE passedClass[d] \union {c \in Classes : Borrowed(c)}]
    BY <1>2 DEF FNext, Observe
  <2>2. passedClass' \in [Classes -> SUBSET Classes]
    BY <2>1 DEF BorrowInv
  <2>3. ASSUME NEW d \in Classes, NEW c \in passedClass'[d]
        PROVE  Eligible(d)' /\ Precedes(d, c)'
    <3>1. /\ Eligible(d)' /\ ~ServedClass(d) /\ c \in Classes
          /\ \A e \in Classes : ~ServedReserved(e)
          /\ c \in passedClass[d] \/ ServedClass(c)
      BY <2>1, <2>2, <2>3 DEF Borrowed
    <3>2. c \in passedClass[d] => Precedes(d, c)
      BY DEF BorrowInv
    <3>3. CASE UNCHANGED classCursor /\ \A e \in Classes : ~ServedClass(e)
      BY <3>1, <3>2, <3>3 DEF Precedes, ClassAt
    <3>4. ASSUME NEW o \in Offsets, Grant(o), \A e \in Classes : ServedClass(e) <=> e = ClassAt(o),
                 \A e \in Classes : e # ClassAt(o) => (Eligible(e)' <=> Eligible(e))
          PROVE  Precedes(d, c)'
      <4>1. d # ClassAt(o) /\ Eligible(d) /\ (c = ClassAt(o) \/ Precedes(d, c))
        BY <3>1, <3>2, <3>4
      <4>2. ClassAt(o) \in Classes
        BY <3>4, ClassChoice DEF AdmissionInv, TypeOK
      <4>3. ~(runningClass[ClassAt(o)] < ReservedRunning[ClassAt(o)])
        BY <3>1, <3>4, <4>2 DEF ServedReserved
      <4> QED
        BY <3>1, <3>4, <4>1, <4>3, GrantPrecedes
    <3> QED
      BY <2>0, <3>1, <3>3, <3>4, ClassSteps
  <2> QED
    BY <2>2, <2>3 DEF BorrowInv
<1> QED
  BY <1>1, <1>2

(* nextClassLocked goes round the classes: between two reserved grants no   *)
(* class borrows two permits while another class with waiters, below its    *)
(* maximum, takes none.                                                     *)
THEOREM BorrowingClassesTakeTurns == FSpec => BorrowersTakeTurns
<1> DEFINE A == \A c, d \in Classes :
                  Borrowed(c) /\ c # d /\ Eligible(d) => c \notin passedClass[d]
<1>1. FInit => BorrowInv
  BY DEF FInit, BorrowInv
<1>2. AdmissionInv /\ BorrowInv /\ [FNext]_fvars => BorrowInv'
  BY BorrowKept
<1>3. AdmissionInv /\ BorrowInv /\ [FNext]_fvars => [A]_fvars
  <2> SUFFICES ASSUME AdmissionInv, BorrowInv, [Next]_vars, NEW c \in Classes, NEW d \in Classes,
                      Borrowed(c), c # d, Eligible(d), c \in passedClass[d]
               PROVE  FALSE
    BY DEF FNext, fvars
  <2>1. PICK o \in Offsets : Grant(o) /\ c = ClassAt(o)
    BY ClassSteps DEF Borrowed
  <2>2. Precedes(d, c)
    BY DEF BorrowInv
  <2>3. PICK i \in Offsets : ClassAt(i) = d
    BY EveryClassHasOffset DEF AdmissionInv, TypeOK
  <2>4. i < o
    BY <2>1, <2>2, <2>3 DEF Precedes
  <2>5. ~(runningClass[ClassAt(o)] < ReservedRunning[ClassAt(o)])
    <3>1. runningClass[c] \in Nat /\ ReservedRunning[c] \in Nat /\ runningClass[c] >= ReservedRunning[c]
      BY ConfigAssumption DEF Borrowed, AdmissionInv, TypeOK, ValidConfig
    <3> QED
      BY <2>1, <3>1
  <2> QED
    BY <2>1, <2>3, <2>4, <2>5, FirstEligible
<1> QED
  BY <1>1, <1>2, <1>3, HistoryObserves, AdmissionInvariance, PTL DEF FSpec, BorrowersTakeTurns
=============================================================================
