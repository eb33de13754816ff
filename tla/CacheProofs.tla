---------------------------- MODULE CacheProofs -----------------------------
(***************************************************************************)
(* Machine-checked facts about the cache of query results, for every set   *)
(* of queries, scopes, workspaces, keys, limits and sizes.                 *)
(*                                                                         *)
(* The heart of the first half is that the list, the counters and the      *)
(* references move together: what a step takes out of the list is what it  *)
(* subtracts from each level and gives back to each result.  Bytes is a    *)
(* sum over a set, defined by recursion; its equations, and what is left   *)
(* of a list, are proved from a least counterexample.                      *)
(*                                                                         *)
(* The heart of the second half is that a generation names a version of    *)
(* the tables: who read the current generation began after the last        *)
(* invalidation, and a flight may serve only those who read its own.       *)
(*                                                                         *)
(* At the end the cache, the streams and the pools are put side by side.   *)
(***************************************************************************)
EXTENDS MCServing, ServingProofs

-----------------------------------------------------------------------------
(* The sizes of sets of entries                                            *)

(* Among finite sets one is smallest. *)
LEMMA SmallestExists ==
  ASSUME NEW P, P # {}, \A A \in P : IsFiniteSet(A)
  PROVE  \E A \in P : \A B \in P : Cardinality(A) <= Cardinality(B)
<1> DEFINE N == {Cardinality(A) : A \in P}
<1>1. N \in SUBSET Nat /\ N # {}
  BY FS_CardinalityType
<1>2. PICK m \in N : \A x \in N : m <= x
  <2> HIDE DEF N
  <2> QED
    BY <1>1, LeastExists
<1> QED
  BY <1>2

(* The recursion that adds up the sizes of the subsets of E. *)
AddsUp(g, E) ==
  g = [s \in SUBSET E |->
        IF s = {} THEN 0
        ELSE LET x == CHOOSE x \in s : TRUE IN SizeOf(x) + g[s \ {x}]]

LEMMA SumExists ==
  ASSUME NEW E, IsFiniteSet(E)
  PROVE  \E g : AddsUp(g, E)
<1> DEFINE ch(s) == CHOOSE x \in s : TRUE
           Step(g, s) == IF s = {} THEN 0 ELSE SizeOf(ch(s)) + g[s \ {ch(s)}]
           Upto(g, n) == \A s \in SUBSET E : Cardinality(s) <= n => g[s] = Step(g, s)
           Bad == {n \in Nat : ~(\E g : Upto(g, n))}
<1>1. \A s \in SUBSET E : IsFiniteSet(s) /\ Cardinality(s) \in Nat /\ Cardinality(s) <= Cardinality(E)
  BY FS_Subset, FS_CardinalityType
<1>2. \A s \in SUBSET E : s # {} => /\ ch(s) \in s /\ s \ {ch(s)} \in SUBSET E
                                    /\ Cardinality(s \ {ch(s)}) = Cardinality(s) - 1
  BY <1>1, FS_RemoveElement
<1>3. \A s \in SUBSET E : Cardinality(s) <= 0 => s = {}
  BY <1>1, FS_EmptySet
<1>4. ASSUME NEW n \in Nat, NEW g, Upto(g, n)
      PROVE  \E h : Upto(h, n + 1)
  <2> DEFINE h == [s \in SUBSET E |-> Step(g, s)]
  <2> HIDE DEF ch
  <2>1. ASSUME NEW s \in SUBSET E, Cardinality(s) <= n + 1
        PROVE  h[s] = Step(h, s)
    <3>1. CASE s = {}
      BY <3>1
    <3>2. CASE s # {}
      <4> DEFINE t == s \ {ch(s)}
      <4>1. t \in SUBSET E /\ Cardinality(t) <= n
        BY <1>1, <1>2, <2>1, <3>2
      <4>2. g[t] = Step(g, t)
        BY <1>4, <4>1
      <4>3. h[t] = Step(g, t)
        BY <4>1
      <4>4. h[s] = Step(g, s)
        OBVIOUS
      <4>5. Step(g, s) = SizeOf(ch(s)) + g[t] /\ Step(h, s) = SizeOf(ch(s)) + h[t]
        BY <3>2
      <4> HIDE DEF t, h, Step
      <4> QED
        BY <4>2, <4>3, <4>4, <4>5
    <3> QED
      BY <3>1, <3>2
  <2>2. Upto(h, n + 1)
    BY <2>1
  <2> HIDE DEF Upto, h
  <2> QED
    BY <2>2
<1>5. Bad = {}
  <2>1. SUFFICES ASSUME Bad # {} PROVE FALSE
    OBVIOUS
  <2>2. PICK m \in Bad : \A x \in Bad : m <= x
    BY <2>1, LeastExists
  <2>3. \E g : Upto(g, 0)
    <3>1. Upto([s \in SUBSET E |-> 0], 0)
      BY <1>3
    <3> HIDE DEF Upto
    <3> QED
      BY <3>1
  <2>4. m # 0
    <3> HIDE DEF Upto
    <3> QED
      BY <2>2, <2>3
  <2>5. m - 1 \in Nat /\ ~(m <= m - 1) /\ (m - 1) + 1 = m
    BY <2>2, <2>4
  <2>6. \E g : Upto(g, m - 1)
    <3> HIDE DEF Upto
    <3> QED
      BY <2>2, <2>5
  <2>7. \E g : Upto(g, m)
    <3> HIDE DEF Upto
    <3>1. PICK g : Upto(g, m - 1)
      BY <2>6
    <3>2. \E h : Upto(h, (m - 1) + 1)
      BY <1>4, <2>5, <3>1
    <3> QED
      BY <2>5, <3>2
  <2> HIDE DEF Upto
  <2> QED
    BY <2>2, <2>7
<1>6. PICK g : Upto(g, Cardinality(E))
  <2>1. Cardinality(E) \in Nat
    BY FS_CardinalityType
  <2> HIDE DEF Upto
  <2> QED
    BY <1>5, <2>1
<1>7. \A s \in SUBSET E : g[s] = Step(g, s)
  BY <1>1, <1>6
<1> DEFINE h == [s \in SUBSET E |-> g[s]]
<1>8. \A s \in SUBSET E : h[s] = Step(h, s)
  <2> HIDE DEF ch
  <2>1. ASSUME NEW s \in SUBSET E PROVE h[s] = Step(h, s)
    <3>1. s # {} => h[s \ {ch(s)}] = g[s \ {ch(s)}]
      BY <1>2
    <3> QED
      BY <1>7, <3>1
  <2> QED
    BY <2>1
<1>9. h = [s \in SUBSET E |-> Step(h, s)]
  <2>1. h = [s \in SUBSET E |-> h[s]]
    OBVIOUS
  <2> HIDE DEF h, Step
  <2> QED
    BY <1>8, <2>1
<1>10. AddsUp(h, E)
  BY <1>9 DEF AddsUp
<1> QED
  BY <1>10

LEMMA SumsAgree ==
  ASSUME NEW E, IsFiniteSet(E), NEW F, NEW g, AddsUp(g, E), NEW h, AddsUp(h, F),
         NEW s, s \subseteq E, s \subseteq F
  PROVE  g[s] = h[s]
<1> DEFINE ch(t) == CHOOSE x \in t : TRUE
           Bad == {t \in SUBSET (E \cap F) : g[t] # h[t]}
<1>1. \A t \in SUBSET E : /\ IsFiniteSet(t) /\ Cardinality(t) \in Nat
                          /\ g[t] = IF t = {} THEN 0 ELSE SizeOf(ch(t)) + g[t \ {ch(t)}]
  BY FS_Subset, FS_CardinalityType DEF AddsUp
<1>2. \A t \in SUBSET F : h[t] = IF t = {} THEN 0 ELSE SizeOf(ch(t)) + h[t \ {ch(t)}]
  BY DEF AddsUp
<1>3. Bad = {}
  <2>1. SUFFICES ASSUME Bad # {} PROVE FALSE
    OBVIOUS
  <2>2. \A t \in Bad : IsFiniteSet(t)
    BY <1>1
  <2>3. PICK t \in Bad : \A u \in Bad : Cardinality(t) <= Cardinality(u)
    <3> HIDE DEF Bad
    <3> QED
      BY <2>1, <2>2, SmallestExists
  <2>4. t \in SUBSET E /\ t \in SUBSET F /\ g[t] # h[t]
    BY <2>3
  <2>5. t # {}
    BY <1>1, <1>2, <2>4
  <2> DEFINE c == ch(t)  u == t \ {ch(t)}
  <2>6. c \in t
    BY <2>5
  <2>7. u \in SUBSET (E \cap F) /\ IsFiniteSet(t)
    BY <1>1, <2>4
  <2>8. Cardinality(u) = Cardinality(t) - 1 /\ Cardinality(t) \in Nat
    BY <2>6, <2>7, FS_RemoveElement, FS_CardinalityType
  <2>9. ~(Cardinality(t) <= Cardinality(u))
    <3> HIDE DEF u
    <3> QED
      BY <2>8
  <2>10. u \notin Bad
    BY <2>3, <2>9
  <2>11. g[u] = h[u]
    BY <2>7, <2>10
  <2>12. g[t] = SizeOf(c) + g[u] /\ h[t] = SizeOf(c) + h[u]
    BY <1>1, <1>2, <2>4, <2>5
  <2> HIDE DEF u, c
  <2> QED
    BY <2>4, <2>11, <2>12
<1> QED
  BY <1>3

(* The recursion of Bytes. *)
LEMMA BytesRecursion ==
  ASSUME NEW E, IsFiniteSet(E)
  PROVE  /\ E = {} => Bytes(E) = 0
         /\ E # {} => \E e \in E : Bytes(E) = SizeOf(e) + Bytes(E \ {e})
<1> DEFINE sum(F) == CHOOSE g : AddsUp(g, F)
<1>1. \A F : Bytes(F) = sum(F)[F]
  BY DEF Bytes, MapThenSumSet, MapThenFoldSet, AddsUp
<1>2. \A F : IsFiniteSet(F) => AddsUp(sum(F), F)
  BY SumExists
<1>3. sum(E)[E] = IF E = {} THEN 0
                  ELSE LET x == CHOOSE x \in E : TRUE IN SizeOf(x) + sum(E)[E \ {x}]
  <2>1. AddsUp(sum(E), E)
    BY <1>2
  <2> HIDE DEF sum
  <2> QED
    BY <2>1 DEF AddsUp
<1>4. CASE E = {}
  BY <1>1, <1>3, <1>4
<1>5. CASE E # {}
  <2> DEFINE c == CHOOSE x \in E : TRUE
             F == E \ {c}
  <2>1. c \in E
    BY <1>5
  <2>2. Bytes(E) = SizeOf(c) + sum(E)[F]
    BY <1>1, <1>3, <1>5
  <2>3. IsFiniteSet(F)
    BY FS_RemoveElement
  <2>4. AddsUp(sum(F), F) /\ AddsUp(sum(E), E)
    BY <1>2, <2>3
  <2>5. F \subseteq E
    OBVIOUS
  <2>6. sum(E)[F] = sum(F)[F]
    <3> HIDE DEF sum, F
    <3> QED
      BY <2>4, <2>5, SumsAgree
  <2> QED
    BY <1>1, <1>5, <2>1, <2>2, <2>6
<1> QED
  BY <1>4, <1>5

LEMMA SizesAreNaturals == \A e \in Entries : SizeOf(e) \in Nat
BY CacheAssumption DEF Entries, SizeOf

(* Any entry can be taken out first. *)
LEMMA BytesRemove ==
  ASSUME NEW E \in SUBSET Entries, IsFiniteSet(E)
  PROVE  /\ Bytes(E) \in Nat
         /\ \A e \in E : Bytes(E) = SizeOf(e) + Bytes(E \ {e})
<1> DEFINE Good(F) == /\ Bytes(F) \in Nat
                      /\ \A e \in F : Bytes(F) = SizeOf(e) + Bytes(F \ {e})
           Bad == {F \in SUBSET E : ~Good(F)}
<1>1. \A F \in SUBSET E : IsFiniteSet(F) /\ Cardinality(F) \in Nat
  BY FS_Subset, FS_CardinalityType
<1>2. Bad = {}
  <2>1. SUFFICES ASSUME Bad # {} PROVE FALSE
    OBVIOUS
  <2>2. \A F \in Bad : IsFiniteSet(F)
    BY <1>1
  <2>3. PICK F \in Bad : \A G \in Bad : Cardinality(F) <= Cardinality(G)
    <3> HIDE DEF Bad
    <3> QED
      BY <2>1, <2>2, SmallestExists
  <2>4. F \in SUBSET E /\ ~Good(F) /\ IsFiniteSet(F) /\ Cardinality(F) \in Nat
    BY <1>1, <2>3
  <2>5. \A e \in F : Good(F \ {e})
    <3> HIDE DEF Good
    <3>1. ASSUME NEW e \in F PROVE Good(F \ {e})
      <4>1. Cardinality(F \ {e}) = Cardinality(F) - 1
        BY <2>4, FS_RemoveElement
      <4>2. ~(Cardinality(F) <= Cardinality(F \ {e}))
        BY <2>4, <4>1
      <4> QED
        BY <2>3, <2>4, <4>2
    <3> QED
      BY <3>1
  <2>6. F # {}
    BY <2>4, BytesRecursion
  <2>7. PICK c \in F : Bytes(F) = SizeOf(c) + Bytes(F \ {c})
    BY <2>4, <2>6, BytesRecursion
  <2>8. \A e \in F : SizeOf(e) \in Nat
    BY <2>4, SizesAreNaturals
  <2>9. Bytes(F) \in Nat
    BY <2>5, <2>7, <2>8
  <2>10. ASSUME NEW e \in F, e # c PROVE Bytes(F) = SizeOf(e) + Bytes(F \ {e})
    <3>1. Bytes(F \ {c}) = SizeOf(e) + Bytes((F \ {c}) \ {e})
      BY <2>5, <2>10
    <3>2. Bytes(F \ {e}) = SizeOf(c) + Bytes((F \ {e}) \ {c})
      BY <2>5, <2>10
    <3>3. (F \ {c}) \ {e} = (F \ {e}) \ {c}
      OBVIOUS
    <3>4. Bytes((F \ {e}) \ {c}) \in Nat
      <4>1. (F \ {e}) \ {c} \in SUBSET Entries /\ IsFiniteSet((F \ {e}) \ {c})
        BY <2>4, FS_Subset
      <4>2. Good((F \ {e}) \ {c})
        <5> DEFINE G == (F \ {e}) \ {c}
        <5>1. Cardinality(F \ {e}) = Cardinality(F) - 1 /\ IsFiniteSet(F \ {e})
          BY <2>4, FS_RemoveElement
        <5>2. Cardinality(G) = Cardinality(F \ {e}) - 1
          BY <2>10, <5>1, FS_RemoveElement
        <5>3. ~(Cardinality(F) <= Cardinality(G)) /\ G \in SUBSET E
          BY <2>4, <5>1, <5>2
        <5> HIDE DEF G, Good
        <5>4. Good(G)
          BY <2>3, <5>3
        <5> QED
          BY <5>4 DEF G
      <4> QED
        BY <4>2
    <3> HIDE DEF Good
    <3> QED
      BY <2>7, <2>8, <3>1, <3>2, <3>3, <3>4
  <2>11. Good(F)
    BY <2>7, <2>9, <2>10
  <2> QED
    BY <2>4, <2>11
<1>3. Good(E)
  <2> HIDE DEF Good
  <2> QED
    BY <1>2
<1> QED
  BY <1>3

(* Sets of entries with some entries less, and with one more. *)
LEMMA BytesSplit ==
  ASSUME NEW E \in SUBSET Entries, IsFiniteSet(E), NEW F \in SUBSET E
  PROVE  /\ IsFiniteSet(F) /\ Bytes(F) \in Nat /\ Bytes(E) \in Nat /\ Bytes(E \ F) \in Nat
         /\ Bytes(E \ F) = Bytes(E) - Bytes(F)
<1> DEFINE Good(G) == Bytes(E \ G) = Bytes(E) - Bytes(G)
           Bad == {G \in SUBSET E : ~Good(G)}
<1>1. \A G \in SUBSET E : /\ IsFiniteSet(G) /\ IsFiniteSet(E \ G)
                          /\ Bytes(G) \in Nat /\ Bytes(E \ G) \in Nat
  <2>1. ASSUME NEW G \in SUBSET E
        PROVE  G \in SUBSET Entries /\ E \ G \in SUBSET Entries /\ IsFiniteSet(G) /\ IsFiniteSet(E \ G)
    BY FS_Subset
  <2> QED
    BY <2>1, BytesRemove
<1>2. Bad = {}
  <2>1. SUFFICES ASSUME Bad # {} PROVE FALSE
    OBVIOUS
  <2>2. \A G \in Bad : IsFiniteSet(G)
    BY <1>1
  <2>3. PICK G \in Bad : \A H \in Bad : Cardinality(G) <= Cardinality(H)
    <3> HIDE DEF Bad
    <3> QED
      BY <2>1, <2>2, SmallestExists
  <2>4. G \in SUBSET E /\ ~Good(G) /\ IsFiniteSet(G)
    BY <1>1, <2>3
  <2>5. G # {}
    <3>1. Bytes({}) = 0
      BY FS_EmptySet, BytesRecursion
    <3>2. E \ {} = E /\ Bytes(E) \in Nat
      BY <1>1
    <3>3. Good({})
      BY <3>1, <3>2
    <3> HIDE DEF Good
    <3> QED
      BY <2>4, <3>3
  <2>6. PICK e \in G : TRUE
    BY <2>5
  <2> DEFINE H == G \ {e}
  <2>7. Cardinality(H) = Cardinality(G) - 1 /\ Cardinality(G) \in Nat
    BY <2>4, FS_RemoveElement, FS_CardinalityType
  <2>8. H \in SUBSET E /\ ~(Cardinality(G) <= Cardinality(H))
    <3>1. H \in SUBSET E
      BY <2>4
    <3> HIDE DEF H
    <3> QED
      BY <2>7, <3>1
  <2>9. Good(H)
    <3> HIDE DEF Good, H
    <3> QED
      BY <2>3, <2>8
  <2>10. /\ e \in E \ H /\ (E \ H) \ {e} = E \ G
         /\ E \ H \in SUBSET Entries /\ G \in SUBSET Entries
    BY <2>4, <2>6
  <2>11. Bytes(E \ H) = SizeOf(e) + Bytes(E \ G)
    <3>1. IsFiniteSet(E \ H)
      BY <1>1, <2>8
    <3> HIDE DEF H
    <3> QED
      BY <2>10, <3>1, BytesRemove
  <2>12. Bytes(G) = SizeOf(e) + Bytes(H)
    BY <2>4, <2>6, <2>10, BytesRemove
  <2>13. SizeOf(e) \in Nat
    BY <2>10, SizesAreNaturals
  <2>14. /\ Bytes(E) \in Nat /\ Bytes(G) \in Nat /\ Bytes(H) \in Nat
         /\ Bytes(E \ G) \in Nat /\ Bytes(E \ H) \in Nat
    <3> HIDE DEF H
    <3> QED
      BY <1>1, <2>4, <2>8
  <2>15. Good(G)
    <3>1. Bytes(E \ H) = Bytes(E) - Bytes(H)
      BY <2>9
    <3> HIDE DEF H
    <3> QED
      BY <2>11, <2>12, <2>13, <2>14, <3>1
  <2> QED
    BY <2>4, <2>15
<1> QED
  BY <1>1, <1>2

LEMMA BytesAdd ==
  ASSUME NEW E \in SUBSET Entries, IsFiniteSet(E), NEW e \in Entries, e \notin E
  PROVE  /\ IsFiniteSet(E \union {e}) /\ Bytes(E \union {e}) = Bytes(E) + SizeOf(e)
         /\ Bytes(E) \in Nat /\ Bytes({e}) = SizeOf(e) /\ SizeOf(e) \in Nat
<1>1. IsFiniteSet(E \union {e}) /\ IsFiniteSet({e}) /\ E \union {e} \in SUBSET Entries
      /\ {e} \in SUBSET Entries
  BY FS_AddElement, FS_Singleton
<1>2. (E \union {e}) \ {e} = E /\ {e} \ {e} = {}
  OBVIOUS
<1>3. Bytes(E \union {e}) = SizeOf(e) + Bytes(E)
  BY <1>1, <1>2, BytesRemove
<1>4. Bytes({e}) = SizeOf(e) + Bytes({})
  BY <1>1, <1>2, BytesRemove
<1>5. Bytes({}) = 0
  BY FS_EmptySet, BytesRecursion
<1>6. Bytes(E) \in Nat /\ SizeOf(e) \in Nat
  BY BytesRemove, SizesAreNaturals
<1> QED
  BY <1>1, <1>3, <1>4, <1>5, <1>6

(* Cardinalities in the same two cases. *)
LEMMA CardinalitySplit ==
  ASSUME NEW E, IsFiniteSet(E), NEW F \in SUBSET E
  PROVE  /\ IsFiniteSet(F) /\ IsFiniteSet(E \ F)
         /\ Cardinality(E) \in Nat /\ Cardinality(F) \in Nat /\ Cardinality(E \ F) \in Nat
         /\ Cardinality(E \ F) = Cardinality(E) - Cardinality(F)
<1>1. IsFiniteSet(F) /\ IsFiniteSet(E \ F)
  BY FS_Subset
<1>2. E \cap F = F
  OBVIOUS
<1>3. Cardinality(E \ F) = Cardinality(E) - Cardinality(E \cap F)
  BY FS_Difference
<1> QED
  BY <1>1, <1>2, <1>3, FS_CardinalityType

-----------------------------------------------------------------------------
(* What is left of a list                                                  *)

(* The recursion of Remaining. *)
Keeps(g, q, E) ==
  g = [n \in 0..Len(q) |-> IF n = 0 THEN <<>>
                           ELSE IF q[n] \in E THEN g[n - 1]
                           ELSE Append(g[n - 1], q[n])]

LEMMA KeepsExists ==
  ASSUME NEW q, Len(q) \in Nat, NEW E
  PROVE  \E g : Keeps(g, q, E)
<1> DEFINE D == 0..Len(q)
           Step(g, n) == IF n = 0 THEN <<>> ELSE IF q[n] \in E THEN g[n - 1]
                         ELSE Append(g[n - 1], q[n])
           Upto(g, n) == \A k \in D : k <= n => g[k] = Step(g, k)
           Bad == {n \in Nat : ~(\E g : Upto(g, n))}
<1>1. ASSUME NEW n \in Nat, NEW g, Upto(g, n)
      PROVE  \E h : Upto(h, n + 1)
  <2> DEFINE h == [k \in D |-> Step(g, k)]
  <2>1. ASSUME NEW k \in D, k <= n + 1
        PROVE  h[k] = Step(h, k)
    <3>1. CASE k = 0
      BY <3>1
    <3>2. CASE k # 0
      <4>1. k - 1 \in D /\ k - 1 <= n
        BY <2>1, <3>2
      <4>2. g[k - 1] = Step(g, k - 1)
        BY <1>1, <4>1
      <4>3. h[k - 1] = Step(g, k - 1) /\ h[k] = Step(g, k)
        BY <4>1
      <4>4. h[k - 1] = g[k - 1]
        <5> HIDE DEF h, Step
        <5> QED
          BY <4>2, <4>3
      <4> QED
        BY <4>3, <4>4
    <3> QED
      BY <3>1, <3>2
  <2>2. Upto(h, n + 1)
    BY <2>1
  <2> HIDE DEF Upto, h
  <2> QED
    BY <2>2
<1>2. \E g : Upto(g, 0)
  <2>1. Upto([k \in D |-> <<>>], 0)
    OBVIOUS
  <2> HIDE DEF Upto
  <2> QED
    BY <2>1
<1> HIDE DEF Upto
<1>3. Bad = {}
  <2>1. SUFFICES ASSUME Bad # {} PROVE FALSE
    OBVIOUS
  <2>2. PICK m \in Bad : \A x \in Bad : m <= x
    BY <2>1, LeastExists
  <2>3. m # 0
    BY <1>2, <2>2
  <2>4. m - 1 \in Nat /\ ~(m <= m - 1) /\ (m - 1) + 1 = m
    BY <2>2, <2>3
  <2>5. PICK g : Upto(g, m - 1)
    BY <2>2, <2>4
  <2>6. \E h : Upto(h, (m - 1) + 1)
    BY <1>1, <2>4, <2>5
  <2> QED
    BY <2>2, <2>4, <2>6
<1>4. PICK g : Upto(g, Len(q))
  BY <1>3
<1>5. \A k \in D : g[k] = Step(g, k)
  BY <1>4 DEF Upto
<1> DEFINE h == [k \in D |-> g[k]]
<1>6. \A k \in D : h[k] = Step(h, k)
  <2>1. \A k \in D : k # 0 => k - 1 \in D
    OBVIOUS
  <2>2. \A k \in D : k # 0 => h[k - 1] = g[k - 1]
    BY <2>1
  <2> QED
    BY <1>5, <2>2
<1>7. h = [k \in D |-> Step(h, k)]
  <2>1. h = [k \in D |-> h[k]]
    OBVIOUS
  <2> HIDE DEF h, Step, D
  <2> QED
    BY <1>6, <2>1
<1>8. Keeps(h, q, E)
  BY <1>7 DEF Keeps
<1> QED
  BY <1>8

KeysOnce(q) ==
  \A i, j \in DOMAIN q : q[i].scope = q[j].scope /\ q[i].key = q[j].key => i = j

(* The list that is left has the elements that are not in E, and each key as
   often as the list did. *)
LEMMA RemainingFacts ==
  ASSUME NEW S, NEW q \in Seq(S), NEW E
  PROVE  /\ Remaining(q, E) \in Seq(S)
         /\ {Remaining(q, E)[i] : i \in DOMAIN Remaining(q, E)} = {q[i] : i \in DOMAIN q} \ E
         /\ KeysOnce(q) => KeysOnce(Remaining(q, E))
<1> DEFINE D == 0..Len(q)
           g == CHOOSE g : Keeps(g, q, E)
           Good(n) == /\ g[n] \in Seq(S)
                      /\ {g[n][i] : i \in DOMAIN g[n]} = {q[i] : i \in 1..n} \ E
                      /\ KeysOnce(q) => KeysOnce(g[n])
           Bad == {n \in D : ~Good(n)}
<1>1. Len(q) \in Nat /\ DOMAIN q = 1..Len(q) /\ \A i \in 1..Len(q) : q[i] \in S
  OBVIOUS
<1>2. Remaining(q, E) = g[Len(q)]
  BY DEF Remaining, Keeps
<1>3. Keeps(g, q, E)
  BY <1>1, KeepsExists
<1> HIDE DEF g
<1>4. /\ g[0] = <<>>
      /\ \A n \in D : n # 0 => g[n] = IF q[n] \in E THEN g[n - 1] ELSE Append(g[n - 1], q[n])
  <2>1. \A n \in D : g[n] = IF n = 0 THEN <<>> ELSE IF q[n] \in E THEN g[n - 1]
                                              ELSE Append(g[n - 1], q[n])
    BY <1>3, Zenon DEF Keeps
  <2>2. 0 \in D
    BY <1>1
  <2> QED
    BY <2>1, <2>2
<1>5. Good(0)
  <2>1. g[0] \in Seq(S) /\ DOMAIN g[0] = {}
    BY <1>4
  <2>2. KeysOnce(g[0])
    BY <2>1 DEF KeysOnce
  <2> QED
    BY <2>1, <2>2
<1>6. ASSUME NEW n \in D, n # 0, Good(n - 1)
      PROVE  Good(n)
  <2> DEFINE p == g[n - 1]
  <2>1. n \in 1..Len(q) /\ 1..n = (1..(n - 1)) \union {n} /\ 1..n \subseteq 1..Len(q) /\ n - 1 \in Nat
    BY <1>1, <1>6
  <2>2. {q[i] : i \in 1..n} = {q[i] : i \in 1..(n - 1)} \union {q[n]}
    BY <2>1
  <2>3. /\ p \in Seq(S) /\ {p[i] : i \in DOMAIN p} = {q[i] : i \in 1..(n - 1)} \ E
        /\ KeysOnce(q) => KeysOnce(p)
    BY <1>6
  <2> HIDE DEF p
  <2>4. CASE q[n] \in E
    <3>1. g[n] = p
      BY <1>4, <1>6, <2>4 DEF p
    <3>2. {q[i] : i \in 1..n} \ E = {q[i] : i \in 1..(n - 1)} \ E
      BY <2>2, <2>4
    <3> QED
      BY <2>3, <3>1, <3>2
  <2>5. CASE q[n] \notin E
    <3> DEFINE r == Append(p, q[n])
               A == {q[i] : i \in 1..(n - 1)}
    <3>1. g[n] = r
      BY <1>4, <1>6, <2>5 DEF p
    <3>2. /\ r \in Seq(S) /\ Len(p) \in Nat /\ DOMAIN p = 1..Len(p)
          /\ DOMAIN r = DOMAIN p \union {Len(p) + 1}
          /\ \A i \in DOMAIN p : r[i] = p[i]
          /\ r[Len(p) + 1] = q[n]
      BY <1>1, <2>1, <2>3
    <3> HIDE DEF r
    <3>3. {r[i] : i \in DOMAIN r} = {p[i] : i \in DOMAIN p} \union {q[n]}
      BY <3>2
    <3>4. {r[i] : i \in DOMAIN r} = (A \union {q[n]}) \ E
      BY <2>3, <2>5, <3>3
    <3>5. ASSUME KeysOnce(q) PROVE KeysOnce(r)
      <4>1. \A i \in DOMAIN p : \E k \in 1..(n - 1) : p[i] = q[k]
        BY <2>3
      <4>2. ASSUME NEW i \in DOMAIN p PROVE ~(p[i].scope = q[n].scope /\ p[i].key = q[n].key)
        <5>1. PICK k \in 1..(n - 1) : p[i] = q[k]
          BY <4>1, <4>2
        <5>2. k \in DOMAIN q /\ n \in DOMAIN q /\ k # n
          BY <1>1, <2>1
        <5> QED
          BY <3>5, <5>1, <5>2 DEF KeysOnce
      <4>3. KeysOnce(p)
        BY <2>3, <3>5
      <4>4. ASSUME NEW i \in DOMAIN r, NEW j \in DOMAIN r,
                   r[i].scope = r[j].scope, r[i].key = r[j].key
            PROVE  i = j
        <5>1. CASE i \in DOMAIN p /\ j \in DOMAIN p
          BY <3>2, <4>3, <4>4, <5>1 DEF KeysOnce
        <5>2. CASE i \in DOMAIN p /\ j \notin DOMAIN p
          BY <3>2, <4>2, <4>4, <5>2
        <5>3. CASE i \notin DOMAIN p /\ j \in DOMAIN p
          BY <3>2, <4>2, <4>4, <5>3
        <5>4. CASE i \notin DOMAIN p /\ j \notin DOMAIN p
          BY <3>2, <5>4
        <5> QED
          BY <5>1, <5>2, <5>3, <5>4
      <4> QED
        BY <4>4 DEF KeysOnce
    <3> QED
      BY <2>2, <3>1, <3>2, <3>4, <3>5, SMTT(60)
  <2> QED
    BY <2>4, <2>5
<1> HIDE DEF Good
<1>7. Bad = {}
  <2>1. SUFFICES ASSUME Bad # {} PROVE FALSE
    OBVIOUS
  <2>2. Bad \in SUBSET Nat
    BY <1>1
  <2>3. PICK m \in Bad : \A x \in Bad : m <= x
    <3> HIDE DEF Bad
    <3> QED
      BY <2>1, <2>2, LeastExists
  <2>4. m \in D /\ ~Good(m) /\ m # 0
    BY <1>5, <2>3
  <2>5. m - 1 \in D /\ ~(m <= m - 1)
    BY <1>1, <2>4
  <2>6. Good(m - 1)
    BY <2>3, <2>5
  <2> QED
    BY <1>6, <2>4, <2>6
<1>8. Good(Len(q))
  BY <1>1, <1>7
<1> QED
  BY <1>1, <1>2, <1>8 DEF Good

Listed(q) == {q[i] : i \in DOMAIN q}

(* The entries at a level stay within its limit. *)
Fits(E, x, limit) ==
  Cardinality(AtLevel(E, x)) <= limit.entries /\ Bytes(AtLevel(E, x)) <= limit.bytes

LEMMA ListedFacts ==
  ASSUME NEW q \in Seq(Entries)
  PROVE  /\ Listed(q) \in SUBSET Entries /\ IsFiniteSet(Listed(q))
         /\ Len(q) \in Nat /\ DOMAIN q = 1..Len(q)
<1>1. DOMAIN q = 1..Len(q) /\ Len(q) \in Nat /\ \A i \in 1..Len(q) : q[i] \in Entries
  OBVIOUS
<1>2. IsFiniteSet(1..Len(q))
  BY <1>1, FS_Interval
<1>3. IsFiniteSet({q[i] : i \in 1..Len(q)})
  <2> DEFINE T == {q[i] : i \in 1..Len(q)}
             f == [i \in 1..Len(q) |-> q[i]]
  <2>1. f \in Surjection(1..Len(q), T)
    BY DEF Surjection
  <2> HIDE DEF f, T
  <2>2. IsFiniteSet(T)
    BY <1>2, <2>1, FS_Surjection
  <2> QED
    BY <2>2 DEF T
<1> QED
  BY <1>1, <1>3 DEF Listed

LEMMA LevelFacts ==
  ASSUME NEW E \in SUBSET Entries, IsFiniteSet(E), NEW x
  PROVE  /\ AtLevel(E, x) \in SUBSET E /\ AtLevel(E, x) \in SUBSET Entries
         /\ IsFiniteSet(AtLevel(E, x))
         /\ Cardinality(AtLevel(E, x)) \in Nat /\ Bytes(AtLevel(E, x)) \in Nat
<1>1. AtLevel(E, x) \in SUBSET E
  BY DEF AtLevel
<1> QED
  BY <1>1, BytesSplit, CardinalitySplit

(* Fewer entries have no more bytes. *)
LEMMA FewerBytes ==
  ASSUME NEW E \in SUBSET Entries, IsFiniteSet(E), NEW F \in SUBSET E
  PROVE  /\ Cardinality(E) \in Nat /\ Cardinality(F) \in Nat /\ Cardinality(F) <= Cardinality(E)
         /\ Bytes(E) \in Nat /\ Bytes(F) \in Nat /\ Bytes(F) <= Bytes(E)
<1>1. /\ Cardinality(E) \in Nat /\ Cardinality(F) \in Nat /\ Cardinality(E \ F) \in Nat
      /\ Cardinality(E \ F) = Cardinality(E) - Cardinality(F)
  BY CardinalitySplit
<1>2. /\ Bytes(F) \in Nat /\ Bytes(E) \in Nat /\ Bytes(E \ F) \in Nat
      /\ Bytes(E \ F) = Bytes(E) - Bytes(F)
  BY BytesSplit
<1> QED
  BY <1>1, <1>2

LEMMA FewerFit ==
  ASSUME NEW E \in SUBSET Entries, IsFiniteSet(E), NEW F \in SUBSET E, NEW x,
         NEW limit \in [entries : Nat, bytes : Nat], Fits(E, x, limit)
  PROVE  Fits(F, x, limit)
<1>1. AtLevel(F, x) \in SUBSET AtLevel(E, x)
  BY DEF AtLevel
<1>2. AtLevel(E, x) \in SUBSET Entries /\ IsFiniteSet(AtLevel(E, x))
  BY LevelFacts
<1>3. /\ Cardinality(AtLevel(E, x)) \in Nat /\ Cardinality(AtLevel(F, x)) \in Nat
      /\ Bytes(AtLevel(E, x)) \in Nat /\ Bytes(AtLevel(F, x)) \in Nat
      /\ Cardinality(AtLevel(F, x)) <= Cardinality(AtLevel(E, x))
      /\ Bytes(AtLevel(F, x)) <= Bytes(AtLevel(E, x))
  BY <1>1, <1>2, FewerBytes
<1>4. limit.entries \in Nat /\ limit.bytes \in Nat
  OBVIOUS
<1> QED
  BY <1>3, <1>4 DEF Fits

(* The loop of enforceLocked leaves what fits. *)
LEMMA WithinLimitFacts ==
  ASSUME NEW q \in Seq(Entries), NEW x, NEW limit \in [entries : Nat, bytes : Nat]
  PROVE  /\ WithinLimit(q, x, limit) \in Seq(Entries)
         /\ Listed(WithinLimit(q, x, limit)) \subseteq Listed(q)
         /\ KeysOnce(q) => KeysOnce(WithinLimit(q, x, limit))
         /\ Fits(Listed(WithinLimit(q, x, limit)), x, limit)
<1> DEFINE upTo(i) == AtLevel({q[j] : j \in 1..i}, x)
           fits(i) == Cardinality(upTo(i)) <= limit.entries /\ Bytes(upTo(i)) <= limit.bytes
           dropped == {q[i] : i \in {i \in DOMAIN q : x \in LevelsOf(q[i].scope) /\ ~fits(i)}}
           r == WithinLimit(q, x, limit)
           K == AtLevel(Listed(r), x)
<1>1. r = Remaining(q, dropped)
  BY DEF WithinLimit
<1>2. \A i \in DOMAIN q : x \in LevelsOf(q[i].scope) /\ q[i] \notin dropped => fits(i)
  OBVIOUS
<1> HIDE DEF dropped, fits, r
<1>3. r \in Seq(Entries) /\ Listed(r) = Listed(q) \ dropped /\ (KeysOnce(q) => KeysOnce(r))
  BY <1>1, RemainingFacts DEF Listed
<1>4. Listed(q) \in SUBSET Entries /\ IsFiniteSet(Listed(q)) /\ Len(q) \in Nat /\ DOMAIN q = 1..Len(q)
  BY ListedFacts
<1>5. K \subseteq Listed(q) /\ \A e \in K : x \in LevelsOf(e.scope) /\ e \notin dropped
  BY <1>3 DEF AtLevel
<1>6. limit.entries \in Nat /\ limit.bytes \in Nat
  OBVIOUS
<1> HIDE DEF K
<1>7. Cardinality(K) <= limit.entries /\ Bytes(K) <= limit.bytes
  <2>1. CASE K = {}
    <3>1. Cardinality({}) = 0 /\ IsFiniteSet({})
      BY FS_EmptySet
    <3>2. Bytes({}) = 0
      BY <3>1, BytesRecursion
    <3> QED
      BY <1>6, <2>1, <3>1, <3>2
  <2>2. CASE K # {}
    <3> DEFINE N == {n \in Nat : \E i \in DOMAIN q : n = Len(q) - i /\ q[i] \in K}
    <3>1. N # {}
      <4>1. PICK e \in K : TRUE
        BY <2>2
      <4>2. PICK i \in DOMAIN q : q[i] = e
        BY <1>5, <4>1 DEF Listed
      <4>3. Len(q) - i \in Nat
        BY <1>4, <4>2
      <4>4. Len(q) - i \in N
        BY <4>1, <4>2, <4>3
      <4> QED
        BY <4>4
    <3>2. PICK n \in N : \A y \in N : n <= y
      <4>1. N \in SUBSET Nat
        OBVIOUS
      <4> HIDE DEF N
      <4> QED
        BY <3>1, <4>1, LeastExists
    <3>3. PICK m \in DOMAIN q : n = Len(q) - m /\ q[m] \in K
      BY <3>2
    <3>4. ASSUME NEW i \in DOMAIN q, q[i] \in K PROVE i \in 1..m
      <4>1. Len(q) - i \in N
        BY <1>4, <3>4
      <4>2. n <= Len(q) - i
        BY <3>2, <4>1
      <4> HIDE DEF N
      <4> QED
        BY <1>4, <3>3, <4>2
    <3>5. fits(m)
      BY <1>2, <1>5, <3>3
    <3>6. K \in SUBSET upTo(m)
      <4>1. \A e \in K : \E i \in DOMAIN q : q[i] = e
        BY <1>5 DEF Listed
      <4>2. \A e \in K : \E i \in 1..m : q[i] = e
        BY <3>4, <4>1
      <4> QED
        BY <1>5, <4>2 DEF AtLevel
    <3>7. upTo(m) \in SUBSET Entries /\ IsFiniteSet(upTo(m))
      <4>1. {q[j] : j \in 1..m} \in SUBSET Listed(q)
        BY <1>4, <3>3 DEF Listed
      <4>2. IsFiniteSet({q[j] : j \in 1..m}) /\ {q[j] : j \in 1..m} \in SUBSET Entries
        BY <1>4, <4>1, FS_Subset
      <4> QED
        BY <4>2, LevelFacts
    <3> HIDE DEF upTo
    <3>8. /\ Cardinality(K) <= Cardinality(upTo(m)) /\ Bytes(K) <= Bytes(upTo(m))
          /\ Cardinality(K) \in Nat /\ Cardinality(upTo(m)) \in Nat
          /\ Bytes(K) \in Nat /\ Bytes(upTo(m)) \in Nat
      BY <3>6, <3>7, FewerBytes
    <3>9. Cardinality(upTo(m)) <= limit.entries /\ Bytes(upTo(m)) <= limit.bytes
      BY <3>5 DEF fits
    <3> QED
      BY <1>6, <3>8, <3>9
  <2> QED
    BY <2>1, <2>2
<1>8. Fits(Listed(r), x, limit)
  BY <1>7 DEF Fits, K
<1> QED
  BY <1>3, <1>8 DEF r

LEMMA LimitTypes ==
  /\ RuntimeLimit \in [entries : Nat, bytes : Nat]
  /\ WorkspaceLimit \in [entries : Nat, bytes : Nat]
  /\ NodeLimit \in [entries : Nat, bytes : Nat]
BY CacheAssumption

(* enforceLocked leaves a part of the list within the limits of the scope, its
   workspace and the node. *)
LEMMA EnforcedFacts ==
  ASSUME NEW q \in Seq(Entries), NEW s \in CacheScopes
  PROVE  /\ Enforced(q, s) \in Seq(Entries) /\ Listed(Enforced(q, s)) \subseteq Listed(q)
         /\ KeysOnce(q) => KeysOnce(Enforced(q, s))
         /\ Fits(Listed(Enforced(q, s)), s, RuntimeLimit)
         /\ Fits(Listed(Enforced(q, s)), WorkspaceOfScope[s], WorkspaceLimit)
         /\ Fits(Listed(Enforced(q, s)), "node", NodeLimit)
<1> DEFINE w == WorkspaceOfScope[s]
           scoped == WithinLimit(q, s, RuntimeLimit)
           shared == WithinLimit(scoped, w, WorkspaceLimit)
           q3 == WithinLimit(shared, "node", NodeLimit)
<1>0. Enforced(q, s) = q3
  BY DEF Enforced
<1>1. /\ scoped \in Seq(Entries) /\ Listed(scoped) \subseteq Listed(q) /\ (KeysOnce(q) => KeysOnce(scoped))
      /\ Fits(Listed(scoped), s, RuntimeLimit)
  BY LimitTypes, WithinLimitFacts
<1> HIDE DEF scoped
<1>2. /\ shared \in Seq(Entries) /\ Listed(shared) \subseteq Listed(scoped) /\ (KeysOnce(scoped) => KeysOnce(shared))
      /\ Fits(Listed(shared), w, WorkspaceLimit)
  BY <1>1, LimitTypes, WithinLimitFacts
<1> HIDE DEF shared
<1>3. /\ q3 \in Seq(Entries) /\ Listed(q3) \subseteq Listed(shared) /\ (KeysOnce(shared) => KeysOnce(q3))
      /\ Fits(Listed(q3), "node", NodeLimit)
  BY <1>2, LimitTypes, WithinLimitFacts
<1> HIDE DEF q3
<1>4. /\ Listed(scoped) \in SUBSET Entries /\ IsFiniteSet(Listed(scoped))
      /\ Listed(shared) \in SUBSET Entries /\ IsFiniteSet(Listed(shared))
  BY <1>1, <1>2, ListedFacts
<1>5. Listed(q3) \in SUBSET Listed(scoped) /\ Listed(q3) \in SUBSET Listed(shared)
  BY <1>2, <1>3
<1>6. Fits(Listed(q3), s, RuntimeLimit) /\ Fits(Listed(q3), w, WorkspaceLimit)
  BY <1>1, <1>2, <1>4, <1>5, LimitTypes, FewerFit
<1> QED
  BY <1>0, <1>1, <1>2, <1>3, <1>6

-----------------------------------------------------------------------------
(* The inductive invariant                                                 *)

ScopeRows == [open : BOOLEAN, generation : Nat, opened : Nat]
ResultRows == [refs : Nat, version : Nat]
ExecutionRows ==
  [step : {"none", "run", "store", "finish", "done"},
   scope : CacheScopes \union {"none"}, key : Keys \union {"none"},
   token : Nat, live : BOOLEAN, waiters : Nat, failed : {"no", "error", "cancelled"},
   value : ResultIds \union {0}]
QueryRows ==
  [phase : {"idle", "lookup", "join", "wait", "leased"},
   scope : CacheScopes \union {"none"}, key : Keys \union {"none"},
   token : Nat, since : Nat, flight : FlightIds \union {0}, owner : BOOLEAN,
   lease : ResultIds \union {0}]

CacheRows ==
  /\ scope \in [CacheScopes -> ScopeRows]
  /\ data \in [CacheScopes -> Nat] /\ cleared \in [CacheScopes -> Nat] /\ closed \in BOOLEAN
  /\ lru \in Seq(Entries)
  /\ result \in [ResultIds -> ResultRows]
  /\ flight \in [FlightIds -> ExecutionRows]
  /\ query \in [Queries -> QueryRows]

(* A query has a lease or a flight exactly in the phases that say so. *)
QueryOK(q) ==
  /\ query[q].phase = "leased" <=> query[q].lease # 0
  /\ query[q].phase = "wait" <=> query[q].flight # 0
  /\ query[q].phase # "idle" => query[q].scope \in CacheScopes /\ query[q].key \in Keys

(* A flight has a result from the end of its execution on; until it is stored
   the flight's goroutine alone refers to it. *)
ExecutionOK(f) ==
  /\ flight[f].step = "none" => flight[f] = NoArrowFlight
  /\ flight[f].step # "none" => flight[f].scope \in CacheScopes /\ flight[f].key \in Keys
  /\ flight[f].step = "run" => flight[f].value = 0
  /\ flight[f].step = "store" => flight[f].value # 0 /\ result[flight[f].value].refs = 1

(* Who holds a result, and who waits for a flight. *)
ValueHolders(r) == {f \in FlightIds : flight[f].value = r}
ResultHolders(r) == {q \in Queries : query[q].lease = r}
WaitersOf(f) == {q \in Queries : query[q].flight = f}

HoldersAreFinite ==
  \A r \in ResultIds : IsFiniteSet(ValueHolders(r)) /\ IsFiniteSet(ResultHolders(r))
WaitersCounted ==
  \A f \in FlightIds : IsFiniteSet(WaitersOf(f)) /\ flight[f].waiters = Cardinality(WaitersOf(f))

(* The counters and the limits of a level, and the keys of the list. *)
LimitOf(x) == IF x = "node" THEN NodeLimit
              ELSE IF x \in CacheScopes THEN RuntimeLimit ELSE WorkspaceLimit
UsageCounted ==
  usage = [x \in Levels |-> [entries |-> Cardinality(AtLevel(Listed(lru), x)),
                             bytes |-> Bytes(AtLevel(Listed(lru), x))]]
LevelsFit == \A x \in Levels : Fits(Listed(lru), x, LimitOf(x))
OpenOnly == \A e \in Listed(lru) : scope[e.scope].open

Pinned ==
  \A r \in ResultIds :
    result[r].refs = HoldsIn(Listed(lru), r) + Cardinality(ValueHolders(r)) + Cardinality(ResultHolders(r))

CacheInv ==
  /\ CacheRows
  /\ \A q \in Queries : QueryOK(q)
  /\ \A f \in FlightIds : ExecutionOK(f)
  /\ HoldersAreFinite
  /\ WaitersCounted
  /\ UsageCounted
  /\ LevelsFit
  /\ KeysOnce(lru)
  /\ OpenOnly
  /\ Pinned

-----------------------------------------------------------------------------
(* Counting holders                                                        *)

LEMMA CachedIsListed == Cached = Listed(lru)
BY DEF Cached, Listed

LEMMA PinnedIsResultsPinned == Pinned <=> ResultsPinned
BY CachedIsListed DEF Pinned, ResultsPinned, ValueHolders, ResultHolders

LEMMA ZeroIsNoIdentity == 0 \notin FlightIds /\ 0 \notin ResultIds
BY CacheAssumption

(* Sets that differ in one element at most. *)
LEMMA OneElementCounts ==
  ASSUME NEW A, NEW B, NEW h, IsFiniteSet(A), B \ {h} = A \ {h}
  PROVE  /\ IsFiniteSet(B) /\ Cardinality(A) \in Nat /\ Cardinality(B) \in Nat
         /\ Cardinality(B) = Cardinality(A) - (IF h \in A THEN 1 ELSE 0) + (IF h \in B THEN 1 ELSE 0)
<1> DEFINE C == A \ {h}
<1>1. /\ IsFiniteSet(C) /\ Cardinality(A) \in Nat
      /\ Cardinality(C) = IF h \in A THEN Cardinality(A) - 1 ELSE Cardinality(A)
  BY FS_RemoveElement, FS_CardinalityType
<1>2. Cardinality(C) \in Nat /\ h \notin C
  BY <1>1, FS_CardinalityType
<1>4. B = IF h \in B THEN C \union {h} ELSE C
  OBVIOUS
<1> HIDE DEF C
<1>3. IsFiniteSet(C \union {h}) /\ Cardinality(C \union {h}) = Cardinality(C) + 1
  BY <1>1, <1>2, FS_AddElement
<1>5. CASE h \in B
  <2>1. B = C \union {h}
    BY <1>4, <1>5
  <2> QED
    BY <1>1, <1>2, <1>3, <1>5, <2>1
<1>6. CASE h \notin B
  <2>1. B = C
    BY <1>4, <1>6
  <2> QED
    BY <1>1, <1>2, <1>6, <2>1
<1> QED
  BY <1>5, <1>6

(* The holders when one flight, or one query, changes. *)
LEMMA ValuesMove ==
  ASSUME NEW f \in FlightIds, \A g \in FlightIds \ {f} : flight'[g].value = flight[g].value,
         NEW r, IsFiniteSet(ValueHolders(r))
  PROVE  /\ IsFiniteSet(ValueHolders(r)')
         /\ Cardinality(ValueHolders(r)) \in Nat /\ Cardinality(ValueHolders(r)') \in Nat
         /\ Cardinality(ValueHolders(r)') = Cardinality(ValueHolders(r))
              - (IF flight[f].value = r THEN 1 ELSE 0) + (IF flight'[f].value = r THEN 1 ELSE 0)
<1> DEFINE A == {g \in FlightIds : flight[g].value = r}
           B == {g \in FlightIds : flight'[g].value = r}
<1>1. ValueHolders(r) = A /\ ValueHolders(r)' = B
  BY DEF ValueHolders
<1>2. B \ {f} = A \ {f} /\ (f \in A <=> flight[f].value = r) /\ (f \in B <=> flight'[f].value = r)
  OBVIOUS
<1> HIDE DEF A, B
<1>3. /\ IsFiniteSet(B) /\ Cardinality(A) \in Nat /\ Cardinality(B) \in Nat
      /\ Cardinality(B) = Cardinality(A) - (IF f \in A THEN 1 ELSE 0) + (IF f \in B THEN 1 ELSE 0)
  BY <1>1, <1>2, OneElementCounts
<1> QED
  BY <1>1, <1>2, <1>3

LEMMA LeasesMove ==
  ASSUME NEW q \in Queries, \A p \in Queries \ {q} : query'[p].lease = query[p].lease,
         NEW r, IsFiniteSet(ResultHolders(r))
  PROVE  /\ IsFiniteSet(ResultHolders(r)')
         /\ Cardinality(ResultHolders(r)) \in Nat /\ Cardinality(ResultHolders(r)') \in Nat
         /\ Cardinality(ResultHolders(r)') = Cardinality(ResultHolders(r))
              - (IF query[q].lease = r THEN 1 ELSE 0) + (IF query'[q].lease = r THEN 1 ELSE 0)
<1> DEFINE A == {p \in Queries : query[p].lease = r}
           B == {p \in Queries : query'[p].lease = r}
<1>1. ResultHolders(r) = A /\ ResultHolders(r)' = B
  BY DEF ResultHolders
<1>2. B \ {q} = A \ {q} /\ (q \in A <=> query[q].lease = r) /\ (q \in B <=> query'[q].lease = r)
  OBVIOUS
<1> HIDE DEF A, B
<1>3. /\ IsFiniteSet(B) /\ Cardinality(A) \in Nat /\ Cardinality(B) \in Nat
      /\ Cardinality(B) = Cardinality(A) - (IF q \in A THEN 1 ELSE 0) + (IF q \in B THEN 1 ELSE 0)
  BY <1>1, <1>2, OneElementCounts
<1> QED
  BY <1>1, <1>2, <1>3

LEMMA WaitersMove ==
  ASSUME NEW q \in Queries, \A p \in Queries \ {q} : query'[p].flight = query[p].flight,
         NEW r, IsFiniteSet(WaitersOf(r))
  PROVE  /\ IsFiniteSet(WaitersOf(r)')
         /\ Cardinality(WaitersOf(r)) \in Nat /\ Cardinality(WaitersOf(r)') \in Nat
         /\ Cardinality(WaitersOf(r)') = Cardinality(WaitersOf(r))
              - (IF query[q].flight = r THEN 1 ELSE 0) + (IF query'[q].flight = r THEN 1 ELSE 0)
<1> DEFINE A == {p \in Queries : query[p].flight = r}
           B == {p \in Queries : query'[p].flight = r}
<1>1. WaitersOf(r) = A /\ WaitersOf(r)' = B
  BY DEF WaitersOf
<1>2. B \ {q} = A \ {q} /\ (q \in A <=> query[q].flight = r) /\ (q \in B <=> query'[q].flight = r)
  OBVIOUS
<1> HIDE DEF A, B
<1>3. /\ IsFiniteSet(B) /\ Cardinality(A) \in Nat /\ Cardinality(B) \in Nat
      /\ Cardinality(B) = Cardinality(A) - (IF q \in A THEN 1 ELSE 0) + (IF q \in B THEN 1 ELSE 0)
  BY <1>1, <1>2, OneElementCounts
<1> QED
  BY <1>1, <1>2, <1>3

(* The references that a set of entries holds. *)
LEMMA HoldsSplit ==
  ASSUME NEW E, IsFiniteSet(E), NEW F \in SUBSET E, NEW r
  PROVE  /\ HoldsIn(E, r) \in Nat /\ HoldsIn(F, r) \in Nat /\ HoldsIn(E \ F, r) \in Nat
         /\ HoldsIn(E \ F, r) = HoldsIn(E, r) - HoldsIn(F, r)
<1> DEFINE A == {e \in E : e.result = r}
           B == {e \in F : e.result = r}
<1>1. IsFiniteSet(A) /\ B \in SUBSET A /\ {e \in E \ F : e.result = r} = A \ B
  BY FS_Subset
<1> HIDE DEF A, B
<1>2. /\ Cardinality(A) \in Nat /\ Cardinality(B) \in Nat /\ Cardinality(A \ B) \in Nat
      /\ Cardinality(A \ B) = Cardinality(A) - Cardinality(B)
  BY <1>1, CardinalitySplit
<1> QED
  BY <1>1, <1>2 DEF HoldsIn, A, B

LEMMA HoldsAdd ==
  ASSUME NEW E, IsFiniteSet(E), NEW e, e \notin E, NEW r
  PROVE  /\ HoldsIn(E, r) \in Nat /\ HoldsIn(E \union {e}, r) \in Nat
         /\ HoldsIn(E \union {e}, r) = HoldsIn(E, r) + (IF e.result = r THEN 1 ELSE 0)
<1> DEFINE A == {d \in E : d.result = r}
           B == {d \in E \union {e} : d.result = r}
<1>1. IsFiniteSet(A) /\ B \ {e} = A \ {e} /\ e \notin A /\ (e \in B <=> e.result = r)
  BY FS_Subset
<1> HIDE DEF A, B
<1>2. /\ Cardinality(A) \in Nat /\ Cardinality(B) \in Nat
      /\ Cardinality(B) = Cardinality(A) - (IF e \in A THEN 1 ELSE 0) + (IF e \in B THEN 1 ELSE 0)
  BY <1>1, OneElementCounts
<1> QED
  BY <1>1, <1>2 DEF HoldsIn, A, B

LEMMA HoldsNothing ==
  ASSUME NEW E, NEW r, \A e \in E : e.result # r
  PROVE  HoldsIn(E, r) = 0
<1>1. {e \in E : e.result = r} = {}
  OBVIOUS
<1> QED
  BY <1>1, FS_EmptySet DEF HoldsIn

(* releaseRef of as many references as there are. *)
LEMMA GivenBack ==
  ASSUME result \in [ResultIds -> ResultRows], NEW n, result' = Returned(n),
         \A r \in ResultIds : result[r].refs - n[r] \in Nat /\ n[r] \in Int
  PROVE  /\ result' \in [ResultIds -> ResultRows]
         /\ \A r \in ResultIds : /\ result'[r].refs = result[r].refs - n[r]
                                 /\ result'[r].refs # 0 => result'[r].version = result[r].version
<1>1. ASSUME NEW r \in ResultIds
      PROVE  /\ result'[r] \in ResultRows
             /\ result'[r].refs = result[r].refs - n[r]
             /\ result'[r].refs # 0 => result'[r].version = result[r].version
  <2>1. result[r] \in ResultRows /\ result[r].refs \in Nat /\ result[r].version \in Nat
    BY DEF ResultRows
  <2>2. result'[r] = IF result[r].refs = n[r] THEN Freed ELSE [result[r] EXCEPT !.refs = result[r].refs - n[r]]
    BY DEF Returned
  <2>3. CASE result[r].refs = n[r]
    BY <2>1, <2>2, <2>3 DEF Freed, ResultRows
  <2>4. CASE result[r].refs # n[r]
    <3>1. result'[r] = [result[r] EXCEPT !.refs = result[r].refs - n[r]]
      BY <2>2, <2>4
    <3>2. result[r].refs - n[r] \in Nat
      OBVIOUS
    <3> QED
      BY <2>1, <3>1, <3>2 DEF ResultRows
  <2> QED
    BY <2>3, <2>4
<1>2. result' = [r \in ResultIds |-> result'[r]]
  BY DEF Returned
<1> QED
  BY <1>1, <1>2

(* What the invariant says of one result, and of the entries. *)
LEMMA PinFacts ==
  ASSUME CacheInv, NEW r \in ResultIds
  PROVE  /\ result[r] \in ResultRows /\ result[r].refs \in Nat /\ result[r].version \in Nat
         /\ HoldsIn(Listed(lru), r) \in Nat
         /\ IsFiniteSet(ValueHolders(r)) /\ Cardinality(ValueHolders(r)) \in Nat
         /\ IsFiniteSet(ResultHolders(r)) /\ Cardinality(ResultHolders(r)) \in Nat
         /\ result[r].refs = HoldsIn(Listed(lru), r) + Cardinality(ValueHolders(r))
                             + Cardinality(ResultHolders(r))
<1>1. result[r] \in ResultRows
  BY DEF CacheInv, CacheRows
<1>2. lru \in Seq(Entries)
  BY DEF CacheInv, CacheRows
<1>3. IsFiniteSet(Listed(lru))
  BY <1>2, ListedFacts
<1>4. HoldsIn(Listed(lru), r) \in Nat
  BY <1>3, HoldsSplit
<1>5. IsFiniteSet(ValueHolders(r)) /\ IsFiniteSet(ResultHolders(r))
  BY DEF CacheInv, HoldersAreFinite
<1>6. Cardinality(ValueHolders(r)) \in Nat /\ Cardinality(ResultHolders(r)) \in Nat
  BY <1>5, FS_CardinalityType
<1>7. result[r].refs = HoldsIn(Listed(lru), r) + Cardinality(ValueHolders(r))
                       + Cardinality(ResultHolders(r))
  BY DEF CacheInv, Pinned
<1> QED
  BY <1>1, <1>4, <1>5, <1>6, <1>7 DEF ResultRows

LEMMA EntryFacts ==
  ASSUME CacheInv
  PROVE  /\ lru \in Seq(Entries) /\ Listed(lru) \in SUBSET Entries /\ IsFiniteSet(Listed(lru))
         /\ Cached = Listed(lru) /\ KeysOnce(lru)
         /\ \A e \in Listed(lru) : e \in Entries /\ e.result \in ResultIds /\ e.scope \in CacheScopes
<1>1. lru \in Seq(Entries) /\ KeysOnce(lru)
  BY DEF CacheInv, CacheRows
<1>2. Listed(lru) \in SUBSET Entries /\ IsFiniteSet(Listed(lru))
  BY <1>1, ListedFacts
<1> QED
  BY <1>1, <1>2, CachedIsListed DEF Entries

(* The result of a flight that is about to store it has no other holder. *)
LEMMA SoleHolder ==
  ASSUME CacheInv, NEW f \in FlightIds, flight[f].step = "store"
  PROVE  /\ flight[f].value \in ResultIds /\ result[flight[f].value].refs = 1
         /\ \A e \in Listed(lru) : e.result # flight[f].value
         /\ \A g \in FlightIds \ {f} : flight[g].value # flight[f].value
         /\ \A q \in Queries : query[q].lease # flight[f].value
<1> DEFINE v == flight[f].value
<1>1. v \in ResultIds /\ result[v].refs = 1
  <2>1. ExecutionOK(f) /\ flight[f] \in ExecutionRows
    BY DEF CacheInv, CacheRows
  <2> QED
    BY <2>1 DEF ExecutionOK, ExecutionRows
<1> DEFINE L == {e \in Listed(lru) : e.result = v}
<1> HIDE DEF v
<1>2. /\ HoldsIn(Listed(lru), v) \in Nat
      /\ IsFiniteSet(ValueHolders(v)) /\ Cardinality(ValueHolders(v)) \in Nat
      /\ IsFiniteSet(ResultHolders(v)) /\ Cardinality(ResultHolders(v)) \in Nat
      /\ 1 = HoldsIn(Listed(lru), v) + Cardinality(ValueHolders(v)) + Cardinality(ResultHolders(v))
  BY <1>1, PinFacts
<1>3. f \in ValueHolders(v)
  BY DEF ValueHolders, v
<1>4. /\ Cardinality(ValueHolders(v) \ {f}) = Cardinality(ValueHolders(v)) - 1
      /\ IsFiniteSet(ValueHolders(v) \ {f})
      /\ Cardinality(ValueHolders(v) \ {f}) \in Nat
  BY <1>2, <1>3, FS_RemoveElement, FS_CardinalityType
<1>5. /\ Cardinality(ValueHolders(v) \ {f}) = 0 /\ Cardinality(ResultHolders(v)) = 0
      /\ Cardinality(L) = 0
  BY <1>2, <1>4 DEF HoldsIn
<1>6. IsFiniteSet(L)
  BY EntryFacts, FS_Subset
<1>7. ValueHolders(v) \ {f} = {} /\ ResultHolders(v) = {} /\ L = {}
  BY <1>2, <1>4, <1>5, <1>6, FS_EmptySet
<1>8. \A e \in Listed(lru) : e.result # v
  BY <1>7
<1>9. \A g \in FlightIds \ {f} : flight[g].value # v
  BY <1>7 DEF ValueHolders
<1>10. \A q \in Queries : query[q].lease # v
  BY <1>7 DEF ResultHolders
<1> QED
  BY <1>1, <1>8, <1>9, <1>10 DEF v

(* What does not change when the flights' values, the leases or the waiters do not. *)
LEMMA ValuesKept ==
  ASSUME \A f \in FlightIds : flight'[f].value = flight[f].value, NEW r
  PROVE  ValueHolders(r)' = ValueHolders(r)
BY DEF ValueHolders

LEMMA LeasesKept ==
  ASSUME \A q \in Queries : query'[q].lease = query[q].lease, NEW r
  PROVE  ResultHolders(r)' = ResultHolders(r)
BY DEF ResultHolders

LEMMA WaitersKept ==
  ASSUME WaitersCounted, \A q \in Queries : query'[q].flight = query[q].flight,
         \A f \in FlightIds : flight'[f].waiters = flight[f].waiters
  PROVE  WaitersCounted'
<1>1. \A f \in FlightIds : WaitersOf(f)' = WaitersOf(f)
  BY DEF WaitersOf
<1>2. WaitersCounted' <=> \A f \in FlightIds : /\ IsFiniteSet(WaitersOf(f)')
                                               /\ flight'[f].waiters = Cardinality(WaitersOf(f)')
  BY DEF WaitersCounted
<1> QED
  BY <1>1, <1>2 DEF WaitersCounted

(* A row that stays as it is. *)
LEMMA ExecutionKept ==
  ASSUME NEW f \in FlightIds, ExecutionOK(f), flight'[f] = flight[f],
         flight[f].step = "store" => result'[flight[f].value].refs = result[flight[f].value].refs
  PROVE  ExecutionOK(f)'
BY DEF ExecutionOK

LEMMA QueryKept ==
  ASSUME NEW q \in Queries, QueryOK(q), query'[q] = query[q]
  PROVE  QueryOK(q)'
BY DEF QueryOK

(* The pins after a step, from the counts after it. *)
LEMMA PinnedAfter ==
  ASSUME \A r \in ResultIds :
           /\ IsFiniteSet(ValueHolders(r)') /\ IsFiniteSet(ResultHolders(r)')
           /\ result'[r].refs = HoldsIn(Listed(lru'), r) + Cardinality(ValueHolders(r)')
                                + Cardinality(ResultHolders(r)')
  PROVE  HoldersAreFinite' /\ Pinned'
<1>1. /\ HoldersAreFinite' <=> \A r \in ResultIds : IsFiniteSet(ValueHolders(r)') /\ IsFiniteSet(ResultHolders(r)')
      /\ Pinned' <=> \A r \in ResultIds :
           result'[r].refs = HoldsIn(Listed(lru'), r) + Cardinality(ValueHolders(r)')
                             + Cardinality(ResultHolders(r)')
  BY DEF HoldersAreFinite, Pinned, HoldsIn, Listed
<1> QED
  BY <1>1

-----------------------------------------------------------------------------
(* The list and its accounts                                               *)

LEMMA UsageFacts ==
  ASSUME CacheInv, NEW x \in Levels
  PROVE  /\ usage[x].entries = Cardinality(AtLevel(Listed(lru), x))
         /\ usage[x].bytes = Bytes(AtLevel(Listed(lru), x))
         /\ Fits(Listed(lru), x, LimitOf(x))
BY DEF CacheInv, UsageCounted, LevelsFit

LEMMA LimitOfType == ASSUME NEW x PROVE LimitOf(x) \in [entries : Nat, bytes : Nat]
BY LimitTypes DEF LimitOf

(* A list with the same entries has the same accounts. *)
LEMMA AccountsSame ==
  ASSUME CacheInv, Listed(lru') = Listed(lru), usage' = usage
  PROVE  UsageCounted' /\ LevelsFit'
<1>1. UsageCounted' <=> usage' = [x \in Levels |-> [entries |-> Cardinality(AtLevel(Listed(lru'), x)),
                                                   bytes |-> Bytes(AtLevel(Listed(lru'), x))]]
  BY DEF UsageCounted, Listed
<1>2. LevelsFit' <=> \A x \in Levels : Fits(Listed(lru'), x, LimitOf(x))
  BY DEF LevelsFit, Listed
<1> QED
  BY <1>1, <1>2 DEF CacheInv, UsageCounted, LevelsFit

(* removeLocked of a part of the list. *)
LEMMA AccountsShrink ==
  ASSUME CacheInv, NEW E \in SUBSET Listed(lru), Listed(lru') = Listed(lru) \ E,
         usage' = Counted(usage, E, -1)
  PROVE  UsageCounted' /\ LevelsFit'
<1> DEFINE L == Listed(lru)
<1>1. L \in SUBSET Entries /\ IsFiniteSet(L)
  BY EntryFacts
<1>2. ASSUME NEW x \in Levels
      PROVE  /\ usage'[x] = [entries |-> Cardinality(AtLevel(L \ E, x)), bytes |-> Bytes(AtLevel(L \ E, x))]
             /\ Fits(L \ E, x, LimitOf(x))
  <2> DEFINE A == AtLevel(L, x)
             B == AtLevel(E, x)
  <2>1. A \in SUBSET Entries /\ IsFiniteSet(A)
    BY <1>1, LevelFacts
  <2>2. B \in SUBSET A /\ AtLevel(L \ E, x) = A \ B
    BY DEF AtLevel
  <2>3. usage[x].entries = Cardinality(A) /\ usage[x].bytes = Bytes(A) /\ Fits(L, x, LimitOf(x))
    BY UsageFacts
  <2>4. usage'[x] = [entries |-> usage[x].entries + (-1) * Cardinality(B),
                     bytes |-> usage[x].bytes + (-1) * Bytes(B)]
    BY DEF Counted
  <2>5. Fits(L \ E, x, LimitOf(x))
    BY <1>1, <2>3, LimitOfType, FewerFit
  <2> HIDE DEF A, B
  <2>6. /\ Cardinality(A) \in Nat /\ Cardinality(B) \in Nat
        /\ Cardinality(A \ B) = Cardinality(A) - Cardinality(B)
    BY <2>1, <2>2, CardinalitySplit
  <2>7. Bytes(A) \in Nat /\ Bytes(B) \in Nat /\ Bytes(A \ B) = Bytes(A) - Bytes(B)
    BY <2>1, <2>2, BytesSplit
  <2>8. Cardinality(A) + (-1) * Cardinality(B) = Cardinality(A \ B)
    BY <2>6
  <2>9. Bytes(A) + (-1) * Bytes(B) = Bytes(A \ B)
    BY <2>7
  <2> QED
    BY <2>2, <2>3, <2>4, <2>5, <2>8, <2>9
<1>3. usage' = [x \in Levels |-> usage'[x]]
  BY DEF Counted
<1>4. UsageCounted' <=> usage' = [x \in Levels |-> [entries |-> Cardinality(AtLevel(Listed(lru'), x)),
                                                   bytes |-> Bytes(AtLevel(Listed(lru'), x))]]
  BY DEF UsageCounted, Listed
<1>5. LevelsFit' <=> \A x \in Levels : Fits(Listed(lru'), x, LimitOf(x))
  BY DEF LevelsFit, Listed
<1> QED
  BY <1>2, <1>3, <1>4, <1>5

(* A list with a new head. *)
LEMMA PushedFacts ==
  ASSUME NEW q \in Seq(Entries), KeysOnce(q), NEW e \in Entries, NEW E,
         \A o \in Listed(q) \ E : ~(o.scope = e.scope /\ o.key = e.key)
  PROVE  /\ <<e>> \o Remaining(q, E) \in Seq(Entries)
         /\ Listed(<<e>> \o Remaining(q, E)) = {e} \union (Listed(q) \ E)
         /\ KeysOnce(<<e>> \o Remaining(q, E))
<1> DEFINE r == Remaining(q, E)
           p == <<e>> \o r
<1>1. r \in Seq(Entries) /\ Listed(r) = Listed(q) \ E /\ KeysOnce(r)
  <2>1. /\ r \in Seq(Entries)
        /\ {r[i] : i \in DOMAIN r} = {q[i] : i \in DOMAIN q} \ E
        /\ KeysOnce(q) => KeysOnce(r)
    BY RemainingFacts
  <2> HIDE DEF r
  <2> QED
    BY <2>1 DEF Listed
<1> HIDE DEF r
<1>2. Len(r) \in Nat /\ DOMAIN r = 1..Len(r) /\ \A i \in 1..Len(r) : r[i] \in Entries
  BY <1>1
<1>3. /\ p \in Seq(Entries) /\ DOMAIN p = 1..(Len(r) + 1) /\ p[1] = e
      /\ \A i \in 1..Len(r) : p[i + 1] = r[i]
  BY <1>1, <1>2
<1> HIDE DEF p
<1>4. \A i \in DOMAIN p : i # 1 => i - 1 \in 1..Len(r) /\ p[i] = r[i - 1]
  <2>1. ASSUME NEW i \in DOMAIN p, i # 1 PROVE i - 1 \in 1..Len(r) /\ p[i] = r[i - 1]
    <3>1. i - 1 \in 1..Len(r) /\ (i - 1) + 1 = i
      BY <1>2, <1>3, <2>1
    <3> QED
      BY <1>3, <3>1
  <2> QED
    BY <2>1
<1>5. Listed(p) = {e} \union Listed(r)
  <2>1. \A y \in Listed(p) : y \in {e} \union Listed(r)
    BY <1>2, <1>3, <1>4 DEF Listed
  <2>2. \A y \in Listed(r) : y \in Listed(p)
    <3>1. \A i \in 1..Len(r) : i + 1 \in DOMAIN p
      BY <1>2, <1>3
    <3> QED
      BY <1>2, <1>3, <3>1 DEF Listed
  <2>3. e \in Listed(p)
    <3>1. 1 \in DOMAIN p
      BY <1>2, <1>3
    <3> QED
      BY <1>3, <3>1 DEF Listed
  <2> QED
    BY <2>1, <2>2, <2>3
<1>6. \A i \in 1..Len(r) : ~(r[i].scope = e.scope /\ r[i].key = e.key)
  BY <1>1, <1>2 DEF Listed
<1>7. KeysOnce(p)
  <2>1. ASSUME NEW i \in DOMAIN p, NEW j \in DOMAIN p, p[i].scope = p[j].scope, p[i].key = p[j].key
        PROVE  i = j
    <3>1. CASE i = 1 /\ j = 1
      BY <3>1
    <3>2. CASE i = 1 /\ j # 1
      BY <1>3, <1>4, <1>6, <2>1, <3>2
    <3>3. CASE i # 1 /\ j = 1
      BY <1>3, <1>4, <1>6, <2>1, <3>3
    <3>4. CASE i # 1 /\ j # 1
      <4>1. i - 1 = j - 1
        BY <1>1, <1>2, <1>4, <2>1, <3>4 DEF KeysOnce
      <4> QED
        BY <1>3, <1>2, <4>1
    <3> QED
      BY <3>1, <3>2, <3>3, <3>4
  <2> QED
    BY <2>1 DEF KeysOnce
<1> QED
  BY <1>1, <1>3, <1>5, <1>7 DEF p, r

(* LookupArrow: the entry that is found becomes the newest. *)
LEMMA TouchedFacts ==
  ASSUME CacheInv, NEW e \in Listed(lru), lru' = <<e>> \o Without({e})
  PROVE  lru' \in Seq(Entries) /\ Listed(lru') = Listed(lru) /\ KeysOnce(lru)'
<1>1. lru \in Seq(Entries) /\ KeysOnce(lru) /\ e \in Entries
  BY EntryFacts
<1>2. \A o \in Listed(lru) \ {e} : ~(o.scope = e.scope /\ o.key = e.key)
  BY <1>1 DEF Listed, KeysOnce
<1>3. lru' = <<e>> \o Remaining(lru, {e})
  BY DEF Without
<1>4. lru' \in Seq(Entries) /\ Listed(lru') = {e} \union (Listed(lru) \ {e}) /\ KeysOnce(lru')
  <2> DEFINE p == <<e>> \o Remaining(lru, {e})
  <2>1. p \in Seq(Entries) /\ Listed(p) = {e} \union (Listed(lru) \ {e}) /\ KeysOnce(p)
    BY <1>1, <1>2, PushedFacts
  <2>2. lru' = p
    BY <1>3
  <2> HIDE DEF p
  <2> QED
    BY <2>1, <2>2
<1>5. KeysOnce(lru)' <=> KeysOnce(lru')
  BY DEF KeysOnce
<1> QED
  BY <1>4, <1>5

-----------------------------------------------------------------------------
(* Scopes                                                                  *)

LEMMA RemovedHolds ==
  ASSUME CacheInv, NEW E \in SUBSET Listed(lru), NEW r
  PROVE  /\ HoldsIn(Listed(lru), r) \in Nat /\ HoldsIn(E, r) \in Nat
         /\ HoldsIn(Listed(lru) \ E, r) \in Nat
         /\ HoldsIn(Listed(lru) \ E, r) = HoldsIn(Listed(lru), r) - HoldsIn(E, r)
BY EntryFacts, HoldsSplit, ZenonT(60)

LEMMA RemoveAllKeeps ==
  ASSUME CacheInv, NEW E \in SUBSET Listed(lru), RemoveAll(E), flight' = flight, query' = query,
         scope' \in [CacheScopes -> ScopeRows], data' \in [CacheScopes -> Nat],
         cleared' \in [CacheScopes -> Nat], closed' \in BOOLEAN,
         \A e \in Listed(lru) \ E : scope'[e.scope].open
  PROVE  CacheInv'
<1>1. lru \in Seq(Entries) /\ KeysOnce(lru) /\ IsFiniteSet(Listed(lru))
  BY EntryFacts
<1>2. lru' = Remaining(lru, E) /\ usage' = Counted(usage, E, -1)
  BY DEF RemoveAll, Without
<1>3. lru' \in Seq(Entries) /\ Listed(lru') = Listed(lru) \ E /\ KeysOnce(lru')
  <2> DEFINE r == Remaining(lru, E)
  <2>1. /\ r \in Seq(Entries)
        /\ {r[i] : i \in DOMAIN r} = {lru[i] : i \in DOMAIN lru} \ E
        /\ KeysOnce(lru) => KeysOnce(r)
    BY <1>1, RemainingFacts
  <2> HIDE DEF r
  <2>2. lru' = r
    BY <1>2 DEF r
  <2> QED
    BY <1>1, <2>1, <2>2 DEF Listed
<1>4. UsageCounted' /\ LevelsFit'
  BY <1>2, <1>3, AccountsShrink
<1> DEFINE n == [r \in ResultIds |-> HoldsIn(E, r)]
<1>5. result' = Returned(n)
  BY DEF RemoveAll
<1>6. ASSUME NEW r \in ResultIds
      PROVE  /\ n[r] = HoldsIn(E, r) /\ HoldsIn(E, r) \in Nat
             /\ HoldsIn(Listed(lru'), r) = HoldsIn(Listed(lru), r) - HoldsIn(E, r)
             /\ HoldsIn(Listed(lru'), r) \in Nat
             /\ result[r].refs - n[r] \in Nat
  <2>1. n[r] = HoldsIn(E, r)
    OBVIOUS
  <2> HIDE DEF n
  <2>2. /\ HoldsIn(Listed(lru), r) \in Nat /\ HoldsIn(E, r) \in Nat
        /\ HoldsIn(Listed(lru) \ E, r) \in Nat
        /\ HoldsIn(Listed(lru) \ E, r) = HoldsIn(Listed(lru), r) - HoldsIn(E, r)
    BY RemovedHolds
  <2> QED
    BY <1>3, <2>1, <2>2, PinFacts
<1>7. result \in [ResultIds -> ResultRows]
  BY DEF CacheInv, CacheRows
<1>8. /\ result' \in [ResultIds -> ResultRows]
      /\ \A r \in ResultIds : result'[r].refs = result[r].refs - n[r]
  <2> HIDE DEF n
  <2> QED
    BY <1>5, <1>6, <1>7, GivenBack
<1>9. HoldersAreFinite' /\ Pinned'
  <2>1. ASSUME NEW r \in ResultIds
        PROVE  /\ IsFiniteSet(ValueHolders(r)') /\ IsFiniteSet(ResultHolders(r)')
               /\ result'[r].refs = HoldsIn(Listed(lru'), r) + Cardinality(ValueHolders(r)')
                                    + Cardinality(ResultHolders(r)')
    <3>1. ValueHolders(r)' = ValueHolders(r) /\ ResultHolders(r)' = ResultHolders(r)
      BY ValuesKept, LeasesKept
    <3> HIDE DEF n
    <3> QED
      BY <1>6, <1>8, <3>1, PinFacts
  <2> QED
    BY <2>1, PinnedAfter
<1>10. \A q \in Queries : QueryOK(q)'
  BY QueryKept DEF CacheInv
<1>11. ASSUME NEW f \in FlightIds PROVE ExecutionOK(f)'
  <2>1. flight[f].step = "store" => result'[flight[f].value].refs = result[flight[f].value].refs
    <3>1. SUFFICES ASSUME flight[f].step = "store"
                   PROVE  result'[flight[f].value].refs = result[flight[f].value].refs
      OBVIOUS
    <3> DEFINE v == flight[f].value
    <3>2. v \in ResultIds /\ \A e \in Listed(lru) : e.result # v
      BY <3>1, SoleHolder
    <3> HIDE DEF v
    <3>3. HoldsIn(E, v) = 0
      BY <3>2, HoldsNothing
    <3>4. result'[v].refs = result[v].refs - 0 /\ result[v].refs \in Nat
      <4> HIDE DEF n
      <4> QED
        BY <1>6, <1>8, <3>2, <3>3, PinFacts
    <3>5. result'[v].refs = result[v].refs
      BY <3>4
    <3> QED
      BY <3>5 DEF v
  <2> QED
    BY <2>1, ExecutionKept DEF CacheInv
<1>12. WaitersCounted'
  BY WaitersKept DEF CacheInv
<1>13. OpenOnly'
  <2>1. OpenOnly' <=> \A e \in Listed(lru') : scope'[e.scope].open
    BY DEF OpenOnly, Listed
  <2> QED
    BY <1>3, <2>1
<1>14. KeysOnce(lru)'
  BY <1>3 DEF KeysOnce
<1>15. CacheRows'
  BY <1>3, <1>8 DEF CacheInv, CacheRows
<1> QED
  BY <1>4, <1>9, <1>10, <1>11, <1>12, <1>13, <1>14, <1>15 DEF CacheInv

LEMMA ScopeTypes ==
  ASSUME CacheInv
  PROVE  /\ scope \in [CacheScopes -> ScopeRows]
         /\ data \in [CacheScopes -> Nat] /\ cleared \in [CacheScopes -> Nat] /\ closed \in BOOLEAN
         /\ \A s \in CacheScopes : /\ scope[s] \in ScopeRows /\ scope[s].generation \in Nat
                                   /\ scope[s].opened \in Nat /\ scope[s].open \in BOOLEAN
                                   /\ data[s] \in Nat /\ cleared[s] \in Nat
BY DEF CacheInv, CacheRows, ScopeRows

LEMMA OpenEntries ==
  ASSUME CacheInv, NEW e \in Listed(lru)
  PROVE  e.scope \in CacheScopes /\ scope[e.scope].open
BY EntryFacts DEF CacheInv, OpenOnly

LEMMA InvalidateKeeps ==
  ASSUME CacheInv, NEW s \in CacheScopes, Invalidate(s)
  PROVE  CacheInv'
<1>1. EntriesOf(s) \in SUBSET Listed(lru)
  BY EntryFacts DEF EntriesOf
<1>2. /\ scope' = [scope EXCEPT ![s].generation = scope[s].generation + 1]
      /\ cleared' = [cleared EXCEPT ![s] = data[s]] /\ data' = data /\ closed' = closed
      /\ flight' = flight /\ query' = query /\ RemoveAll(EntriesOf(s))
  BY DEF Invalidate
<1>3. scope[s].generation + 1 \in Nat
  BY ScopeTypes
<1>4. scope' \in [CacheScopes -> ScopeRows]
  BY <1>2, <1>3, ScopeTypes DEF ScopeRows
<1>5. \A t \in CacheScopes : scope'[t].open = scope[t].open
  BY <1>2, ScopeTypes DEF ScopeRows
<1>6. cleared' \in [CacheScopes -> Nat] /\ data' \in [CacheScopes -> Nat] /\ closed' \in BOOLEAN
  BY <1>2, ScopeTypes
<1>7. \A e \in Listed(lru) \ EntriesOf(s) : scope'[e.scope].open
  BY <1>5, OpenEntries
<1> QED
  BY <1>1, <1>2, <1>4, <1>6, <1>7, RemoveAllKeeps

LEMMA CloseScopeKeeps ==
  ASSUME CacheInv, NEW s \in CacheScopes, CloseScope(s)
  PROVE  CacheInv'
<1>1. EntriesOf(s) \in SUBSET Listed(lru) /\ \A e \in Listed(lru) \ EntriesOf(s) : e.scope # s
  BY EntryFacts DEF EntriesOf
<1>2. /\ scope' = [scope EXCEPT ![s].open = FALSE, ![s].generation = 0]
      /\ cleared' = cleared /\ data' = data /\ closed' = closed
      /\ flight' = flight /\ query' = query /\ RemoveAll(EntriesOf(s))
  BY DEF CloseScope
<1>3. scope' \in [CacheScopes -> ScopeRows]
  BY <1>2, ScopeTypes DEF ScopeRows
<1>4. \A t \in CacheScopes : t # s => scope'[t] = scope[t]
  BY <1>2, ScopeTypes DEF ScopeRows
<1>5. cleared' \in [CacheScopes -> Nat] /\ data' \in [CacheScopes -> Nat] /\ closed' \in BOOLEAN
  BY <1>2, ScopeTypes
<1>6. \A e \in Listed(lru) \ EntriesOf(s) : scope'[e.scope].open
  BY <1>1, <1>4, OpenEntries
<1> QED
  BY <1>1, <1>2, <1>3, <1>5, <1>6, RemoveAllKeeps

LEMMA ClosePoolKeeps ==
  ASSUME CacheInv, ClosePool
  PROVE  CacheInv'
<1>1. Cached = Listed(lru) /\ \A e \in Listed(lru) \ Listed(lru) : FALSE
  BY EntryFacts
<1>2. /\ scope' = [s \in CacheScopes |-> [scope[s] EXCEPT !.open = FALSE, !.generation = 0]]
      /\ cleared' = cleared /\ data' = data /\ closed' = TRUE
      /\ flight' = flight /\ query' = query /\ RemoveAll(Listed(lru))
  BY <1>1, Zenon DEF ClosePool
<1>3. scope' \in [CacheScopes -> ScopeRows]
  BY <1>2, ScopeTypes, Zenon DEF ScopeRows
<1>4. cleared' \in [CacheScopes -> Nat] /\ data' \in [CacheScopes -> Nat] /\ closed' \in BOOLEAN
  BY <1>2, ScopeTypes, Zenon
<1> QED
  BY <1>1, <1>2, <1>3, <1>4, RemoveAllKeeps, Zenon

(* A step that leaves results, flights, queries and the list alone. *)
LEMMA ScopeStepKeeps ==
  ASSUME CacheInv, UNCHANGED <<lru, usage, result, flight, query>>,
         scope' \in [CacheScopes -> ScopeRows], data' \in [CacheScopes -> Nat],
         cleared' \in [CacheScopes -> Nat], closed' \in BOOLEAN,
         \A s \in CacheScopes : scope[s].open => scope'[s].open
  PROVE  CacheInv'
<1>1. CacheRows'
  BY DEF CacheInv, CacheRows
<1>2. \A q \in Queries : QueryOK(q)'
  BY QueryKept DEF CacheInv
<1>3. \A f \in FlightIds : ExecutionOK(f)'
  BY ExecutionKept DEF CacheInv
<1>4. WaitersCounted'
  BY WaitersKept DEF CacheInv
<1>5. \A r \in ResultIds : ValueHolders(r)' = ValueHolders(r) /\ ResultHolders(r)' = ResultHolders(r)
  BY ValuesKept, LeasesKept
<1>6. HoldersAreFinite' /\ Pinned'
  BY <1>5, PinFacts, PinnedAfter
<1>7. UsageCounted' /\ LevelsFit'
  BY AccountsSame
<1>8. KeysOnce(lru)'
  BY EntryFacts DEF KeysOnce
<1>9. OpenOnly'
  <2>1. OpenOnly' <=> \A e \in Listed(lru) : scope'[e.scope].open
    BY DEF OpenOnly, Listed
  <2> QED
    BY <2>1, OpenEntries
<1> QED
  BY <1>1, <1>2, <1>3, <1>4, <1>6, <1>7, <1>8, <1>9 DEF CacheInv

LEMMA OpenScopeKeeps ==
  ASSUME CacheInv, NEW s \in CacheScopes, OpenScope(s)
  PROVE  CacheInv'
<1>1. /\ scope' = [scope EXCEPT ![s] = [open |-> TRUE, generation |-> 0, opened |-> scope[s].opened + 1]]
      /\ cleared' = [cleared EXCEPT ![s] = data[s]]
      /\ UNCHANGED <<data, closed, lru, usage, result, flight, query>>
  BY DEF OpenScope
<1>2. scope[s].opened + 1 \in Nat
  BY ScopeTypes
<1>3. [open |-> TRUE, generation |-> 0, opened |-> scope[s].opened + 1] \in ScopeRows
  BY <1>2 DEF ScopeRows
<1>4. scope' \in [CacheScopes -> ScopeRows] /\ cleared' \in [CacheScopes -> Nat]
  BY <1>1, <1>3, ScopeTypes
<1>5. \A t \in CacheScopes : scope[t].open => scope'[t].open
  BY <1>1, ScopeTypes
<1> QED
  BY <1>1, <1>4, <1>5, ScopeTypes, ScopeStepKeeps

LEMMA RefreshDataKeeps ==
  ASSUME CacheInv, NEW s \in CacheScopes, RefreshData(s)
  PROVE  CacheInv'
<1>1. /\ data' = [data EXCEPT ![s] = data[s] + 1]
      /\ UNCHANGED <<scope, cleared, closed, lru, usage, result, flight, query>>
  BY DEF RefreshData
<1>2. data[s] + 1 \in Nat
  BY ScopeTypes
<1>3. data' \in [CacheScopes -> Nat]
  BY <1>1, <1>2, ScopeTypes
<1> QED
  BY <1>1, <1>3, ScopeTypes, ScopeStepKeeps

-----------------------------------------------------------------------------
(* Queries                                                                 *)

LEMMA QueryFacts ==
  ASSUME CacheInv, NEW q \in Queries
  PROVE  /\ query \in [Queries -> QueryRows] /\ query[q] \in QueryRows /\ QueryOK(q)
         /\ query[q].phase \in {"idle", "lookup", "join", "wait", "leased"}
         /\ query[q].scope \in CacheScopes \union {"none"} /\ query[q].key \in Keys \union {"none"}
         /\ query[q].token \in Nat /\ query[q].since \in Nat
         /\ query[q].flight \in FlightIds \union {0} /\ query[q].lease \in ResultIds \union {0}
         /\ query[q].owner \in BOOLEAN
BY DEF CacheInv, CacheRows, QueryRows

LEMMA ExecutionFacts ==
  ASSUME CacheInv, NEW f \in FlightIds
  PROVE  /\ flight \in [FlightIds -> ExecutionRows] /\ flight[f] \in ExecutionRows /\ ExecutionOK(f)
         /\ flight[f].step \in {"none", "run", "store", "finish", "done"}
         /\ flight[f].scope \in CacheScopes \union {"none"} /\ flight[f].key \in Keys \union {"none"}
         /\ flight[f].token \in Nat /\ flight[f].live \in BOOLEAN /\ flight[f].waiters \in Nat
         /\ flight[f].failed \in {"no", "error", "cancelled"}
         /\ flight[f].value \in ResultIds \union {0}
BY DEF CacheInv, CacheRows, ExecutionRows

LEMMA IdleRow ==
  /\ IdleQuery \in QueryRows /\ IdleQuery.phase = "idle" /\ IdleQuery.lease = 0 /\ IdleQuery.flight = 0
  /\ IdleQuery.scope = "none" /\ IdleQuery.token = 0 /\ IdleQuery.since = 0
BY DEF IdleQuery, QueryRows

LEMMA EmptyExecution ==
  /\ NoArrowFlight \in ExecutionRows /\ NoArrowFlight.step = "none" /\ NoArrowFlight.value = 0
  /\ NoArrowFlight.waiters = 0
BY DEF NoArrowFlight, ExecutionRows

(* The parts of the invariant after a step that keeps the entries. *)
LEMMA StepKeeps ==
  ASSUME CacheInv, UNCHANGED <<scope, data, cleared, closed, usage>>,
         lru' \in Seq(Entries), Listed(lru') = Listed(lru), KeysOnce(lru)',
         result' \in [ResultIds -> ResultRows], flight' \in [FlightIds -> ExecutionRows],
         query' \in [Queries -> QueryRows],
         \A q \in Queries : QueryOK(q)', \A f \in FlightIds : ExecutionOK(f)', WaitersCounted',
         \A r \in ResultIds :
           /\ IsFiniteSet(ValueHolders(r)') /\ IsFiniteSet(ResultHolders(r)')
           /\ result'[r].refs = HoldsIn(Listed(lru), r) + Cardinality(ValueHolders(r)')
                                + Cardinality(ResultHolders(r)')
  PROVE  CacheInv'
<1>1. CacheRows'
  BY DEF CacheInv, CacheRows
<1>2. HoldersAreFinite' /\ Pinned'
  BY PinnedAfter
<1>3. UsageCounted' /\ LevelsFit'
  BY AccountsSame
<1>4. OpenOnly'
  <2>1. OpenOnly' <=> \A e \in Listed(lru') : scope'[e.scope].open
    BY DEF OpenOnly, Listed
  <2> QED
    BY <2>1, OpenEntries
<1> QED
  BY <1>1, <1>2, <1>3, <1>4 DEF CacheInv

LEMMA ListKept ==
  ASSUME CacheInv, lru' = lru
  PROVE  lru' \in Seq(Entries) /\ Listed(lru') = Listed(lru) /\ KeysOnce(lru)'
BY EntryFacts DEF KeysOnce

(* One query changes, without taking or leaving a flight or a lease. *)
LEMMA QueryMoves ==
  ASSUME CacheInv, NEW q \in Queries,
         UNCHANGED <<scope, data, cleared, closed, usage, lru, result, flight>>,
         query' = [query EXCEPT ![q] = query'[q]], query'[q] \in QueryRows, QueryOK(q)',
         query'[q].lease = query[q].lease, query'[q].flight = query[q].flight
  PROVE  CacheInv'
<1>1. query' \in [Queries -> QueryRows] /\ \A p \in Queries \ {q} : query'[p] = query[p]
  BY QueryFacts
<1>2. \A p \in Queries : query'[p].lease = query[p].lease /\ query'[p].flight = query[p].flight
  BY <1>1
<1>3. \A p \in Queries : QueryOK(p)'
  BY <1>1, QueryKept, QueryFacts
<1>4. \A f \in FlightIds : ExecutionOK(f)'
  BY ExecutionKept, ExecutionFacts
<1>5. WaitersCounted'
  BY <1>2, WaitersKept DEF CacheInv
<1>6. \A r \in ResultIds : ValueHolders(r)' = ValueHolders(r) /\ ResultHolders(r)' = ResultHolders(r)
  BY <1>2, ValuesKept, LeasesKept
<1>7. \A r \in ResultIds :
        /\ IsFiniteSet(ValueHolders(r)') /\ IsFiniteSet(ResultHolders(r)')
        /\ result'[r].refs = HoldsIn(Listed(lru), r) + Cardinality(ValueHolders(r)')
                             + Cardinality(ResultHolders(r)')
  BY <1>6, PinFacts
<1>8. result' \in [ResultIds -> ResultRows] /\ flight' \in [FlightIds -> ExecutionRows]
  BY DEF CacheInv, CacheRows
<1> QED
  BY <1>1, <1>3, <1>4, <1>5, <1>7, <1>8, ListKept, StepKeeps

LEMMA BeginQueryKeeps ==
  ASSUME CacheInv, NEW q \in Queries, NEW s \in CacheScopes, NEW k \in Keys, BeginQuery(q, s, k)
  PROVE  CacheInv'
<1> DEFINE row == [IdleQuery EXCEPT !.phase = "lookup", !.scope = s, !.key = k,
                     !.token = scope[s].generation, !.since = cleared[s]]
<1>1. query[q].lease = 0 /\ query[q].flight = 0
  <2>1. query[q].phase = "idle"
    BY DEF BeginQuery
  <2> QED
    BY <2>1, QueryFacts DEF QueryOK
<1>2. /\ query' = [query EXCEPT ![q] = row]
      /\ UNCHANGED <<scope, data, cleared, closed, lru, usage, result, flight>>
  BY DEF BeginQuery
<1>3. /\ row \in QueryRows /\ row.phase = "lookup" /\ row.scope = s /\ row.key = k
      /\ row.lease = 0 /\ row.flight = 0
  BY ScopeTypes DEF IdleQuery, QueryRows
<1> HIDE DEF row
<1>4. query'[q] = row /\ query' = [query EXCEPT ![q] = query'[q]]
  BY <1>2, QueryFacts
<1>5. QueryOK(q)'
  BY <1>3, <1>4 DEF QueryOK
<1> QED
  BY <1>1, <1>2, <1>3, <1>4, <1>5, QueryMoves

(* A query with a lease that gave none back, or an idle one that had one. *)
LEMMA LookupKeeps ==
  ASSUME CacheInv, NEW q \in Queries, Lookup(q)
  PROVE  CacheInv'
<1>1. /\ query[q].phase = "lookup" /\ query[q].lease = 0 /\ query[q].flight = 0
      /\ query[q].scope \in CacheScopes /\ query[q].key \in Keys
  <2>1. query[q].phase = "lookup"
    BY DEF Lookup
  <2> QED
    BY <2>1, QueryFacts DEF QueryOK
<1>2. UNCHANGED <<scope, data, cleared, closed, usage, flight>>
  BY DEF Lookup
<1>3. CASE query' = [query EXCEPT ![q] = IdleQuery] /\ UNCHANGED <<lru, result>>
  <2>1. query'[q] = IdleQuery /\ query' = [query EXCEPT ![q] = query'[q]]
    BY <1>3, QueryFacts
  <2>2. QueryOK(q)'
    BY <2>1, IdleRow DEF QueryOK
  <2> QED
    BY <1>1, <1>2, <1>3, <2>1, <2>2, IdleRow, QueryMoves
<1>4. CASE query' = [query EXCEPT ![q].phase = "join"] /\ UNCHANGED <<lru, result>>
  <2> DEFINE row == [query[q] EXCEPT !.phase = "join"]
  <2>1. query' = [query EXCEPT ![q] = row]
    BY <1>4
  <2>2. /\ row \in QueryRows /\ row.phase = "join" /\ row.scope = query[q].scope
        /\ row.key = query[q].key /\ row.lease = query[q].lease /\ row.flight = query[q].flight
    BY QueryFacts DEF QueryRows
  <2> HIDE DEF row
  <2>3. query'[q] = row /\ query' = [query EXCEPT ![q] = query'[q]]
    BY <2>1, QueryFacts
  <2>4. QueryOK(q)'
    BY <1>1, <2>2, <2>3 DEF QueryOK
  <2> QED
    BY <1>2, <1>4, <2>2, <2>3, <2>4, QueryMoves
<1>5. ASSUME NEW e \in EntriesOf(query[q].scope),
             lru' = <<e>> \o Without({e}),
             result' = [result EXCEPT ![e.result].refs = result[e.result].refs + 1],
             query' = [query EXCEPT ![q].phase = "leased", ![q].token = 0, ![q].lease = e.result]
      PROVE  CacheInv'
  <2> DEFINE row == [query[q] EXCEPT !.phase = "leased", !.token = 0, !.lease = e.result]
  <2>1. e \in Listed(lru) /\ e.result \in ResultIds
    BY EntryFacts DEF EntriesOf
  <2>2. query' = [query EXCEPT ![q] = row]
    BY <1>5, QueryFacts
  <2>3. /\ row \in QueryRows /\ row.phase = "leased" /\ row.scope = query[q].scope
        /\ row.key = query[q].key /\ row.lease = e.result /\ row.flight = query[q].flight
    BY <2>1, QueryFacts DEF QueryRows
  <2> HIDE DEF row
  <2>4. query'[q] = row /\ query' \in [Queries -> QueryRows]
        /\ \A p \in Queries \ {q} : query'[p] = query[p]
    BY <2>2, <2>3, QueryFacts
  <2>5. QueryOK(q)'
    BY <1>1, <2>1, <2>3, <2>4, ZeroIsNoIdentity DEF QueryOK
  <2>6. \A p \in Queries : QueryOK(p)'
    BY <2>4, <2>5, QueryKept, QueryFacts
  <2>7. ASSUME NEW r \in ResultIds
        PROVE  /\ result'[r] \in ResultRows
               /\ result'[r].refs = result[r].refs + (IF e.result = r THEN 1 ELSE 0)
    <3>1. result[r] \in ResultRows /\ result[r].refs \in Nat
      BY PinFacts
    <3>2. result' \in [ResultIds -> {result'[x] : x \in ResultIds}] /\ result \in [ResultIds -> ResultRows]
      BY <1>5 DEF CacheInv, CacheRows
    <3>3. CASE e.result = r
      <4>1. result'[r] = [result[r] EXCEPT !.refs = result[r].refs + 1] /\ result[r].refs + 1 \in Nat
        BY <1>5, <2>1, <3>1, <3>2, <3>3
      <4> QED
        BY <3>1, <3>3, <4>1 DEF ResultRows
    <3>4. CASE e.result # r
      <4>1. result'[r] = result[r]
        BY <1>5, <3>2, <3>4
      <4> QED
        BY <3>1, <3>4, <4>1
    <3> QED
      BY <3>3, <3>4
  <2>8. result' \in [ResultIds -> ResultRows]
    <3>1. result' = [r \in ResultIds |-> result'[r]]
      BY <1>5 DEF CacheInv, CacheRows
    <3> QED
      BY <2>7, <3>1
  <2>9. \A r \in ResultIds :
          /\ IsFiniteSet(ValueHolders(r)') /\ IsFiniteSet(ResultHolders(r)')
          /\ result'[r].refs = HoldsIn(Listed(lru), r) + Cardinality(ValueHolders(r)')
                               + Cardinality(ResultHolders(r)')
    <3>1. ASSUME NEW r \in ResultIds
          PROVE  /\ IsFiniteSet(ValueHolders(r)') /\ IsFiniteSet(ResultHolders(r)')
                 /\ result'[r].refs = HoldsIn(Listed(lru), r) + Cardinality(ValueHolders(r)')
                                      + Cardinality(ResultHolders(r)')
      <4>1. ValueHolders(r)' = ValueHolders(r)
        BY <1>2, ValuesKept
      <4>2. \A p \in Queries \ {q} : query'[p].lease = query[p].lease
        BY <2>4
      <4>3. /\ IsFiniteSet(ResultHolders(r)') /\ Cardinality(ResultHolders(r)') \in Nat
            /\ Cardinality(ResultHolders(r)') = Cardinality(ResultHolders(r))
                 - (IF query[q].lease = r THEN 1 ELSE 0) + (IF query'[q].lease = r THEN 1 ELSE 0)
        BY <4>2, PinFacts, LeasesMove
      <4>4. query[q].lease # r /\ query'[q].lease = e.result
        BY <1>1, <2>3, <2>4, ZeroIsNoIdentity
      <4>5. Cardinality(ResultHolders(r)') = Cardinality(ResultHolders(r)) + (IF e.result = r THEN 1 ELSE 0)
        BY <4>3, <4>4, PinFacts
      <4> QED
        BY <2>7, <4>1, <4>3, <4>5, PinFacts
    <3> QED
      BY <3>1
  <2>10. ASSUME NEW f \in FlightIds PROVE ExecutionOK(f)'
    <3>1. flight[f].step = "store" => result'[flight[f].value].refs = result[flight[f].value].refs
      <4>1. SUFFICES ASSUME flight[f].step = "store"
                     PROVE  result'[flight[f].value].refs = result[flight[f].value].refs
        OBVIOUS
      <4>2. flight[f].value \in ResultIds /\ e.result # flight[f].value
        BY <2>1, <4>1, SoleHolder
      <4> QED
        BY <2>7, <4>2, PinFacts
    <3> QED
      BY <1>2, <3>1, ExecutionKept, ExecutionFacts
  <2>11. WaitersCounted'
    <3>1. \A p \in Queries : query'[p].flight = query[p].flight
      BY <2>3, <2>4
    <3> QED
      BY <1>2, <3>1, WaitersKept DEF CacheInv
  <2>12. flight' \in [FlightIds -> ExecutionRows]
    BY <1>2 DEF CacheInv, CacheRows
  <2> QED
    BY <1>2, <1>5, <2>1, <2>4, <2>6, <2>8, <2>9, <2>10, <2>11, <2>12, TouchedFacts, StepKeeps
<1> QED
  BY <1>3, <1>4, <1>5 DEF Lookup

LEMMA WaitingFacts ==
  ASSUME CacheInv, NEW q \in Queries, query[q].phase = "wait"
  PROVE  /\ query[q].flight \in FlightIds /\ query[q].lease = 0
         /\ query[q].scope \in CacheScopes /\ query[q].key \in Keys
         /\ flight[query[q].flight].waiters \in Nat \ {0}
         /\ flight[query[q].flight].step # "none"
<1> DEFINE f == query[q].flight
<1>1. /\ f \in FlightIds /\ query[q].lease = 0 /\ query[q].scope \in CacheScopes /\ query[q].key \in Keys
  BY QueryFacts DEF QueryOK
<1> HIDE DEF f
<1>2. IsFiniteSet(WaitersOf(f)) /\ flight[f].waiters = Cardinality(WaitersOf(f))
  BY <1>1 DEF CacheInv, WaitersCounted
<1>3. q \in WaitersOf(f)
  BY DEF WaitersOf, f
<1>4. Cardinality(WaitersOf(f)) # 0 /\ Cardinality(WaitersOf(f)) \in Nat
  BY <1>2, <1>3, FS_EmptySet, FS_CardinalityType
<1>5. flight[f].step # "none"
  BY <1>1, <1>2, <1>4, ExecutionFacts, EmptyExecution DEF ExecutionOK
<1> QED
  BY <1>1, <1>2, <1>4, <1>5 DEF f

(* leaveArrowFlight *)
LEMMA LeftFacts ==
  ASSUME CacheInv, NEW f \in FlightIds, flight[f].step # "none", flight[f].waiters \in Nat \ {0}
  PROVE  /\ Left(f) \in ExecutionRows
         /\ Left(f).waiters = flight[f].waiters - 1
         /\ Left(f).step \in {flight[f].step, "none"}
         /\ Left(f).step = "none" => Left(f) = NoArrowFlight
         /\ Left(f).step # "none" => /\ Left(f).scope = flight[f].scope /\ Left(f).key = flight[f].key
                                     /\ Left(f).token = flight[f].token
                                     /\ Left(f).value = flight[f].value
                                     /\ Left(f).failed = flight[f].failed
         /\ \A r \in ResultIds :
              /\ One(ReleasedByLeaving(f))[r] \in {0, 1}
              /\ (IF Left(f).value = r THEN 1 ELSE 0)
                   = (IF flight[f].value = r THEN 1 ELSE 0) - One(ReleasedByLeaving(f))[r]
              /\ flight[f].value # r => One(ReleasedByLeaving(f))[r] = 0
         /\ flight[f].step # "done" => \A r \in ResultIds : One(ReleasedByLeaving(f))[r] = 0
<1>1. flight[f] \in ExecutionRows
  BY ExecutionFacts
<1>2. CASE flight[f].waiters = 1 /\ flight[f].step = "done"
  <2>1. Left(f) = NoArrowFlight
    BY <1>2 DEF Left
  <2>2. ReleasedByLeaving(f) = flight[f].value
    BY <2>1, EmptyExecution DEF ReleasedByLeaving
  <2>3. \A r \in ResultIds : One(ReleasedByLeaving(f))[r] = IF r = flight[f].value THEN 1 ELSE 0
    BY <2>2 DEF One
  <2>4. \A r \in ResultIds : r # 0
    BY ZeroIsNoIdentity
  <2>5. /\ Left(f) \in ExecutionRows /\ Left(f).step = "none" /\ Left(f).value = 0
        /\ Left(f).waiters = flight[f].waiters - 1
    BY <1>2, <2>1, EmptyExecution
  <2> QED
    BY <1>2, <2>1, <2>3, <2>4, <2>5
<1>3. CASE ~(flight[f].waiters = 1 /\ flight[f].step = "done")
  <2>1. Left(f) = [flight[f] EXCEPT !.waiters = flight[f].waiters - 1]
    BY <1>3 DEF Left
  <2>2. flight[f].waiters - 1 \in Nat
    OBVIOUS
  <2>3. /\ Left(f) \in ExecutionRows /\ Left(f).step = flight[f].step
        /\ Left(f).waiters = flight[f].waiters - 1
        /\ Left(f).scope = flight[f].scope /\ Left(f).key = flight[f].key
        /\ Left(f).token = flight[f].token
        /\ Left(f).value = flight[f].value /\ Left(f).failed = flight[f].failed
    BY <1>1, <2>1, <2>2 DEF ExecutionRows
  <2>4. ReleasedByLeaving(f) = 0
    BY <2>3 DEF ReleasedByLeaving
  <2>5. \A r \in ResultIds : One(ReleasedByLeaving(f))[r] = 0
    BY <2>4, ZeroIsNoIdentity DEF One
  <2> QED
    BY <2>3, <2>5
<1> QED
  BY <1>2, <1>3

(* What leaving a flight does to the holders, the waiters and the flights. *)
LEMMA LeavingKeeps ==
  ASSUME CacheInv, NEW q \in Queries, query[q].phase = "wait", NEW f \in FlightIds,
         f = query[q].flight, NEW row \in ExecutionRows,
         row.value = Left(f).value, row.waiters = Left(f).waiters, row.step = Left(f).step,
         row.scope = Left(f).scope, row.key = Left(f).key,
         Left(f) = NoArrowFlight => row = NoArrowFlight,
         flight' = [flight EXCEPT ![f] = row],
         query' \in [Queries -> QueryRows], query'[q].flight = 0,
         \A p \in Queries \ {q} : query'[p] = query[p],
         \A g \in FlightIds : flight[g].step = "store" =>
           result'[flight[g].value].refs = result[flight[g].value].refs
  PROVE  /\ flight' \in [FlightIds -> ExecutionRows]
         /\ \A g \in FlightIds : ExecutionOK(g)'
         /\ WaitersCounted'
         /\ \A r \in ResultIds :
              /\ IsFiniteSet(ValueHolders(r)') /\ Cardinality(ValueHolders(r)') \in Nat
              /\ Cardinality(ValueHolders(r)')
                   = Cardinality(ValueHolders(r)) - One(ReleasedByLeaving(f))[r]
<1>1. flight[f].waiters \in Nat \ {0} /\ flight[f].step # "none"
  BY WaitingFacts
<1>2. flight'[f] = row /\ (\A g \in FlightIds \ {f} : flight'[g] = flight[g])
      /\ flight' \in [FlightIds -> ExecutionRows]
  BY ExecutionFacts
<1>3. ExecutionOK(f)'
  <2>1. CASE Left(f).step = "none"
    <3>1. row = NoArrowFlight
      BY <1>1, <2>1, LeftFacts
    <3> QED
      BY <1>2, <3>1, EmptyExecution DEF ExecutionOK
  <2>2. CASE Left(f).step # "none"
    <3>1. /\ row.step = flight[f].step /\ row.scope = flight[f].scope /\ row.key = flight[f].key
          /\ row.value = flight[f].value
      BY <1>1, <2>2, LeftFacts
    <3>2. ExecutionOK(f)
      BY ExecutionFacts
    <3> QED
      BY <1>1, <1>2, <3>1, <3>2 DEF ExecutionOK
  <2> QED
    BY <2>1, <2>2
<1>4. \A g \in FlightIds : ExecutionOK(g)'
  BY <1>2, <1>3, ExecutionKept, ExecutionFacts
<1>5. ASSUME NEW g \in FlightIds
      PROVE  IsFiniteSet(WaitersOf(g)') /\ flight'[g].waiters = Cardinality(WaitersOf(g)')
  <2>1. IsFiniteSet(WaitersOf(g)) /\ flight[g].waiters = Cardinality(WaitersOf(g))
        /\ flight[g].waiters \in Nat
    BY ExecutionFacts DEF CacheInv, WaitersCounted
  <2>2. \A p \in Queries \ {q} : query'[p].flight = query[p].flight
    OBVIOUS
  <2>3. /\ IsFiniteSet(WaitersOf(g)')
        /\ Cardinality(WaitersOf(g)') = Cardinality(WaitersOf(g))
             - (IF query[q].flight = g THEN 1 ELSE 0) + (IF query'[q].flight = g THEN 1 ELSE 0)
    BY <2>1, <2>2, WaitersMove
  <2>4. query'[q].flight # g
    BY ZeroIsNoIdentity
  <2>5. CASE g = f
    <3>1. flight'[g].waiters = flight[g].waiters - 1
      BY <1>1, <1>2, <2>5, LeftFacts
    <3>2. query[q].flight = g
      BY <2>5
    <3> QED
      BY <2>1, <2>3, <2>4, <3>1, <3>2
  <2>6. CASE g # f
    <3>1. flight'[g].waiters = flight[g].waiters /\ query[q].flight # g
      BY <1>2, <2>6
    <3> QED
      BY <2>1, <2>3, <2>4, <3>1
  <2> QED
    BY <2>5, <2>6
<1>6. WaitersCounted'
  <2>1. WaitersCounted' <=> \A g \in FlightIds : /\ IsFiniteSet(WaitersOf(g)')
                                                 /\ flight'[g].waiters = Cardinality(WaitersOf(g)')
    BY DEF WaitersCounted
  <2> QED
    BY <1>5, <2>1
<1>7. ASSUME NEW r \in ResultIds
      PROVE  /\ IsFiniteSet(ValueHolders(r)') /\ Cardinality(ValueHolders(r)') \in Nat
             /\ Cardinality(ValueHolders(r)')
                  = Cardinality(ValueHolders(r)) - One(ReleasedByLeaving(f))[r]
  <2>1. \A g \in FlightIds \ {f} : flight'[g].value = flight[g].value
    BY <1>2
  <2>2. /\ IsFiniteSet(ValueHolders(r)')
        /\ Cardinality(ValueHolders(r)) \in Nat /\ Cardinality(ValueHolders(r)') \in Nat
        /\ Cardinality(ValueHolders(r)') = Cardinality(ValueHolders(r))
             - (IF flight[f].value = r THEN 1 ELSE 0) + (IF flight'[f].value = r THEN 1 ELSE 0)
    BY <2>1, PinFacts, ValuesMove
  <2>3. /\ One(ReleasedByLeaving(f))[r] \in {0, 1}
        /\ (IF flight'[f].value = r THEN 1 ELSE 0)
             = (IF flight[f].value = r THEN 1 ELSE 0) - One(ReleasedByLeaving(f))[r]
    BY <1>1, <1>2, LeftFacts
  <2> QED
    BY <2>2, <2>3
<1> QED
  BY <1>2, <1>4, <1>6, <1>7

(* The references that a leaving query gives back. *)
LEMMA LeavingReturns ==
  ASSUME CacheInv, NEW q \in Queries, query[q].phase = "wait", NEW f \in FlightIds,
         f = query[q].flight, NEW row \in ExecutionRows, row.value = Left(f).value,
         flight' = [flight EXCEPT ![f] = row], \A p \in Queries : query'[p].lease = query[p].lease,
         result' = Returned(One(ReleasedByLeaving(f)))
  PROVE  /\ result' \in [ResultIds -> ResultRows]
         /\ \A g \in FlightIds : flight[g].step = "store" =>
              result'[flight[g].value].refs = result[flight[g].value].refs
         /\ \A r \in ResultIds :
              /\ IsFiniteSet(ResultHolders(r)')
              /\ result'[r].refs = HoldsIn(Listed(lru), r)
                   + (Cardinality(ValueHolders(r)) - One(ReleasedByLeaving(f))[r])
                   + Cardinality(ResultHolders(r)')
<1> DEFINE n == One(ReleasedByLeaving(f))
<1>1. flight[f].waiters \in Nat \ {0} /\ flight[f].step # "none"
  BY WaitingFacts
<1>2. ASSUME NEW r \in ResultIds
      PROVE  n[r] \in {0, 1} /\ result[r].refs - n[r] \in Nat
  <2>1. /\ n[r] \in {0, 1}
        /\ (IF Left(f).value = r THEN 1 ELSE 0) = (IF flight[f].value = r THEN 1 ELSE 0) - n[r]
    BY <1>1, LeftFacts
  <2> HIDE DEF n
  <2>2. n[r] = 1 => flight[f].value = r
    BY <2>1
  <2>3. n[r] = 1 => Cardinality(ValueHolders(r)) # 0
    <3>1. n[r] = 1 => f \in ValueHolders(r)
      BY <2>2 DEF ValueHolders
    <3> QED
      BY <3>1, PinFacts, FS_EmptySet
  <2> QED
    BY <2>1, <2>3, PinFacts
<1>3. result \in [ResultIds -> ResultRows]
  BY DEF CacheInv, CacheRows
<1>4. /\ result' \in [ResultIds -> ResultRows]
      /\ \A r \in ResultIds : result'[r].refs = result[r].refs - n[r]
  <2>1. \A r \in ResultIds : result[r].refs - n[r] \in Nat /\ n[r] \in Int
    BY <1>2
  <2>2. result' = Returned(n)
    OBVIOUS
  <2> HIDE DEF n
  <2> QED
    BY <1>3, <2>1, <2>2, GivenBack
<1>5. ASSUME NEW g \in FlightIds, flight[g].step = "store"
      PROVE  result'[flight[g].value].refs = result[flight[g].value].refs
  <2> DEFINE v == flight[g].value
  <2>1. v \in ResultIds /\ (g # f => flight[f].value # v)
    BY <1>5, SoleHolder
  <2>2. n[v] = 0
    <3>1. CASE g = f
      BY <1>1, <1>5, <2>1, <3>1, LeftFacts
    <3>2. CASE g # f
      BY <1>1, <2>1, <3>2, LeftFacts
    <3> QED
      BY <3>1, <3>2
  <2> HIDE DEF n, v
  <2>3. result'[v].refs = result[v].refs - 0 /\ result[v].refs \in Nat
    BY <1>4, <2>1, <2>2, PinFacts
  <2>4. result'[v].refs = result[v].refs
    BY <2>3
  <2> QED
    BY <2>4 DEF v
<1>6. ASSUME NEW r \in ResultIds
      PROVE  /\ IsFiniteSet(ResultHolders(r)')
             /\ result'[r].refs = HoldsIn(Listed(lru), r)
                  + (Cardinality(ValueHolders(r)) - n[r]) + Cardinality(ResultHolders(r)')
  <2>1. ResultHolders(r)' = ResultHolders(r)
    BY LeasesKept
  <2>2. n[r] \in {0, 1}
    BY <1>2
  <2> HIDE DEF n
  <2> QED
    BY <1>4, <2>1, <2>2, PinFacts
<1> QED
  BY <1>4, <1>5, <1>6

(* A query leaves its flight without taking a lease. *)
LEMMA LeavesKeeps ==
  ASSUME CacheInv, NEW q \in Queries, query[q].phase = "wait", NEW f \in FlightIds,
         f = query[q].flight, NEW row \in ExecutionRows,
         row.value = Left(f).value, row.waiters = Left(f).waiters, row.step = Left(f).step,
         row.scope = Left(f).scope, row.key = Left(f).key,
         Left(f) = NoArrowFlight => row = NoArrowFlight,
         flight' = [flight EXCEPT ![f] = row],
         result' = Returned(One(ReleasedByLeaving(f))),
         NEW next \in QueryRows, query' = [query EXCEPT ![q] = next],
         next.flight = 0, next.lease = 0, next.phase \in {"idle", "join"},
         next.phase # "idle" => next.scope \in CacheScopes /\ next.key \in Keys,
         UNCHANGED <<scope, data, cleared, closed, lru, usage>>
  PROVE  CacheInv'
<1>1. /\ query'[q] = next /\ query' \in [Queries -> QueryRows]
      /\ \A p \in Queries \ {q} : query'[p] = query[p]
  BY QueryFacts
<1>2. query[q].lease = 0
  BY WaitingFacts
<1>3. \A p \in Queries : query'[p].lease = query[p].lease
  BY <1>1, <1>2
<1>4. /\ result' \in [ResultIds -> ResultRows]
      /\ \A g \in FlightIds : flight[g].step = "store" =>
           result'[flight[g].value].refs = result[flight[g].value].refs
      /\ \A r \in ResultIds :
           /\ IsFiniteSet(ResultHolders(r)')
           /\ result'[r].refs = HoldsIn(Listed(lru), r)
                + (Cardinality(ValueHolders(r)) - One(ReleasedByLeaving(f))[r])
                + Cardinality(ResultHolders(r)')
  BY <1>3, LeavingReturns
<1>5. /\ flight' \in [FlightIds -> ExecutionRows]
      /\ \A g \in FlightIds : ExecutionOK(g)'
      /\ WaitersCounted'
      /\ \A r \in ResultIds :
           /\ IsFiniteSet(ValueHolders(r)')
           /\ Cardinality(ValueHolders(r)')
                = Cardinality(ValueHolders(r)) - One(ReleasedByLeaving(f))[r]
  <2>1. query'[q].flight = 0
    BY <1>1
  <2> QED
    BY <1>1, <1>4, <2>1, LeavingKeeps
<1>6. QueryOK(q)'
  BY <1>1 DEF QueryOK
<1>7. \A p \in Queries : QueryOK(p)'
  BY <1>1, <1>6, QueryKept, QueryFacts
<1>8. \A r \in ResultIds :
        /\ IsFiniteSet(ValueHolders(r)') /\ IsFiniteSet(ResultHolders(r)')
        /\ result'[r].refs = HoldsIn(Listed(lru), r) + Cardinality(ValueHolders(r)')
                             + Cardinality(ResultHolders(r)')
  BY <1>4, <1>5
<1> QED
  BY <1>1, <1>4, <1>5, <1>7, <1>8, ListKept, StepKeeps

LEMMA CancelQueryKeeps ==
  ASSUME CacheInv, NEW q \in Queries, CancelQuery(q)
  PROVE  CacheInv'
<1> DEFINE f == query[q].flight
           row == IF query[q].owner /\ Left(f) # NoArrowFlight
                    THEN [Left(f) EXCEPT !.live = FALSE] ELSE Left(f)
<1>1. /\ query[q].phase = "wait" /\ flight' = [flight EXCEPT ![f] = row]
      /\ result' = Returned(One(ReleasedByLeaving(f))) /\ query' = [query EXCEPT ![q] = IdleQuery]
      /\ UNCHANGED <<scope, data, cleared, closed, lru, usage>>
  BY DEF CancelQuery
<1>2. f \in FlightIds /\ flight[f].waiters \in Nat \ {0} /\ flight[f].step # "none"
  BY <1>1, WaitingFacts
<1>3. Left(f) \in ExecutionRows
  BY <1>2, LeftFacts
<1>4. /\ row \in ExecutionRows
      /\ row.value = Left(f).value /\ row.waiters = Left(f).waiters /\ row.step = Left(f).step
      /\ row.scope = Left(f).scope /\ row.key = Left(f).key
      /\ Left(f) = NoArrowFlight => row = NoArrowFlight
  BY <1>3, ZenonT(60) DEF ExecutionRows
<1> HIDE DEF row, f
<1> QED
  BY <1>1, <1>2, <1>4, IdleRow, LeavesKeeps DEF f

LEMMA FlightDoneKeeps ==
  ASSUME CacheInv, NEW q \in Queries, FlightDone(q)
  PROVE  CacheInv'
<1> DEFINE f == query[q].flight
           v == flight[f].value
           gives == One(ReleasedByLeaving(f))
<1>1. /\ query[q].phase = "wait" /\ flight[f].step = "done" /\ flight' = [flight EXCEPT ![f] = Left(f)]
      /\ UNCHANGED <<scope, data, cleared, closed, lru, usage>>
  BY DEF FlightDone
<1>2. /\ f \in FlightIds /\ flight[f].waiters \in Nat \ {0} /\ flight[f].step # "none"
      /\ query[q].scope \in CacheScopes /\ query[q].key \in Keys /\ query[q].lease = 0
  BY <1>1, WaitingFacts
<1>3. Left(f) \in ExecutionRows
  BY <1>2, LeftFacts
<1>4. CASE result' = Returned(gives) /\ query' = [query EXCEPT ![q] = IdleQuery]
  BY <1>1, <1>2, <1>3, <1>4, IdleRow, LeavesKeeps
<1>5. CASE result' = Returned(gives)
           /\ query' = [query EXCEPT ![q].phase = "join", ![q].flight = 0, ![q].owner = FALSE]
  <2> DEFINE next == [query[q] EXCEPT !.phase = "join", !.flight = 0, !.owner = FALSE]
  <2>1. query' = [query EXCEPT ![q] = next]
    BY <1>5, QueryFacts
  <2>2. /\ next \in QueryRows /\ next.flight = 0 /\ next.lease = 0 /\ next.phase = "join"
        /\ next.scope \in CacheScopes /\ next.key \in Keys
    BY <1>2, QueryFacts, ZenonT(60) DEF QueryRows
  <2> HIDE DEF next
  <2> QED
    BY <1>1, <1>2, <1>3, <1>5, <2>1, <2>2, LeavesKeeps
<1>6. CASE /\ v # 0
           /\ result' = [r \in ResultIds |-> [result[r] EXCEPT !.refs = result[r].refs + One(v)[r] - gives[r]]]
           /\ query' = [query EXCEPT ![q].phase = "leased", ![q].token = 0, ![q].lease = v,
                                     ![q].flight = 0, ![q].owner = FALSE]
  <2> DEFINE next == [query[q] EXCEPT !.phase = "leased", !.token = 0, !.lease = v,
                                      !.flight = 0, !.owner = FALSE]
  <2>0. v \in ResultIds
    BY <1>2, <1>6, ExecutionFacts
  <2>1. query' = [query EXCEPT ![q] = next]
    BY <1>6, QueryFacts
  <2>2. /\ next \in QueryRows /\ next.flight = 0 /\ next.lease = v /\ next.phase = "leased"
        /\ next.scope \in CacheScopes /\ next.key \in Keys
    BY <1>2, <2>0, QueryFacts, ZenonT(60) DEF QueryRows
  <2> HIDE DEF next
  <2>3. /\ query'[q] = next /\ query' \in [Queries -> QueryRows]
        /\ \A p \in Queries \ {q} : query'[p] = query[p]
    BY <2>1, <2>2, QueryFacts
  <2>4. QueryOK(q)'
    BY <2>0, <2>2, <2>3, ZeroIsNoIdentity DEF QueryOK
  <2>5. \A p \in Queries : QueryOK(p)'
    BY <2>3, <2>4, QueryKept, QueryFacts
  <2>6. ASSUME NEW r \in ResultIds
        PROVE  /\ gives[r] \in {0, 1} /\ (v # r => gives[r] = 0)
               /\ One(v)[r] = IF v = r THEN 1 ELSE 0
               /\ result'[r] = [result[r] EXCEPT !.refs = result[r].refs + One(v)[r] - gives[r]]
               /\ result[r].refs + One(v)[r] - gives[r] \in Nat
    <3>1. gives[r] \in {0, 1} /\ (v # r => gives[r] = 0)
      BY <1>2, LeftFacts
    <3>2. One(v)[r] = IF v = r THEN 1 ELSE 0
      BY DEF One
    <3>3. result'[r] = [result[r] EXCEPT !.refs = result[r].refs + One(v)[r] - gives[r]]
      BY <1>6
    <3> HIDE DEF gives, v
    <3>4. result[r].refs + One(v)[r] - gives[r] \in Nat
      BY <3>1, <3>2, PinFacts
    <3> QED
      BY <3>1, <3>2, <3>3, <3>4
  <2>7. ASSUME NEW r \in ResultIds
        PROVE  /\ result'[r] \in ResultRows
               /\ result'[r].refs = result[r].refs + One(v)[r] - gives[r]
    <3> HIDE DEF gives, v
    <3>1. result[r] \in ResultRows
      BY PinFacts
    <3> QED
      BY <2>6, <3>1 DEF ResultRows
  <2>8. result' \in [ResultIds -> ResultRows]
    <3>1. result' = [r \in ResultIds |-> result'[r]]
      BY <1>6
    <3> QED
      BY <2>7, <3>1
  <2>9. \A g \in FlightIds : flight[g].step = "store" =>
          result'[flight[g].value].refs = result[flight[g].value].refs
    <3>1. ASSUME NEW g \in FlightIds, flight[g].step = "store"
          PROVE  result'[flight[g].value].refs = result[flight[g].value].refs
      <4> DEFINE u == flight[g].value
      <4>1. u \in ResultIds /\ v # u
        <5>1. f \in FlightIds \ {g}
          BY <1>1, <1>2, <3>1
        <5> QED
          BY <3>1, <5>1, SoleHolder
      <4>2. One(v)[u] = 0 /\ gives[u] = 0
        BY <2>6, <4>1
      <4> HIDE DEF u, gives, v
      <4>3. result'[u].refs = result[u].refs + 0 - 0 /\ result[u].refs \in Nat
        BY <2>7, <4>1, <4>2, PinFacts
      <4>4. result'[u].refs = result[u].refs
        BY <4>3
      <4> QED
        BY <4>4 DEF u
    <3> QED
      BY <3>1
  <2>10. query'[q].flight = 0
    BY <2>2, <2>3
  <2>11. /\ flight' \in [FlightIds -> ExecutionRows]
         /\ \A g \in FlightIds : ExecutionOK(g)'
         /\ WaitersCounted'
         /\ \A r \in ResultIds :
              /\ IsFiniteSet(ValueHolders(r)') /\ Cardinality(ValueHolders(r)') \in Nat
              /\ Cardinality(ValueHolders(r)') = Cardinality(ValueHolders(r)) - gives[r]
    BY <1>1, <1>2, <1>3, <2>3, <2>9, <2>10, LeavingKeeps
  <2>12. ASSUME NEW r \in ResultIds
         PROVE  /\ IsFiniteSet(ResultHolders(r)') /\ Cardinality(ResultHolders(r)') \in Nat
                /\ Cardinality(ResultHolders(r)') = Cardinality(ResultHolders(r)) + One(v)[r]
    <3>1. \A p \in Queries \ {q} : query'[p].lease = query[p].lease
      BY <2>3
    <3>2. /\ IsFiniteSet(ResultHolders(r)')
          /\ Cardinality(ResultHolders(r)) \in Nat /\ Cardinality(ResultHolders(r)') \in Nat
          /\ Cardinality(ResultHolders(r)') = Cardinality(ResultHolders(r))
               - (IF query[q].lease = r THEN 1 ELSE 0) + (IF query'[q].lease = r THEN 1 ELSE 0)
      BY <3>1, PinFacts, LeasesMove
    <3>3. query[q].lease # r /\ query'[q].lease = v
      BY <1>2, <2>2, <2>3, ZeroIsNoIdentity
    <3>4. One(v)[r] = IF v = r THEN 1 ELSE 0
      BY <2>6
    <3> HIDE DEF v
    <3> QED
      BY <3>2, <3>3, <3>4
  <2>13. \A r \in ResultIds :
           /\ IsFiniteSet(ValueHolders(r)') /\ IsFiniteSet(ResultHolders(r)')
           /\ result'[r].refs = HoldsIn(Listed(lru), r) + Cardinality(ValueHolders(r)')
                                + Cardinality(ResultHolders(r)')
    <3>1. ASSUME NEW r \in ResultIds
          PROVE  result'[r].refs = HoldsIn(Listed(lru), r) + Cardinality(ValueHolders(r)')
                                   + Cardinality(ResultHolders(r)')
      <4>1. gives[r] \in {0, 1} /\ One(v)[r] \in {0, 1}
        BY <2>6
      <4>2. /\ Cardinality(ValueHolders(r)') = Cardinality(ValueHolders(r)) - gives[r]
            /\ Cardinality(ResultHolders(r)') = Cardinality(ResultHolders(r)) + One(v)[r]
            /\ result'[r].refs = result[r].refs + One(v)[r] - gives[r]
        BY <2>7, <2>11, <2>12
      <4> HIDE DEF gives, v
      <4> QED
        BY <4>1, <4>2, PinFacts
    <3> QED
      BY <2>11, <2>12, <3>1
  <2> QED
    BY <1>1, <2>3, <2>5, <2>8, <2>11, <2>13, ListKept, StepKeeps
<1> QED
  BY <1>4, <1>5, <1>6, Zenon DEF FlightDone

LEMMA ReleaseLeaseKeeps ==
  ASSUME CacheInv, NEW q \in Queries, ReleaseLease(q)
  PROVE  CacheInv'
<1> DEFINE v == query[q].lease
           n == One(v)
<1>1. /\ query[q].phase = "leased" /\ result' = Returned(n)
      /\ query' = [query EXCEPT ![q] = IdleQuery]
      /\ UNCHANGED <<scope, data, cleared, closed, lru, usage, flight>>
  BY DEF ReleaseLease
<1>2. v \in ResultIds /\ query[q].flight = 0
  BY <1>1, QueryFacts DEF QueryOK
<1>3. /\ query'[q] = IdleQuery /\ query' \in [Queries -> QueryRows]
      /\ \A p \in Queries \ {q} : query'[p] = query[p]
  BY <1>1, QueryFacts, IdleRow
<1>4. QueryOK(q)'
  BY <1>3, IdleRow DEF QueryOK
<1>5. \A p \in Queries : QueryOK(p)'
  BY <1>3, <1>4, QueryKept, QueryFacts
<1>6. ASSUME NEW r \in ResultIds
      PROVE  /\ n[r] = (IF v = r THEN 1 ELSE 0)
             /\ IsFiniteSet(ResultHolders(r)') /\ Cardinality(ResultHolders(r)') \in Nat
             /\ Cardinality(ResultHolders(r)') = Cardinality(ResultHolders(r)) - n[r]
             /\ result[r].refs - n[r] \in Nat
  <2>1. n[r] = IF v = r THEN 1 ELSE 0
    BY DEF One
  <2>2. \A p \in Queries \ {q} : query'[p].lease = query[p].lease
    BY <1>3
  <2>3. /\ IsFiniteSet(ResultHolders(r)')
        /\ Cardinality(ResultHolders(r)) \in Nat /\ Cardinality(ResultHolders(r)') \in Nat
        /\ Cardinality(ResultHolders(r)') = Cardinality(ResultHolders(r))
             - (IF query[q].lease = r THEN 1 ELSE 0) + (IF query'[q].lease = r THEN 1 ELSE 0)
    BY <2>2, PinFacts, LeasesMove
  <2>4. query[q].lease = v /\ query'[q].lease # r
    BY <1>3, IdleRow, ZeroIsNoIdentity
  <2> HIDE DEF v, n
  <2> QED
    BY <2>1, <2>3, <2>4, PinFacts
<1>7. result \in [ResultIds -> ResultRows]
  BY DEF CacheInv, CacheRows
<1>8. /\ result' \in [ResultIds -> ResultRows]
      /\ \A r \in ResultIds : result'[r].refs = result[r].refs - n[r]
  <2>1. \A r \in ResultIds : result[r].refs - n[r] \in Nat /\ n[r] \in Int
    BY <1>6
  <2> HIDE DEF n
  <2> QED
    BY <1>1, <1>7, <2>1, GivenBack
<1>9. ASSUME NEW g \in FlightIds PROVE ExecutionOK(g)'
  <2>1. flight[g].step = "store" => result'[flight[g].value].refs = result[flight[g].value].refs
    <3>1. SUFFICES ASSUME flight[g].step = "store"
                   PROVE  result'[flight[g].value].refs = result[flight[g].value].refs
      OBVIOUS
    <3> DEFINE u == flight[g].value
    <3>2. u \in ResultIds /\ v # u
      BY <3>1, SoleHolder
    <3>3. n[u] = 0
      BY <1>6, <3>2
    <3> HIDE DEF u, v, n
    <3>4. result'[u].refs = result[u].refs - 0 /\ result[u].refs \in Nat
      BY <1>8, <3>2, <3>3, PinFacts
    <3>5. result'[u].refs = result[u].refs
      BY <3>4
    <3> QED
      BY <3>5 DEF u
  <2> QED
    BY <1>1, <2>1, ExecutionKept, ExecutionFacts
<1>10. WaitersCounted'
  <2>1. \A p \in Queries : query'[p].flight = query[p].flight
    BY <1>2, <1>3, IdleRow
  <2> QED
    BY <1>1, <2>1, WaitersKept DEF CacheInv
<1>11. \A r \in ResultIds :
         /\ IsFiniteSet(ValueHolders(r)') /\ IsFiniteSet(ResultHolders(r)')
         /\ result'[r].refs = HoldsIn(Listed(lru), r) + Cardinality(ValueHolders(r)')
                              + Cardinality(ResultHolders(r)')
  <2>1. ASSUME NEW r \in ResultIds
        PROVE  /\ IsFiniteSet(ValueHolders(r)')
               /\ result'[r].refs = HoldsIn(Listed(lru), r) + Cardinality(ValueHolders(r)')
                                    + Cardinality(ResultHolders(r)')
    <3>1. ValueHolders(r)' = ValueHolders(r)
      BY <1>1, ValuesKept
    <3>2. n[r] \in {0, 1}
      BY <1>6
    <3>3. /\ result'[r].refs = result[r].refs - n[r]
          /\ Cardinality(ResultHolders(r)') = Cardinality(ResultHolders(r)) - n[r]
      BY <1>6, <1>8
    <3> HIDE DEF n
    <3> QED
      BY <3>1, <3>2, <3>3, PinFacts
  <2> QED
    BY <1>6, <2>1
<1>12. flight' \in [FlightIds -> ExecutionRows]
  BY <1>1 DEF CacheInv, CacheRows
<1> QED
  BY <1>1, <1>3, <1>5, <1>8, <1>9, <1>10, <1>11, <1>12, ListKept, StepKeeps

(* A query joins a flight, or opens one. *)
LEMMA JoinsKeeps ==
  ASSUME CacheInv, NEW q \in Queries, query[q].phase = "join", NEW f \in FlightIds,
         NEW row \in ExecutionRows, row.value = flight[f].value,
         row.waiters = flight[f].waiters + 1,
         row.step # "none", row.scope \in CacheScopes, row.key \in Keys,
         row.step = "run" => row.value = 0, row.step = "store" => flight[f].step = "store",
         flight' = [flight EXCEPT ![f] = row],
         NEW own \in BOOLEAN,
         query' = [query EXCEPT ![q].phase = "wait", ![q].flight = f, ![q].owner = own],
         UNCHANGED <<scope, data, cleared, closed, lru, usage, result>>
  PROVE  CacheInv'
<1> DEFINE next == [query[q] EXCEPT !.phase = "wait", !.flight = f, !.owner = own]
<1>1. query' = [query EXCEPT ![q] = next]
  BY QueryFacts
<1>2. query[q].flight = 0 /\ query[q].lease = 0 /\ query[q].scope \in CacheScopes /\ query[q].key \in Keys
  BY QueryFacts DEF QueryOK
<1>3. /\ next \in QueryRows /\ next.flight = f /\ next.lease = 0 /\ next.phase = "wait"
      /\ next.scope \in CacheScopes /\ next.key \in Keys
  BY <1>2, QueryFacts, ZenonT(60) DEF QueryRows
<1> HIDE DEF next
<1>4. /\ query'[q] = next /\ query' \in [Queries -> QueryRows]
      /\ \A p \in Queries \ {q} : query'[p] = query[p]
  <2>1. query \in [Queries -> QueryRows]
    BY QueryFacts
  <2>2. next \in QueryRows
    BY <1>3
  <2> QED
    BY <1>1, <2>1, <2>2, ZenonT(60)
<1>5. QueryOK(q)'
  BY <1>3, <1>4, ZeroIsNoIdentity DEF QueryOK
<1>6. \A p \in Queries : QueryOK(p)'
  BY <1>4, <1>5, QueryKept, QueryFacts
<1>7. flight'[f] = row /\ (\A g \in FlightIds \ {f} : flight'[g] = flight[g])
      /\ flight' \in [FlightIds -> ExecutionRows]
  BY ExecutionFacts
<1>8. ExecutionOK(f)'
  <2>1. ExecutionOK(f)
    BY ExecutionFacts
  <2> QED
    BY <1>7, <2>1 DEF ExecutionOK
<1>9. \A g \in FlightIds : ExecutionOK(g)'
  BY <1>7, <1>8, ExecutionKept, ExecutionFacts
<1>10. ASSUME NEW g \in FlightIds
       PROVE  IsFiniteSet(WaitersOf(g)') /\ flight'[g].waiters = Cardinality(WaitersOf(g)')
  <2>1. IsFiniteSet(WaitersOf(g)) /\ flight[g].waiters = Cardinality(WaitersOf(g))
        /\ flight[g].waiters \in Nat
    BY ExecutionFacts DEF CacheInv, WaitersCounted
  <2>2. \A p \in Queries \ {q} : query'[p].flight = query[p].flight
    BY <1>4
  <2>3. /\ IsFiniteSet(WaitersOf(g)')
        /\ Cardinality(WaitersOf(g)') = Cardinality(WaitersOf(g))
             - (IF query[q].flight = g THEN 1 ELSE 0) + (IF query'[q].flight = g THEN 1 ELSE 0)
    BY <2>1, <2>2, WaitersMove
  <2>4. query[q].flight # g /\ query'[q].flight = f
    BY <1>2, <1>3, <1>4, ZeroIsNoIdentity
  <2>5. CASE g = f
    <3>1. flight'[g].waiters = flight[g].waiters + 1
      BY <1>7, <2>5
    <3> QED
      BY <2>1, <2>3, <2>4, <2>5, <3>1
  <2>6. CASE g # f
    <3>1. flight'[g].waiters = flight[g].waiters
      BY <1>7, <2>6
    <3> QED
      BY <2>1, <2>3, <2>4, <2>6, <3>1
  <2> QED
    BY <2>5, <2>6
<1>11. WaitersCounted'
  <2>1. WaitersCounted' <=> \A g \in FlightIds : /\ IsFiniteSet(WaitersOf(g)')
                                                 /\ flight'[g].waiters = Cardinality(WaitersOf(g)')
    BY DEF WaitersCounted
  <2> QED
    BY <1>10, <2>1
<1>12. \A r \in ResultIds : ValueHolders(r)' = ValueHolders(r) /\ ResultHolders(r)' = ResultHolders(r)
  <2>1. \A g \in FlightIds : flight'[g].value = flight[g].value
    BY <1>7
  <2>2. \A p \in Queries : query'[p].lease = query[p].lease
    BY <1>2, <1>3, <1>4
  <2> QED
    BY <2>1, <2>2, ValuesKept, LeasesKept
<1>13. \A r \in ResultIds :
         /\ IsFiniteSet(ValueHolders(r)') /\ IsFiniteSet(ResultHolders(r)')
         /\ result'[r].refs = HoldsIn(Listed(lru), r) + Cardinality(ValueHolders(r)')
                              + Cardinality(ResultHolders(r)')
  BY <1>12, PinFacts
<1>14. result' \in [ResultIds -> ResultRows]
  BY DEF CacheInv, CacheRows
<1> QED
  BY <1>4, <1>6, <1>7, <1>9, <1>11, <1>13, <1>14, ListKept, StepKeeps


LEMMA JoinKeeps ==
  ASSUME CacheInv, NEW q \in Queries, Join(q)
  PROVE  CacheInv'
<1> DEFINE free == {f \in FlightIds : flight[f].step = "none"}
<1>1. /\ query[q].phase = "join"
      /\ UNCHANGED <<scope, data, cleared, closed, lru, usage, result>>
  BY Zenon DEF Join
<1>2. query[q].scope \in CacheScopes /\ query[q].key \in Keys /\ query[q].token \in Nat
  BY <1>1, QueryFacts DEF QueryOK
<1>3. ASSUME NEW f \in FlightIds, Shares(f, q),
             flight' = [flight EXCEPT ![f].waiters = flight[f].waiters + 1],
             query' = [query EXCEPT ![q].phase = "wait", ![q].flight = f, ![q].owner = FALSE]
      PROVE  CacheInv'
  <2> DEFINE row == [flight[f] EXCEPT !.waiters = flight[f].waiters + 1]
  <2>1. flight' = [flight EXCEPT ![f] = row]
    BY <1>3, ExecutionFacts
  <2>2. flight[f].waiters + 1 \in Nat
    BY ExecutionFacts
  <2>3. /\ row \in ExecutionRows /\ row.value = flight[f].value /\ row.waiters = flight[f].waiters + 1
        /\ row.step = flight[f].step /\ row.scope = flight[f].scope /\ row.key = flight[f].key
    BY <2>2, ExecutionFacts DEF ExecutionRows
  <2> HIDE DEF row
  <2>4. /\ flight[f].step # "none" /\ row.scope \in CacheScopes /\ row.key \in Keys
        /\ row.step = "run" => row.value = 0
    BY <1>2, <1>3, <2>3, ExecutionFacts DEF Shares, ExecutionOK
  <2> QED
    BY <1>1, <1>3, <2>1, <2>3, <2>4, JoinsKeeps, Zenon
<1>4. ASSUME free # {},
             flight' = [flight EXCEPT ![Min(free)] = [NoArrowFlight EXCEPT
               !.step = "run", !.scope = query[q].scope, !.key = query[q].key,
               !.token = query[q].token, !.live = TRUE, !.waiters = 1]],
             query' = [query EXCEPT ![q].phase = "wait", ![q].flight = Min(free), ![q].owner = TRUE]
      PROVE  CacheInv'
  <2>1. free \in SUBSET Nat
    BY CacheAssumption
  <2> DEFINE f == Min(free)
  <2>2. f \in free
    BY <1>4, <2>1, MinIsLeast, Zenon
  <2>3. f \in FlightIds /\ flight[f].step = "none"
    BY <2>2
  <2>4. flight[f] = NoArrowFlight
    BY <2>3, ExecutionFacts DEF ExecutionOK
  <2> DEFINE row == [NoArrowFlight EXCEPT
               !.step = "run", !.scope = query[q].scope, !.key = query[q].key,
               !.token = query[q].token, !.live = TRUE, !.waiters = 1]
  <2>5. flight' = [flight EXCEPT ![f] = row]
    BY <1>4, Zenon
  <2>6. /\ row \in ExecutionRows /\ row.value = 0 /\ row.waiters = 1 /\ row.step = "run"
        /\ row.scope \in CacheScopes /\ row.key \in Keys
    BY <1>2 DEF NoArrowFlight, ExecutionRows
  <2>7. row.value = flight[f].value /\ row.waiters = flight[f].waiters + 1
    BY <2>4, <2>6, EmptyExecution
  <2>8. query' = [query EXCEPT ![q].phase = "wait", ![q].flight = f, ![q].owner = TRUE]
    BY <1>4, Zenon
  <2> HIDE DEF row, f
  <2> QED
    BY <1>1, <2>3, <2>5, <2>6, <2>7, <2>8, JoinsKeeps, Zenon
<1> QED
  BY <1>3, <1>4, Zenon DEF Join

-----------------------------------------------------------------------------
(* Flights                                                                 *)

(* One flight changes, and the references with what it holds. *)
LEMMA ExecutionMoves ==
  ASSUME CacheInv, NEW f \in FlightIds, NEW row \in ExecutionRows, row.waiters = flight[f].waiters,
         flight' = [flight EXCEPT ![f] = row], query' = query,
         UNCHANGED <<scope, data, cleared, closed, usage>>,
         lru' \in Seq(Entries), Listed(lru') = Listed(lru), KeysOnce(lru)',
         result' \in [ResultIds -> ResultRows],
         \A r \in ResultIds :
           result'[r].refs = result[r].refs - (IF flight[f].value = r THEN 1 ELSE 0)
                                            + (IF row.value = r THEN 1 ELSE 0),
         row.step = "none" => row = NoArrowFlight,
         row.step # "none" => row.scope \in CacheScopes /\ row.key \in Keys,
         row.step = "run" => row.value = 0,
         row.step = "store" => row.value # 0 /\ result'[row.value].refs = 1,
         \A g \in FlightIds \ {f} : flight[g].step = "store" => flight[g].value # row.value
  PROVE  CacheInv'
<1>1. flight'[f] = row /\ (\A g \in FlightIds \ {f} : flight'[g] = flight[g])
      /\ flight' \in [FlightIds -> ExecutionRows]
  BY ExecutionFacts
<1>2. ExecutionOK(f)'
  BY <1>1 DEF ExecutionOK
<1>3. ASSUME NEW g \in FlightIds \ {f} PROVE ExecutionOK(g)'
  <2>1. flight[g].step = "store" => result'[flight[g].value].refs = result[flight[g].value].refs
    <3>1. SUFFICES ASSUME flight[g].step = "store"
                   PROVE  result'[flight[g].value].refs = result[flight[g].value].refs
      OBVIOUS
    <3> DEFINE u == flight[g].value
    <3>2. u \in ResultIds /\ flight[f].value # u /\ row.value # u
      <4>1. f \in FlightIds \ {g}
        OBVIOUS
      <4> QED
        BY <3>1, <4>1, SoleHolder
    <3> HIDE DEF u
    <3>3. result'[u].refs = result[u].refs - 0 + 0 /\ result[u].refs \in Nat
      BY <3>2, PinFacts
    <3>4. result'[u].refs = result[u].refs
      BY <3>3
    <3> QED
      BY <3>4 DEF u
  <2> QED
    BY <1>1, <2>1, ExecutionKept, ExecutionFacts
<1>4. \A g \in FlightIds : ExecutionOK(g)'
  BY <1>2, <1>3
<1>5. \A q \in Queries : QueryOK(q)'
  BY QueryKept, QueryFacts
<1>6. WaitersCounted'
  <2>1. \A g \in FlightIds : flight'[g].waiters = flight[g].waiters
    BY <1>1
  <2> QED
    BY <2>1, WaitersKept DEF CacheInv
<1>7. ASSUME NEW r \in ResultIds
      PROVE  /\ IsFiniteSet(ValueHolders(r)') /\ IsFiniteSet(ResultHolders(r)')
             /\ result'[r].refs = HoldsIn(Listed(lru), r) + Cardinality(ValueHolders(r)')
                                  + Cardinality(ResultHolders(r)')
  <2>1. ResultHolders(r)' = ResultHolders(r)
    BY LeasesKept
  <2>2. \A g \in FlightIds \ {f} : flight'[g].value = flight[g].value
    BY <1>1
  <2>3. /\ IsFiniteSet(ValueHolders(r)')
        /\ Cardinality(ValueHolders(r)) \in Nat /\ Cardinality(ValueHolders(r)') \in Nat
        /\ Cardinality(ValueHolders(r)') = Cardinality(ValueHolders(r))
             - (IF flight[f].value = r THEN 1 ELSE 0) + (IF flight'[f].value = r THEN 1 ELSE 0)
    BY <2>2, PinFacts, ValuesMove, SMTT(60)
  <2>4. flight'[f].value = row.value
    BY <1>1
  <2> QED
    BY <2>1, <2>3, <2>4, PinFacts, SMTT(60)
<1>8. query' \in [Queries -> QueryRows]
  BY DEF CacheInv, CacheRows
<1> QED
  BY <1>1, <1>4, <1>5, <1>6, <1>7, <1>8, StepKeeps

(* The results that flights other than f are about to store. *)
LEMMA StoredByOthers ==
  ASSUME CacheInv, NEW g \in FlightIds, flight[g].step = "store"
  PROVE  /\ flight[g].value # 0
         /\ \A f \in FlightIds \ {g} : flight[f].value # flight[g].value
         /\ \A e \in Listed(lru) : e.result # flight[g].value
         /\ \A r \in ResultIds : result[r].refs = 0 => r # flight[g].value
BY SoleHolder, ZeroIsNoIdentity

LEMMA RunKeeps ==
  ASSUME CacheInv, NEW f \in FlightIds, Run(f)
  PROVE  CacheInv'
<1>1. /\ flight[f].step = "run" /\ UNCHANGED <<scope, data, cleared, closed, usage, query>>
  BY DEF Run
<1>2. /\ flight[f] \in ExecutionRows /\ flight[f].value = 0
      /\ flight[f].scope \in CacheScopes /\ flight[f].key \in Keys
  BY <1>1, ExecutionFacts DEF ExecutionOK
<1>3. result \in [ResultIds -> ResultRows] /\ flight \in [FlightIds -> ExecutionRows]
  BY DEF CacheInv, CacheRows
<1>4. CASE flight' = [flight EXCEPT ![f].step = "finish", ![f].failed = "error"] /\ UNCHANGED <<lru, result>>
  <2> DEFINE row == [flight[f] EXCEPT !.step = "finish", !.failed = "error"]
  <2>1. flight' = [flight EXCEPT ![f] = row]
    BY <1>3, <1>4
  <2>2. /\ row \in ExecutionRows /\ row.waiters = flight[f].waiters /\ row.step = "finish"
        /\ row.value = flight[f].value /\ row.scope \in CacheScopes /\ row.key \in Keys
    BY <1>2 DEF ExecutionRows
  <2> HIDE DEF row
  <2>3. \A r \in ResultIds : result'[r].refs = result[r].refs - (IF flight[f].value = r THEN 1 ELSE 0)
                                                             + (IF row.value = r THEN 1 ELSE 0)
    BY <1>4, <2>2, PinFacts
  <2>4. \A g \in FlightIds \ {f} : flight[g].step = "store" => flight[g].value # row.value
    BY <1>2, <2>2, StoredByOthers
  <2>5. lru' \in Seq(Entries) /\ Listed(lru') = Listed(lru) /\ KeysOnce(lru)'
    BY <1>4, ListKept
  <2>6. result' \in [ResultIds -> ResultRows]
    BY <1>3, <1>4
  <2> QED
    BY <1>1, <2>1, <2>2, <2>3, <2>4, <2>5, <2>6, ExecutionMoves
<1>5. ASSUME NEW e \in EntriesOf(flight[f].scope), lru' = <<e>> \o Without({e}),
             result' = [result EXCEPT ![e.result].refs = result[e.result].refs + 1],
             flight' = [flight EXCEPT ![f].step = "finish", ![f].value = e.result]
      PROVE  CacheInv'
  <2> DEFINE row == [flight[f] EXCEPT !.step = "finish", !.value = e.result]
  <2>0. e \in Listed(lru) /\ e.result \in ResultIds /\ e.result # 0
    BY EntryFacts, ZeroIsNoIdentity DEF EntriesOf
  <2>1. flight' = [flight EXCEPT ![f] = row]
    BY <1>3, <1>5
  <2>2. /\ row \in ExecutionRows /\ row.waiters = flight[f].waiters /\ row.step = "finish"
        /\ row.value = e.result /\ row.scope \in CacheScopes /\ row.key \in Keys
    BY <1>2, <2>0 DEF ExecutionRows
  <2> HIDE DEF row
  <2>3. ASSUME NEW r \in ResultIds
        PROVE  /\ result'[r] \in ResultRows
               /\ result'[r].refs = result[r].refs + (IF e.result = r THEN 1 ELSE 0)
    <3>1. result[r] \in ResultRows /\ result[r].refs \in Nat
      BY PinFacts
    <3>2. CASE e.result = r
      <4>1. result'[r] = [result[r] EXCEPT !.refs = result[r].refs + 1] /\ result[r].refs + 1 \in Nat
        BY <1>3, <1>5, <2>0, <3>1, <3>2
      <4> QED
        BY <3>1, <3>2, <4>1 DEF ResultRows
    <3>3. CASE e.result # r
      <4>1. result'[r] = result[r]
        BY <1>3, <1>5, <3>3
      <4> QED
        BY <3>1, <3>3, <4>1
    <3> QED
      BY <3>2, <3>3
  <2>4. result' \in [ResultIds -> ResultRows]
    <3>1. result' = [r \in ResultIds |-> result'[r]]
      BY <1>3, <1>5
    <3> QED
      BY <2>3, <3>1
  <2>5. \A r \in ResultIds : result'[r].refs = result[r].refs - (IF flight[f].value = r THEN 1 ELSE 0)
                                                             + (IF row.value = r THEN 1 ELSE 0)
    <3>1. \A r \in ResultIds : flight[f].value # r
      BY <1>2, ZeroIsNoIdentity
    <3> QED
      BY <2>2, <2>3, <3>1, PinFacts
  <2>6. \A g \in FlightIds \ {f} : flight[g].step = "store" => flight[g].value # row.value
    BY <2>0, <2>2, StoredByOthers
  <2>7. lru' \in Seq(Entries) /\ Listed(lru') = Listed(lru) /\ KeysOnce(lru)'
    BY <1>5, <2>0, TouchedFacts
  <2> QED
    BY <1>1, <2>1, <2>2, <2>4, <2>5, <2>6, <2>7, ExecutionMoves
<1>6. CASE /\ FreeResults # {}
           /\ result' = [result EXCEPT ![Min(FreeResults)] =
                           [refs |-> 1, version |-> data[flight[f].scope]]]
           /\ flight' = [flight EXCEPT ![f].step = "store", ![f].value = Min(FreeResults)]
           /\ lru' = lru
  <2> DEFINE m == Min(FreeResults)
             row == [flight[f] EXCEPT !.step = "store", !.value = m]
  <2>1. m \in ResultIds /\ result[m].refs = 0 /\ m # 0
    <3>1. FreeResults \in SUBSET Nat
      BY CacheAssumption DEF FreeResults
    <3>2. m \in FreeResults
      BY <1>6, <3>1, MinIsLeast
    <3> QED
      BY <3>2, ZeroIsNoIdentity DEF FreeResults
  <2>2. flight' = [flight EXCEPT ![f] = row]
    BY <1>3, <1>6
  <2> HIDE DEF m
  <2>3. /\ row \in ExecutionRows /\ row.waiters = flight[f].waiters /\ row.step = "store"
        /\ row.value = m /\ row.scope \in CacheScopes /\ row.key \in Keys
    BY <1>2, <2>1 DEF ExecutionRows
  <2> HIDE DEF row
  <2>4. [refs |-> 1, version |-> data[flight[f].scope]] \in ResultRows
    BY <1>2, ScopeTypes DEF ResultRows
  <2>5. result' \in [ResultIds -> ResultRows] /\ result'[m].refs = 1
        /\ \A r \in ResultIds \ {m} : result'[r] = result[r]
    BY <1>3, <1>6, <2>1, <2>4 DEF m
  <2>6. \A r \in ResultIds : result'[r].refs = result[r].refs - (IF flight[f].value = r THEN 1 ELSE 0)
                                                             + (IF row.value = r THEN 1 ELSE 0)
    <3>1. \A r \in ResultIds : flight[f].value # r
      BY <1>2, ZeroIsNoIdentity
    <3> QED
      BY <2>1, <2>3, <2>5, <3>1, PinFacts
  <2>7. \A g \in FlightIds \ {f} : flight[g].step = "store" => flight[g].value # row.value
    BY <2>1, <2>3, StoredByOthers
  <2>8. lru' \in Seq(Entries) /\ Listed(lru') = Listed(lru) /\ KeysOnce(lru)'
    BY <1>6, ListKept
  <2> QED
    BY <1>1, <2>1, <2>2, <2>3, <2>5, <2>6, <2>7, <2>8, ExecutionMoves
<1> QED
  BY <1>4, <1>5, <1>6 DEF Run

(* The references after a flight gives back what it holds, or nothing. *)
LEMMA FlightGivesBack ==
  ASSUME CacheInv, NEW f \in FlightIds, NEW v \in {0, flight[f].value}, result' = Returned(One(v))
  PROVE  /\ result' \in [ResultIds -> ResultRows]
         /\ \A r \in ResultIds : result'[r].refs = result[r].refs - (IF v = r THEN 1 ELSE 0)
<1> DEFINE n == One(v)
<1>1. ASSUME NEW r \in ResultIds
      PROVE  n[r] = (IF v = r THEN 1 ELSE 0) /\ result[r].refs - n[r] \in Nat
  <2>1. n[r] = IF v = r THEN 1 ELSE 0
    BY DEF One
  <2>2. v = r => f \in ValueHolders(r)
    BY ZeroIsNoIdentity DEF ValueHolders
  <2>3. v = r => Cardinality(ValueHolders(r)) # 0
    BY <2>2, PinFacts, FS_EmptySet
  <2> HIDE DEF n
  <2> QED
    BY <2>1, <2>3, PinFacts
<1>2. result \in [ResultIds -> ResultRows]
  BY DEF CacheInv, CacheRows
<1>3. \A r \in ResultIds : result[r].refs - n[r] \in Nat /\ n[r] \in Int
  BY <1>1
<1>4. /\ result' \in [ResultIds -> ResultRows]
      /\ \A r \in ResultIds : result'[r].refs = result[r].refs - n[r]
  <2> HIDE DEF n
  <2>1. result' = Returned(n)
    BY DEF n
  <2> QED
    BY <1>2, <1>3, <2>1, GivenBack
<1> QED
  BY <1>1, <1>4

LEMMA FinishFlightKept ==
  ASSUME CacheInv, NEW f \in FlightIds, FinishFlight(f)
  PROVE  CacheInv'
<1> DEFINE v == IF flight[f].waiters = 0 THEN flight[f].value ELSE 0
           row == IF flight[f].waiters = 0 THEN NoArrowFlight
                  ELSE [flight[f] EXCEPT !.step = "done",
                                         !.failed = IF flight[f].live THEN flight[f].failed ELSE "cancelled"]
<1>1. /\ flight[f].step = "finish" /\ flight' = [flight EXCEPT ![f] = row]
      /\ result' = Returned(One(v)) /\ UNCHANGED <<scope, data, cleared, closed, lru, usage, query>>
  BY DEF FinishFlight
<1>2. /\ flight[f] \in ExecutionRows /\ flight[f].scope \in CacheScopes /\ flight[f].key \in Keys
      /\ flight[f].value \in ResultIds \union {0}
  BY <1>1, ExecutionFacts DEF ExecutionOK
<1>3. /\ row \in ExecutionRows /\ row.waiters = flight[f].waiters /\ row.step \in {"none", "done"}
      /\ row.step = "none" => row = NoArrowFlight
      /\ row.step = "done" => row.scope \in CacheScopes /\ row.key \in Keys
      /\ row.value = IF flight[f].waiters = 0 THEN 0 ELSE flight[f].value
  <2>1. CASE flight[f].waiters = 0
    BY <2>1, EmptyExecution
  <2>2. CASE flight[f].waiters # 0
    <3>1. (IF flight[f].live THEN flight[f].failed ELSE "cancelled") \in {"no", "error", "cancelled"}
      BY ExecutionFacts
    <3> QED
      BY <1>2, <2>2, <3>1 DEF ExecutionRows
  <2> QED
    BY <2>1, <2>2
<1>4. v \in {0, flight[f].value}
  OBVIOUS
<1>5. /\ result' \in [ResultIds -> ResultRows]
      /\ \A r \in ResultIds : result'[r].refs = result[r].refs - (IF v = r THEN 1 ELSE 0)
  <2> HIDE DEF v, row
  <2> QED
    BY <1>1, <1>4, FlightGivesBack
<1>6. \A r \in ResultIds : result'[r].refs = result[r].refs - (IF flight[f].value = r THEN 1 ELSE 0)
                                                           + (IF row.value = r THEN 1 ELSE 0)
  <2>1. ASSUME NEW r \in ResultIds
        PROVE  result'[r].refs = result[r].refs - (IF flight[f].value = r THEN 1 ELSE 0)
                                                + (IF row.value = r THEN 1 ELSE 0)
    <3>1. r # 0 /\ result[r].refs \in Nat /\ result'[r].refs = result[r].refs - (IF v = r THEN 1 ELSE 0)
      BY <1>5, PinFacts, ZeroIsNoIdentity
    <3>2. CASE flight[f].waiters = 0
      <4>1. v = flight[f].value /\ row.value = 0
        BY <1>3, <3>2
      <4> HIDE DEF v, row
      <4> QED
        BY <3>1, <4>1
    <3>3. CASE flight[f].waiters # 0
      <4>1. v = 0 /\ row.value = flight[f].value
        BY <1>3, <3>3
      <4> HIDE DEF v, row
      <4> QED
        BY <3>1, <4>1
    <3> QED
      BY <3>2, <3>3
  <2> QED
    BY <2>1
<1>7. \A g \in FlightIds \ {f} : flight[g].step = "store" => flight[g].value # row.value
  <2>1. row.value \in {0, flight[f].value}
    BY <1>3
  <2> HIDE DEF row
  <2> QED
    BY <2>1, StoredByOthers
<1>8. lru' \in Seq(Entries) /\ Listed(lru') = Listed(lru) /\ KeysOnce(lru)'
  BY <1>1, ListKept
<1> HIDE DEF v, row
<1> QED
  BY <1>1, <1>3, <1>5, <1>6, <1>7, <1>8, ExecutionMoves

-----------------------------------------------------------------------------
(* Storing                                                                 *)

(* An entry more, and its level counts. *)
LEMMA LevelAdds ==
  ASSUME NEW E \in SUBSET Entries, IsFiniteSet(E), NEW e \in Entries, e \notin E, NEW x
  PROVE  /\ AtLevel(E \union {e}, x) \in SUBSET Entries /\ IsFiniteSet(AtLevel(E \union {e}, x))
         /\ Cardinality(AtLevel(E, x)) \in Nat /\ Cardinality(AtLevel({e}, x)) \in Nat
         /\ Bytes(AtLevel(E, x)) \in Nat /\ Bytes(AtLevel({e}, x)) \in Nat
         /\ Cardinality(AtLevel(E \union {e}, x)) = Cardinality(AtLevel(E, x)) + Cardinality(AtLevel({e}, x))
         /\ Bytes(AtLevel(E \union {e}, x)) = Bytes(AtLevel(E, x)) + Bytes(AtLevel({e}, x))
<1> DEFINE A == AtLevel(E, x)
<1>1. /\ A \in SUBSET E /\ A \in SUBSET Entries /\ IsFiniteSet(A)
      /\ Cardinality(A) \in Nat /\ Bytes(A) \in Nat
  BY LevelFacts
<1>2. IsFiniteSet(E \union {e}) /\ E \union {e} \in SUBSET Entries
  BY FS_AddElement
<1>3. AtLevel(E \union {e}, x) \in SUBSET Entries /\ IsFiniteSet(AtLevel(E \union {e}, x))
  BY <1>2, LevelFacts
<1>4. CASE x \in LevelsOf(e.scope)
  <2>1. AtLevel({e}, x) = {e} /\ AtLevel(E \union {e}, x) = A \union {e}
    BY <1>4 DEF AtLevel
  <2>2. e \notin A
    BY <1>1
  <2> HIDE DEF A
  <2>3. Cardinality(A \union {e}) = Cardinality(A) + 1 /\ Cardinality({e}) = 1
    BY <1>1, <2>2, FS_AddElement, FS_Singleton
  <2>4. Bytes(A \union {e}) = Bytes(A) + SizeOf(e) /\ Bytes({e}) = SizeOf(e) /\ SizeOf(e) \in Nat
    BY <1>1, <2>2, BytesAdd
  <2>5. /\ Cardinality(AtLevel({e}, x)) \in Nat
        /\ Cardinality(AtLevel(E \union {e}, x)) = Cardinality(A) + Cardinality(AtLevel({e}, x))
    BY <2>1, <2>3
  <2>6. /\ Bytes(AtLevel({e}, x)) \in Nat
        /\ Bytes(AtLevel(E \union {e}, x)) = Bytes(A) + Bytes(AtLevel({e}, x))
    BY <2>1, <2>4
  <2> QED
    BY <1>1, <1>3, <2>5, <2>6 DEF A
<1>5. CASE x \notin LevelsOf(e.scope)
  <2>1. AtLevel({e}, x) = {} /\ AtLevel(E \union {e}, x) = A
    BY <1>5 DEF AtLevel
  <2>2. Cardinality({}) = 0 /\ Bytes({}) = 0
    BY FS_EmptySet, BytesRecursion
  <2> HIDE DEF A
  <2> QED
    BY <1>1, <1>3, <2>1, <2>2 DEF A
<1> QED
  BY <1>4, <1>5

(* The accounts after StoreArrow: the new entry is counted, and those that went
   are not. *)
LEMMA AccountsStored ==
  ASSUME CacheInv, NEW e \in Entries, e \notin Listed(lru),
         NEW D \in SUBSET (Listed(lru) \union {e}), Listed(lru') = D,
         usage' = Counted(Counted(usage, {e}, 1), (Listed(lru) \union {e}) \ D, -1),
         Fits(D, e.scope, RuntimeLimit), Fits(D, WorkspaceOfScope[e.scope], WorkspaceLimit),
         Fits(D, "node", NodeLimit)
  PROVE  UsageCounted' /\ LevelsFit'
<1> DEFINE L == Listed(lru)
           T == L \union {e}
           G == T \ D
           u == Counted(usage, {e}, 1)
<1>1. L \in SUBSET Entries /\ IsFiniteSet(L)
  BY EntryFacts
<1>2. e.scope \in CacheScopes
  BY DEF Entries
<1>3. ASSUME NEW x \in Levels
      PROVE  usage'[x] = [entries |-> Cardinality(AtLevel(D, x)), bytes |-> Bytes(AtLevel(D, x))]
  <2> DEFINE A == AtLevel(T, x)
             B == AtLevel(G, x)
  <2>1. /\ A \in SUBSET Entries /\ IsFiniteSet(A)
        /\ Cardinality(AtLevel(L, x)) \in Nat /\ Cardinality(AtLevel({e}, x)) \in Nat
        /\ Bytes(AtLevel(L, x)) \in Nat /\ Bytes(AtLevel({e}, x)) \in Nat
        /\ Cardinality(A) = Cardinality(AtLevel(L, x)) + Cardinality(AtLevel({e}, x))
        /\ Bytes(A) = Bytes(AtLevel(L, x)) + Bytes(AtLevel({e}, x))
    BY <1>1, LevelAdds
  <2>2. B \in SUBSET A /\ AtLevel(D, x) = A \ B
    BY DEF AtLevel
  <2>3. usage[x].entries = Cardinality(AtLevel(L, x)) /\ usage[x].bytes = Bytes(AtLevel(L, x))
    BY UsageFacts
  <2>4. u[x] = [entries |-> usage[x].entries + 1 * Cardinality(AtLevel({e}, x)),
                bytes |-> usage[x].bytes + 1 * Bytes(AtLevel({e}, x))]
    BY DEF Counted
  <2>5. usage'[x] = [entries |-> u[x].entries + (-1) * Cardinality(B),
                     bytes |-> u[x].bytes + (-1) * Bytes(B)]
    <3> HIDE DEF u
    <3>1. usage' = Counted(u, G, -1)
      BY DEF u
    <3> QED
      BY <3>1 DEF Counted
  <2> HIDE DEF A, B, u, L, T, G
  <2>6. u[x].entries = Cardinality(A) /\ u[x].bytes = Bytes(A)
    BY <2>1, <2>3, <2>4
  <2>7. /\ Cardinality(A) \in Nat /\ Cardinality(B) \in Nat
        /\ Cardinality(A \ B) = Cardinality(A) - Cardinality(B)
    BY <2>1, <2>2, CardinalitySplit
  <2>8. Bytes(A) \in Nat /\ Bytes(B) \in Nat /\ Bytes(A \ B) = Bytes(A) - Bytes(B)
    BY <2>1, <2>2, BytesSplit
  <2>9. Cardinality(A) + (-1) * Cardinality(B) = Cardinality(A \ B)
    BY <2>7
  <2>10. Bytes(A) + (-1) * Bytes(B) = Bytes(A \ B)
    BY <2>8
  <2> QED
    BY <2>2, <2>5, <2>6, <2>9, <2>10
<1>4. ASSUME NEW x \in Levels PROVE Fits(D, x, LimitOf(x))
  <2>1. CASE x = "node"
    BY <2>1 DEF LimitOf
  <2>2. CASE x # "node" /\ x = e.scope
    BY <1>2, <2>2 DEF LimitOf
  <2>3. CASE x # "node" /\ x = WorkspaceOfScope[e.scope]
    <3>1. x \in CacheWorkspaces /\ x \notin CacheScopes
      BY <1>2, <2>3, CacheAssumption
    <3> QED
      BY <2>3, <3>1 DEF LimitOf
  <2>4. CASE x \notin LevelsOf(e.scope)
    <3>1. D \ {e} \in SUBSET L /\ AtLevel(D, x) = AtLevel(D \ {e}, x)
      BY <2>4 DEF AtLevel
    <3>2. Fits(L, x, LimitOf(x))
      BY UsageFacts
    <3> HIDE DEF L
    <3>3. Fits(D \ {e}, x, LimitOf(x))
      BY <1>1, <3>1, <3>2, LimitOfType, FewerFit
    <3> QED
      BY <3>1, <3>3 DEF Fits
  <2> QED
    BY <2>1, <2>2, <2>3, <2>4 DEF LevelsOf
<1>5. usage' = [x \in Levels |-> usage'[x]]
  BY DEF Counted
<1>6. UsageCounted' <=> usage' = [x \in Levels |-> [entries |-> Cardinality(AtLevel(Listed(lru'), x)),
                                                   bytes |-> Bytes(AtLevel(Listed(lru'), x))]]
  BY DEF UsageCounted, Listed
<1>7. LevelsFit' <=> \A x \in Levels : Fits(Listed(lru'), x, LimitOf(x))
  BY DEF LevelsFit, Listed
<1> QED
  BY <1>3, <1>4, <1>5, <1>6, <1>7

(* D is E with e, without G. *)
EntryReplaced(E, e, G, D) ==
  IsFiniteSet(E) /\ e \notin E /\ G \in SUBSET (E \union {e}) /\ D = (E \union {e}) \ G

(* How many of the entries have a result, after one is added and others go. *)
LEMMA AddedAndGone ==
  ASSUME NEW E, IsFiniteSet(E), NEW e, e \notin E, NEW G \in SUBSET (E \union {e}), NEW r
  PROVE  /\ HoldsIn(E, r) \in Nat /\ HoldsIn(G, r) \in Nat /\ HoldsIn((E \union {e}) \ G, r) \in Nat
         /\ HoldsIn((E \union {e}) \ G, r)
              = HoldsIn(E, r) + (IF e.result = r THEN 1 ELSE 0) - HoldsIn(G, r)
<1>1. IsFiniteSet(E \union {e})
  BY FS_AddElement
<1>2. /\ HoldsIn(E, r) \in Nat /\ HoldsIn(E \union {e}, r) \in Nat
      /\ HoldsIn(E \union {e}, r) = HoldsIn(E, r) + (IF e.result = r THEN 1 ELSE 0)
  BY HoldsAdd
<1> DEFINE T == E \union {e}
<1> HIDE DEF T
<1>3. /\ HoldsIn(G, r) \in Nat /\ HoldsIn(T \ G, r) \in Nat
      /\ HoldsIn(T \ G, r) = HoldsIn(T, r) - HoldsIn(G, r)
  <2>1. IsFiniteSet(T) /\ G \in SUBSET T
    BY <1>1 DEF T
  <2> QED
    BY <2>1, HoldsSplit
<1> QED
  BY <1>2, <1>3 DEF T

LEMMA ReplacedHolds ==
  ASSUME NEW E, NEW e, NEW G, NEW D, EntryReplaced(E, e, G, D), NEW r
  PROVE  /\ HoldsIn(E, r) \in Nat /\ HoldsIn(G, r) \in Nat /\ HoldsIn(D, r) \in Nat
         /\ HoldsIn(D, r) = HoldsIn(E, r) + (IF e.result = r THEN 1 ELSE 0) - HoldsIn(G, r)
<1>1. IsFiniteSet(E) /\ e \notin E /\ G \in SUBSET (E \union {e})
  BY DEF EntryReplaced
<1>2. D = (E \union {e}) \ G
  BY DEF EntryReplaced
<1> QED
  BY <1>1, <1>2, AddedAndGone

(* StoreArrow of a result: the list, the accounts and the references. *)
Stores(f, new, pushed, gone) ==
  /\ flight[f].step = "store" /\ Storable(f)
  /\ new = [scope |-> flight[f].scope, key |-> flight[f].key, result |-> flight[f].value]
  /\ pushed = <<new>> \o Without(ReplacedEntry(new))
  /\ gone = (Cached \union {new}) \ Cached'
  /\ flight' = [flight EXCEPT ![f].step = "finish"]
  /\ lru' = Enforced(pushed, flight[f].scope)
  /\ usage' = Counted(Counted(usage, {new}, 1), gone, -1)
  /\ result' = Returned([r \in ResultIds |-> HoldsIn(gone, r) - One(new.result)[r]])
  /\ UNCHANGED <<scope, data, cleared, closed, query>>

LEMMA StoreAddsKeeps ==
  ASSUME CacheInv, NEW f \in FlightIds, NEW new, NEW pushed, NEW gone, Stores(f, new, pushed, gone)
  PROVE  CacheInv'
<1> DEFINE s == flight[f].scope
           v == flight[f].value
           L == Listed(lru)
           D == Listed(lru')
           T == L \union {new}
<1>0. /\ flight[f].step = "store" /\ Storable(f)
      /\ new = [scope |-> flight[f].scope, key |-> flight[f].key, result |-> flight[f].value]
      /\ pushed = <<new>> \o Without(ReplacedEntry(new))
      /\ gone = (Cached \union {new}) \ Cached'
      /\ flight' = [flight EXCEPT ![f].step = "finish"]
      /\ lru' = Enforced(pushed, flight[f].scope)
      /\ usage' = Counted(Counted(usage, {new}, 1), gone, -1)
      /\ result' = Returned([r \in ResultIds |-> HoldsIn(gone, r) - One(new.result)[r]])
      /\ UNCHANGED <<scope, data, cleared, closed, query>>
  BY DEF Stores
<1>1. /\ flight[f] \in ExecutionRows /\ s \in CacheScopes /\ flight[f].key \in Keys
      /\ flight \in [FlightIds -> ExecutionRows]
  BY <1>0, ExecutionFacts DEF ExecutionOK
<1>2. /\ v \in ResultIds /\ \A e \in L : e.result # v
      /\ \A g \in FlightIds \ {f} : flight[g].value # v
  BY <1>0, SoleHolder
<1>3. /\ new \in Entries /\ new.scope = s /\ new.key = flight[f].key /\ new.result = v
      /\ new \notin L
  BY <1>0, <1>1, <1>2 DEF Entries
<1>4. /\ lru \in Seq(Entries) /\ L \in SUBSET Entries /\ IsFiniteSet(L) /\ KeysOnce(lru)
      /\ Cached = L
  BY EntryFacts
<1>5. pushed \in Seq(Entries) /\ Listed(pushed) = {new} \union (L \ ReplacedEntry(new)) /\ KeysOnce(pushed)
  <2>1. \A o \in Listed(lru) \ ReplacedEntry(new) : ~(o.scope = new.scope /\ o.key = new.key)
    BY <1>4 DEF ReplacedEntry
  <2>2. pushed = <<new>> \o Remaining(lru, ReplacedEntry(new))
    BY <1>0 DEF Without
  <2> DEFINE p == <<new>> \o Remaining(lru, ReplacedEntry(new))
  <2>3. p \in Seq(Entries) /\ Listed(p) = {new} \union (Listed(lru) \ ReplacedEntry(new)) /\ KeysOnce(p)
    BY <1>3, <1>4, <2>1, PushedFacts, SMTT(60)
  <2>4. pushed = p
    BY <2>2
  <2> HIDE DEF p
  <2> QED
    BY <2>3, <2>4
<1>6. /\ lru' \in Seq(Entries) /\ D \subseteq Listed(pushed) /\ KeysOnce(lru')
      /\ Fits(D, s, RuntimeLimit) /\ Fits(D, WorkspaceOfScope[s], WorkspaceLimit)
      /\ Fits(D, "node", NodeLimit)
  <2> DEFINE p == Enforced(pushed, s)
  <2>1. /\ p \in Seq(Entries) /\ Listed(p) \subseteq Listed(pushed) /\ KeysOnce(p)
        /\ Fits(Listed(p), s, RuntimeLimit) /\ Fits(Listed(p), WorkspaceOfScope[s], WorkspaceLimit)
        /\ Fits(Listed(p), "node", NodeLimit)
    BY <1>1, <1>5, EnforcedFacts
  <2>2. lru' = p
    BY <1>0
  <2> HIDE DEF p
  <2> QED
    BY <2>1, <2>2
<1>7. D \in SUBSET T
  BY <1>5, <1>6
<1>8. gone = T \ D
  BY <1>0, <1>4 DEF Cached, Listed
<1>9. UsageCounted' /\ LevelsFit'
  BY <1>0, <1>3, <1>6, <1>7, <1>8, AccountsStored
<1>10. IsFiniteSet(T) /\ gone \in SUBSET T /\ D = T \ gone
  BY <1>4, <1>7, <1>8, FS_AddElement, ZenonT(60)
<1> DEFINE n == [r \in ResultIds |-> HoldsIn(gone, r) - One(new.result)[r]]
<1>11. ASSUME NEW r \in ResultIds
       PROVE  /\ n[r] = HoldsIn(gone, r) - (IF v = r THEN 1 ELSE 0)
              /\ HoldsIn(gone, r) \in Nat
              /\ result[r].refs - n[r] = HoldsIn(D, r) + Cardinality(ValueHolders(r))
                                         + Cardinality(ResultHolders(r))
              /\ result[r].refs - n[r] \in Nat /\ n[r] \in Int
  <2>1. n[r] = HoldsIn(gone, r) - (IF v = r THEN 1 ELSE 0)
    BY <1>3 DEF One
  <2> HIDE DEF n
  <2>2. /\ HoldsIn(L, r) \in Nat /\ HoldsIn(gone, r) \in Nat /\ HoldsIn(D, r) \in Nat
        /\ HoldsIn(D, r) = HoldsIn(L, r) + (IF v = r THEN 1 ELSE 0) - HoldsIn(gone, r)
    <3>1. new.result = v
      BY <1>3
    <3>2. EntryReplaced(L, new, gone, D)
      BY <1>3, <1>4, <1>10 DEF EntryReplaced
    <3> HIDE DEF L, D, v
    <3>3. /\ HoldsIn(L, r) \in Nat /\ HoldsIn(gone, r) \in Nat /\ HoldsIn(D, r) \in Nat
          /\ HoldsIn(D, r) = HoldsIn(L, r) + (IF new.result = r THEN 1 ELSE 0) - HoldsIn(gone, r)
      BY <3>2, ReplacedHolds
    <3> QED
      BY <3>1, <3>3
  <2>3. /\ Cardinality(ValueHolders(r)) \in Nat /\ Cardinality(ResultHolders(r)) \in Nat
        /\ result[r].refs = HoldsIn(L, r) + Cardinality(ValueHolders(r)) + Cardinality(ResultHolders(r))
    BY PinFacts
  <2> HIDE DEF L, T, D, v
  <2>4. CASE v = r
    <3>1. n[r] = HoldsIn(gone, r) - 1 /\ HoldsIn(D, r) = HoldsIn(L, r) + 1 - HoldsIn(gone, r)
      BY <2>1, <2>2, <2>4
    <3>2. result[r].refs - n[r] = HoldsIn(D, r) + Cardinality(ValueHolders(r)) + Cardinality(ResultHolders(r))
      BY <2>2, <2>3, <3>1
    <3>3. result[r].refs - n[r] \in Nat /\ n[r] \in Int
      BY <2>2, <2>3, <3>1, <3>2, SMTT(60)
    <3> QED
      BY <2>1, <2>2, <3>2, <3>3
  <2>5. CASE v # r
    <3>1. n[r] = HoldsIn(gone, r) - 0 /\ HoldsIn(D, r) = HoldsIn(L, r) + 0 - HoldsIn(gone, r)
      BY <2>1, <2>2, <2>5
    <3> QED
      BY <2>1, <2>2, <2>3, <2>5, <3>1
  <2> QED
    BY <2>4, <2>5
<1>12. /\ result' \in [ResultIds -> ResultRows]
       /\ \A r \in ResultIds : result'[r].refs = result[r].refs - n[r]
  <2>1. result \in [ResultIds -> ResultRows]
    BY DEF CacheInv, CacheRows
  <2>2. result' = Returned(n)
    BY <1>0
  <2>3. \A r \in ResultIds : result[r].refs - n[r] \in Nat /\ n[r] \in Int
    BY <1>11
  <2> HIDE DEF n
  <2> QED
    BY <2>1, <2>2, <2>3, GivenBack
<1> DEFINE row == [flight[f] EXCEPT !.step = "finish"]
<1>13. /\ row \in ExecutionRows /\ row.step = "finish" /\ row.value = v
       /\ row.waiters = flight[f].waiters /\ row.scope = s /\ row.key = flight[f].key
  BY <1>1 DEF ExecutionRows
<1>14. /\ flight'[f] = row /\ (\A g \in FlightIds \ {f} : flight'[g] = flight[g])
       /\ flight' \in [FlightIds -> ExecutionRows]
  BY <1>0, <1>1, <1>13
<1> HIDE DEF row, n
<1>15. HoldersAreFinite' /\ Pinned'
  <2>1. ASSUME NEW r \in ResultIds
        PROVE  /\ IsFiniteSet(ValueHolders(r)') /\ IsFiniteSet(ResultHolders(r)')
               /\ result'[r].refs = HoldsIn(Listed(lru'), r) + Cardinality(ValueHolders(r)')
                                    + Cardinality(ResultHolders(r)')
    <3>1. \A g \in FlightIds : flight'[g].value = flight[g].value
      BY <1>13, <1>14
    <3>2. ValueHolders(r)' = ValueHolders(r) /\ ResultHolders(r)' = ResultHolders(r)
      BY <1>0, <3>1, ValuesKept, LeasesKept
    <3>3. IsFiniteSet(ValueHolders(r)) /\ IsFiniteSet(ResultHolders(r))
      BY PinFacts
    <3> QED
      BY <1>11, <1>12, <3>2, <3>3, ZenonT(60)
  <2> QED
    BY <2>1, PinnedAfter
<1>16. \A q \in Queries : QueryOK(q)'
  BY <1>0, QueryKept, QueryFacts
<1>17. ExecutionOK(f)'
  BY <1>0, <1>1, <1>13, <1>14, SMTT(60) DEF ExecutionOK
<1>18. ASSUME NEW g \in FlightIds \ {f} PROVE ExecutionOK(g)'
  <2>1. flight[g].step = "store" => result'[flight[g].value].refs = result[flight[g].value].refs
    <3>1. SUFFICES ASSUME flight[g].step = "store"
                   PROVE  result'[flight[g].value].refs = result[flight[g].value].refs
      BY Zenon
    <3> DEFINE u == flight[g].value
    <3>2. u \in ResultIds /\ u # v /\ \A e \in L : e.result # u
      BY <1>0, <1>2, <3>1, SoleHolder
    <3> HIDE DEF u
    <3>3. \A e \in gone : e.result # u
      BY <1>3, <1>10, <3>2
    <3>4. HoldsIn(gone, u) = 0
      BY <3>3, HoldsNothing
    <3>5. n[u] = 0
      <4>1. n[u] = HoldsIn(gone, u) - (IF v = u THEN 1 ELSE 0)
        BY <1>11, <3>2
      <4>2. n[u] = 0 - 0
        BY <3>2, <3>4, <4>1
      <4> QED
        BY <4>2
    <3>6. result'[u].refs = result[u].refs - 0 /\ result[u].refs \in Nat
      BY <1>12, <3>2, <3>5, PinFacts
    <3>7. result'[u].refs = result[u].refs
      BY <3>6
    <3> QED
      BY <3>7, Zenon DEF u
  <2> QED
    BY <1>0, <1>14, <2>1, ExecutionKept, ExecutionFacts, ZenonT(60)
<1>19. \A g \in FlightIds : ExecutionOK(g)'
  BY <1>17, <1>18
<1>20. WaitersCounted'
  <2>1. \A g \in FlightIds : flight'[g].waiters = flight[g].waiters
    BY <1>13, <1>14
  <2> QED
    BY <1>0, <2>1, WaitersKept DEF CacheInv
<1>21. OpenOnly'
  <2>1. OpenOnly' <=> \A e \in Listed(lru') : scope'[e.scope].open
    BY DEF OpenOnly, Listed
  <2>2. scope[s].open
    BY <1>0 DEF Storable
  <2>3. \A e \in L : scope[e.scope].open
    BY SMTT(60) DEF CacheInv, OpenOnly
  <2> QED
    BY <1>0, <1>3, <1>7, <2>1, <2>2, <2>3
<1>22. KeysOnce(lru)'
  BY <1>6, Zenon DEF KeysOnce
<1>23. CacheRows'
  BY <1>0, <1>6, <1>12, <1>14 DEF CacheInv, CacheRows
<1> QED
  BY <1>9, <1>15, <1>16, <1>19, <1>20, <1>21, <1>22, <1>23 DEF CacheInv

LEMMA StoreKeeps ==
  ASSUME CacheInv, NEW f \in FlightIds, Store(f)
  PROVE  CacheInv'
<1> DEFINE v == flight[f].value
<1>1. flight[f].step = "store" /\ UNCHANGED <<scope, data, cleared, closed, query>>
  BY DEF Store
<1>2. /\ flight[f] \in ExecutionRows /\ v \in ResultIds
      /\ flight[f].scope \in CacheScopes /\ flight[f].key \in Keys
  BY <1>1, ExecutionFacts, SoleHolder DEF ExecutionOK
<1>3. result \in [ResultIds -> ResultRows] /\ flight \in [FlightIds -> ExecutionRows]
  BY DEF CacheInv, CacheRows
<1>4. CASE /\ flight' = [flight EXCEPT ![f].step = "finish", ![f].failed = "cancelled", ![f].value = 0]
           /\ result' = Returned(One(flight[f].value))
           /\ UNCHANGED <<lru, usage>>
  <2> DEFINE row == [flight[f] EXCEPT !.step = "finish", !.failed = "cancelled", !.value = 0]
  <2>1. flight' = [flight EXCEPT ![f] = row]
    BY <1>3, <1>4
  <2>2. /\ row \in ExecutionRows /\ row.waiters = flight[f].waiters /\ row.step = "finish"
        /\ row.value = 0 /\ row.scope \in CacheScopes /\ row.key \in Keys
    BY <1>2 DEF ExecutionRows
  <2> HIDE DEF row
  <2>3. /\ result' \in [ResultIds -> ResultRows]
        /\ \A r \in ResultIds : result'[r].refs = result[r].refs - (IF v = r THEN 1 ELSE 0)
    <3>1. v \in {0, flight[f].value} /\ result' = Returned(One(v))
      BY <1>4
    <3> HIDE DEF v
    <3> QED
      BY <3>1, FlightGivesBack
  <2>4. \A r \in ResultIds : result'[r].refs = result[r].refs - (IF flight[f].value = r THEN 1 ELSE 0)
                                                             + (IF row.value = r THEN 1 ELSE 0)
    <3>1. \A r \in ResultIds : row.value # r
      BY <2>2, ZeroIsNoIdentity
    <3> QED
      BY <2>3, <3>1, PinFacts
  <2>5. \A g \in FlightIds \ {f} : flight[g].step = "store" => flight[g].value # row.value
    BY <2>2, StoredByOthers
  <2>6. lru' \in Seq(Entries) /\ Listed(lru') = Listed(lru) /\ KeysOnce(lru)'
    BY <1>4, ListKept
  <2>7. usage' = usage
    BY <1>4
  <2> QED
    BY <1>1, <2>1, <2>2, <2>3, <2>4, <2>5, <2>6, <2>7, ExecutionMoves
<1>5. CASE flight' = [flight EXCEPT ![f].step = "finish"] /\ UNCHANGED <<lru, usage, result>>
  <2> DEFINE row == [flight[f] EXCEPT !.step = "finish"]
  <2>1. flight' = [flight EXCEPT ![f] = row]
    BY <1>3, <1>5
  <2>2. /\ row \in ExecutionRows /\ row.waiters = flight[f].waiters /\ row.step = "finish"
        /\ row.value = v /\ row.scope \in CacheScopes /\ row.key \in Keys
    BY <1>2 DEF ExecutionRows
  <2> HIDE DEF row
  <2>3. \A r \in ResultIds : result'[r].refs = result[r].refs - (IF flight[f].value = r THEN 1 ELSE 0)
                                                             + (IF row.value = r THEN 1 ELSE 0)
    BY <1>5, <2>2, PinFacts
  <2>4. \A g \in FlightIds \ {f} : flight[g].step = "store" => flight[g].value # row.value
    BY <2>2, StoredByOthers
  <2>5. lru' \in Seq(Entries) /\ Listed(lru') = Listed(lru) /\ KeysOnce(lru)'
    BY <1>5, ListKept
  <2>6. result' \in [ResultIds -> ResultRows] /\ usage' = usage
    BY <1>3, <1>5
  <2> QED
    BY <1>1, <2>1, <2>2, <2>3, <2>4, <2>5, <2>6, ExecutionMoves
<1> DEFINE new == [scope |-> flight[f].scope, key |-> flight[f].key, result |-> flight[f].value]
           pushed == <<new>> \o Without(ReplacedEntry(new))
           gone == (Cached \union {new}) \ Cached'
<1>6. CASE Stores(f, new, pushed, gone)
  <2>1. PICK n, p, g : Stores(f, n, p, g)
    BY <1>6
  <2> QED
    BY <2>1, StoreAddsKeeps
<1> QED
  BY <1>4, <1>5, <1>6 DEF Store, Stores

-----------------------------------------------------------------------------
(* The theorems                                                            *)

LEMMA CacheInitInv ==
  ASSUME CacheInit
  PROVE  CacheInv
<1>1. lru = <<>> /\ Listed(lru) = {}
  BY DEF CacheInit, Listed
<1>2. CacheRows
  <2>1. Freed \in ResultRows /\ [open |-> FALSE, generation |-> 0, opened |-> 0] \in ScopeRows
    BY DEF Freed, ResultRows, ScopeRows
  <2>2. lru \in Seq(Entries)
    BY <1>1
  <2> QED
    BY <2>1, <2>2, IdleRow, EmptyExecution DEF CacheInit, CacheRows
<1>3. \A q \in Queries : QueryOK(q)
  BY DEF CacheInit, QueryOK, IdleQuery
<1>4. \A f \in FlightIds : ExecutionOK(f)
  BY DEF CacheInit, ExecutionOK, NoArrowFlight
<1>5. \A r \in ResultIds : ValueHolders(r) = {} /\ ResultHolders(r) = {} /\ HoldsIn(Listed(lru), r) = 0
                           /\ result[r].refs = 0
  <2>1. ASSUME NEW r \in ResultIds PROVE ValueHolders(r) = {} /\ ResultHolders(r) = {}
    BY ZeroIsNoIdentity, IdleRow, EmptyExecution DEF CacheInit, ValueHolders, ResultHolders
  <2>2. ASSUME NEW r \in ResultIds PROVE HoldsIn(Listed(lru), r) = 0
    BY <1>1, HoldsNothing
  <2>3. \A r \in ResultIds : result[r].refs = 0
    BY DEF CacheInit, Freed
  <2> QED
    BY <2>1, <2>2, <2>3
<1>6. IsFiniteSet({}) /\ Cardinality({}) = 0
  BY FS_EmptySet
<1>7. HoldersAreFinite
  BY <1>5, <1>6 DEF HoldersAreFinite
<1>8. Pinned
  <2>1. 0 = 0 + 0 + 0
    OBVIOUS
  <2> QED
    BY <1>5, <1>6, <2>1 DEF Pinned
<1>9. WaitersCounted
  <2>1. ASSUME NEW f \in FlightIds PROVE WaitersOf(f) = {} /\ flight[f].waiters = 0
    BY ZeroIsNoIdentity, IdleRow, EmptyExecution DEF CacheInit, WaitersOf
  <2> QED
    BY <1>6, <2>1 DEF WaitersCounted
<1>10. UsageCounted /\ LevelsFit
  <2>1. \A x : AtLevel({}, x) = {}
    BY DEF AtLevel
  <2>2. Bytes({}) = 0
    BY FS_EmptySet, BytesRecursion
  <2>3. UsageCounted
    BY <1>1, <1>6, <2>1, <2>2 DEF CacheInit, UsageCounted
  <2>4. ASSUME NEW x \in Levels PROVE Fits({}, x, LimitOf(x))
    <3>1. LimitOf(x).entries \in Nat /\ LimitOf(x).bytes \in Nat
      BY LimitOfType
    <3>2. 0 <= LimitOf(x).entries /\ 0 <= LimitOf(x).bytes
      BY <3>1
    <3> QED
      BY <1>6, <2>1, <2>2, <3>2 DEF Fits
  <2> QED
    BY <1>1, <2>3, <2>4 DEF LevelsFit
<1>11. KeysOnce(lru) /\ OpenOnly
  BY <1>1 DEF KeysOnce, OpenOnly
<1> QED
  BY <1>2, <1>3, <1>4, <1>7, <1>8, <1>9, <1>10, <1>11 DEF CacheInv

LEMMA CacheNextInv ==
  ASSUME CacheInv, [CacheNext]_cacheVars
  PROVE  CacheInv'
<1>1. ASSUME NEW s \in CacheScopes, OpenScope(s) PROVE CacheInv'
  BY <1>1, OpenScopeKeeps
<1>2. ASSUME NEW s \in CacheScopes, RefreshData(s) PROVE CacheInv'
  BY <1>2, RefreshDataKeeps
<1>3. ASSUME NEW s \in CacheScopes, Invalidate(s) PROVE CacheInv'
  BY <1>3, InvalidateKeeps
<1>4. ASSUME NEW s \in CacheScopes, CloseScope(s) PROVE CacheInv'
  BY <1>4, CloseScopeKeeps
<1>5. CASE ClosePool
  BY <1>5, ClosePoolKeeps
<1>6. ASSUME NEW q \in Queries, QueryStep(q) PROVE CacheInv'
  BY <1>6, LookupKeeps, JoinKeeps, FlightDoneKeeps DEF QueryStep
<1>7. ASSUME NEW q \in Queries, CancelQuery(q) \/ ReleaseLease(q) PROVE CacheInv'
  BY <1>7, CancelQueryKeeps, ReleaseLeaseKeeps
<1>8. ASSUME NEW q \in Queries, NEW s \in CacheScopes, NEW k \in Keys, BeginQuery(q, s, k) PROVE CacheInv'
  BY <1>8, BeginQueryKeeps
<1>9. ASSUME NEW f \in FlightIds, CacheFlightStep(f) PROVE CacheInv'
  BY <1>9, RunKeeps, StoreKeeps, FinishFlightKept DEF CacheFlightStep
<1>10. CASE UNCHANGED cacheVars
  <2>1. UNCHANGED <<scope, data, cleared, closed, lru, usage, result, flight, query>>
    BY <1>10 DEF cacheVars
  <2>2. (\A q \in Queries : QueryOK(q)') /\ (\A f \in FlightIds : ExecutionOK(f)')
    BY <2>1, QueryKept, ExecutionKept, QueryFacts, ExecutionFacts
  <2>3. WaitersCounted'
    BY <2>1, WaitersKept DEF CacheInv
  <2>4. \A r \in ResultIds : ValueHolders(r)' = ValueHolders(r) /\ ResultHolders(r)' = ResultHolders(r)
    BY <2>1, ValuesKept, LeasesKept
  <2>5. lru' \in Seq(Entries) /\ Listed(lru') = Listed(lru) /\ KeysOnce(lru)'
    BY <2>1, ListKept
  <2>6. /\ result' \in [ResultIds -> ResultRows] /\ flight' \in [FlightIds -> ExecutionRows]
        /\ query' \in [Queries -> QueryRows]
    BY <2>1 DEF CacheInv, CacheRows
  <2> QED
    BY <2>1, <2>2, <2>3, <2>4, <2>5, <2>6, PinFacts, StepKeeps
<1> QED
  BY <1>1, <1>2, <1>3, <1>4, <1>5, <1>6, <1>7, <1>8, <1>9, <1>10 DEF CacheNext

(* The references, the accounts and the list agree in every reachable state. *)
THEOREM CacheInvariance == CacheSpec => []CacheInv
BY CacheInitInv, CacheNextInv, PTL DEF CacheSpec

(* A result has exactly the references its holders count for
   (arrowresult/result.go: Acquire, releaseRef and their callers). *)
THEOREM ResultsStayPinned == CacheSpec => []ResultsPinned
<1>1. CacheInv => ResultsPinned
  BY PinnedIsResultsPinned DEF CacheInv
<1> QED
  BY <1>1, CacheInvariance, PTL

(* What the invariant says of the types, counters, limits and keys. *)
LEMMA CacheInvConsistent ==
  ASSUME CacheInv
  PROVE  CacheConsistent
<1>1. ASSUME NEW x \in Levels
      PROVE  /\ Cardinality(AtLevel(Cached, x)) \in Nat /\ Bytes(AtLevel(Cached, x)) \in Nat
             /\ usage[x] = [entries |-> Cardinality(AtLevel(Cached, x)), bytes |-> Bytes(AtLevel(Cached, x))]
             /\ usage[x].entries <= LimitOf(x).entries /\ usage[x].bytes <= LimitOf(x).bytes
  <2>1. Listed(lru) \in SUBSET Entries /\ IsFiniteSet(Listed(lru)) /\ Cached = Listed(lru)
    BY EntryFacts
  <2>2. Cardinality(AtLevel(Listed(lru), x)) \in Nat /\ Bytes(AtLevel(Listed(lru), x)) \in Nat
    BY <2>1, LevelFacts
  <2>3. /\ usage[x] = [entries |-> Cardinality(AtLevel(Listed(lru), x)),
                       bytes |-> Bytes(AtLevel(Listed(lru), x))]
        /\ Fits(Listed(lru), x, LimitOf(x))
    BY DEF CacheInv, UsageCounted, LevelsFit
  <2>4. /\ usage[x].entries = Cardinality(AtLevel(Listed(lru), x))
        /\ usage[x].bytes = Bytes(AtLevel(Listed(lru), x))
    BY <2>3
  <2> QED
    BY <2>1, <2>2, <2>3, <2>4 DEF Fits
<1>2. usage \in [Levels -> [entries : Nat, bytes : Nat]]
  <2>1. usage = [x \in Levels |-> usage[x]]
    BY DEF CacheInv, UsageCounted
  <2> QED
    BY <1>1, <2>1
<1>3. CacheTypeOK
  BY <1>2 DEF CacheInv, CacheRows, CacheTypeOK, ScopeRows, ResultRows, ExecutionRows, QueryRows
<1>4. CacheAccountsBalance
  <2>1. \A i, j \in DOMAIN lru : lru[i].scope = lru[j].scope /\ lru[i].key = lru[j].key => i = j
    BY EntryFacts DEF KeysOnce
  <2>2. \A e \in Cached : scope[e.scope].open
    BY CachedIsListed DEF CacheInv, OpenOnly
  <2> QED
    BY <1>1, <2>1, <2>2 DEF CacheAccountsBalance, LimitOf
<1>5. FlightWaitersCounted
  BY DEF CacheInv, WaitersCounted, WaitersOf, FlightWaitersCounted
<1> QED
  BY <1>3, <1>4, <1>5 DEF CacheConsistent

(* The types, the counters, limits and keys of the list (resultcache/pool.go:
   StoreArrow, enforceLocked, removeLocked), and the waiters of a flight. *)
THEOREM CacheStaysConsistent == CacheSpec => []CacheConsistent
<1>1. CacheInv => CacheConsistent
  BY CacheInvConsistent
<1> QED
  BY <1>1, CacheInvariance, PTL

-----------------------------------------------------------------------------
(* No stale results                                                        *)

(* What is held has references, and rows in use have their fields. *)
Held ==
  /\ \A q \in Queries :
       /\ query[q].phase = "leased" => /\ query[q].lease \in ResultIds
                                       /\ result[query[q].lease].refs # 0
       /\ query[q].phase = "wait" => /\ query[q].flight \in FlightIds
                                     /\ flight[query[q].flight].step # "none"
       /\ query[q].phase # "idle" => query[q].scope \in CacheScopes
       /\ query[q].token \in Nat /\ query[q].since \in Nat
  /\ \A f \in FlightIds :
       /\ flight[f].value # 0 => flight[f].value \in ResultIds /\ result[flight[f].value].refs # 0
       /\ flight[f].step # "none" => flight[f].scope \in CacheScopes
       /\ flight[f].token \in Nat
  /\ \A e \in Listed(lru) :
       e.result \in ResultIds /\ e.scope \in CacheScopes /\ result[e.result].refs # 0
  /\ \A r \in ResultIds : result[r].refs \in Nat /\ result[r].version \in Nat
  /\ \A s \in CacheScopes :
       /\ scope[s].generation \in Nat /\ scope[s].opened \in Nat
       /\ scope[s].open \in BOOLEAN /\ data[s] \in Nat /\ cleared[s] \in Nat

LEMMA CacheHolds == CacheInv => Held
<1> SUFFICES ASSUME CacheInv PROVE Held
  OBVIOUS
<1>1. ASSUME NEW q \in Queries, query[q].phase = "leased"
      PROVE  query[q].lease \in ResultIds /\ result[query[q].lease].refs # 0
  <2> DEFINE r == query[q].lease
  <2>1. r \in ResultIds
    BY <1>1, QueryFacts DEF QueryOK
  <2>2. q \in ResultHolders(r)
    BY DEF ResultHolders
  <2> HIDE DEF r
  <2>3. Cardinality(ResultHolders(r)) # 0
    BY <2>1, <2>2, PinFacts, FS_EmptySet
  <2>4. result[r].refs # 0
    BY <2>1, <2>3, PinFacts
  <2> QED
    BY <2>1, <2>4 DEF r
<1>2. ASSUME NEW q \in Queries, query[q].phase = "wait"
      PROVE  query[q].flight \in FlightIds /\ flight[query[q].flight].step # "none"
  <2> DEFINE f == query[q].flight
  <2>1. f \in FlightIds
    BY <1>2, QueryFacts DEF QueryOK
  <2>2. q \in WaitersOf(f)
    BY DEF WaitersOf
  <2> HIDE DEF f
  <2>3. IsFiniteSet(WaitersOf(f)) /\ flight[f].waiters = Cardinality(WaitersOf(f))
    BY <2>1 DEF CacheInv, WaitersCounted
  <2>4. flight[f].waiters # 0
    BY <2>2, <2>3, FS_EmptySet
  <2>5. flight[f].step # "none"
    BY <2>1, <2>4, ExecutionFacts, EmptyExecution DEF ExecutionOK
  <2> QED
    BY <2>1, <2>5 DEF f
<1>3. ASSUME NEW f \in FlightIds, flight[f].value # 0
      PROVE  flight[f].value \in ResultIds /\ result[flight[f].value].refs # 0
  <2> DEFINE r == flight[f].value
  <2>1. r \in ResultIds
    BY <1>3, ExecutionFacts
  <2>2. f \in ValueHolders(r)
    BY DEF ValueHolders
  <2> HIDE DEF r
  <2>3. Cardinality(ValueHolders(r)) # 0
    BY <2>1, <2>2, PinFacts, FS_EmptySet
  <2>4. result[r].refs # 0
    BY <2>1, <2>3, PinFacts
  <2> QED
    BY <2>1, <2>4 DEF r
<1>4. ASSUME NEW e \in Listed(lru)
      PROVE  e.result \in ResultIds /\ e.scope \in CacheScopes /\ result[e.result].refs # 0
  <2> DEFINE r == e.result
             H == {d \in Listed(lru) : d.result = r}
  <2>1. r \in ResultIds /\ e.scope \in CacheScopes /\ IsFiniteSet(H) /\ e \in H
    BY EntryFacts, FS_Subset
  <2> HIDE DEF r
  <2>2. HoldsIn(Listed(lru), r) # 0
    BY <2>1, FS_EmptySet DEF HoldsIn
  <2>3. result[r].refs # 0
    BY <2>1, <2>2, PinFacts
  <2> QED
    BY <2>1, <2>3 DEF r
<1>5. \A q \in Queries : /\ query[q].phase # "idle" => query[q].scope \in CacheScopes
                         /\ query[q].token \in Nat /\ query[q].since \in Nat
  BY QueryFacts DEF QueryOK
<1>6. \A f \in FlightIds : /\ flight[f].step # "none" => flight[f].scope \in CacheScopes
                           /\ flight[f].token \in Nat
  BY ExecutionFacts DEF ExecutionOK
<1>7. \A r \in ResultIds : result[r].refs \in Nat /\ result[r].version \in Nat
  BY PinFacts
<1>8. \A s \in CacheScopes :
       /\ scope[s].generation \in Nat /\ scope[s].opened \in Nat
       /\ scope[s].open \in BOOLEAN /\ data[s] \in Nat /\ cleared[s] \in Nat
  BY ScopeTypes
<1> QED
  BY <1>1, <1>2, <1>3, <1>4, <1>5, <1>6, <1>7, <1>8 DEF Held

LEMMA CacheHoldsNext == CacheInv' => Held'
BY CacheHolds, PTL

(* A scope that takes entries, or that was never opened. *)
Usable(s) == scope[s].open \/ scope[s].opened = 0

(* A scope is opened at most once, and its tables are never older than its
   last invalidation. *)
FreshScope(s) ==
  /\ scope[s].opened <= 1 /\ cleared[s] <= data[s]
  /\ scope[s].opened = 0 => ~scope[s].open /\ scope[s].generation = 0 /\ data[s] = cleared[s]

(* A query that may still take the value of a flight. *)
Serves(q) ==
  \/ query[q].phase \in {"join", "wait"}
  \/ query[q].phase = "lookup" /\ Usable(query[q].scope)

(* A query that read the current generation began after the last invalidation. *)
FreshQuery(q) ==
  /\ query[q].phase \in {"join", "wait"} => scope[query[q].scope].opened = 1
  /\ query[q].phase \in {"lookup", "join", "wait"} /\ Usable(query[q].scope) =>
     /\ query[q].token <= scope[query[q].scope].generation
     /\ query[q].since <= cleared[query[q].scope]
     /\ query[q].token = scope[query[q].scope].generation => query[q].since = cleared[query[q].scope]
  /\ query[q].phase = "wait" =>
     /\ flight[query[q].flight].scope = query[q].scope
     /\ flight[query[q].flight].token = query[q].token

(* The value of a flight is as new as the invalidation its generation counts
   from, and as every query it may serve. *)
FreshFlight(f) ==
  flight[f].step # "none" =>
  /\ scope[flight[f].scope].opened = 1
  /\ scope[flight[f].scope].open => flight[f].token <= scope[flight[f].scope].generation
  /\ flight[f].value # 0 =>
     /\ scope[flight[f].scope].open /\ flight[f].token = scope[flight[f].scope].generation
          => cleared[flight[f].scope] <= result[flight[f].value].version
     /\ \A q \in Queries :
          Serves(q) /\ query[q].scope = flight[f].scope /\ query[q].token = flight[f].token
            => query[q].since <= result[flight[f].value].version

FreshLeases ==
  \A q \in Queries : query[q].phase = "leased" => query[q].since <= result[query[q].lease].version
FreshEntries == \A e \in Listed(lru) : cleared[e.scope] <= result[e.result].version

CacheFresh ==
  /\ \A s \in CacheScopes : FreshScope(s)
  /\ \A q \in Queries : FreshQuery(q)
  /\ \A f \in FlightIds : FreshFlight(f)
  /\ FreshLeases
  /\ FreshEntries

(* A result keeps its version while it has references. *)
VersionsStay ==
  \A r \in ResultIds : result[r].refs # 0 /\ result'[r].refs # 0 => result'[r].version = result[r].version

LEMMA ReturnedVersions ==
  ASSUME Held, NEW n, result' = Returned(n)
  PROVE  VersionsStay
<1> SUFFICES ASSUME NEW r \in ResultIds, result'[r].refs # 0
             PROVE  result'[r].version = result[r].version
  BY DEF VersionsStay
<1>1. result'[r] = IF result[r].refs = n[r] THEN Freed ELSE [result[r] EXCEPT !.refs = result[r].refs - n[r]]
  BY DEF Returned
<1>2. result'[r] = [result[r] EXCEPT !.refs = result[r].refs - n[r]]
  BY <1>1 DEF Freed
<1> QED
  BY <1>2

(* What a step of the scopes may do: a scope that serves keeps its generation
   and its tables' version, or moves to a later generation; an invalidated
   scope has no entries. *)
Advances(s) ==
  /\ FreshScope(s)'
  /\ scope[s].opened = 1 => scope'[s].opened = 1 /\ (scope'[s].open => scope[s].open)
  /\ scope'[s].open \/ scope'[s].opened = 0 =>
     /\ scope[s].open \/ scope[s].opened = 0
     /\ cleared[s] <= cleared'[s]
     /\ \/ scope'[s].generation = scope[s].generation /\ cleared'[s] = cleared[s]
        \/ scope[s].generation < scope'[s].generation
  /\ \A e \in Listed(lru') : e.scope = s => cleared'[s] = cleared[s]

LEMMA ScopesAdvance ==
  ASSUME Held, Held', CacheFresh, VersionsStay, flight' = flight, query' = query,
         Listed(lru') \subseteq Listed(lru), \A s \in CacheScopes : Advances(s)
  PROVE  CacheFresh'
<1>1. \A s \in CacheScopes : FreshScope(s)'
  BY DEF Advances
<1>2. ASSUME NEW q \in Queries PROVE FreshQuery(q)' /\ (Serves(q)' => Serves(q))
  <2> DEFINE s == query[q].scope
  <2>1. CASE query[q].phase \notin {"lookup", "join", "wait"}
    BY <2>1 DEF FreshQuery, Serves
  <2>2. CASE query[q].phase \in {"lookup", "join", "wait"}
    <3>1. s \in CacheScopes /\ query[q].token \in Nat /\ query[q].since \in Nat
      BY <2>2 DEF Held
    <3>2. Advances(s) /\ FreshQuery(q)
      BY <3>1 DEF CacheFresh
    <3>3. /\ scope[s].generation \in Nat /\ scope'[s].generation \in Nat
          /\ cleared[s] \in Nat /\ cleared'[s] \in Nat
      BY <3>1 DEF Held
    <3>4. query[q].phase \in {"join", "wait"} => scope'[s].opened = 1
      BY <3>2 DEF FreshQuery, Advances
    <3>5. ASSUME scope'[s].open \/ scope'[s].opened = 0
          PROVE  /\ query[q].token <= scope'[s].generation
                 /\ query[q].since <= cleared'[s]
                 /\ query[q].token = scope'[s].generation => query[q].since = cleared'[s]
      <4>1. /\ scope[s].open \/ scope[s].opened = 0
            /\ cleared[s] <= cleared'[s]
            /\ \/ scope'[s].generation = scope[s].generation /\ cleared'[s] = cleared[s]
               \/ scope[s].generation < scope'[s].generation
        BY <3>2, <3>5 DEF Advances
      <4>2. /\ query[q].token <= scope[s].generation /\ query[q].since <= cleared[s]
            /\ query[q].token = scope[s].generation => query[q].since = cleared[s]
        BY <2>2, <3>2, <4>1 DEF FreshQuery, Usable
      <4> HIDE DEF s
      <4> QED
        BY <3>1, <3>3, <4>1, <4>2
    <3>6. FreshQuery(q)'
      BY <3>2, <3>4, <3>5 DEF FreshQuery, Usable
    <3>7. Serves(q)' => Serves(q)
      BY <3>2 DEF Serves, Usable, Advances
    <3> QED
      BY <3>6, <3>7
  <2> QED
    BY <2>1, <2>2
<1>3. ASSUME NEW f \in FlightIds PROVE FreshFlight(f)'
  <2> DEFINE s == flight[f].scope
             v == flight[f].value
  <2>1. CASE flight[f].step = "none"
    BY <2>1 DEF FreshFlight
  <2>2. CASE flight[f].step # "none"
    <3>1. s \in CacheScopes /\ flight[f].token \in Nat
      BY <2>2 DEF Held
    <3>2. Advances(s) /\ FreshFlight(f)
      BY <3>1 DEF CacheFresh
    <3>3. /\ scope[s].generation \in Nat /\ scope'[s].generation \in Nat
          /\ cleared[s] \in Nat /\ cleared'[s] \in Nat
      BY <3>1 DEF Held
    <3>4. /\ scope'[s].opened = 1
          /\ scope'[s].open => scope[s].open
          /\ scope[s].open => flight[f].token <= scope[s].generation
      BY <2>2, <3>2 DEF FreshFlight, Advances
    <3>5. scope'[s].open => \/ scope'[s].generation = scope[s].generation /\ cleared'[s] = cleared[s]
                            \/ scope[s].generation < scope'[s].generation
      BY <3>2 DEF Advances
    <3>6. scope'[s].open => flight[f].token <= scope'[s].generation
      <4> HIDE DEF s
      <4> QED
        BY <3>1, <3>3, <3>4, <3>5
    <3>7. ASSUME v # 0
          PROVE  /\ scope'[s].open /\ flight[f].token = scope'[s].generation
                      => cleared'[s] <= result'[v].version
                 /\ \A q \in Queries :
                      Serves(q)' /\ query[q].scope = s /\ query[q].token = flight[f].token
                        => query[q].since <= result'[v].version
      <4>1. result'[v].version = result[v].version
        BY <3>7 DEF Held, VersionsStay
      <4>2. /\ scope[s].open /\ flight[f].token = scope[s].generation => cleared[s] <= result[v].version
            /\ \A q \in Queries :
                 Serves(q) /\ query[q].scope = s /\ query[q].token = flight[f].token
                   => query[q].since <= result[v].version
        BY <2>2, <3>2, <3>7 DEF FreshFlight
      <4>3. scope'[s].open /\ flight[f].token = scope'[s].generation => cleared'[s] <= result'[v].version
        <5> HIDE DEF s, v
        <5> QED
          BY <3>1, <3>3, <3>4, <3>5, <4>1, <4>2
      <4> QED
        BY <1>2, <4>1, <4>2, <4>3
    <3> QED
      BY <3>4, <3>6, <3>7 DEF FreshFlight
  <2> QED
    BY <2>1, <2>2
<1>4. FreshLeases'
  <2>1. \A q \in Queries : query[q].phase = "leased" =>
          result'[query[q].lease].version = result[query[q].lease].version
    BY DEF Held, VersionsStay
  <2> QED
    BY <2>1 DEF CacheFresh, FreshLeases
<1>5. FreshEntries'
  <2>1. FreshEntries' <=> \A e \in Listed(lru') : cleared'[e.scope] <= result'[e.result].version
    BY DEF FreshEntries, Listed
  <2>2. ASSUME NEW e \in Listed(lru') PROVE cleared'[e.scope] <= result'[e.result].version
    <3>1. e \in Listed(lru) /\ e.scope \in CacheScopes /\ e.result \in ResultIds /\ result[e.result].refs # 0
      BY DEF Held
    <3>2. result'[e.result].refs # 0
      <4>1. Held' => \A d \in Listed(lru') : result'[d.result].refs # 0
        BY DEF Held, Listed
      <4> QED
        BY <4>1
    <3>3. result'[e.result].version = result[e.result].version /\ cleared'[e.scope] = cleared[e.scope]
      BY <3>1, <3>2 DEF VersionsStay, Advances
    <3>4. cleared[e.scope] <= result[e.result].version
      BY <3>1 DEF CacheFresh, FreshEntries
    <3> QED
      BY <3>3, <3>4
  <2> QED
    BY <2>1, <2>2
<1> QED
  BY <1>1, <1>2, <1>3, <1>4, <1>5 DEF CacheFresh

(* A scope that a step leaves alone. *)
LEMMA UntouchedAdvances ==
  ASSUME Held, CacheFresh, NEW s \in CacheScopes, scope'[s] = scope[s], cleared'[s] = cleared[s],
         data'[s] = data[s]
  PROVE  Advances(s)
<1>1. FreshScope(s) /\ cleared[s] \in Nat
  BY DEF CacheFresh, Held
<1>2. FreshScope(s)'
  BY <1>1 DEF FreshScope
<1> QED
  BY <1>1, <1>2 DEF Advances

LEMMA OpenScopeFresh ==
  ASSUME CacheInv, Held, Held', CacheFresh, MaxIncarnations = 1, NEW s \in CacheScopes, OpenScope(s)
  PROVE  CacheFresh'
<1>1. /\ ~scope[s].open /\ scope[s].opened < 1 /\ scope[s].opened \in Nat
      /\ scope' = [scope EXCEPT ![s] = [open |-> TRUE, generation |-> 0, opened |-> scope[s].opened + 1]]
      /\ cleared' = [cleared EXCEPT ![s] = data[s]]
      /\ UNCHANGED <<data, closed, lru, usage, result, flight, query>>
  BY DEF OpenScope, Held
<1>2. /\ scope[s].opened = 0 /\ scope[s].generation = 0 /\ data[s] = cleared[s] /\ cleared[s] \in Nat
  <2>1. scope[s].opened = 0
    BY <1>1
  <2> QED
    BY <2>1 DEF CacheFresh, FreshScope, Held
<1>3. /\ scope'[s].open = TRUE /\ scope'[s].generation = 0 /\ scope'[s].opened = 1
      /\ cleared'[s] = cleared[s] /\ data'[s] = data[s]
  BY <1>1, <1>2, ScopeTypes
<1>4. Advances(s)
  <2>1. FreshScope(s)'
    BY <1>2, <1>3 DEF FreshScope
  <2> QED
    BY <1>2, <1>3, <2>1 DEF Advances
<1>5. ASSUME NEW t \in CacheScopes \ {s} PROVE Advances(t)
  <2>1. scope'[t] = scope[t] /\ cleared'[t] = cleared[t] /\ data'[t] = data[t]
    BY <1>1, ScopeTypes
  <2> QED
    BY <2>1, UntouchedAdvances
<1>6. VersionsStay /\ Listed(lru') \subseteq Listed(lru)
  BY <1>1 DEF VersionsStay
<1> QED
  BY <1>1, <1>4, <1>5, <1>6, ScopesAdvance

LEMMA RefreshDataFresh ==
  ASSUME CacheInv, Held, Held', CacheFresh, NEW s \in CacheScopes, RefreshData(s)
  PROVE  CacheFresh'
<1>1. /\ scope[s].open /\ data[s] = cleared[s]
      /\ data' = [data EXCEPT ![s] = data[s] + 1]
      /\ UNCHANGED <<scope, cleared, closed, lru, usage, result, flight, query>>
  BY DEF RefreshData
<1>2. data'[s] = cleared[s] + 1 /\ cleared[s] \in Nat /\ cleared'[s] = cleared[s] /\ scope'[s] = scope[s]
  BY <1>1, ScopeTypes
<1>3. Advances(s)
  <2>1. FreshScope(s)
    BY DEF CacheFresh
  <2>2. FreshScope(s)'
    BY <1>1, <1>2, <2>1 DEF FreshScope
  <2> QED
    BY <1>2, <2>2 DEF Advances
<1>4. ASSUME NEW t \in CacheScopes \ {s} PROVE Advances(t)
  <2>1. scope'[t] = scope[t] /\ cleared'[t] = cleared[t] /\ data'[t] = data[t]
    BY <1>1, ScopeTypes
  <2> QED
    BY <2>1, UntouchedAdvances
<1>5. VersionsStay /\ Listed(lru') \subseteq Listed(lru)
  BY <1>1 DEF VersionsStay
<1> QED
  BY <1>1, <1>3, <1>4, <1>5, ScopesAdvance

(* What is left of the list after removeLocked of each entry of E. *)
LEMMA RemovedList ==
  ASSUME CacheInv, NEW E, RemoveAll(E)
  PROVE  Listed(lru') = Listed(lru) \ E
<1> DEFINE r == Remaining(lru, E)
<1>1. {r[i] : i \in DOMAIN r} = {lru[i] : i \in DOMAIN lru} \ E
  BY EntryFacts, RemainingFacts
<1>2. lru' = r
  BY DEF RemoveAll, Without
<1> HIDE DEF r
<1> QED
  BY <1>1, <1>2 DEF Listed

LEMMA RemoveAllVersions ==
  ASSUME Held, NEW E, RemoveAll(E)
  PROVE  VersionsStay
<1>1. result' = Returned([r \in ResultIds |-> HoldsIn(E, r)])
  BY DEF RemoveAll
<1> QED
  BY <1>1, ReturnedVersions

LEMMA InvalidateFresh ==
  ASSUME CacheInv, Held, Held', CacheFresh, NEW s \in CacheScopes, Invalidate(s)
  PROVE  CacheFresh'
<1>1. /\ scope[s].open /\ RemoveAll(EntriesOf(s))
      /\ scope' = [scope EXCEPT ![s].generation = scope[s].generation + 1]
      /\ cleared' = [cleared EXCEPT ![s] = data[s]]
      /\ UNCHANGED <<data, closed, flight, query>>
  BY DEF Invalidate
<1>2. /\ scope[s] \in ScopeRows /\ scope[s].generation \in Nat /\ data[s] \in Nat /\ cleared[s] \in Nat
      /\ scope \in [CacheScopes -> ScopeRows] /\ cleared \in [CacheScopes -> Nat]
  BY ScopeTypes
<1>3. /\ scope'[s].generation = scope[s].generation + 1 /\ scope'[s].open = scope[s].open
      /\ scope'[s].opened = scope[s].opened /\ cleared'[s] = data[s] /\ data'[s] = data[s]
  BY <1>1, <1>2 DEF ScopeRows
<1>4. Listed(lru') = Listed(lru) \ EntriesOf(s) /\ \A e \in Listed(lru') : e.scope # s
  <2>1. Listed(lru') = Listed(lru) \ EntriesOf(s)
    BY <1>1, RemovedList
  <2> QED
    BY <2>1, CachedIsListed DEF EntriesOf
<1>5. Advances(s)
  <2>1. FreshScope(s)
    BY DEF CacheFresh
  <2>2. scope[s].opened # 0
    BY <1>1, <2>1 DEF FreshScope
  <2>3. FreshScope(s)'
    BY <1>2, <1>3, <2>1, <2>2 DEF FreshScope
  <2>4. cleared[s] <= cleared'[s] /\ scope[s].generation < scope'[s].generation
    BY <1>2, <1>3, <2>1 DEF FreshScope
  <2> QED
    BY <1>1, <1>3, <1>4, <2>3, <2>4 DEF Advances
<1>6. ASSUME NEW t \in CacheScopes \ {s} PROVE Advances(t)
  <2>1. scope'[t] = scope[t] /\ cleared'[t] = cleared[t] /\ data'[t] = data[t]
    BY <1>1, <1>2
  <2> QED
    BY <2>1, UntouchedAdvances
<1>7. VersionsStay
  BY <1>1, RemoveAllVersions
<1>8. Listed(lru') \subseteq Listed(lru)
  BY <1>4
<1> QED
  BY <1>1, <1>5, <1>6, <1>7, <1>8, ScopesAdvance

(* A scope that closes, or was closed. *)
LEMMA ClosedAdvances ==
  ASSUME Held, CacheFresh, NEW s \in CacheScopes, scope'[s].open = FALSE, scope'[s].generation = 0,
         scope'[s].opened = scope[s].opened, cleared' = cleared, data' = data
  PROVE  Advances(s)
<1>1. FreshScope(s) /\ cleared[s] \in Nat
  BY DEF CacheFresh, Held
<1>2. FreshScope(s)'
  BY <1>1 DEF FreshScope
<1> QED
  BY <1>1, <1>2 DEF Advances, FreshScope

LEMMA CloseScopeFresh ==
  ASSUME CacheInv, Held, Held', CacheFresh, NEW s \in CacheScopes, CloseScope(s)
  PROVE  CacheFresh'
<1>1. /\ RemoveAll(EntriesOf(s))
      /\ scope' = [scope EXCEPT ![s].open = FALSE, ![s].generation = 0]
      /\ UNCHANGED <<data, cleared, closed, flight, query>>
  BY DEF CloseScope
<1>2. scope \in [CacheScopes -> ScopeRows] /\ scope[s] \in ScopeRows
  BY ScopeTypes
<1>3. scope'[s].open = FALSE /\ scope'[s].generation = 0 /\ scope'[s].opened = scope[s].opened
  BY <1>1, <1>2 DEF ScopeRows
<1>4. Advances(s)
  BY <1>1, <1>3, ClosedAdvances
<1>5. ASSUME NEW t \in CacheScopes \ {s} PROVE Advances(t)
  <2>1. scope'[t] = scope[t] /\ cleared'[t] = cleared[t] /\ data'[t] = data[t]
    BY <1>1, <1>2
  <2> QED
    BY <2>1, UntouchedAdvances
<1>6. VersionsStay
  BY <1>1, RemoveAllVersions
<1>7. Listed(lru') \subseteq Listed(lru)
  BY <1>1, RemovedList
<1> QED
  BY <1>1, <1>4, <1>5, <1>6, <1>7, ScopesAdvance

LEMMA ClosePoolFresh ==
  ASSUME CacheInv, Held, Held', CacheFresh, ClosePool
  PROVE  CacheFresh'
<1>1. /\ RemoveAll(Cached)
      /\ scope' = [s \in CacheScopes |-> [scope[s] EXCEPT !.open = FALSE, !.generation = 0]]
      /\ UNCHANGED <<data, cleared, flight, query>>
  BY Zenon DEF ClosePool
<1>2. ASSUME NEW s \in CacheScopes PROVE Advances(s)
  <2>1. scope[s] \in ScopeRows
    BY ScopeTypes
  <2>2. scope'[s].open = FALSE /\ scope'[s].generation = 0 /\ scope'[s].opened = scope[s].opened
    BY <1>1, <2>1, Zenon DEF ScopeRows
  <2> QED
    BY <1>1, <2>2, ClosedAdvances, Zenon
<1>3. VersionsStay
  BY <1>1, RemoveAllVersions, Zenon
<1>4. Listed(lru') \subseteq Listed(lru)
  BY <1>1, RemovedList, Zenon
<1> QED
  BY <1>1, <1>2, <1>3, <1>4, ScopesAdvance, Zenon

(* What a step of a query or of a flight does to the other rows: a query that
   may take a value afterwards might do so before, and a flight that goes on
   keeps its scope, its generation and its value. *)
QueryStays(q) ==
  Serves(q)' => /\ Serves(q) /\ query'[q].scope = query[q].scope
                /\ query'[q].token = query[q].token /\ query'[q].since = query[q].since
FlightStays(f) ==
  flight'[f].step # "none" =>
    /\ flight[f].step # "none"
    /\ flight'[f].scope = flight[f].scope /\ flight'[f].token = flight[f].token
    /\ flight'[f].value # 0 => flight'[f].value = flight[f].value

LEMMA FlightStaysFresh ==
  ASSUME Held, Held', CacheFresh, VersionsStay, UNCHANGED <<scope, data, cleared>>,
         \A q \in Queries : QueryStays(q), NEW f \in FlightIds, FlightStays(f)
  PROVE  FreshFlight(f)'
<1> SUFFICES ASSUME flight'[f].step # "none" PROVE FreshFlight(f)'
  BY DEF FreshFlight
<1> DEFINE s == flight[f].scope
           v == flight[f].value
<1>1. /\ flight[f].step # "none" /\ flight'[f].scope = s /\ flight'[f].token = flight[f].token
      /\ flight'[f].value # 0 => flight'[f].value = v
  BY DEF FlightStays
<1>2. FreshFlight(f)
  BY DEF CacheFresh
<1>3. ASSUME flight'[f].value # 0
      PROVE  /\ flight'[f].value = v
             /\ scope[s].open /\ flight[f].token = scope[s].generation => cleared[s] <= result'[v].version
             /\ \A q \in Queries :
                  Serves(q)' /\ query'[q].scope = s /\ query'[q].token = flight[f].token
                    => query'[q].since <= result'[v].version
  <2>1. flight'[f].value = v /\ v # 0
    BY <1>1, <1>3
  <2>2. v \in ResultIds /\ result[v].refs # 0
    BY <2>1 DEF Held
  <2>3. result'[v].refs # 0
    <3>1. Held' => (flight'[f].value # 0 => result'[flight'[f].value].refs # 0)
      BY DEF Held
    <3> QED
      BY <2>1, <3>1
  <2>4. result'[v].version = result[v].version
    BY <2>2, <2>3 DEF VersionsStay
  <2>5. /\ scope[s].open /\ flight[f].token = scope[s].generation => cleared[s] <= result[v].version
        /\ \A q \in Queries :
             Serves(q) /\ query[q].scope = s /\ query[q].token = flight[f].token
               => query[q].since <= result[v].version
    BY <1>1, <1>2, <2>1 DEF FreshFlight
  <2> HIDE DEF s, v
  <2>6. ASSUME NEW q \in Queries, Serves(q)', query'[q].scope = s, query'[q].token = flight[f].token
        PROVE  query'[q].since <= result'[v].version
    <3>1. /\ Serves(q) /\ query'[q].scope = query[q].scope
          /\ query'[q].token = query[q].token /\ query'[q].since = query[q].since
      BY <2>6 DEF QueryStays
    <3> QED
      BY <2>4, <2>5, <2>6, <3>1
  <2> QED
    BY <2>1, <2>4, <2>5, <2>6
<1> QED
  BY <1>1, <1>2, <1>3 DEF FreshFlight

LEMMA QueryStaysFresh ==
  ASSUME Held, Held', CacheFresh, UNCHANGED <<scope, data, cleared>>,
         NEW q \in Queries, query'[q] = query[q],
         \A f \in FlightIds : flight[f].step # "none" /\ flight'[f].step # "none" =>
           flight'[f].scope = flight[f].scope /\ flight'[f].token = flight[f].token
  PROVE  FreshQuery(q)'
<1>1. FreshQuery(q)
  BY DEF CacheFresh
<1>2. ASSUME query[q].phase = "wait"
      PROVE  LET f == query[q].flight
             IN  flight'[f].scope = flight[f].scope /\ flight'[f].token = flight[f].token
  <2>1. query[q].flight \in FlightIds /\ flight[query[q].flight].step # "none"
    BY <1>2 DEF Held
  <2>2. flight'[query[q].flight].step # "none"
    <3>1. Held' => (query'[q].phase = "wait" => flight'[query'[q].flight].step # "none")
      BY DEF Held
    <3> QED
      BY <1>2, <3>1
  <2> QED
    BY <2>1, <2>2
<1> QED
  BY <1>1, <1>2 DEF FreshQuery, Usable

LEMMA StepsFresh ==
  ASSUME Held, Held', CacheFresh, VersionsStay, UNCHANGED <<scope, data, cleared>>,
         \A f \in FlightIds :
           /\ flight[f].step # "none" /\ flight'[f].step # "none" =>
                flight'[f].scope = flight[f].scope /\ flight'[f].token = flight[f].token
           /\ FreshFlight(f)' \/ (FlightStays(f) /\ \A q \in Queries : QueryStays(q)),
         \A q \in Queries :
           \/ query'[q] = query[q]
           \/ /\ FreshQuery(q)'
              /\ query'[q].phase = "leased" => query'[q].since <= result'[query'[q].lease].version,
         \A e \in Listed(lru') : e \in Listed(lru) \/ cleared[e.scope] <= result'[e.result].version
  PROVE  CacheFresh'
<1>1. \A s \in CacheScopes : FreshScope(s)'
  BY DEF CacheFresh, FreshScope
<1>2. \A q \in Queries : FreshQuery(q)'
  BY QueryStaysFresh
<1>3. \A f \in FlightIds : FreshFlight(f)'
  BY FlightStaysFresh
<1>4. FreshLeases'
  <2>1. ASSUME NEW q \in Queries, query'[q] = query[q], query[q].phase = "leased"
        PROVE  query[q].since <= result'[query[q].lease].version
    <3>1. query[q].lease \in ResultIds /\ result[query[q].lease].refs # 0
      BY <2>1 DEF Held
    <3>2. result'[query[q].lease].refs # 0
      <4>1. Held' => (query'[q].phase = "leased" => result'[query'[q].lease].refs # 0)
        BY DEF Held
      <4> QED
        BY <2>1, <4>1
    <3>3. result'[query[q].lease].version = result[query[q].lease].version
      BY <3>1, <3>2 DEF VersionsStay
    <3> QED
      BY <2>1, <3>3 DEF CacheFresh, FreshLeases
  <2> QED
    BY <2>1 DEF FreshLeases
<1>5. FreshEntries'
  <2>1. FreshEntries' <=> \A e \in Listed(lru') : cleared'[e.scope] <= result'[e.result].version
    BY DEF FreshEntries, Listed
  <2>2. ASSUME NEW e \in Listed(lru'), e \in Listed(lru) PROVE cleared[e.scope] <= result'[e.result].version
    <3>1. e.result \in ResultIds /\ result[e.result].refs # 0
      BY <2>2 DEF Held
    <3>2. result'[e.result].refs # 0
      <4>1. Held' => \A d \in Listed(lru') : result'[d.result].refs # 0
        BY DEF Held, Listed
      <4> QED
        BY <4>1
    <3>3. result'[e.result].version = result[e.result].version
      BY <3>1, <3>2 DEF VersionsStay
    <3> QED
      BY <2>2, <3>3 DEF CacheFresh, FreshEntries
  <2> QED
    BY <2>1, <2>2
<1> QED
  BY <1>1, <1>2, <1>3, <1>4, <1>5 DEF CacheFresh

(* A step of one query that keeps the flights. *)
LEMMA BeginQueryFresh ==
  ASSUME CacheInv, Held, Held', CacheFresh, NEW q \in Queries, NEW s \in CacheScopes, NEW k \in Keys,
         BeginQuery(q, s, k)
  PROVE  CacheFresh'
<1> DEFINE row == [IdleQuery EXCEPT !.phase = "lookup", !.scope = s, !.key = k,
                                    !.token = scope[s].generation, !.since = cleared[s]]
<1>1. query[q].phase = "idle" /\ query' = [query EXCEPT ![q] = row]
      /\ UNCHANGED <<scope, data, cleared, closed, lru, usage, result, flight>>
  BY DEF BeginQuery
<1>2. /\ row.phase = "lookup" /\ row.scope = s /\ row.token = scope[s].generation
      /\ row.since = cleared[s]
  BY DEF IdleQuery
<1>3. query'[q] = row /\ \A p \in Queries \ {q} : query'[p] = query[p]
  BY <1>1, QueryFacts
<1> HIDE DEF row
<1>4. VersionsStay
  BY <1>1 DEF VersionsStay
<1>5. FreshQuery(q)'
  <2>1. scope[s].generation \in Nat /\ cleared[s] \in Nat
    BY ScopeTypes
  <2> QED
    BY <1>1, <1>2, <1>3, <2>1 DEF FreshQuery
<1>6. ASSUME NEW f \in FlightIds PROVE FreshFlight(f)'
  <2>1. SUFFICES ASSUME flight[f].step # "none" PROVE FreshFlight(f)'
    BY <1>1 DEF FreshFlight
  <2> DEFINE v == flight[f].value
             t == flight[f].scope
  <2>2. /\ scope[t].opened = 1
        /\ scope[t].open => flight[f].token <= scope[t].generation
        /\ v # 0 =>
           /\ scope[t].open /\ flight[f].token = scope[t].generation => cleared[t] <= result[v].version
           /\ \A p \in Queries :
                Serves(p) /\ query[p].scope = t /\ query[p].token = flight[f].token
                  => query[p].since <= result[v].version
    BY <2>1 DEF CacheFresh, FreshFlight
  <2>3. ASSUME NEW p \in Queries \ {q}, Serves(p)' PROVE Serves(p) /\ query'[p] = query[p]
    BY <1>1, <1>3, <2>3 DEF Serves, Usable
  <2>4. Serves(q)' /\ s = t => scope[t].open
    BY <1>1, <1>2, <1>3, <2>2 DEF Serves, Usable
  <2>5. ASSUME v # 0, NEW p \in Queries, Serves(p)', query'[p].scope = t, query'[p].token = flight[f].token
        PROVE  query'[p].since <= result[v].version
    <3>1. CASE p # q
      BY <2>2, <2>3, <2>5, <3>1
    <3>2. CASE p = q
      BY <1>2, <1>3, <2>2, <2>4, <2>5, <3>2
    <3> QED
      BY <3>1, <3>2
  <2> QED
    BY <1>1, <2>2, <2>5 DEF FreshFlight
<1>7. \A p \in Queries :
        \/ query'[p] = query[p]
        \/ /\ FreshQuery(p)'
           /\ query'[p].phase = "leased" => query'[p].since <= result'[query'[p].lease].version
  BY <1>2, <1>3, <1>5
<1>8. /\ \A e \in Listed(lru') : e \in Listed(lru)
      /\ \A f \in FlightIds : flight'[f].scope = flight[f].scope /\ flight'[f].token = flight[f].token
  BY <1>1
<1> QED
  BY <1>1, <1>4, <1>6, <1>7, <1>8, StepsFresh

(* A step of one query that takes no value it could not have taken before. *)
LEMMA OneQueryFresh ==
  ASSUME Held, Held', CacheFresh, VersionsStay, UNCHANGED <<scope, data, cleared>>,
         Listed(lru') \subseteq Listed(lru), NEW q \in Queries,
         \A p \in Queries \ {q} : query'[p] = query[p],
         \A f \in FlightIds : FreshFlight(f)' \/ FlightStays(f),
         \A f \in FlightIds : flight[f].step # "none" /\ flight'[f].step # "none" =>
           flight'[f].scope = flight[f].scope /\ flight'[f].token = flight[f].token,
         QueryStays(q), FreshQuery(q)',
         query'[q].phase = "leased" => query'[q].since <= result'[query'[q].lease].version
  PROVE  CacheFresh'
<1>1. \A p \in Queries \ {q} : QueryStays(p)
  BY DEF QueryStays, Serves, Usable
<1>2. \A p \in Queries : QueryStays(p)
  BY <1>1
<1> QED
  BY <1>2, StepsFresh

(* A query that becomes idle. *)
LEMMA IdleFresh ==
  ASSUME NEW q \in Queries, query'[q] = IdleQuery
  PROVE  QueryStays(q) /\ FreshQuery(q)' /\ query'[q].phase # "leased"
BY DEF IdleQuery, QueryStays, Serves, FreshQuery

LEMMA OneMoreVersions ==
  ASSUME Held, CacheInv, NEW r \in ResultIds, result' = [result EXCEPT ![r].refs = result[r].refs + 1]
  PROVE  VersionsStay
<1>1. result \in [ResultIds -> ResultRows]
  BY DEF CacheInv, CacheRows
<1> QED
  BY <1>1 DEF VersionsStay, ResultRows

LEMMA LookupFresh ==
  ASSUME CacheInv, Held, Held', CacheFresh, NEW q \in Queries, Lookup(q)
  PROVE  CacheFresh'
<1> DEFINE s == query[q].scope
<1>1. query[q].phase = "lookup" /\ UNCHANGED <<scope, data, cleared, closed, usage, flight>>
  BY DEF Lookup
<1>2. /\ query \in [Queries -> QueryRows] /\ query[q] \in QueryRows /\ s \in CacheScopes
      /\ query[q].token \in Nat /\ query[q].since \in Nat
  BY <1>1, QueryFacts DEF QueryOK
<1>3. FreshQuery(q) /\ FreshScope(s)
  BY <1>2 DEF CacheFresh
<1>4. /\ \A f \in FlightIds : FlightStays(f)
      /\ \A f \in FlightIds : flight'[f].scope = flight[f].scope /\ flight'[f].token = flight[f].token
  BY <1>1 DEF FlightStays
<1>5. CASE query' = [query EXCEPT ![q] = IdleQuery] /\ UNCHANGED <<lru, result>>
  <2>1. query'[q] = IdleQuery /\ \A p \in Queries \ {q} : query'[p] = query[p]
    BY <1>2, <1>5
  <2>2. VersionsStay /\ Listed(lru') \subseteq Listed(lru)
    BY <1>5 DEF VersionsStay
  <2> QED
    BY <1>1, <1>4, <2>1, <2>2, IdleFresh, OneQueryFresh
<1>6. ASSUME NEW e \in EntriesOf(s), lru' = <<e>> \o Without({e}),
             result' = [result EXCEPT ![e.result].refs = result[e.result].refs + 1],
             query' = [query EXCEPT ![q].phase = "leased", ![q].token = 0, ![q].lease = e.result]
      PROVE  CacheFresh'
  <2>1. e \in Listed(lru) /\ e.result \in ResultIds /\ e.scope = s /\ scope[s].open
    <3>1. e \in Listed(lru) /\ e.scope = s
      BY CachedIsListed DEF EntriesOf
    <3> QED
      BY <3>1, EntryFacts, OpenEntries
  <2>2. Listed(lru') = Listed(lru)
    BY <1>6, <2>1, TouchedFacts
  <2>3. VersionsStay
    BY <1>6, <2>1, OneMoreVersions
  <2>4. /\ query'[q].phase = "leased" /\ query'[q].lease = e.result /\ query'[q].since = query[q].since
        /\ \A p \in Queries \ {q} : query'[p] = query[p]
    BY <1>2, <1>6 DEF QueryRows
  <2>5. query[q].since <= cleared[s]
    BY <1>1, <1>3, <2>1 DEF FreshQuery, Usable
  <2>6. cleared[s] <= result'[e.result].version
    <3>1. cleared[s] <= result[e.result].version /\ result[e.result].refs # 0
      BY <2>1 DEF CacheFresh, FreshEntries, Held
    <3>2. result'[e.result].refs # 0
      <4>1. Held' => (query'[q].phase = "leased" => result'[query'[q].lease].refs # 0)
        BY DEF Held
      <4> QED
        BY <2>4, <4>1
    <3> QED
      BY <2>1, <2>3, <3>1, <3>2 DEF VersionsStay
  <2>7. query'[q].since <= result'[e.result].version
    <3>1. /\ cleared[s] \in Nat
          /\ result'[e.result].version \in Nat
      <4>1. Held' => \A r \in ResultIds : result'[r].version \in Nat
        BY DEF Held
      <4> QED
        BY <1>2, <2>1, <4>1 DEF Held
    <3> QED
      BY <1>2, <2>4, <2>5, <2>6, <3>1
  <2>8. QueryStays(q) /\ FreshQuery(q)'
    BY <2>4 DEF QueryStays, Serves, FreshQuery
  <2>9. Listed(lru') \subseteq Listed(lru)
    BY <2>2
  <2> QED
    BY <1>1, <1>4, <2>3, <2>4, <2>7, <2>8, <2>9, OneQueryFresh
<1>7. CASE scope[s].open /\ query' = [query EXCEPT ![q].phase = "join"] /\ UNCHANGED <<lru, result>>
  <2>1. /\ query'[q].phase = "join" /\ query'[q].scope = s /\ query'[q].token = query[q].token
        /\ query'[q].since = query[q].since
        /\ \A p \in Queries \ {q} : query'[p] = query[p]
    BY <1>2, <1>7 DEF QueryRows
  <2>2. VersionsStay /\ Listed(lru') \subseteq Listed(lru)
    BY <1>7 DEF VersionsStay
  <2>3. Serves(q)
    BY <1>1, <1>7 DEF Serves, Usable
  <2>4. QueryStays(q)
    BY <2>1, <2>3 DEF QueryStays
  <2>5. scope[s].opened = 1
    <3>1. scope[s].opened \in Nat /\ scope[s].opened <= 1 /\ scope[s].opened # 0
      BY <1>2, <1>3, <1>7 DEF FreshScope, Held
    <3> QED
      BY <3>1
  <2>6. FreshQuery(q)'
    BY <1>1, <1>3, <1>7, <2>1, <2>5 DEF FreshQuery, Usable
  <2> QED
    BY <1>1, <1>4, <2>1, <2>2, <2>4, <2>6, OneQueryFresh
<1> QED
  BY <1>5, <1>6, <1>7 DEF Lookup

LEMMA ReleaseLeaseFresh ==
  ASSUME CacheInv, Held, Held', CacheFresh, NEW q \in Queries, ReleaseLease(q)
  PROVE  CacheFresh'
<1>1. /\ query' = [query EXCEPT ![q] = IdleQuery] /\ result' = Returned(One(query[q].lease))
      /\ UNCHANGED <<scope, data, cleared, closed, lru, usage, flight>>
  BY DEF ReleaseLease
<1>2. query'[q] = IdleQuery /\ \A p \in Queries \ {q} : query'[p] = query[p]
  BY <1>1, QueryFacts
<1>3. VersionsStay
  BY <1>1, ReturnedVersions
<1>4. /\ \A f \in FlightIds : FlightStays(f)
      /\ \A f \in FlightIds : flight'[f].scope = flight[f].scope /\ flight'[f].token = flight[f].token
  BY <1>1 DEF FlightStays
<1>5. Listed(lru') \subseteq Listed(lru)
  BY <1>1
<1> QED
  BY <1>1, <1>2, <1>3, <1>4, <1>5, IdleFresh, OneQueryFresh

LEMMA JoinFresh ==
  ASSUME CacheInv, Held, Held', CacheFresh, NEW q \in Queries, Join(q)
  PROVE  CacheFresh'
<1> DEFINE s == query[q].scope
<1>1. query[q].phase = "join" /\ UNCHANGED <<scope, data, cleared, closed, lru, usage, result>>
  BY Zenon DEF Join
<1>2. /\ query \in [Queries -> QueryRows] /\ query[q] \in QueryRows /\ s \in CacheScopes
  BY <1>1, QueryFacts DEF QueryOK
<1>3. FreshQuery(q) /\ FreshScope(s)
  BY <1>2 DEF CacheFresh
<1>4. VersionsStay /\ Listed(lru') \subseteq Listed(lru)
  BY <1>1 DEF VersionsStay
<1>5. flight \in [FlightIds -> ExecutionRows]
  BY DEF CacheInv, CacheRows
  (* The query after it waits for flight f. *)
<1>6. ASSUME NEW f \in FlightIds, NEW o,
             query' = [query EXCEPT ![q].phase = "wait", ![q].flight = f, ![q].owner = o],
             flight'[f].scope = s, flight'[f].token = query[q].token
      PROVE  /\ QueryStays(q) /\ FreshQuery(q)' /\ query'[q].phase = "wait"
             /\ \A p \in Queries \ {q} : query'[p] = query[p]
  <2>1. /\ query'[q].phase = "wait" /\ query'[q].scope = s /\ query'[q].token = query[q].token
        /\ query'[q].since = query[q].since /\ query'[q].flight = f
        /\ \A p \in Queries \ {q} : query'[p] = query[p]
    BY <1>2, <1>6 DEF QueryRows
  <2>2. QueryStays(q)
    BY <1>1, <2>1 DEF QueryStays, Serves
  <2>3. FreshQuery(q)'
    BY <1>1, <1>3, <1>6, <2>1 DEF FreshQuery, Usable
  <2> QED
    BY <2>1, <2>2, <2>3
<1>7. ASSUME NEW f \in FlightIds, Shares(f, q),
             flight' = [flight EXCEPT ![f].waiters = flight[f].waiters + 1],
             query' = [query EXCEPT ![q].phase = "wait", ![q].flight = f, ![q].owner = FALSE]
      PROVE  CacheFresh'
  <2>1. ASSUME NEW g \in FlightIds
        PROVE  /\ flight'[g].step = flight[g].step /\ flight'[g].scope = flight[g].scope
               /\ flight'[g].token = flight[g].token /\ flight'[g].value = flight[g].value
    BY <1>5, <1>7 DEF ExecutionRows
  <2>2. \A g \in FlightIds : FlightStays(g)
    BY <2>1 DEF FlightStays
  <2>3. flight'[f].scope = s /\ flight'[f].token = query[q].token
    BY <1>7, <2>1 DEF Shares
  <2>4. /\ QueryStays(q) /\ FreshQuery(q)' /\ query'[q].phase = "wait"
        /\ \A p \in Queries \ {q} : query'[p] = query[p]
    BY <1>6, <1>7, <2>3, Zenon
  <2> QED
    BY <1>1, <1>4, <2>1, <2>2, <2>4, OneQueryFresh
<1>8. ASSUME NEW f \in FlightIds, NEW row, flight[f].step = "none", flight' = [flight EXCEPT ![f] = row],
             row.scope = s, row.token = query[q].token, row.value = 0,
             query' = [query EXCEPT ![q].phase = "wait", ![q].flight = f, ![q].owner = TRUE]
      PROVE  CacheFresh'
  <2>1. flight'[f] = row /\ \A g \in FlightIds \ {f} : flight'[g] = flight[g]
    BY <1>5, <1>8
  <2>2. /\ scope[s].opened = 1
        /\ scope[s].open => query[q].token <= scope[s].generation
    BY <1>1, <1>3 DEF FreshQuery, Usable
  <2>3. FreshFlight(f)'
    BY <1>1, <1>8, <2>1, <2>2 DEF FreshFlight
  <2>4. \A g \in FlightIds : FreshFlight(g)' \/ FlightStays(g)
    BY <2>1, <2>3 DEF FlightStays
  <2>5. \A g \in FlightIds : flight[g].step # "none" /\ flight'[g].step # "none" =>
          flight'[g].scope = flight[g].scope /\ flight'[g].token = flight[g].token
    BY <1>8, <2>1
  <2>6. flight'[f].scope = s /\ flight'[f].token = query[q].token
    BY <1>8, <2>1
  <2>7. /\ QueryStays(q) /\ FreshQuery(q)' /\ query'[q].phase = "wait"
        /\ \A p \in Queries \ {q} : query'[p] = query[p]
    BY <1>6, <1>8, <2>6, Zenon
  <2> QED
    BY <1>1, <1>4, <2>4, <2>5, <2>7, OneQueryFresh
<1> DEFINE free == {f \in FlightIds : flight[f].step = "none"}
           m == Min(free)
           new == [NoArrowFlight EXCEPT !.step = "run", !.scope = query[q].scope, !.key = query[q].key,
                                        !.token = query[q].token, !.live = TRUE, !.waiters = 1]
<1>9. CASE /\ free # {}
           /\ flight' = [flight EXCEPT ![m] = new]
           /\ query' = [query EXCEPT ![q].phase = "wait", ![q].flight = m, ![q].owner = TRUE]
  <2>1. m \in FlightIds /\ flight[m].step = "none"
    <3>1. free \in SUBSET Nat
      BY CacheAssumption
    <3>2. m \in free
      BY <1>9, <3>1, MinIsLeast, Zenon
    <3> QED
      BY <3>2
  <2>2. new.scope = s /\ new.token = query[q].token /\ new.value = 0
    BY DEF NoArrowFlight
  <2> HIDE DEF m, new
  <2> QED
    BY <1>8, <1>9, <2>1, <2>2, Zenon
<1> QED
  BY <1>7, <1>9, Zenon DEF Join

(* A flight whose row keeps its scope, its generation and its value. *)
LEMMA RowStays ==
  ASSUME CacheInv, NEW f \in FlightIds, NEW row, flight' = [flight EXCEPT ![f] = row],
         row.step # "none" =>
           /\ flight[f].step # "none" /\ row.scope = flight[f].scope /\ row.token = flight[f].token
           /\ row.value # 0 => row.value = flight[f].value
  PROVE  \A g \in FlightIds :
           /\ FlightStays(g)
           /\ flight[g].step # "none" /\ flight'[g].step # "none" =>
                flight'[g].scope = flight[g].scope /\ flight'[g].token = flight[g].token
<1>1. flight'[f] = row /\ \A g \in FlightIds \ {f} : flight'[g] = flight[g]
  BY ExecutionFacts
<1> QED
  BY <1>1 DEF FlightStays

(* A query that leaves its flight. *)
LEMMA LeftStays ==
  ASSUME CacheInv, NEW f \in FlightIds, flight[f].step # "none",
         NEW row \in {Left(f), [Left(f) EXCEPT !.live = FALSE]}, row.step # "none"
  PROVE  /\ row.scope = flight[f].scope /\ row.token = flight[f].token
         /\ row.value = flight[f].value
<1>1. flight[f] \in ExecutionRows
  BY ExecutionFacts
<1>2. CASE flight[f].waiters = 1 /\ flight[f].step = "done"
  <2>1. Left(f) = NoArrowFlight
    BY <1>2 DEF Left
  <2> QED
    BY <2>1 DEF NoArrowFlight
<1>3. CASE ~(flight[f].waiters = 1 /\ flight[f].step = "done")
  <2>1. Left(f) = [flight[f] EXCEPT !.waiters = flight[f].waiters - 1]
    BY <1>3 DEF Left
  <2> QED
    BY <1>1, <2>1, ZenonT(60) DEF ExecutionRows
<1> QED
  BY <1>2, <1>3

LEMMA CancelQueryFresh ==
  ASSUME CacheInv, Held, Held', CacheFresh, NEW q \in Queries, CancelQuery(q)
  PROVE  CacheFresh'
<1> DEFINE f == query[q].flight
           row == IF query[q].owner /\ Left(f) # NoArrowFlight
                  THEN [Left(f) EXCEPT !.live = FALSE] ELSE Left(f)
<1>1. /\ query[q].phase = "wait" /\ flight' = [flight EXCEPT ![f] = row]
      /\ result' = Returned(One(ReleasedByLeaving(f))) /\ query' = [query EXCEPT ![q] = IdleQuery]
      /\ UNCHANGED <<scope, data, cleared, closed, lru, usage>>
  BY DEF CancelQuery
<1>2. f \in FlightIds /\ flight[f].step # "none"
  BY <1>1 DEF Held
<1>3. row \in {Left(f), [Left(f) EXCEPT !.live = FALSE]}
  OBVIOUS
<1> HIDE DEF row, f
<1>4. row.step # "none" => /\ row.scope = flight[f].scope /\ row.token = flight[f].token
                           /\ row.value = flight[f].value
  BY <1>2, <1>3, LeftStays
<1>5. \A g \in FlightIds :
        /\ FlightStays(g)
        /\ flight[g].step # "none" /\ flight'[g].step # "none" =>
             flight'[g].scope = flight[g].scope /\ flight'[g].token = flight[g].token
  BY <1>1, <1>2, <1>4, RowStays
<1>6. query'[q] = IdleQuery /\ \A p \in Queries \ {q} : query'[p] = query[p]
  BY <1>1, QueryFacts
<1>7. VersionsStay /\ Listed(lru') \subseteq Listed(lru)
  BY <1>1, ReturnedVersions, SMTT(60)
<1> QED
  BY <1>1, <1>5, <1>6, <1>7, IdleFresh, OneQueryFresh

LEMMA FlightDoneFresh ==
  ASSUME CacheInv, Held, Held', CacheFresh, NEW q \in Queries, FlightDone(q)
  PROVE  CacheFresh'
<1> DEFINE f == query[q].flight
           v == flight[f].value
           s == query[q].scope
           n == One(ReleasedByLeaving(f))
<1>1. /\ query[q].phase = "wait" /\ flight[f].step = "done" /\ flight' = [flight EXCEPT ![f] = Left(f)]
      /\ UNCHANGED <<scope, data, cleared, closed, lru, usage>>
  BY DEF FlightDone
<1>2. /\ f \in FlightIds /\ query \in [Queries -> QueryRows] /\ query[q] \in QueryRows
      /\ s \in CacheScopes /\ query[q].since \in Nat
  BY <1>1, QueryFacts DEF Held
<1>3. \A g \in FlightIds :
        /\ FlightStays(g)
        /\ flight[g].step # "none" /\ flight'[g].step # "none" =>
             flight'[g].scope = flight[g].scope /\ flight'[g].token = flight[g].token
  <2> DEFINE row == Left(f)
  <2>1. row \in {Left(f), [Left(f) EXCEPT !.live = FALSE]} /\ flight[f].step # "none"
    BY <1>1
  <2>2. flight' = [flight EXCEPT ![f] = row]
    BY <1>1
  <2> HIDE DEF row, f
  <2>3. row.step # "none" => /\ row.scope = flight[f].scope /\ row.token = flight[f].token
                             /\ row.value = flight[f].value
    BY <1>2, <2>1, LeftStays
  <2> QED
    BY <1>2, <2>1, <2>2, <2>3, RowStays
<1>4. Listed(lru') \subseteq Listed(lru)
  BY <1>1
<1>5. FreshQuery(q) /\ FreshFlight(f)
  BY <1>2 DEF CacheFresh
<1>6. CASE /\ v # 0
           /\ result' = [r \in ResultIds |-> [result[r] EXCEPT !.refs = result[r].refs + One(v)[r] - n[r]]]
           /\ query' = [query EXCEPT ![q].phase = "leased", ![q].token = 0, ![q].lease = v,
                                     ![q].flight = 0, ![q].owner = FALSE]
  <2>1. /\ query'[q].phase = "leased" /\ query'[q].lease = v /\ query'[q].since = query[q].since
        /\ \A p \in Queries \ {q} : query'[p] = query[p]
    BY <1>2, <1>6 DEF QueryRows
  <2>2. VersionsStay
    <3>1. \A r \in ResultIds : result[r] \in ResultRows
      BY PinFacts, SMTT(60)
    <3> QED
      BY <1>6, <3>1 DEF VersionsStay, ResultRows
  <2>3. query[q].since <= result[v].version
    <3>1. Serves(q) /\ s = flight[f].scope /\ query[q].token = flight[f].token
      BY <1>1, <1>5, SMTT(60) DEF FreshQuery, Serves
    <3> QED
      BY <1>1, <1>5, <1>6, <3>1 DEF FreshFlight
  <2>4. v \in ResultIds
    BY <1>2, <1>6, ZenonT(60) DEF Held
  <2>5. result'[v].version = result[v].version
    <3>1. result[v] \in ResultRows
      BY <2>4, PinFacts
    <3> QED
      BY <1>6, <2>4, <3>1 DEF ResultRows
  <2>6. query'[q].since <= result'[query'[q].lease].version
    <3> HIDE DEF v
    <3> QED
      BY <2>1, <2>3, <2>5
  <2>7. QueryStays(q) /\ FreshQuery(q)'
    BY <2>1 DEF QueryStays, Serves, FreshQuery
  <2> QED
    BY <1>1, <1>3, <1>4, <2>1, <2>2, <2>6, <2>7, OneQueryFresh
<1>7. CASE result' = Returned(n) /\ query' = [query EXCEPT ![q] = IdleQuery]
  <2>1. query'[q] = IdleQuery /\ \A p \in Queries \ {q} : query'[p] = query[p]
    BY <1>2, <1>7
  <2>2. VersionsStay
    BY <1>7, ReturnedVersions
  <2> QED
    BY <1>1, <1>3, <1>4, <2>1, <2>2, IdleFresh, OneQueryFresh
<1>8. CASE /\ result' = Returned(n)
           /\ query' = [query EXCEPT ![q].phase = "join", ![q].flight = 0, ![q].owner = FALSE]
  <2>1. /\ query'[q].phase = "join" /\ query'[q].scope = s /\ query'[q].token = query[q].token
        /\ query'[q].since = query[q].since
        /\ \A p \in Queries \ {q} : query'[p] = query[p]
    BY <1>2, <1>8 DEF QueryRows
  <2>2. VersionsStay
    BY <1>8, ReturnedVersions
  <2>3. QueryStays(q)
    BY <1>1, <2>1 DEF QueryStays, Serves
  <2>4. FreshQuery(q)'
    BY <1>1, <1>5, <2>1 DEF FreshQuery, Usable
  <2> QED
    BY <1>1, <1>3, <1>4, <2>1, <2>2, <2>3, <2>4, OneQueryFresh
<1> QED
  BY <1>6, <1>7, <1>8, ZenonT(60) DEF FlightDone

(* A step of one flight. *)
LEMMA OneFlightFresh ==
  ASSUME CacheInv, Held, Held', CacheFresh, VersionsStay, UNCHANGED <<scope, data, cleared, query>>,
         NEW f \in FlightIds, NEW row, flight' = [flight EXCEPT ![f] = row], flight[f].step # "none",
         row.step # "none" => row.scope = flight[f].scope /\ row.token = flight[f].token,
         FreshFlight(f)' \/ row.value \in {0, flight[f].value},
         \A e \in Listed(lru') : e \in Listed(lru) \/ cleared[e.scope] <= result'[e.result].version
  PROVE  CacheFresh'
<1>1. flight'[f] = row /\ \A g \in FlightIds \ {f} : flight'[g] = flight[g]
  BY ExecutionFacts
<1>2. \A p \in Queries : QueryStays(p)
  BY DEF QueryStays, Serves, Usable
<1>3. \A g \in FlightIds : /\ FreshFlight(g)' \/ FlightStays(g)
                           /\ flight[g].step # "none" /\ flight'[g].step # "none" =>
                                flight'[g].scope = flight[g].scope /\ flight'[g].token = flight[g].token
  BY <1>1 DEF FlightStays
<1> QED
  BY <1>2, <1>3, StepsFresh

LEMMA FinishFlightFresh ==
  ASSUME CacheInv, Held, Held', CacheFresh, NEW f \in FlightIds, FinishFlight(f)
  PROVE  CacheFresh'
<1> DEFINE row == IF flight[f].waiters = 0 THEN NoArrowFlight
                  ELSE [flight[f] EXCEPT !.step = "done",
                                         !.failed = IF flight[f].live THEN flight[f].failed ELSE "cancelled"]
<1>1. /\ flight[f].step = "finish" /\ flight' = [flight EXCEPT ![f] = row]
      /\ result' = Returned(One(IF flight[f].waiters = 0 THEN flight[f].value ELSE 0))
      /\ UNCHANGED <<scope, data, cleared, closed, lru, usage, query>>
  BY DEF FinishFlight
<1>2. flight[f] \in ExecutionRows
  BY ExecutionFacts
<1>3. /\ row.step # "none" => row.scope = flight[f].scope /\ row.token = flight[f].token
      /\ row.value \in {0, flight[f].value}
  <2>1. CASE flight[f].waiters = 0
    BY <2>1 DEF NoArrowFlight
  <2>2. CASE flight[f].waiters # 0
    BY <1>2, <2>2 DEF ExecutionRows
  <2> QED
    BY <2>1, <2>2
<1>4. VersionsStay
  BY <1>1, ReturnedVersions
<1> HIDE DEF row
<1>5. \A e \in Listed(lru') : e \in Listed(lru)
  BY <1>1
<1> QED
  BY <1>1, <1>3, <1>4, <1>5, OneFlightFresh

LEMMA RunFresh ==
  ASSUME CacheInv, Held, Held', CacheFresh, NEW f \in FlightIds, Run(f)
  PROVE  CacheFresh'
<1> DEFINE s == flight[f].scope
<1>1. /\ flight[f].step = "run" /\ UNCHANGED <<scope, data, cleared, closed, usage, query>>
  BY DEF Run
<1>2. /\ flight[f] \in ExecutionRows /\ flight[f].value = 0 /\ s \in CacheScopes
      /\ flight \in [FlightIds -> ExecutionRows]
  BY <1>1, ExecutionFacts DEF ExecutionOK
<1>3. FreshFlight(f) /\ FreshScope(s)
  BY <1>2 DEF CacheFresh
<1>4. CASE flight' = [flight EXCEPT ![f].step = "finish", ![f].failed = "error"] /\ UNCHANGED <<lru, result>>
  <2> DEFINE row == [flight[f] EXCEPT !.step = "finish", !.failed = "error"]
  <2>1. flight' = [flight EXCEPT ![f] = row]
    BY <1>2, <1>4
  <2>2. row.scope = flight[f].scope /\ row.token = flight[f].token /\ row.value = flight[f].value
    BY <1>2 DEF ExecutionRows
  <2> HIDE DEF row
  <2>3. VersionsStay /\ \A e \in Listed(lru') : e \in Listed(lru)
    BY <1>4 DEF VersionsStay
  <2> QED
    BY <1>1, <2>1, <2>2, <2>3, OneFlightFresh
  (* The value after it is as new as the last invalidation. *)
<1>5. ASSUME NEW v \in ResultIds, NEW t, scope[s].open, cleared[s] <= result'[v].version,
             flight' = [flight EXCEPT ![f].step = t, ![f].value = v]
      PROVE  FreshFlight(f)'
  <2>1. /\ flight'[f].step = t /\ flight'[f].value = v /\ flight'[f].scope = s
        /\ flight'[f].token = flight[f].token
    BY <1>2, <1>5 DEF ExecutionRows
  <2>2. /\ scope'[s].opened = 1
        /\ scope'[s].open => flight[f].token <= scope'[s].generation
    BY <1>1, <1>3 DEF FreshFlight
  <2>3. cleared[s] \in Nat /\ result'[v].version \in Nat
    <3>1. Held' => \A r \in ResultIds : result'[r].version \in Nat
      BY DEF Held
    <3> QED
      BY <1>2, <1>5, <3>1 DEF Held
  <2>4. ASSUME NEW q \in Queries, Serves(q)', query'[q].scope = s
        PROVE  query'[q].since <= result'[v].version
    <3>1. query'[q] = query[q] /\ query[q].scope = s /\ query[q].phase \in {"lookup", "join", "wait"}
      BY <1>1, <2>4 DEF Serves
    <3>2. FreshQuery(q) /\ query[q].since \in Nat
      BY DEF CacheFresh, Held
    <3>3. query[q].since <= cleared[s]
      BY <1>5, <3>1, <3>2 DEF FreshQuery, Usable
    <3> HIDE DEF s
    <3> QED
      BY <1>5, <2>3, <3>1, <3>2, <3>3
  <2>5. cleared'[s] <= result'[v].version
    BY <1>1, <1>5
  <2> HIDE DEF s
  <2> QED
    BY <2>1, <2>2, <2>4, <2>5 DEF FreshFlight
<1>6. ASSUME NEW e \in EntriesOf(s), lru' = <<e>> \o Without({e}),
             result' = [result EXCEPT ![e.result].refs = result[e.result].refs + 1],
             flight' = [flight EXCEPT ![f].step = "finish", ![f].value = e.result]
      PROVE  CacheFresh'
  <2>1. e \in Listed(lru) /\ e.result \in ResultIds /\ e.scope = s /\ scope[s].open
    <3>1. e \in Listed(lru) /\ e.scope = s
      BY CachedIsListed DEF EntriesOf
    <3> QED
      BY <3>1, EntryFacts, OpenEntries
  <2>2. \A d \in Listed(lru') : d \in Listed(lru)
    <3>1. Listed(lru') = Listed(lru)
      BY <1>6, <2>1, TouchedFacts
    <3> QED
      BY <3>1
  <2>3. VersionsStay
    BY <1>6, <2>1, OneMoreVersions
  <2>4. result'[e.result].version = result[e.result].version
    <3>1. result[e.result] \in ResultRows /\ result \in [ResultIds -> ResultRows]
      BY <2>1, PinFacts DEF CacheInv, CacheRows
    <3> QED
      BY <1>6, <2>1, <3>1 DEF ResultRows
  <2>5. cleared[s] <= result'[e.result].version
    BY <2>1, <2>4 DEF CacheFresh, FreshEntries
  <2> DEFINE row == [flight[f] EXCEPT !.step = "finish", !.value = e.result]
  <2>6. flight' = [flight EXCEPT ![f] = row]
    BY <1>2, <1>6
  <2>7. row.scope = flight[f].scope /\ row.token = flight[f].token
    BY <1>2 DEF ExecutionRows
  <2> HIDE DEF row
  <2>8. FreshFlight(f)'
    BY <1>5, <1>6, <2>1, <2>5
  <2> QED
    BY <1>1, <2>2, <2>3, <2>6, <2>7, <2>8, OneFlightFresh
<1> DEFINE m == Min(FreeResults)
<1>7. CASE /\ scope[s].open /\ FreeResults # {}
           /\ result' = [result EXCEPT ![m] = [refs |-> 1, version |-> data[s]]]
           /\ flight' = [flight EXCEPT ![f].step = "store", ![f].value = m]
           /\ lru' = lru
  <2>1. m \in ResultIds /\ result[m].refs = 0
    <3>1. FreeResults \in SUBSET Nat
      BY CacheAssumption DEF FreeResults
    <3>2. m \in FreeResults
      BY <1>7, <3>1, MinIsLeast
    <3> QED
      BY <3>2 DEF FreeResults
  <2> HIDE DEF m
  <2>2. /\ result'[m].version = data[s]
        /\ \A r \in ResultIds \ {m} : result'[r] = result[r]
    <3>1. result \in [ResultIds -> ResultRows]
      BY DEF CacheInv, CacheRows
    <3> QED
      BY <1>7, <2>1, <3>1
  <2>3. VersionsStay
    BY <2>1, <2>2 DEF VersionsStay
  <2>4. cleared[s] <= result'[m].version
    BY <1>3, <2>2 DEF FreshScope
  <2> DEFINE row == [flight[f] EXCEPT !.step = "store", !.value = m]
  <2>5. flight' = [flight EXCEPT ![f] = row]
    BY <1>2, <1>7
  <2>6. row.scope = flight[f].scope /\ row.token = flight[f].token
    BY <1>2 DEF ExecutionRows
  <2> HIDE DEF row
  <2>7. FreshFlight(f)'
    BY <1>5, <1>7, <2>1, <2>4
  <2>8. \A d \in Listed(lru') : d \in Listed(lru)
    BY <1>7
  <2> QED
    BY <1>1, <2>3, <2>5, <2>6, <2>7, <2>8, OneFlightFresh
<1> QED
  BY <1>4, <1>5, <1>6, <1>7 DEF Run

(* The list after StoreArrow has no entries but the earlier ones and the new one. *)
LEMMA StoredList ==
  ASSUME CacheInv, NEW f \in FlightIds, NEW new, NEW pushed, NEW gone, Stores(f, new, pushed, gone)
  PROVE  /\ Listed(lru') \subseteq Listed(lru) \union {new}
         /\ new.scope = flight[f].scope /\ new.result = flight[f].value
<1>1. /\ flight[f].step = "store"
      /\ new = [scope |-> flight[f].scope, key |-> flight[f].key, result |-> flight[f].value]
      /\ pushed = <<new>> \o Remaining(lru, ReplacedEntry(new))
      /\ lru' = Enforced(pushed, flight[f].scope)
  BY DEF Stores, Without
<1>2. flight[f].scope \in CacheScopes /\ flight[f].key \in Keys /\ flight[f].value \in ResultIds
  BY <1>1, ExecutionFacts, SoleHolder DEF ExecutionOK
<1>3. new \in Entries
  BY <1>1, <1>2 DEF Entries
<1>4. \A o \in Listed(lru) \ ReplacedEntry(new) : ~(o.scope = new.scope /\ o.key = new.key)
  BY CachedIsListed DEF ReplacedEntry
<1> DEFINE p == <<new>> \o Remaining(lru, ReplacedEntry(new))
           d == Enforced(p, flight[f].scope)
<1>5. p \in Seq(Entries) /\ Listed(p) = {new} \union (Listed(lru) \ ReplacedEntry(new))
  BY <1>3, <1>4, EntryFacts, PushedFacts
<1>6. p = pushed
  BY <1>1
<1> HIDE DEF p
<1>7. Listed(d) \subseteq Listed(p)
  BY <1>2, <1>5, EnforcedFacts
<1>8. lru' = d
  BY <1>1, <1>6
<1> HIDE DEF d
<1> QED
  BY <1>1, <1>5, <1>7, <1>8

LEMMA StoreFresh ==
  ASSUME CacheInv, Held, Held', CacheFresh, NEW f \in FlightIds, Store(f)
  PROVE  CacheFresh'
<1>1. flight[f].step = "store" /\ UNCHANGED <<scope, data, cleared, closed, query>>
  BY DEF Store
<1>2. /\ flight[f] \in ExecutionRows /\ flight \in [FlightIds -> ExecutionRows]
  BY ExecutionFacts
<1>3. CASE /\ flight' = [flight EXCEPT ![f].step = "finish", ![f].failed = "cancelled", ![f].value = 0]
           /\ result' = Returned(One(flight[f].value))
           /\ UNCHANGED <<lru, usage>>
  <2> DEFINE row == [flight[f] EXCEPT !.step = "finish", !.failed = "cancelled", !.value = 0]
  <2>1. flight' = [flight EXCEPT ![f] = row]
    BY <1>2, <1>3
  <2>2. row.scope = flight[f].scope /\ row.token = flight[f].token /\ row.value = 0
    BY <1>2 DEF ExecutionRows
  <2> HIDE DEF row
  <2>3. VersionsStay /\ \A e \in Listed(lru') : e \in Listed(lru)
    BY <1>3, ReturnedVersions
  <2> QED
    BY <1>1, <2>1, <2>2, <2>3, OneFlightFresh
  (* The flight keeps its value. *)
<1>4. ASSUME flight' = [flight EXCEPT ![f].step = "finish"], VersionsStay,
             \A e \in Listed(lru') : e \in Listed(lru) \/ cleared[e.scope] <= result'[e.result].version
      PROVE  CacheFresh'
  <2> DEFINE row == [flight[f] EXCEPT !.step = "finish"]
  <2>1. flight' = [flight EXCEPT ![f] = row]
    BY <1>2, <1>4
  <2>2. row.scope = flight[f].scope /\ row.token = flight[f].token /\ row.value = flight[f].value
    BY <1>2 DEF ExecutionRows
  <2> HIDE DEF row
  <2> QED
    BY <1>1, <1>4, <2>1, <2>2, OneFlightFresh
<1>5. CASE flight' = [flight EXCEPT ![f].step = "finish"] /\ UNCHANGED <<lru, usage, result>>
  <2>1. VersionsStay /\ \A e \in Listed(lru') : e \in Listed(lru)
    BY <1>5 DEF VersionsStay
  <2> QED
    BY <1>4, <1>5, <2>1
<1> DEFINE new == [scope |-> flight[f].scope, key |-> flight[f].key, result |-> flight[f].value]
           pushed == <<new>> \o Without(ReplacedEntry(new))
           gone == (Cached \union {new}) \ Cached'
<1>6. CASE Stores(f, new, pushed, gone)
  <2>1. PICK n, p, g : Stores(f, n, p, g)
    BY <1>6
  <2>2. /\ flight' = [flight EXCEPT ![f].step = "finish"] /\ Storable(f)
        /\ result' = Returned([r \in ResultIds |-> HoldsIn(g, r) - One(n.result)[r]])
    BY <2>1 DEF Stores
  <2>3. VersionsStay
    BY <2>2, ReturnedVersions
  <2>4. /\ Listed(lru') \subseteq Listed(lru) \union {n}
        /\ n.scope = flight[f].scope /\ n.result = flight[f].value
    BY <2>1, StoredList
  <2>5. n \in Listed(lru') => cleared[n.scope] <= result'[n.result].version
    <3>1. flight[f].value # 0 /\ flight[f].value \in ResultIds /\ result[flight[f].value].refs # 0
      BY <1>1, SoleHolder, ZeroIsNoIdentity
    <3>2. cleared[flight[f].scope] <= result[flight[f].value].version
      BY <1>1, <2>2, <3>1 DEF CacheFresh, FreshFlight, Storable
    <3>3. n \in Listed(lru') => result'[n.result].refs # 0
      <4>1. Held' => \A d \in Listed(lru') : result'[d.result].refs # 0
        BY DEF Held, Listed
      <4> QED
        BY <4>1
    <3>4. n \in Listed(lru') => result'[n.result].version = result[n.result].version
      BY <2>3, <2>4, <3>1, <3>3 DEF VersionsStay
    <3> QED
      BY <2>4, <3>2, <3>4
  <2>6. \A e \in Listed(lru') : e \in Listed(lru) \/ cleared[e.scope] <= result'[e.result].version
    BY <2>4, <2>5
  <2> QED
    BY <1>4, <2>2, <2>3, <2>6
<1> QED
  BY <1>3, <1>5, <1>6 DEF Store, Stores

LEMMA FreshInit == CacheInit => CacheFresh
<1> SUFFICES ASSUME CacheInit PROVE CacheFresh
  OBVIOUS
<1>1. \A s \in CacheScopes : FreshScope(s)
  BY DEF CacheInit, FreshScope
<1>2. \A q \in Queries : FreshQuery(q)
  BY DEF CacheInit, FreshQuery, IdleQuery
<1>3. \A f \in FlightIds : FreshFlight(f)
  BY DEF CacheInit, FreshFlight, NoArrowFlight
<1>4. FreshLeases /\ FreshEntries
  BY DEF CacheInit, FreshLeases, FreshEntries, IdleQuery, Listed
<1> QED
  BY <1>1, <1>2, <1>3, <1>4 DEF CacheFresh

LEMMA FreshNext ==
  MaxIncarnations = 1 =>
    (CacheInv /\ Held /\ Held' /\ CacheFresh /\ [CacheNext]_cacheVars => CacheFresh')
<1> SUFFICES ASSUME MaxIncarnations = 1, CacheInv, Held, Held', CacheFresh, [CacheNext]_cacheVars
             PROVE  CacheFresh'
  OBVIOUS
<1>1. ASSUME NEW s \in CacheScopes, OpenScope(s) PROVE CacheFresh'
  BY <1>1, OpenScopeFresh
<1>2. ASSUME NEW s \in CacheScopes, RefreshData(s) PROVE CacheFresh'
  BY <1>2, RefreshDataFresh
<1>3. ASSUME NEW s \in CacheScopes, Invalidate(s) PROVE CacheFresh'
  BY <1>3, InvalidateFresh
<1>4. ASSUME NEW s \in CacheScopes, CloseScope(s) PROVE CacheFresh'
  BY <1>4, CloseScopeFresh
<1>5. CASE ClosePool
  BY <1>5, ClosePoolFresh
<1>6. ASSUME NEW q \in Queries, QueryStep(q) PROVE CacheFresh'
  BY <1>6, LookupFresh, JoinFresh, FlightDoneFresh DEF QueryStep
<1>7. ASSUME NEW q \in Queries, CancelQuery(q) \/ ReleaseLease(q) PROVE CacheFresh'
  BY <1>7, CancelQueryFresh, ReleaseLeaseFresh
<1>8. ASSUME NEW q \in Queries, NEW s \in CacheScopes, NEW k \in Keys, BeginQuery(q, s, k)
      PROVE  CacheFresh'
  BY <1>8, BeginQueryFresh
<1>9. ASSUME NEW f \in FlightIds, CacheFlightStep(f) PROVE CacheFresh'
  BY <1>9, RunFresh, StoreFresh, FinishFlightFresh DEF CacheFlightStep
<1>10. CASE UNCHANGED cacheVars
  <2>1. UNCHANGED <<scope, data, cleared, closed, lru, usage, result, flight, query>>
    BY <1>10 DEF cacheVars
  <2>2. VersionsStay
    BY <2>1 DEF VersionsStay
  <2>3. \A q \in Queries : QueryStays(q)
    BY <2>1 DEF QueryStays, Serves, Usable
  <2>4. \A f \in FlightIds : FlightStays(f)
    BY <2>1 DEF FlightStays
  <2> QED
    BY <2>1, <2>2, <2>3, <2>4, StepsFresh
<1> QED
  BY <1>1, <1>2, <1>3, <1>4, <1>5, <1>6, <1>7, <1>8, <1>9, <1>10 DEF CacheNext

(* While each scope identity is opened once, a query answers from data at least
   as new as when it began (resultcache/pool.go: Scope.Invalidate, LookupArrow,
   CoalesceArrow, StoreArrow; materialize/query_cache.go: cacheKey). *)
THEOREM NoQueryAnswersFromStaleData == MaxIncarnations = 1 => (CacheSpec => []NoStaleResults)
<1> SUFFICES ASSUME MaxIncarnations = 1 PROVE CacheSpec => []NoStaleResults
  OBVIOUS
<1>1. CacheInv /\ CacheFresh => NoStaleResults
  <2> SUFFICES ASSUME CacheInv, CacheFresh PROVE NoStaleResults
    OBVIOUS
  <2>1. \A q \in Queries : query[q].phase = "leased" =>
          query[q].since \in Nat /\ result[query[q].lease].version \in Nat
    BY CacheHolds DEF Held
  <2>2. \A e \in Cached : cleared[e.scope] \in Nat /\ result[e.result].version \in Nat
    BY CacheHolds, CachedIsListed DEF Held
  <2>3. /\ \A q \in Queries : query[q].phase = "leased" => query[q].since <= result[query[q].lease].version
        /\ \A e \in Cached : cleared[e.scope] <= result[e.result].version
    BY CachedIsListed DEF CacheFresh, FreshLeases, FreshEntries
  <2> QED
    BY <2>1, <2>2, <2>3 DEF NoStaleResults
<1>2. CacheInv /\ Held /\ Held' /\ CacheFresh /\ [CacheNext]_cacheVars => CacheFresh'
  BY FreshNext
<1>3. CacheSpec => []CacheFresh
  BY <1>2, FreshInit, CacheHolds, CacheInvariance, PTL DEF CacheSpec
<1> QED
  BY <1>1, <1>3, CacheInvariance, PTL

-----------------------------------------------------------------------------
(* The components that serve dashboards, side by side                      *)

(* A step of one of them is a step of that one and leaves the others alone. *)
LEMMA ServingSteps ==
  [MCNext]_mcVars => [StreamNext]_streamVars /\ [CacheNext]_cacheVars /\ [PoolNext]_poolVars
<1> SUFFICES ASSUME [MCNext]_mcVars
             PROVE  [StreamNext]_streamVars /\ [CacheNext]_cacheVars /\ [PoolNext]_poolVars
  OBVIOUS
<1>1. CASE UNCHANGED mcVars
  BY <1>1 DEF mcVars
<1>2. CASE MCNext
  <2>1. CASE StreamNext /\ UNCHANGED <<cacheVars, poolVars>>
    BY <2>1
  <2>2. CASE CacheNext /\ UNCHANGED <<streamVars, poolVars>>
    BY <2>2
  <2>3. CASE PoolNext /\ UNCHANGED <<streamVars, cacheVars>>
    BY <2>3
  <2> QED
    BY <1>2, <2>1, <2>2, <2>3 DEF MCNext
<1> QED
  BY <1>1, <1>2

(* Streams, cache and pools keep their types and their bookkeeping beside   *)
(* each other (dashboard/stream, resultcache, connections): each by its own *)
(* inductive invariant, which the others' steps do not touch.               *)
THEOREM ServingStaysConsistent == MCSpec => []ServingConsistent
<1> DEFINE ServingInv == StreamInv /\ CacheInv /\ PoolsInv
<1>1. MCInit => ServingInv
  BY StreamInitInv, CacheInitInv, PoolInitInv DEF MCInit
<1>2. ServingInv /\ [MCNext]_mcVars => ServingInv'
  BY ServingSteps, StreamNextInv, CacheNextInv, PoolNextInv
<1>3. ServingInv => ServingConsistent
  BY StreamInvConsistent, CacheInvConsistent, PoolsInvConsistent DEF ServingConsistent
<1> QED
  BY <1>1, <1>2, <1>3, PTL DEF MCSpec
=============================================================================
