----------------------------- MODULE DataLemmas -----------------------------
(* Facts about numbers and sequences that the proofs of several modules need. *)
EXTENDS Integers, SequencesExt, FiniteSetsExt, SequenceTheorems, FiniteSetTheorems,
        WellFoundedInduction, TLAPS

(* The natural numbers are well founded. *)
Less == {p \in Nat \X Nat : p[1] < p[2]}

LEMMA LessWellFounded == IsWellFoundedOn(Less, Nat)
BY NatLessThanWellFounded DEF OpToRel, Less

(* A set of numbers that is not empty has a least one. *)
LEMMA LeastOf ==
  ASSUME NEW S \in SUBSET Nat, S # {}
  PROVE  \E m \in S : \A k \in S : m <= k
<1>1. PICK m \in S : \A k \in S : ~(<<k, m>> \in Less)  BY LessWellFounded, WFMin
<1>2. \A i, j \in Nat : i < j => <<i, j>> \in Less  BY DEF Less
<1>3. ASSUME NEW k \in S PROVE m <= k
  <2>1. ~(k < m)  BY <1>1, <1>2
  <2> QED  BY <2>1
<1> QED  BY <1>3

(* A bounded set of numbers has its maximum. *)
LEMMA MaxOfBounded ==
  ASSUME NEW n \in Nat, NEW S \in SUBSET (0 .. n), S # {}
  PROVE  Max(S) \in S /\ \A x \in S : x <= Max(S)
<1> DEFINE T == {n - x : x \in S}
<1>1. IsWellFoundedOn(Less, Nat)  BY LessWellFounded
<1>2. T \subseteq Nat /\ T # {}
  <2>1. \A x \in S : x \in 0 .. n  OBVIOUS
  <2>2. \A x \in S : n - x \in Nat  BY <2>1
  <2>3. PICK x \in S : TRUE  OBVIOUS
  <2>4. n - x \in T  BY <2>3
  <2> QED  BY <2>2, <2>4
<1>3. \A i, j \in Nat : i < j => <<i, j>> \in Less  BY DEF Less
<1>4. PICK t \in T : \A u \in T : ~(<<u, t>> \in Less)
  <2> HIDE DEF T
  <2> QED  BY <1>1, <1>2, WFMin
<1>5. PICK x \in S : t = n - x  BY <1>4
<1>6. \A y \in S : y <= x
  <2> SUFFICES ASSUME NEW y \in S PROVE y <= x  OBVIOUS
  <2>1. n - y \in T /\ n - y \in Nat /\ n - x \in Nat  OBVIOUS
  <2>2. ~(n - y < n - x)  BY <1>3, <1>4, <1>5, <2>1
  <2> QED  BY <2>2
<1>7. \E m \in S : \A y \in S : m >= y  BY <1>6
<1>8. Max(S) \in S /\ \A y \in S : Max(S) >= y  BY <1>7 DEF Max
<1> QED  BY <1>8

(* Among finitely many indices one has the highest value. *)
LEMMA HighestIndex ==
  ASSUME NEW n \in Nat, NEW f \in [1 .. n -> Int], NEW S \in SUBSET (1 .. n), S # {}
  PROVE  \E i \in S : \A j \in S : f[j] <= f[i]
<1> DEFINE Highest(T) == \E i \in T : \A j \in T : f[j] <= f[i]
           Bad == {m \in 0 .. n : \E T \in SUBSET (1 .. m) : T # {} /\ ~Highest(T)}
<1>1. SUFFICES ASSUME Bad # {} PROVE FALSE
  <2>1. ~Highest(S) => n \in Bad  OBVIOUS
  <2> QED  BY <1>1, <2>1
<1>2. Bad \in SUBSET Nat  OBVIOUS
<1>3. PICK m \in Bad : \A k \in Bad : m <= k
  <2> HIDE DEF Bad
  <2> QED  BY <1>1, <1>2, LeastOf
<1>4. m \in 0 .. n  BY <1>3
<1>5. PICK T \in SUBSET (1 .. m) : T # {} /\ ~Highest(T)  BY <1>3
<1>6. m # 0
  <2>1. SUFFICES ASSUME m = 0 PROVE FALSE  OBVIOUS
  <2>2. 1 .. m = {}  BY <2>1
  <2> QED  BY <1>5, <2>2
<1>7. m - 1 \notin Bad /\ m - 1 \in 0 .. n
  <2>1. m - 1 \in 0 .. n /\ ~(m <= m - 1)  BY <1>4, <1>6
  <2> QED  BY <1>3, <2>1
<1>8. \A U \in SUBSET (1 .. m - 1) : U # {} => Highest(U)  BY <1>7
<1>9. T \ {m} \in SUBSET (1 .. m - 1)  BY <1>4
<1>10. \A j \in 1 .. m : f[j] \in Int  BY <1>4
<1>11. m \in T
  <2>1. m \notin T => T \ {m} = T  OBVIOUS
  <2> QED  BY <1>5, <1>8, <1>9, <2>1
<1>12. CASE T \ {m} = {}
  <2>1. \A j \in T : f[j] <= f[m]  BY <1>10, <1>11, <1>12
  <2> QED  BY <1>5, <1>11, <2>1
<1>13. CASE T \ {m} # {}
  <2>1. PICK i \in T \ {m} : \A j \in T \ {m} : f[j] <= f[i]  BY <1>8, <1>9, <1>13
  <2>2. f[i] \in Int /\ f[m] \in Int /\ \A j \in T : f[j] \in Int  BY <1>10, <1>11
  <2>3. CASE f[m] <= f[i]
    <3>1. \A j \in T : f[j] <= f[i]  BY <2>1, <2>3
    <3> QED  BY <1>5, <3>1
  <2>4. CASE f[i] < f[m]
    <3>1. \A j \in T : f[j] <= f[m]  BY <2>1, <2>2, <2>4
    <3> QED  BY <1>5, <1>11, <3>1
  <2> QED  BY <2>2, <2>3, <2>4
<1> QED  BY <1>12, <1>13

(* A set of numbers that is not empty has its minimum. *)
LEMMA MinOfNumbers ==
  ASSUME NEW S \in SUBSET Nat, S # {}
  PROVE  Min(S) \in S /\ \A x \in S : Min(S) <= x
<1>1. \E m \in S : \A k \in S : m <= k  BY LeastOf
<1> QED  BY <1>1 DEF Min

(* The numbers of a finite set are its first, its second, and so on. *)
LEMMA NthNumber ==
  ASSUME NEW n \in Nat, NEW A \in SUBSET (1 .. n)
  PROVE  /\ Cardinality(A) \in Nat
         /\ \A k \in 1 .. Cardinality(A) : \E i \in A : Cardinality({j \in A : j <= i}) = k
         /\ \A i \in A : Cardinality({j \in A : j <= i}) \in 1 .. Cardinality(A)
<1> DEFINE rank == [i \in A |-> Cardinality({j \in A : j <= i})]
           c == Cardinality(A)
<1>1. IsFiniteSet(A) /\ c \in Nat
  <2>1. IsFiniteSet(1 .. n)  BY FS_Interval
  <2> QED  BY <2>1, FS_Subset, FS_CardinalityType
<1>2. \A i \in A : /\ IsFiniteSet({j \in A : j <= i})
                   /\ Cardinality({j \in A : j <= i}) \in Nat
                   /\ Cardinality({j \in A : j <= i}) <= c
                   /\ Cardinality({j \in A : j <= i}) # 0
  <2> SUFFICES ASSUME NEW i \in A
               PROVE  /\ IsFiniteSet({j \in A : j <= i})
                      /\ Cardinality({j \in A : j <= i}) \in Nat
                      /\ Cardinality({j \in A : j <= i}) <= c
                      /\ Cardinality({j \in A : j <= i}) # 0
    OBVIOUS
  <2> DEFINE B == {j \in A : j <= i}
  <2>1. B \in SUBSET A /\ i \in B  OBVIOUS
  <2> HIDE DEF B
  <2>2. IsFiniteSet(B) /\ Cardinality(B) \in Nat /\ Cardinality(B) <= c
    BY <1>1, <2>1, FS_Subset, FS_CardinalityType
  <2>3. Cardinality(B) # 0  BY <2>1, <2>2, FS_EmptySet
  <2> QED  BY <2>2, <2>3 DEF B
<1>3. rank \in [A -> 1 .. c]
  <2>1. \A i \in A : Cardinality({j \in A : j <= i}) \in 1 .. c
    <3> HIDE DEF c
    <3> QED  BY <1>1, <1>2
  <2> QED  BY <2>1
<1>4. \A i, k \in A : i # k => rank[i] # rank[k]
  <2>1. ASSUME NEW i \in A, NEW k \in A, i < k PROVE rank[i] # rank[k]
    <3> DEFINE B == {j \in A : j <= i}
               D == {j \in A : j <= k}
    <3>1. B \in SUBSET D /\ k \in D /\ k \notin B
      <4>1. \A j \in A : j \in Nat  OBVIOUS
      <4>2. i \in Nat /\ k \in Nat /\ k <= k /\ ~(k <= i)  BY <2>1, <4>1
      <4>3. \A j \in A : j <= i => j <= k  BY <2>1, <4>1, <4>2
      <4> QED  BY <4>2, <4>3
    <3>2. IsFiniteSet(D)  BY <1>2
    <3>3. rank[i] = Cardinality(B) /\ rank[k] = Cardinality(D)  OBVIOUS
    <3> HIDE DEF B, D, rank
    <3>4. B # D  BY <3>1
    <3> QED  BY <3>1, <3>2, <3>3, <3>4, FS_Subset
  <2>2. \A i, k \in A : i # k => i < k \/ k < i  OBVIOUS
  <2> HIDE DEF rank
  <2> QED  BY <2>1, <2>2
<1>5. rank \in Surjection(A, 1 .. c)
  <2> HIDE DEF rank
  <2>1. rank \in Injection(A, 1 .. c)  BY <1>3, <1>4 DEF Injection, IsInjective
  <2>2. IsFiniteSet(1 .. c) /\ Cardinality(1 .. c) = c
    <3>1. c \in Int /\ 1 \in Int  BY <1>1
    <3> HIDE DEF c
    <3>2. Cardinality(1 .. c) = IF 1 > c THEN 0 ELSE c - 1 + 1  BY <3>1, FS_Interval
    <3> QED  BY <1>1, <3>1, <3>2, FS_Interval
  <2> QED  BY <2>1, <2>2, FS_Injection
<1>6. \A k \in 1 .. c : \E i \in A : rank[i] = k
  <2> HIDE DEF rank, c
  <2> QED  BY <1>5 DEF Surjection
<1> QED  BY <1>1, <1>3, <1>6

-----------------------------------------------------------------------------
(* Sequences. *)

(* A sequence is a prefix of itself and of what is appended to it. *)
LEMMA PrefixOfConcat ==
  ASSUME NEW S, NEW s \in Seq(S), NEW t \in Seq(S)
  PROVE  IsPrefix(s, s) /\ IsPrefix(s, s \o t)
<1>1. Len(s) \in Nat /\ Len(s \o t) = Len(s) + Len(t) /\ Len(t) \in Nat /\ s \o t \in Seq(S)
      /\ \A i \in 1 .. Len(s) : (s \o t)[i] = s[i]
  BY ConcatProperties
<1>2. SubSeq(s, 1, Len(s)) = s  BY SubSeqFull
<1>3. SubSeq(s \o t, 1, Len(s)) = s
  <2> DEFINE u == SubSeq(s \o t, 1, Len(s))
  <2>1. u \in Seq(S) /\ Len(u) = Len(s) /\ \A i \in 1 .. Len(s) : u[i] = (s \o t)[i]
    BY <1>1
  <2> HIDE DEF u
  <2>2. u = s  BY <1>1, <2>1, SeqEqual
  <2> QED  BY <2>2 DEF u
<1> QED  BY <1>1, <1>2, <1>3 DEF IsPrefix

(* Nothing extends the empty text but what starts with it: every text. *)
LEMMA EmptyPrefix == ASSUME NEW S, NEW s \in Seq(S) PROVE IsPrefix(<<>>, s)
BY DEF IsPrefix

(* The last entry of a sequence that is not empty. *)
LEMMA LastEntry ==
  ASSUME NEW S, NEW s \in Seq(S), Len(s) # 0
  PROVE  Last(s) = s[Len(s)] /\ Len(s) \in 1 .. Len(s) /\ Last(s) \in S
<1>1. Len(s) \in 1 .. Len(s)  OBVIOUS
<1>2. s[Len(s)] \in S  BY <1>1, ElementOfSeq
<1> QED  BY <1>1, <1>2 DEF Last

(* The first n entries of a sequence. *)
LEMMA FirstEntries ==
  ASSUME NEW S, NEW s \in Seq(S), NEW n \in 0 .. Len(s)
  PROVE  /\ SubSeq(s, 1, n) \in Seq(S) /\ Len(SubSeq(s, 1, n)) = n
         /\ \A i \in 1 .. n : SubSeq(s, 1, n)[i] = s[i]
<1>1. Len(s) \in Nat /\ n \in Nat  OBVIOUS
<1>2. \A i \in 1 .. n : s[i] \in S  BY <1>1
<1> QED  BY <1>1, <1>2

(* Two sequences that agree on their first n entries have them in common. *)
LEMMA SameFirst ==
  ASSUME NEW S, NEW s \in Seq(S), NEW t \in Seq(S), NEW n \in Nat,
         n <= Len(s), n <= Len(t), \A i \in 1 .. n : s[i] = t[i]
  PROVE  SubSeq(s, 1, n) = SubSeq(t, 1, n)
<1> DEFINE u == SubSeq(s, 1, n)
           v == SubSeq(t, 1, n)
<1>1. n \in 0 .. Len(s) /\ n \in 0 .. Len(t)  OBVIOUS
<1>2. u \in Seq(S) /\ Len(u) = n /\ \A i \in 1 .. n : u[i] = s[i]  BY <1>1, FirstEntries
<1>3. v \in Seq(S) /\ Len(v) = n /\ \A i \in 1 .. n : v[i] = t[i]  BY <1>1, FirstEntries
<1> HIDE DEF u, v
<1>4. u = v  BY <1>2, <1>3, SeqEqual
<1> QED  BY <1>4 DEF u, v

(* Prefixes are transitive. *)
LEMMA PrefixTransitive ==
  ASSUME NEW S, NEW s \in Seq(S), NEW t \in Seq(S), NEW u \in Seq(S),
         IsPrefix(s, t), IsPrefix(t, u)
  PROVE  IsPrefix(s, u)
<1>1. Len(s) \in Nat /\ Len(t) \in Nat /\ Len(u) \in Nat
      /\ Len(s) <= Len(t) /\ Len(t) <= Len(u)
  BY DEF IsPrefix
<1>2. \A i \in 1 .. Len(s) : s[i] = t[i] /\ t[i] = u[i]
  <2> SUFFICES ASSUME NEW i \in 1 .. Len(s) PROVE s[i] = t[i] /\ t[i] = u[i]  OBVIOUS
  <2>1. SubSeq(s, 1, Len(s))[i] = s[i] /\ SubSeq(t, 1, Len(s))[i] = t[i]  BY <1>1
  <2>2. SubSeq(t, 1, Len(t))[i] = t[i] /\ SubSeq(u, 1, Len(t))[i] = u[i]  BY <1>1
  <2> QED  BY <2>1, <2>2 DEF IsPrefix
<1>3. SubSeq(s, 1, Len(s)) = SubSeq(u, 1, Len(s))
  <2> DEFINE v == SubSeq(u, 1, Len(s))
  <2>1. v \in Seq(S) /\ Len(v) = Len(s) /\ \A i \in 1 .. Len(s) : v[i] = u[i]  BY <1>1
  <2> HIDE DEF v
  <2>2. s = v  BY <1>2, <2>1, SeqEqual
  <2> QED  BY <2>2, SubSeqFull DEF v
<1> QED  BY <1>1, <1>3 DEF IsPrefix
-----------------------------------------------------------------------------
(* Flattening a sequence of sequences. *)

(* The function that FlattenSeq is defined by exists. *)
LEMMA FlattenExists ==
  ASSUME NEW S, NEW s \in Seq(Seq(S)), NEW n \in Nat, n <= Len(s)
  PROVE  \E g : g = [i \in 1 .. n |-> IF i = 1 THEN s[i] ELSE g[i - 1] \o s[i]]
<1> DEFINE Fits(g, m) == g = [i \in 1 .. m |-> IF i = 1 THEN s[i] ELSE g[i - 1] \o s[i]]
           Bad == {m \in 0 .. n : ~\E g : Fits(g, m)}
<1>1. SUFFICES ASSUME Bad # {} PROVE FALSE
  <2>1. n \in 0 .. n  OBVIOUS
  <2>2. n \notin Bad  BY <1>1
  <2>3. \E g : Fits(g, n)  BY <2>1, <2>2
  <2> QED  BY <2>3
<1>2. PICK m \in Bad : \A k \in Bad : m <= k
  <2>1. Bad \subseteq 0 .. n /\ 0 .. n \subseteq Nat
    <3> HIDE DEF Fits
    <3> QED  OBVIOUS
  <2> HIDE DEF Bad
  <2> QED  BY <1>1, <2>1, LeastOf
<1>3. m # 0
  <2>1. Fits([i \in {} |-> 0], 0)  OBVIOUS
  <2> HIDE DEF Fits
  <2> QED  BY <2>1
<1>4. m - 1 \notin Bad /\ m \in 0 .. n /\ m - 1 \in 0 .. n
  <2>1. m \in 0 .. n  BY Zenon
  <2> HIDE DEF Bad
  <2>2. m - 1 \in 0 .. n /\ ~(m <= m - 1)  BY <1>3, <2>1
  <2> QED  BY <1>2, <2>1, <2>2
<1>5. PICK g : Fits(g, m - 1)  BY <1>4
<1> DEFINE h == [i \in 1 .. m |-> IF i < m THEN g[i]
                                  ELSE IF i = 1 THEN s[i] ELSE g[i - 1] \o s[i]]
<1>6. Fits(h, m)
  <2>1. ASSUME NEW i \in 1 .. m
        PROVE  h[i] = IF i = 1 THEN s[i] ELSE h[i - 1] \o s[i]
    <3>1. CASE i = m
      <4>1. i # 1 => h[i - 1] = g[i - 1]  BY <1>4, <3>1
      <4> QED  BY <3>1, <4>1
    <3>2. CASE i < m
      <4>1. h[i] = g[i] /\ i \in 1 .. m - 1  BY <1>4, <3>2
      <4>2. g[i] = IF i = 1 THEN s[i] ELSE g[i - 1] \o s[i]  BY <1>5, <4>1
      <4>3. i # 1 => h[i - 1] = g[i - 1]  BY <1>4, <3>2
      <4> QED  BY <4>1, <4>2, <4>3
    <3> QED  BY <1>4, <3>1, <3>2
  <2>2. h = [i \in 1 .. m |-> h[i]]  OBVIOUS
  <2> HIDE DEF h
  <2> QED  BY <2>1, <2>2
<1> QED
  <2> HIDE DEF h, Fits
  <2> QED  BY <1>2, <1>6

(* What is appended to a sequence of sequences comes last in its flattening. *)
LEMMA FlattenAppend ==
  ASSUME NEW S, NEW s \in Seq(Seq(S)), NEW x \in Seq(S)
  PROVE  /\ FlattenSeq(s) \in Seq(S)
         /\ FlattenSeq(Append(s, x)) = FlattenSeq(s) \o x
<1> DEFINE t == Append(s, x)
           n == Len(s)
           Def(g, r, m) == g = [i \in 1 .. m |-> IF i = 1 THEN r[i] ELSE g[i - 1] \o r[i]]
           f == CHOOSE g : Def(g, s, n)
           h == CHOOSE g : Def(g, t, n + 1)
<1>1. /\ t \in Seq(Seq(S)) /\ Len(t) = n + 1 /\ n \in Nat /\ t[n + 1] = x
      /\ \A i \in 1 .. n : t[i] = s[i]
  OBVIOUS
<1>2. Def(f, s, n)
  <2>1. n <= Len(s)  BY <1>1
  <2>2. \E g : Def(g, s, n)  BY <1>1, <2>1, FlattenExists
  <2> HIDE DEF Def
  <2> QED  BY <2>2
<1>3. Def(h, t, n + 1)
  <2>1. n + 1 <= Len(t) /\ n + 1 \in Nat  BY <1>1
  <2> HIDE DEF t
  <2>2. \E g : Def(g, t, n + 1)  BY <1>1, <2>1, FlattenExists
  <2> HIDE DEF Def
  <2> QED  BY <2>2
<1>4. FlattenSeq(s) = IF n = 0 THEN s ELSE f[n]  BY DEF FlattenSeq
<1>5. FlattenSeq(t) = h[n + 1]
  <2>1. Len(t) = n + 1 /\ Len(t) # 0  BY <1>1
  <2>2. FlattenSeq(t) = (CHOOSE g : Def(g, t, Len(t)))[Len(t)]
    <3> HIDE DEF t
    <3> QED  BY <2>1 DEF FlattenSeq
  <2> HIDE DEF t, Def
  <2> QED  BY <2>1, <2>2
<1> HIDE DEF f, h, t
<1>6. \A i \in 1 .. n : f[i] = h[i] /\ f[i] \in Seq(S)
  <2> DEFINE Bad == {i \in 1 .. n : ~(f[i] = h[i] /\ f[i] \in Seq(S))}
  <2>1. SUFFICES ASSUME Bad # {} PROVE FALSE  OBVIOUS
  <2>2. PICK k \in Bad : \A j \in Bad : k <= j
    <3>1. Bad \subseteq 1 .. n  BY Zenon
    <3> HIDE DEF Bad, n
    <3>2. Bad \in SUBSET Nat  BY <3>1
    <3> QED  BY <2>1, <3>2, LeastOf
  <2>3. k \in 1 .. n /\ k \in 1 .. n + 1 /\ s[k] = t[k] /\ s[k] \in Seq(S)  BY <1>1
  <2>4. f[k] = (IF k = 1 THEN s[k] ELSE f[k - 1] \o s[k])  BY <1>2, <2>3
  <2>5. h[k] = (IF k = 1 THEN t[k] ELSE h[k - 1] \o t[k])  BY <1>3, <2>3
  <2>6. k # 1 => f[k - 1] = h[k - 1] /\ f[k - 1] \in Seq(S)
    <3>1. k # 1 => k - 1 \in 1 .. n /\ ~(k <= k - 1)
      <4>1. k \in 1 .. n /\ n \in Nat  BY <1>1, <2>3
      <4> HIDE DEF Bad, n
      <4> QED  BY <4>1
    <3>2. k # 1 => k - 1 \notin Bad
      <4> HIDE DEF Bad
      <4> QED  BY <2>2, <3>1
    <3> QED  BY <3>1, <3>2
  <2>7. f[k] = h[k] /\ f[k] \in Seq(S)
    <3>1. CASE k = 1  BY <2>3, <2>4, <2>5, <3>1
    <3>2. CASE k # 1
      <4>1. f[k - 1] \o s[k] \in Seq(S)  BY <2>3, <2>6, <3>2, ConcatProperties
      <4> QED  BY <2>3, <2>4, <2>5, <2>6, <3>2, <4>1
    <3> QED  BY <3>1, <3>2
  <2> QED  BY <2>2, <2>7
<1>7. h[n + 1] = IF n + 1 = 1 THEN t[n + 1] ELSE h[n] \o t[n + 1]
  <2>1. n + 1 \in 1 .. n + 1 /\ (n + 1) - 1 = n  BY <1>1
  <2> QED  BY <1>3, <2>1
<1>8. CASE n = 0
  <2>1. s = <<>>  BY <1>8
  <2>2. <<>> \o x = x  OBVIOUS
  <2> QED  BY <1>1, <1>4, <1>5, <1>7, <1>8, <2>1, <2>2 DEF t
<1>9. CASE n # 0
  <2>1. n \in 1 .. n  BY <1>1, <1>9
  <2>2. f[n] = h[n] /\ f[n] \in Seq(S)  BY <1>6, <2>1
  <2>3. FlattenSeq(t) = FlattenSeq(s) \o x  BY <1>1, <1>4, <1>5, <1>7, <1>9, <2>2
  <2> QED  BY <1>4, <1>9, <2>2, <2>3 DEF t
<1> QED  BY <1>8, <1>9
=============================================================================
