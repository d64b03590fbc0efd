----------------------- MODULE AcceptancePolicy_proofs -----------------------
(* Theorems about AcceptancePolicy, for every configuration, source map, draft and
   attention. *)
EXTENDS AcceptancePolicy, DataLemmas

(* Nothing of a unit is left behind a cut at n. *)
Boundary(n) == n = 0 \/ (n < Len(draft) /\ draft[n + 1].starts)

(* What has been left of the draft after the trim of the boundary unit. *)
Trimmed == phase \in {"regress", "cut"} \/ (phase = "done" /\ Checked)
Result == IF phase = "done" THEN accepted ELSE IF phase = "cut" THEN upto ELSE kept

FiniteUpTo(n) == \A i \in 1 .. n : draft[i].finite

(* The draft came back inside the frontier at n or later. *)
InsideFrom(n) ==
  cfg.frontier_action = "trim_unrecovered" /\ n > 0
    => \E j \in n .. Len(draft) : ~AtFrontier(draft[j])

(* The patience was not exhausted at the unit that ends at e, or the draft recovered. *)
Spared(e) ==
  /\ cfg.regression_action = "trim_target_unit" => Cardinality(Run(e)) < Patience
  /\ cfg.regression_action = "trim_unrecovered" =>
       \/ Cardinality(Run(e)) < Patience
       \/ \E f \in UnitEnds(kept) : f > e /\ ~Behind(f)

(* What a gate on regressions promises of the first n candidates. *)
Progressing(n) ==
  PlainRegression => \A e \in UnitEnds(kept) : e <= n /\ Behind(e) => Spared(e)

(* The candidate units that end after a and not after b. *)
Between(a, b) == {e \in UnitEnds(kept) : a < e /\ e <= b}

(* The trusted positions are those of the units before, and none of these is ahead of
   them. *)
TrustedOf(n) ==
  /\ \A k \in 1 .. Len(trusted) : \E i \in 1 .. n : trusted[k] = draft[i].pos
  /\ \A i \in 1 .. n :
       draft[i].pos = NoPos \/ \E k \in 1 .. Len(trusted) : trusted[k] >= draft[i].pos

WalkInv ==
  /\ phase \in {"walk", "trim"} => upto = 0 /\ pending = NoPos
  /\ phase = "walk" => unsafe = 0
  /\ phase = "walk" /\ Checked => FiniteUpTo(Len(draft))
  /\ phase = "trim" /\ Checked => FiniteUpTo(kept)
  /\ phase = "trim" /\ unsafe # 0 /\ draft[unsafe].starts => kept = unsafe - 1

TrimInv ==
  Trimmed =>
    /\ Result \in 0 .. kept /\ Boundary(Result)
    /\ FiniteUpTo(Result) /\ InsideFrom(Result)
    /\ phase # "regress" => Progressing(Result)

(* The suffix that a trim would drop now: units that fell behind, as many as the streak
   counts, after one that did not. *)
SuffixInv ==
  /\ TrustedOf(upto) /\ Progressing(PendingTrim)
  /\ PendingTrim = 0 \/ ~Behind(PendingTrim)
  /\ \A e \in Between(PendingTrim, upto) : Behind(e)
  /\ streak = Cardinality(Between(PendingTrim, upto))
  /\ cfg.regression_action = "trim_target_unit" => streak < Patience

RegressInv ==
  phase = "regress" =>
    /\ upto \in {0} \cup UnitEnds(kept)
    /\ pending \in {NoPos, 0} \cup UnitEnds(kept) /\ pending <= upto
    /\ PlainRegression => SuffixInv

IndInv == TypeOK /\ WalkInv /\ TrimInv /\ RegressInv

-----------------------------------------------------------------------------
(* Units. *)

(* The unit of a token begins at the last token before it that opens one. *)
LEMMA UnitStartProps ==
  ASSUME NEW i \in Nat, i >= 1
  PROVE  /\ UnitStart(i) \in 1 .. i
         /\ UnitStart(i) = 1 \/ draft[UnitStart(i)].starts
         /\ \A x \in 1 .. i : x > UnitStart(i) => ~draft[x].starts
<1>1. Starts(i) \in SUBSET (0 .. i) /\ 1 \in Starts(i)  BY DEF Starts
<1>2. Starts(i) # {}  BY <1>1
<1>3. UnitStart(i) \in Starts(i) /\ \A x \in Starts(i) : x <= UnitStart(i)
  <2> HIDE DEF Starts
  <2> QED  BY <1>1, <1>2, MaxOfBounded DEF UnitStart
<1>4. UnitStart(i) \in 1 .. i /\ (UnitStart(i) = 1 \/ draft[UnitStart(i)].starts)
  BY <1>3 DEF Starts
<1>5. \A x \in 1 .. i : x > UnitStart(i) => x \notin Starts(i)  BY <1>3, <1>4
<1>6. \A x \in 1 .. i : draft[x].starts => x \in Starts(i)  BY DEF Starts
<1> QED  BY <1>4, <1>5, <1>6

(* The last token ends a unit. *)
LEMMA EndsProps ==
  ASSUME NEW n \in Nat
  PROVE  /\ UnitEnds(n) \in SUBSET (1 .. n)
         /\ n > 0 => n \in UnitEnds(n)
         /\ \A e \in UnitEnds(n) : e = n \/ draft[e + 1].starts
         /\ IsFiniteSet(UnitEnds(n)) /\ Cardinality(UnitEnds(n)) \in Nat
<1>1. UnitEnds(n) \in SUBSET (1 .. n)  BY DEF UnitEnds
<1>2. IsFiniteSet(1 .. n)  BY FS_Interval
<1>3. IsFiniteSet(UnitEnds(n)) /\ Cardinality(UnitEnds(n)) \in Nat
  BY <1>1, <1>2, FS_Subset, FS_CardinalityType
<1> QED  BY <1>1, <1>3 DEF UnitEnds

(* What is kept of n tokens ends with a unit. *)
LEMMA KeepProps ==
  ASSUME NEW n \in Nat, NEW m \in Int
  PROVE  /\ KeepUnits(n, m) \in {0} \cup UnitEnds(n)
         /\ KeepUnits(n, m) = n /\ n > 0 => Cardinality(UnitEnds(n)) <= m
<1> DEFINE K == {0} \cup {e \in UnitEnds(n) :
                            Cardinality({x \in UnitEnds(n) : x <= e}) <= m}
<1>1. K \in SUBSET (0 .. n) /\ 0 \in K /\ K \in SUBSET ({0} \cup UnitEnds(n))
  BY EndsProps
<1>2. KeepUnits(n, m) = Max(K)  BY DEF KeepUnits
<1>3. Max(K) \in K
  <2> HIDE DEF K
  <2>1. K # {}  BY <1>1
  <2> QED  BY <1>1, <2>1, MaxOfBounded
<1>4. ASSUME n \in K, n > 0 PROVE Cardinality(UnitEnds(n)) <= m
  <2>1. n \in UnitEnds(n) /\ Cardinality({x \in UnitEnds(n) : x <= n}) <= m  BY <1>4
  <2>2. {x \in UnitEnds(n) : x <= n} = UnitEnds(n)
    <3>1. \A x \in UnitEnds(n) : x \in 1 .. n  BY EndsProps
    <3> QED  BY <3>1
  <2> QED  BY <2>1, <2>2
<1> HIDE DEF K
<1> QED  BY <1>1, <1>2, <1>3, <1>4

(* What is left after a cut of at least one unit ends with an earlier unit. *)
LEMMA CutProps ==
  ASSUME NEW n \in Nat, NEW m \in Int
  PROVE  /\ CutUnits(n, m) \in {0, n} \cup UnitEnds(n)
         /\ m > 0 => /\ CutUnits(n, m) \in {0} \cup UnitEnds(n)
                     /\ n > 0 => CutUnits(n, m) # n
<1> DEFINE c == Cardinality(UnitEnds(n))
<1>1. c \in Nat  BY EndsProps
<1> HIDE DEF c
<1>2. c - m \in Int /\ (m > 0 => ~(c <= c - m))  BY <1>1
<1>3. CutUnits(n, m) = IF m <= 0 THEN n ELSE KeepUnits(n, c - m)  BY DEF CutUnits, c
<1>4. /\ KeepUnits(n, c - m) \in {0} \cup UnitEnds(n)
      /\ KeepUnits(n, c - m) = n /\ n > 0 => c <= c - m
  BY <1>2, KeepProps DEF c
<1> QED  BY <1>2, <1>3, <1>4

(* A unit of the first n tokens that ends before n is a boundary. *)
LEMMA EndBoundary ==
  ASSUME NEW n \in 0 .. Len(draft), NEW e \in {0} \cup UnitEnds(n), e < n \/ Boundary(n),
         draft \in Seq(Tokens)
  PROVE  e \in 0 .. n /\ Boundary(e)
<1>1. Len(draft) \in Nat /\ n \in Nat  OBVIOUS
<1>2. CASE e = 0  BY <1>1, <1>2 DEF Boundary
<1>3. CASE e \in UnitEnds(n)
  <2>1. e \in 1 .. n /\ (e = n \/ draft[e + 1].starts)  BY <1>1, <1>3, EndsProps
  <2>2. e = n => Boundary(e)  OBVIOUS
  <2>3. e < n => Boundary(e)  BY <1>1, <2>1 DEF Boundary
  <2> QED  BY <1>1, <2>1, <2>2, <2>3
<1> QED  BY <1>2, <1>3

(* So is the token before a unit. *)
LEMMA StartBoundary ==
  ASSUME NEW i \in 1 .. Len(draft), draft \in Seq(Tokens)
  PROVE  UnitStart(i) - 1 \in 0 .. i - 1 /\ Boundary(UnitStart(i) - 1)
<1>1. Len(draft) \in Nat /\ i \in Nat /\ i >= 1 /\ i <= Len(draft)  OBVIOUS
<1>2. UnitStart(i) \in 1 .. i /\ (UnitStart(i) = 1 \/ draft[UnitStart(i)].starts)
  BY <1>1, UnitStartProps
<1>3. (UnitStart(i) - 1) + 1 = UnitStart(i) /\ UnitStart(i) - 1 \in 0 .. i - 1  BY <1>1, <1>2
<1> QED  BY <1>1, <1>2, <1>3 DEF Boundary
-----------------------------------------------------------------------------
(* The trims. *)

LEMMA Typed ==
  ASSUME TypeOK
  PROVE  /\ cfg \in ConfigType /\ req \in RequestType /\ draft \in Seq(TokenType)
         /\ Len(draft) \in Nat
         /\ \A i \in 1 .. Len(draft) : draft[i] \in Tokens /\ draft[i] \in TokenType
<1>1. Configs \subseteq ConfigType /\ Requests \subseteq RequestType /\ Tokens \subseteq TokenType
  BY AcceptancePolicyAssumption
<1>2. draft \in Seq(Tokens) /\ draft \in Seq(TokenType)  BY <1>1, SeqMonotonic DEF TypeOK
<1>3. Len(draft) \in Nat /\ \A i \in 1 .. Len(draft) : draft[i] \in Tokens  BY <1>2
<1> QED  BY <1>1, <1>2, <1>3 DEF TypeOK

LEMMA CutWhole ==
  ASSUME draft \in Seq(Tokens), NEW n \in 0 .. Len(draft), Boundary(n), NEW m \in Int
  PROVE  CutUnits(n, m) \in 0 .. n /\ Boundary(CutUnits(n, m))
<1>1. n \in Nat  OBVIOUS
<1>2. CutUnits(n, m) \in {0, n} \cup UnitEnds(n)  BY <1>1, CutProps
<1>3. CutUnits(n, m) \in {0} \cup UnitEnds(n) => CutUnits(n, m) \in 0 .. n /\ Boundary(CutUnits(n, m))
  BY EndBoundary
<1> QED  BY <1>1, <1>2, <1>3

LEMMA KeepWhole ==
  ASSUME draft \in Seq(Tokens), NEW n \in 0 .. Len(draft), Boundary(n), NEW m \in Int
  PROVE  KeepUnits(n, m) \in 0 .. n /\ Boundary(KeepUnits(n, m))
<1>1. n \in Nat  OBVIOUS
<1>2. KeepUnits(n, m) \in {0} \cup UnitEnds(n)  BY <1>1, KeepProps
<1> QED  BY <1>2, EndBoundary

LEMMA LookbackWhole ==
  ASSUME draft \in Seq(Tokens), NEW n \in 0 .. Len(draft), Boundary(n)
  PROVE  LookbackTrim(n) \in 0 .. n /\ Boundary(LookbackTrim(n))
<1> DEFINE hits == {e \in UnitEnds(n) : \E p \in BearingPositions(e) :
                      /\ p >= cfg.lookback_min_position
                      /\ p >= Floor(blocked - cfg.lookback_units)}
<1>1. LookbackTrim(n) = n \/ (hits # {} /\ LookbackTrim(n) = UnitStart(Min(hits)) - 1)
  BY DEF LookbackTrim
<1>2. n \in Nat /\ Len(draft) \in Nat /\ n <= Len(draft)  OBVIOUS
<1>3. hits \in SUBSET (1 .. n)  BY <1>2, EndsProps
<1> HIDE DEF hits
<1>4. CASE hits # {} /\ LookbackTrim(n) = UnitStart(Min(hits)) - 1
  <2>1. hits \in SUBSET Nat  BY <1>2, <1>3
  <2>2. Min(hits) \in hits  BY <1>4, <2>1, MinOfNumbers
  <2>3. PICK e \in 1 .. n : e = Min(hits)  BY <1>3, <2>2
  <2>4. e \in 1 .. Len(draft)  BY <1>2
  <2>5. UnitStart(e) - 1 \in 0 .. e - 1 /\ Boundary(UnitStart(e) - 1)  BY <2>4, StartBoundary
  <2>6. UnitStart(e) - 1 \in 0 .. n  BY <1>2, <2>5
  <2> QED  BY <1>4, <2>3, <2>5, <2>6
<1> QED  BY <1>1, <1>2, <1>4

LEMMA PunctuationWhole ==
  ASSUME draft \in Seq(Tokens), NEW n \in 0 .. Len(draft), Boundary(n)
  PROVE  PunctuationTrim(n) \in 0 .. n /\ Boundary(PunctuationTrim(n))
<1> DEFINE firm == {e \in UnitEnds(n) :
                      ~(/\ draft[e].ends
                        /\ \A i \in Unit(e) : Mass(draft[i]) < cfg.punctuation_min_mass)}
<1>1. PunctuationTrim(n) \in {0, n} \/ (firm # {} /\ PunctuationTrim(n) = Max(firm))
  BY DEF PunctuationTrim
<1>2. n \in Nat /\ firm \in SUBSET (0 .. n)  BY EndsProps
<1>3. firm \in SUBSET UnitEnds(n)  OBVIOUS
<1> HIDE DEF firm
<1>4. firm # {} => Max(firm) \in firm  BY <1>2, MaxOfBounded
<1>5. PunctuationTrim(n) \in {0, n} \cup UnitEnds(n)  BY <1>1, <1>3, <1>4
<1>6. PunctuationTrim(n) \in {0} \cup UnitEnds(n)
        => PunctuationTrim(n) \in 0 .. n /\ Boundary(PunctuationTrim(n))
  BY EndBoundary
<1> QED  BY <1>2, <1>5, <1>6

LEMMA MinEmitWhole ==
  ASSUME draft \in Seq(Tokens), NEW n \in 0 .. Len(draft), Boundary(n)
  PROVE  MinEmit(n) \in 0 .. n /\ Boundary(MinEmit(n))
BY DEF MinEmit, Boundary

LEMMA SourceContextWhole ==
  ASSUME draft \in Seq(Tokens), NEW n \in 0 .. Len(draft), Boundary(n), req.units \in Int
  PROVE  SourceContext(n) \in 0 .. n /\ Boundary(SourceContext(n))
<1>1. SourceContext(n) \in {n, 0, KeepUnits(n, req.units)}  BY DEF SourceContext
<1>2. KeepUnits(n, req.units) \in 0 .. n /\ Boundary(KeepUnits(n, req.units))  BY KeepWhole
<1> QED  BY <1>1, <1>2 DEF Boundary

LEMMA ProvenanceWhole ==
  ASSUME draft \in Seq(Tokens), NEW n \in 0 .. Len(draft), Boundary(n),
         NEW a \in ProvenanceTrim(n)
  PROVE  a \in 0 .. n /\ Boundary(a)
<1>1. a = n \/ a \in {0} \cup UnitEnds(n)  BY DEF ProvenanceTrim
<1>2. a \in {0} \cup UnitEnds(n) => a \in 0 .. n /\ Boundary(a)  BY EndBoundary
<1> QED  BY <1>1, <1>2

(* The last trims, in whatever combination, leave whole units of what they are given. *)
LEMMA AcceptWhole ==
  ASSUME TypeOK, NEW n \in 0 .. Len(draft), Boundary(n),
         NEW a \in ProvenanceTrim(SourceContext(MinEmit(PunctuationTrim(
                     CutUnits(LookbackTrim(n), cfg.hold_back)))))
  PROVE  a \in 0 .. n /\ Boundary(a)
<1>0. draft \in Seq(Tokens) /\ Len(draft) \in Nat /\ n \in Nat /\ n <= Len(draft)
  BY DEF TypeOK
<1>a. cfg.hold_back \in Int /\ req.units \in Int  BY Typed DEF ConfigType, RequestType
<1>1. PICK n1 \in 0 .. n : n1 = LookbackTrim(n) /\ Boundary(n1)  BY <1>0, LookbackWhole
<1>2. n1 \in 0 .. Len(draft)  BY <1>0
<1>3. PICK n2 \in 0 .. n1 : n2 = CutUnits(n1, cfg.hold_back) /\ Boundary(n2)
  BY <1>0, <1>a, <1>1, <1>2, CutWhole
<1>4. n2 \in 0 .. Len(draft)  BY <1>0, <1>2
<1>5. PICK n3 \in 0 .. n2 : n3 = PunctuationTrim(n2) /\ Boundary(n3)
  BY <1>0, <1>3, <1>4, PunctuationWhole
<1>6. n3 \in 0 .. Len(draft)  BY <1>0, <1>4
<1>7. PICK n4 \in 0 .. n3 : n4 = MinEmit(n3) /\ Boundary(n4)
  BY <1>0, <1>5, <1>6, MinEmitWhole
<1>8. n4 \in 0 .. Len(draft)  BY <1>0, <1>6
<1>9. PICK n5 \in 0 .. n4 : n5 = SourceContext(n4) /\ Boundary(n5)
  BY <1>0, <1>a, <1>7, <1>8, SourceContextWhole
<1>10. n5 \in 0 .. Len(draft)  BY <1>0, <1>8
<1>11. a \in ProvenanceTrim(n5)  BY <1>1, <1>3, <1>5, <1>7, <1>9
<1>12. a \in 0 .. n5 /\ Boundary(a)  BY <1>0, <1>9, <1>10, <1>11, ProvenanceWhole
<1> QED  BY <1>0, <1>12

(* The trim of the boundary unit leaves whole units. *)
LEMMA BoundaryWhole ==
  ASSUME TypeOK, WalkInv, phase = "trim"
  PROVE  BoundaryTrim \in 0 .. kept /\ Boundary(BoundaryTrim)
<1>0. draft \in Seq(Tokens) /\ Len(draft) \in Nat /\ kept \in 0 .. Len(draft)
      /\ unsafe \in 0 .. Len(draft)
  BY DEF TypeOK
<1>1. CASE unsafe # 0 /\ draft[unsafe].starts
  <2>1. BoundaryTrim = kept /\ kept = unsafe - 1  BY <1>1 DEF BoundaryTrim, WalkInv
  <2>2. kept + 1 = unsafe /\ kept < Len(draft)  BY <1>0, <1>1, <2>1
  <2> QED  BY <1>0, <1>1, <2>1, <2>2 DEF Boundary
<1>2. CASE ~(unsafe # 0 /\ draft[unsafe].starts)
  <2>1. BoundaryTrim = CutUnits(kept, 1)  BY <1>2 DEF BoundaryTrim
  <2>2. kept \in Nat /\ 1 \in Int  BY <1>0
  <2>3. /\ CutUnits(kept, 1) \in {0} \cup UnitEnds(kept)
        /\ kept > 0 => CutUnits(kept, 1) # kept
    BY <2>2, CutProps
  <2>4. \A e \in UnitEnds(kept) : e \in 1 .. kept  BY <2>2, EndsProps
  <2>5. CutUnits(kept, 1) < kept \/ Boundary(kept)
    BY <2>2, <2>3, <2>4 DEF Boundary
  <2> QED  BY <1>0, <2>1, <2>3, <2>5, EndBoundary
<1> QED  BY <1>1, <1>2

(* The trim of the frontier leaves whole units, and a draft that came back after them. *)
LEMMA FrontierWhole ==
  ASSUME TypeOK, NEW n \in 0 .. Len(draft), Boundary(n)
  PROVE  /\ FrontierTrim(n) \in 0 .. n /\ Boundary(FrontierTrim(n))
         /\ InsideFrom(FrontierTrim(n))
<1>0. draft \in Seq(Tokens) /\ Len(draft) \in Nat /\ n \in Nat /\ n <= Len(draft)
  BY DEF TypeOK
<1> DEFINE inside == {i \in 1 .. n : ~AtFrontier(draft[i])}
           last == IF inside = {} THEN 0 ELSE Max(inside)
<1>1. FrontierTrim(n)
        = IF cfg.frontier_action = "stop" \/ last = n THEN n ELSE UnitStart(last + 1) - 1
  BY DEF FrontierTrim
<1>2. last \in 0 .. n /\ (last > 0 => ~AtFrontier(draft[last]))
  <2>1. inside \in SUBSET (0 .. n)  OBVIOUS
  <2>2. inside # {} => Max(inside) \in inside
    <3> HIDE DEF inside
    <3> QED  BY <1>0, <2>1, MaxOfBounded
  <2> QED  BY <2>2
<1> HIDE DEF last, inside
<1>3. CASE cfg.frontier_action = "stop"
  <2>1. FrontierTrim(n) = n /\ n \in 0 .. n  BY <1>0, <1>1, <1>3
  <2> QED  BY <1>3, <2>1 DEF InsideFrom
<1>4. CASE last = n
  <2>1. FrontierTrim(n) = n /\ n \in 0 .. n  BY <1>0, <1>1, <1>4
  <2>2. n > 0 => n \in n .. Len(draft) /\ ~AtFrontier(draft[n])  BY <1>0, <1>2, <1>4
  <2> QED  BY <2>1, <2>2 DEF InsideFrom
<1>5. CASE cfg.frontier_action # "stop" /\ last # n
  <2>1. FrontierTrim(n) = UnitStart(last + 1) - 1  BY <1>1, <1>5
  <2>2. last + 1 \in 1 .. Len(draft) /\ last \in Nat /\ last < n  BY <1>0, <1>2, <1>5
  <2>3. FrontierTrim(n) \in 0 .. (last + 1) - 1 /\ Boundary(FrontierTrim(n))
    BY <1>0, <2>1, <2>2, StartBoundary
  <2>4. FrontierTrim(n) \in 0 .. n /\ FrontierTrim(n) <= last  BY <1>0, <2>2, <2>3
  <2>5. FrontierTrim(n) > 0 => last \in FrontierTrim(n) .. Len(draft) /\ ~AtFrontier(draft[last])
    BY <1>0, <1>2, <2>2, <2>4
  <2> QED  BY <2>3, <2>4, <2>5 DEF InsideFrom
<1> QED  BY <1>3, <1>4, <1>5

(* A shorter prefix keeps what is known of the longer one. *)
LEMMA Narrowed ==
  ASSUME TypeOK, NEW n \in 0 .. Len(draft), NEW a \in 0 .. n, Boundary(a)
  PROVE  /\ FiniteUpTo(n) => FiniteUpTo(a)
         /\ InsideFrom(n) => InsideFrom(a)
         /\ UnitEnds(a) \subseteq UnitEnds(n)
         /\ kept \in Nat /\ (Progressing(n) => Progressing(a))
<1>0. Len(draft) \in Nat /\ n \in Nat /\ a \in Nat /\ a <= n /\ n <= Len(draft)
  BY DEF TypeOK
<1>1. FiniteUpTo(n) => FiniteUpTo(a)  BY <1>0 DEF FiniteUpTo
<1>2. InsideFrom(n) => InsideFrom(a)
  <2>1. \A j \in n .. Len(draft) : j \in a .. Len(draft)  BY <1>0
  <2>2. a > 0 => n > 0  BY <1>0
  <2> QED  BY <2>1, <2>2 DEF InsideFrom
<1>3. UnitEnds(a) \subseteq UnitEnds(n)
  <2> SUFFICES ASSUME NEW e \in UnitEnds(a) PROVE e \in UnitEnds(n)  OBVIOUS
  <2>1. e \in 1 .. a /\ (e = a \/ draft[e + 1].starts)  BY DEF UnitEnds
  <2>2. e = n \/ draft[e + 1].starts  BY <1>0, <2>1 DEF Boundary
  <2>3. e \in 1 .. n  BY <1>0, <2>1
  <2> QED  BY <2>2, <2>3 DEF UnitEnds
<1>4. kept \in Nat  BY <1>0 DEF TypeOK
<1>5. Progressing(n) => Progressing(a)
  <2>1. \A e \in UnitEnds(kept) : e <= a => e <= n  BY <1>0, <1>4, EndsProps
  <2> QED  BY <2>1 DEF Progressing
<1> QED  BY <1>1, <1>2, <1>3, <1>4, <1>5

-----------------------------------------------------------------------------
(* The highest position of a part of the draft. *)

LEMMA HighestProps ==
  ASSUME TypeOK, NEW S \in SUBSET (1 .. Len(draft))
  PROVE  /\ HighestOf(S) \in Nat \cup {NoPos}
         /\ \A i \in S : draft[i].pos \in Nat \cup {NoPos} /\ draft[i].pos <= HighestOf(S)
         /\ HighestOf(S) = NoPos \/ \E i \in S : draft[i].pos = HighestOf(S)
<1> DEFINE n == Len(draft)
           f == [i \in 1 .. n |-> draft[i].pos]
           P == {draft[i].pos : i \in S} \cup {NoPos}
<1>0. NoPos \in Int /\ NoPos = -1  BY DEF NoPos
<1>1. n \in Nat /\ \A i \in 1 .. n : draft[i].pos \in Nat \cup {NoPos}
  BY Typed DEF TokenType
<1>2. f \in [1 .. n -> Int] /\ \A i \in 1 .. n : f[i] = draft[i].pos  BY <1>0, <1>1
<1> HIDE DEF n, f
<1>3. \A i \in S : draft[i].pos \in Nat \cup {NoPos}  BY <1>1 DEF n
<1>4. \E m \in P : \A y \in P : m >= y
  <2>1. CASE S = {}  BY <1>0, <2>1
  <2>2. CASE S # {}
    <3>1. S \in SUBSET (1 .. n)  BY DEF n
    <3>2. PICK i \in S : \A j \in S : f[j] <= f[i]  BY <1>1, <1>2, <2>2, <3>1, HighestIndex
    <3>3. \A j \in S : f[j] = draft[j].pos  BY <1>2, <3>1
    <3>4. draft[i].pos \in P /\ \A y \in P : draft[i].pos >= y  BY <1>0, <1>3, <3>2, <3>3
    <3> QED  BY <3>4
  <2> QED  BY <2>1, <2>2
<1>5. HighestOf(S) \in P /\ \A y \in P : HighestOf(S) >= y
  <2>1. HighestOf(S) = Max(P)  BY DEF HighestOf
  <2> HIDE DEF P
  <2> QED  BY <1>4, <2>1 DEF Max
<1>6. \A y \in P : y \in Nat \cup {NoPos}  BY <1>3
<1>7. \A i \in S : draft[i].pos \in P  OBVIOUS
<1>8. HighestOf(S) \in Nat \cup {NoPos}  BY <1>5, <1>6
<1>9. \A i \in S : draft[i].pos <= HighestOf(S)
  <2>1. \A i \in S : HighestOf(S) >= draft[i].pos  BY <1>5, <1>7
  <2> QED  BY <1>0, <1>3, <1>8, <2>1
<1> QED  BY <1>3, <1>5, <1>8, <1>9

(* Where all positions are, and one of them, is the highest. *)
LEMMA HighestIs ==
  ASSUME TypeOK, NEW S \in SUBSET (1 .. Len(draft)), NEW p \in Nat \cup {NoPos},
         \A i \in S : draft[i].pos <= p
  PROVE  HighestOf(S) <= p
<1>1. NoPos = -1  BY DEF NoPos
<1> QED  BY <1>1, HighestProps

(* The reference of a gate without a window. *)
LEMMA ReferenceProps ==
  ASSUME TypeOK, cfg.recent_tokens = 0
  PROVE  /\ trusted = <<>> => Reference(trusted) = NoPos
         /\ trusted # <<>> => /\ Reference(trusted) \in Nat
                              /\ \A k \in 1 .. Len(trusted) : trusted[k] <= Reference(trusted)
                              /\ \E k \in 1 .. Len(trusted) : trusted[k] = Reference(trusted)
<1>1. trusted \in Seq(Nat)  BY DEF TypeOK
<1>2. CASE trusted = <<>>  BY <1>2 DEF Reference
<1>3. CASE trusted # <<>>
  <2> DEFINE n == Len(trusted)
             f == [k \in 1 .. n |-> trusted[k]]
             P == {trusted[k] : k \in 1 .. n}
  <2>1. n \in Nat /\ n # 0 /\ DOMAIN trusted = 1 .. n /\ \A k \in 1 .. n : trusted[k] \in Nat
    BY <1>1, <1>3
  <2>2. Reference(trusted) = Max(P)
    BY <1>3, <2>1 DEF Reference
  <2>3. f \in [1 .. n -> Int] /\ \A k \in 1 .. n : f[k] = trusted[k]  BY <2>1
  <2> HIDE DEF n, f
  <2>4. 1 .. n # {} /\ 1 .. n \in SUBSET (1 .. n)  BY <2>1
  <2>5. PICK i \in 1 .. n : \A j \in 1 .. n : f[j] <= f[i]  BY <2>1, <2>3, <2>4, HighestIndex
  <2>6. trusted[i] \in P /\ \A y \in P : trusted[i] >= y  BY <2>1, <2>3, <2>5
  <2>7. Max(P) \in P /\ \A y \in P : Max(P) >= y
    <3> HIDE DEF P
    <3> QED  BY <2>6 DEF Max
  <2>8. \A k \in 1 .. n : trusted[k] \in P  OBVIOUS
  <2>9. \A y \in P : \E k \in 1 .. n : y = trusted[k]  OBVIOUS
  <2> HIDE DEF P
  <2>10. PICK k \in 1 .. n : Reference(trusted) = trusted[k]  BY <2>2, <2>7, <2>9
  <2>11. Reference(trusted) \in Nat  BY <2>1, <2>10
  <2>12. \A j \in 1 .. n : Reference(trusted) >= trusted[j]  BY <2>2, <2>7, <2>8
  <2>13. \A j \in 1 .. n : trusted[j] <= Reference(trusted)  BY <2>1, <2>11, <2>12
  <2> QED  BY <1>3, <2>10, <2>11, <2>13 DEF n
<1> QED  BY <1>2, <1>3

-----------------------------------------------------------------------------
(* The loop over units. *)

(* The unit the loop looks at next. *)
LEMMA NextEndProps ==
  ASSUME TypeOK, upto \in {0} \cup UnitEnds(kept), upto < kept
  PROVE  /\ NextEnd \in UnitEnds(kept) /\ NextEnd \in 1 .. kept
         /\ NextEnd > upto
         /\ \A e \in UnitEnds(kept) : e > upto => e >= NextEnd
         /\ UnitStart(NextEnd) = upto + 1
<1>0. Len(draft) \in Nat /\ kept \in Nat /\ kept <= Len(draft) /\ upto \in Nat  BY DEF TypeOK
<1> DEFINE E == {e \in UnitEnds(kept) : e > upto}
<1>1. E \in SUBSET Nat /\ kept \in E
  <2>1. UnitEnds(kept) \in SUBSET (1 .. kept) /\ kept \in UnitEnds(kept)  BY <1>0, EndsProps
  <2> QED  BY <1>0, <2>1
<1>2. NextEnd = Min(E)  BY DEF NextEnd
<1>3. NextEnd \in E /\ \A e \in E : NextEnd <= e
  <2> HIDE DEF E
  <2> QED  BY <1>1, <1>2, MinOfNumbers
<1>4. PICK n \in 1 .. kept : n = NextEnd  BY <1>0, <1>3, EndsProps
<1>5. n \in UnitEnds(kept) /\ n > upto /\ \A e \in UnitEnds(kept) : e > upto => n <= e
  BY <1>3, <1>4
<1>6. \A e \in UnitEnds(kept) : e > upto => e >= n
  <2>1. \A e \in UnitEnds(kept) : e \in Nat  BY <1>0, EndsProps
  <2> QED  BY <1>0, <1>5, <2>1
<1>7. UnitStart(n) = upto + 1
  <2>1. n \in Nat /\ n >= 1  BY <1>0
  <2>2. PICK s \in 1 .. n : s = UnitStart(n)  BY <2>1, UnitStartProps
  <2>3. (s = 1 \/ draft[s].starts) /\ \A x \in 1 .. n : x > s => ~draft[x].starts
    BY <2>1, <2>2, UnitStartProps
  <2>4. upto + 1 \in 1 .. n /\ (upto = 0 \/ draft[upto + 1].starts)
    <3>1. \A e \in UnitEnds(kept) : e = kept \/ draft[e + 1].starts  BY <1>0, EndsProps
    <3>2. upto = 0 \/ draft[upto + 1].starts  BY <1>0, <3>1
    <3> QED  BY <1>0, <1>5, <3>2
  <2>5. upto + 1 <= s  BY <1>0, <2>1, <2>3, <2>4
  <2>6. CASE s > upto + 1
    <3>1. draft[s].starts /\ s - 1 \in 1 .. kept /\ (s - 1) + 1 = s  BY <1>0, <2>3, <2>6
    <3>2. s - 1 \in UnitEnds(kept)  BY <3>1 DEF UnitEnds
    <3>3. s - 1 > upto /\ ~(n <= s - 1)  BY <1>0, <2>1, <2>6
    <3> QED  BY <1>5, <3>2, <3>3
  <2> QED  BY <1>0, <2>2, <2>5, <2>6
<1> QED  BY <1>4, <1>5, <1>6, <1>7

(* Its position is the highest of its tokens. *)
LEMMA EvidenceProps ==
  ASSUME TypeOK, upto \in {0} \cup UnitEnds(kept), upto < kept
  PROVE  /\ Evidence.pos = HighestOf(upto + 1 .. NextEnd)
         /\ \E i \in upto + 1 .. NextEnd : draft[i].pos = Evidence.pos
<1>0. Len(draft) \in Nat /\ kept \in Nat /\ kept <= Len(draft) /\ upto \in Nat  BY DEF TypeOK
<1>1. PICK n \in 1 .. kept : n = NextEnd /\ n > upto  BY NextEndProps
<1> DEFINE U == upto + 1 .. n
           P == {draft[i].pos : i \in U}
           h == HighestOf(U)
<1>2. Evidence.pos = Max(P)  BY <1>1 DEF Evidence
<1>3. U \in SUBSET (1 .. Len(draft)) /\ n \in U  BY <1>0, <1>1
<1> HIDE DEF U
<1>4. /\ h \in Nat \cup {NoPos}
      /\ \A i \in U : draft[i].pos \in Nat \cup {NoPos} /\ draft[i].pos <= h
      /\ h = NoPos \/ \E i \in U : draft[i].pos = h
  BY <1>3, HighestProps
<1> HIDE DEF h
<1>5. PICK i \in U : draft[i].pos = h
  <2>1. NoPos = -1  BY DEF NoPos
  <2>2. h = NoPos => draft[n].pos = NoPos  BY <1>3, <1>4, <2>1
  <2> QED  BY <1>3, <1>4, <2>2
<1>6. h \in P /\ \A y \in P : h >= y
  <2>1. NoPos = -1  BY DEF NoPos
  <2> QED  BY <1>4, <1>5, <2>1
<1>7. \A y \in P : y \in Nat \cup {NoPos}  BY <1>4
<1> HIDE DEF P
<1>8. Max(P) \in P /\ \A y \in P : Max(P) >= y  BY <1>6 DEF Max
<1>9. Max(P) = h
  <2>1. NoPos = -1  BY DEF NoPos
  <2> QED  BY <1>6, <1>7, <1>8, <2>1
<1> QED  BY <1>1, <1>2, <1>5, <1>9 DEF h, U

(* The positions that the loop trusts of it. *)
LEMMA UnitPositionsProps ==
  ASSUME TypeOK, upto \in {0} \cup UnitEnds(kept), upto < kept
  PROVE  /\ UnitPositions \in Seq(Nat)
         /\ \A k \in 1 .. Len(UnitPositions) :
              \E i \in upto + 1 .. NextEnd : UnitPositions[k] = draft[i].pos
         /\ \A i \in upto + 1 .. NextEnd :
              draft[i].pos = NoPos
              \/ \E k \in 1 .. Len(UnitPositions) : UnitPositions[k] = draft[i].pos
<1>0. Len(draft) \in Nat /\ kept \in Nat /\ kept <= Len(draft) /\ upto \in Nat  BY DEF TypeOK
<1>1. PICK n \in 1 .. kept : n = NextEnd /\ n > upto  BY NextEndProps
<1> DEFINE A == {i \in upto + 1 .. n : draft[i].pos # NoPos}
           Nth(k) == CHOOSE i \in A : Cardinality({j \in A : j <= i}) = k
           c == Cardinality(A)
<1>2. UnitPositions = [k \in 1 .. c |-> draft[Nth(k)].pos]  BY <1>1 DEF UnitPositions
<1>3. A \in SUBSET (1 .. n) /\ n \in Nat  BY <1>0, <1>1
<1>4. \A i \in A : draft[i].pos \in Nat
  <2>1. \A i \in A : i \in 1 .. Len(draft)  BY <1>0, <1>1
  <2> QED  BY <2>1, Typed DEF TokenType
<1>5. \A i \in A : i \in upto + 1 .. n  OBVIOUS
<1>6. \A i \in upto + 1 .. n : draft[i].pos = NoPos \/ i \in A  OBVIOUS
<1> HIDE DEF A
<1>7. /\ c \in Nat
      /\ \A k \in 1 .. c : \E i \in A : Cardinality({j \in A : j <= i}) = k
      /\ \A i \in A : Cardinality({j \in A : j <= i}) \in 1 .. c
  BY <1>3, NthNumber
<1> HIDE DEF c
<1>8. \A k \in 1 .. c : Nth(k) \in A /\ Cardinality({j \in A : j <= Nth(k)}) = k  BY <1>7
<1>9. \A i \in A : Nth(Cardinality({j \in A : j <= i})) = i
  <2> SUFFICES ASSUME NEW i \in A PROVE Nth(Cardinality({j \in A : j <= i})) = i  OBVIOUS
  <2>1. PICK k \in 1 .. c : k = Cardinality({j \in A : j <= i})  BY <1>7
  <2>2. PICK x \in A : x = Nth(k) /\ Cardinality({j \in A : j <= x}) = k  BY <1>8
  <2>3. CASE x = i  BY <2>1, <2>2, <2>3
  <2>4. CASE x # i
    <3>1. ASSUME NEW a \in A, NEW b \in A, a < b,
                 Cardinality({j \in A : j <= a}) = Cardinality({j \in A : j <= b})
          PROVE  FALSE
      <4> DEFINE B == {j \in A : j <= a}
                 D == {j \in A : j <= b}
      <4>1. B \in SUBSET D /\ b \in D /\ b \notin B
        <5>1. \A j \in A : j \in Nat  BY <1>3
        <5>2. a \in Nat /\ b \in Nat /\ b <= b /\ ~(b <= a)  BY <3>1, <5>1
        <5>3. \A j \in A : j <= a => j <= b  BY <3>1, <5>1, <5>2
        <5> QED  BY <5>2, <5>3
      <4>2. IsFiniteSet(D)
        <5>1. D \in SUBSET A  OBVIOUS
        <5>2. 1 \in Int /\ n \in Int  BY <1>3
        <5>3. IsFiniteSet(1 .. n)  BY <5>2, FS_Interval
        <5> HIDE DEF D
        <5> QED  BY <1>3, <5>1, <5>3, FS_Subset
      <4>3. Cardinality(B) = Cardinality(D)  BY <3>1
      <4> HIDE DEF B, D
      <4> QED  BY <4>1, <4>2, <4>3, FS_Subset
    <3>2. x < i \/ i < x  BY <1>3, <2>4
    <3> QED  BY <2>1, <2>2, <3>1, <3>2
  <2> QED  BY <2>3, <2>4
<1> HIDE DEF Nth
<1>10. \A k \in 1 .. c : draft[Nth(k)].pos \in Nat  BY <1>4, <1>8
<1>11. UnitPositions \in Seq(Nat) /\ Len(UnitPositions) = c
       /\ \A k \in 1 .. c : UnitPositions[k] = draft[Nth(k)].pos
  BY <1>2, <1>7, <1>10
<1>12. \A k \in 1 .. c : \E i \in upto + 1 .. n : UnitPositions[k] = draft[i].pos
  BY <1>5, <1>8, <1>11
<1>13. \A i \in upto + 1 .. n :
         draft[i].pos = NoPos \/ \E k \in 1 .. c : UnitPositions[k] = draft[i].pos
  BY <1>6, <1>7, <1>9, <1>11
<1> QED  BY <1>1, <1>11, <1>12, <1>13

(* The plain gate compares the unit with the highest position before it. *)
LEMMA PlainGate ==
  ASSUME TypeOK, PlainRegression
  PROVE  /\ cfg.max_regression \in Nat
         /\ Regresses(Evidence, Reference(trusted))
              <=> /\ Evidence.pos # NoPos /\ Reference(trusted) # NoPos
                  /\ Evidence.pos < Reference(trusted) - cfg.max_regression
<1>1. cfg.max_regression \in Nat
  BY Typed DEF ConfigType, PlainRegression
<1>2. /\ cfg.max_regression >= 0 /\ ~cfg.frontier_reached
      /\ cfg.regression_min_inaccessible = 0 /\ cfg.regression_min_mass = 0
  BY DEF PlainRegression
<1> QED  BY <1>1, <1>2 DEF Regresses

LEMMA PatienceType ==
  ASSUME TypeOK
  PROVE  /\ cfg.regression_patience \in Nat /\ Patience \in Nat /\ Patience >= 1
<1>1. cfg.regression_patience \in Nat  BY Typed DEF ConfigType
<1> QED  BY <1>1 DEF Patience

LEMMA ReferenceHighest ==
  ASSUME TypeOK, PlainRegression, NEW n \in 0 .. Len(draft), TrustedOf(n)
  PROVE  HighestOf(1 .. n) = Reference(trusted)
<1>0. Len(draft) \in Nat /\ n \in Nat /\ trusted \in Seq(Nat)  BY DEF TypeOK
<1>1. 1 .. n \in SUBSET (1 .. Len(draft)) /\ NoPos = -1  BY <1>0 DEF NoPos
<1> DEFINE h == HighestOf(1 .. n)
           ref == Reference(trusted)
<1>2. /\ h \in Nat \cup {NoPos}
      /\ \A i \in 1 .. n : draft[i].pos \in Nat \cup {NoPos} /\ draft[i].pos <= h
      /\ h = NoPos \/ \E i \in 1 .. n : draft[i].pos = h
  BY <1>1, HighestProps
<1>3. /\ trusted = <<>> => ref = NoPos
      /\ trusted # <<>> => /\ ref \in Nat
                           /\ \A k \in 1 .. Len(trusted) : trusted[k] <= ref
                           /\ \E k \in 1 .. Len(trusted) : trusted[k] = ref
  BY ReferenceProps DEF PlainRegression
<1> HIDE DEF h, ref
<1>4. CASE trusted = <<>>
  <2>1. Len(trusted) = 0  BY <1>4
  <2>2. \A i \in 1 .. n : draft[i].pos = NoPos  BY <2>1 DEF TrustedOf
  <2> QED  BY <1>2, <1>3, <1>4, <2>2 DEF h, ref
<1>5. CASE trusted # <<>>
  <2>1. ref \in Nat /\ \E i \in 1 .. n : draft[i].pos = ref  BY <1>3, <1>5 DEF TrustedOf
  <2>2. ref <= h  BY <1>2, <2>1
  <2>3. PICK i \in 1 .. n : draft[i].pos = h  BY <1>1, <1>2, <2>1, <2>2
  <2>4. h # NoPos  BY <1>1, <2>1, <2>2
  <2>5. PICK k \in 1 .. Len(trusted) : trusted[k] >= h  BY <2>3, <2>4 DEF TrustedOf
  <2>6. trusted[k] <= ref /\ trusted[k] \in Nat  BY <1>0, <1>3, <1>5
  <2>7. h = ref  BY <1>2, <2>1, <2>2, <2>4, <2>5, <2>6
  <2> QED  BY <2>7 DEF h, ref
<1> QED  BY <1>4, <1>5

(* So a unit regresses if it ends behind what is before it. *)
LEMMA GateBehind ==
  ASSUME TypeOK, PlainRegression, upto \in {0} \cup UnitEnds(kept), upto < kept,
         TrustedOf(upto)
  PROVE  Regresses(Evidence, Reference(trusted)) <=> Behind(NextEnd)
<1>0. /\ Len(draft) \in Nat /\ kept \in Nat /\ kept <= Len(draft) /\ upto \in Nat
      /\ NoPos = -1
  BY DEF TypeOK, NoPos
<1>1. PICK n \in 1 .. kept : n = NextEnd /\ n > upto /\ UnitStart(n) = upto + 1
  BY NextEndProps
<1>2. Unit(n) = upto + 1 .. n /\ UnitStart(n) - 1 = upto  BY <1>0, <1>1 DEF Unit
<1>3. Evidence.pos = HighestOf(Unit(n))  BY <1>1, <1>2, EvidenceProps
<1>4. Reference(trusted) = HighestOf(1 .. UnitStart(n) - 1)
  <2>1. upto \in 0 .. Len(draft)  BY <1>0
  <2> QED  BY <1>2, <2>1, ReferenceHighest
<1> DEFINE h == HighestOf(Unit(n))
           ref == HighestOf(1 .. UnitStart(n) - 1)
<1>5. h \in Nat \cup {NoPos} /\ ref \in Nat \cup {NoPos}
  <2>1. upto + 1 .. n \in SUBSET (1 .. Len(draft)) /\ 1 .. upto \in SUBSET (1 .. Len(draft))
    BY <1>0, <1>1
  <2> QED  BY <1>2, <2>1, HighestProps
<1>6. Behind(n) <=> h # NoPos /\ h < ref - cfg.max_regression  BY DEF Behind
<1>7. cfg.max_regression \in Nat
      /\ (Regresses(Evidence, Reference(trusted))
            <=> h # NoPos /\ ref # NoPos /\ h < ref - cfg.max_regression)
  BY <1>3, <1>4, PlainGate
<1> HIDE DEF h, ref
<1> QED  BY <1>0, <1>1, <1>5, <1>6, <1>7

LEMMA BetweenProps ==
  ASSUME TypeOK, NEW a, NEW b
  PROVE  /\ Between(a, b) \subseteq UnitEnds(kept) /\ UnitEnds(kept) \in SUBSET (1 .. kept)
         /\ IsFiniteSet(Between(a, b)) /\ Cardinality(Between(a, b)) \in Nat
<1>1. Between(a, b) \subseteq UnitEnds(kept)  BY DEF Between
<1>2. IsFiniteSet(UnitEnds(kept)) /\ UnitEnds(kept) \in SUBSET (1 .. kept)
  BY EndsProps DEF TypeOK
<1>3. IsFiniteSet(Between(a, b))  BY <1>1, <1>2, FS_Subset
<1> QED  BY <1>1, <1>2, <1>3, FS_CardinalityType

(* A run of units that ends here lies within the suffix that the streak counts. *)
LEMMA RunWithin ==
  ASSUME IndInv, phase = "regress", PlainRegression,
         NEW e \in Between(PendingTrim, upto),
         upto = kept \/ (upto < kept /\ ~Behind(NextEnd))
  PROVE  Cardinality(Run(e)) \in Nat /\ Cardinality(Run(e)) <= streak
<1>0. /\ TypeOK /\ SuffixInv /\ upto \in {0} \cup UnitEnds(kept)
      /\ kept \in Nat /\ upto \in Nat /\ pending <= upto
      /\ PendingTrim \in {0} \cup UnitEnds(kept)
  BY DEF IndInv, RegressInv, TypeOK, PendingTrim
<1> DEFINE S == Between(PendingTrim, upto)
           s == PendingTrim
<1>1. \A f \in UnitEnds(kept) : f \in 1 .. kept  BY <1>0, EndsProps
<1>2. e \in UnitEnds(kept) /\ s < e /\ e <= upto /\ s \in Nat  BY <1>0, <1>1 DEF Between
<1>3. Run(e) \subseteq S
  <2> SUFFICES ASSUME NEW f \in Run(e) PROVE f \in S  OBVIOUS
  <2>1. /\ f \in UnitEnds(kept) /\ f \in 1 .. kept
        /\ \A g \in UnitEnds(kept) : (e <= g /\ g <= f) \/ (f <= g /\ g <= e) => Behind(g)
    BY <1>1 DEF Run
  <2>2. f <= upto
    <3> SUFFICES ASSUME f > upto PROVE FALSE  BY <1>0, <2>1
    <3>1. upto < kept /\ ~Behind(NextEnd)  BY <1>0, <2>1
    <3>2. NextEnd \in UnitEnds(kept) /\ NextEnd \in 1 .. kept /\ NextEnd > upto /\ f >= NextEnd
      BY <1>0, <2>1, <3>1, NextEndProps
    <3>3. e \in Nat /\ f \in Nat /\ NextEnd \in Nat  BY <1>1, <1>2, <2>1, <3>2
    <3>4. e <= NextEnd /\ NextEnd <= f  BY <1>0, <1>2, <3>2, <3>3
    <3> QED  BY <2>1, <3>1, <3>2, <3>4
  <2>3. s < f
    <3> SUFFICES ASSUME f <= s PROVE FALSE  BY <1>2, <2>1
    <3>1. s # 0 /\ s \in UnitEnds(kept) /\ ~Behind(s)  BY <1>0, <1>2, <2>1 DEF SuffixInv
    <3>2. f <= s /\ s <= e  BY <1>1, <1>2
    <3> QED  BY <2>1, <3>1, <3>2
  <2> QED  BY <2>1, <2>2, <2>3 DEF Between
<1>4. IsFiniteSet(S)  BY <1>0, BetweenProps
<1>5. streak = Cardinality(S)  BY <1>0 DEF SuffixInv
<1> HIDE DEF S
<1>6. IsFiniteSet(Run(e)) /\ Cardinality(Run(e)) <= Cardinality(S)  BY <1>3, <1>4, FS_Subset
<1> QED  BY <1>5, <1>6, FS_CardinalityType

(* A unit that does not regress spares the units before it that did. *)
LEMMA AdvanceProgress ==
  ASSUME IndInv, phase = "regress", upto < kept, ~Regresses(Evidence, Reference(trusted)),
         PlainRegression
  PROVE  Progressing(NextEnd) /\ ~Behind(NextEnd)
<1>0. /\ TypeOK /\ SuffixInv /\ upto \in {0} \cup UnitEnds(kept)
      /\ kept \in Nat /\ upto \in Nat
  BY DEF IndInv, RegressInv, TypeOK
<1>1. ~Behind(NextEnd)  BY <1>0, GateBehind DEF SuffixInv
<1>2. PICK n \in 1 .. kept : /\ n = NextEnd /\ n > upto /\ n \in UnitEnds(kept)
                             /\ \A e \in UnitEnds(kept) : e > upto => e >= n
  BY <1>0, NextEndProps
<1>3. ASSUME NEW e \in UnitEnds(kept), e <= n, Behind(e) PROVE Spared(e)
  <2>1. e \in 1 .. kept  BY <1>0, EndsProps
  <2>2. e <= upto  BY <1>0, <1>1, <1>2, <1>3, <2>1
  <2>3. PendingTrim \in Int
    <3>1. PendingTrim \in {NoPos, 0} \cup UnitEnds(kept) \cup {upto}
      BY DEF IndInv, RegressInv, PendingTrim
    <3> QED  BY <1>0, <3>1, EndsProps DEF NoPos
  <2>4. CASE e <= PendingTrim  BY <1>0, <1>3, <2>4 DEF SuffixInv, Progressing
  <2>5. CASE PendingTrim < e
    <3>1. e \in Between(PendingTrim, upto)  BY <2>2, <2>5 DEF Between
    <3>2. Cardinality(Run(e)) \in Nat /\ Cardinality(Run(e)) <= streak
      BY <1>1, <3>1, RunWithin
    <3>3. streak \in Nat /\ Patience \in Nat  BY <1>0, PatienceType DEF TypeOK
    <3>4. cfg.regression_action = "trim_target_unit" => Cardinality(Run(e)) < Patience
      BY <1>0, <3>2, <3>3 DEF SuffixInv
    <3>5. n > e /\ ~Behind(n)  BY <1>0, <1>1, <1>2, <2>1, <2>2
    <3> QED  BY <1>2, <3>4, <3>5 DEF Spared
  <2> QED  BY <2>1, <2>3, <2>4, <2>5
<1> QED  BY <1>1, <1>2, <1>3 DEF Progressing

(* What the loop leaves at its end. *)
LEMMA RecoveredProgress ==
  ASSUME IndInv, phase = "regress", upto = kept
  PROVE  Progressing(Recovered)
<1> SUFFICES ASSUME PlainRegression PROVE Progressing(Recovered)  BY DEF Progressing
<1>0. /\ TypeOK /\ SuffixInv /\ kept \in Nat /\ upto \in Nat /\ streak \in Nat
  BY DEF IndInv, RegressInv, TypeOK
<1>1. Recovered = kept \/ Recovered = PendingTrim  BY DEF Recovered, PendingTrim
<1>2. CASE Recovered = PendingTrim  BY <1>0, <1>2 DEF SuffixInv
<1>3. CASE Recovered = kept
  <2> SUFFICES ASSUME NEW e \in UnitEnds(kept), Behind(e) PROVE Spared(e)
    BY <1>3 DEF Progressing
  <2>1. e \in 1 .. kept  BY <1>0, EndsProps
  <2>2. PendingTrim \in Int
    <3>1. PendingTrim \in {NoPos, 0} \cup UnitEnds(kept) \cup {upto}
      BY DEF IndInv, RegressInv, PendingTrim
    <3> QED  BY <1>0, <3>1, EndsProps DEF NoPos
  <2>3. CASE e <= PendingTrim  BY <1>0, <2>3 DEF SuffixInv, Progressing
  <2>4. CASE PendingTrim < e
    <3>1. e \in Between(PendingTrim, upto)  BY <1>0, <2>1, <2>4 DEF Between
    <3>2. Cardinality(Run(e)) \in Nat /\ Cardinality(Run(e)) <= streak  BY <3>1, RunWithin
    <3>3. cfg.regression_patience \in Nat /\ Patience \in Nat  BY <1>0, PatienceType
    <3>4. cfg.regression_action = "trim_target_unit" => Cardinality(Run(e)) < Patience
      BY <1>0, <3>2, <3>3 DEF SuffixInv
    <3>5. pending # NoPos
      <4>1. PendingTrim # upto  BY <1>0, <2>1, <2>4
      <4> QED  BY <4>1 DEF PendingTrim
    <3>6. cfg.regression_action = "trim_unrecovered" => Cardinality(Run(e)) < Patience
      <4> SUFFICES ASSUME cfg.regression_action = "trim_unrecovered"
                   PROVE  Cardinality(Run(e)) < Patience
        OBVIOUS
      <4>1. pending = PendingTrim /\ pending # kept  BY <1>0, <2>1, <2>2, <2>4, <3>5 DEF PendingTrim
      <4>2. ~(streak >= cfg.regression_patience)  BY <1>3, <3>5, <4>1 DEF Recovered
      <4> QED  BY <1>0, <3>2, <3>3, <4>2 DEF Patience
    <3> QED  BY <3>4, <3>6 DEF Spared
  <2> QED  BY <2>1, <2>2, <2>3, <2>4
<1> QED  BY <1>1, <1>2, <1>3

-----------------------------------------------------------------------------
(* The steps.  What is known of the draft stays known while the draft stays. *)
LEMMA Steady ==
  ASSUME UNCHANGED <<cfg, req, draft>>
  PROVE  /\ Checked' = Checked
         /\ PlainRegression' = PlainRegression
         /\ \A n : /\ UnitEnds(n)' = UnitEnds(n)
                   /\ Boundary(n)' = Boundary(n)
                   /\ FiniteUpTo(n)' = FiniteUpTo(n)
                   /\ InsideFrom(n)' = InsideFrom(n)
         /\ \A e : Behind(e)' = Behind(e)
         /\ kept' = kept =>
              \A n, m : Progressing(n)' = Progressing(n) /\ Between(n, m)' = Between(n, m)
<1>1. Checked' = Checked /\ PlainRegression' = PlainRegression  BY DEF Checked, PlainRegression
<1>2. \A n : UnitEnds(n)' = UnitEnds(n)  BY DEF UnitEnds
<1>3. \A n : Boundary(n)' = Boundary(n) /\ FiniteUpTo(n)' = FiniteUpTo(n)
  BY DEF Boundary, FiniteUpTo
<1>4. \A n : InsideFrom(n)' = InsideFrom(n)  BY DEF InsideFrom, AtFrontier
<1>5. \A e : UnitStart(e)' = UnitStart(e) /\ Unit(e)' = Unit(e)
  BY DEF UnitStart, Starts, Unit
<1>6. \A e : HighestOf(Unit(e))' = HighestOf(Unit(e))  BY <1>5 DEF HighestOf
<1>7. \A e : HighestOf(1 .. UnitStart(e) - 1)' = HighestOf(1 .. UnitStart(e) - 1)
  BY <1>5 DEF HighestOf
<1>8. \A e : Behind(e)' = Behind(e)  BY <1>6, <1>7 DEF Behind
<1>9. ASSUME kept' = kept
      PROVE  \A n, m : Progressing(n)' = Progressing(n) /\ Between(n, m)' = Between(n, m)
  <2>1. UnitEnds(kept)' = UnitEnds(kept)  BY <1>9 DEF UnitEnds
  <2>2. \A e : Run(e)' = Run(e)  BY <1>8, <2>1 DEF Run
  <2>3. Patience' = Patience  BY DEF Patience
  <2>4. \A e : Spared(e)' = Spared(e)  BY <1>8, <2>1, <2>2, <2>3 DEF Spared
  <2> QED  BY <1>1, <1>8, <2>1, <2>4 DEF Progressing, Between
<1> QED  BY <1>1, <1>2, <1>3, <1>4, <1>8, <1>9

(* A token is read: its row was not corrupt. *)
LEMMA AcceptTokenInv == ASSUME IndInv, NEW t \in Tokens, AcceptToken(t) PROVE IndInv'
<1>0. TypeOK /\ WalkInv  BY DEF IndInv
<1>1. /\ phase = "walk" /\ Len(draft) < MaxDraft /\ draft' = Append(draft, t)
      /\ Checked => ~Stops(t)
      /\ trusted' \in {trusted, Append(trusted, t.pos)}
      /\ trusted' # trusted => Trusts(t)
      /\ argmax_streak' \in {argmax_streak + 1, 0} /\ streak' \in {streak + 1, 0}
      /\ UNCHANGED <<cfg, req, drafted, phase, unsafe, blocked, kept, upto, pending, accepted>>
  BY DEF AcceptToken
<1>2. /\ draft \in Seq(Tokens) /\ Len(draft) \in Nat /\ draft' \in Seq(Tokens)
      /\ Len(draft') = Len(draft) + 1 /\ draft'[Len(draft) + 1] = t
      /\ \A i \in 1 .. Len(draft) : draft'[i] = draft[i]
  BY <1>0, <1>1 DEF TypeOK
<1>3. t.pos \in Nat \cup {NoPos}  BY AcceptancePolicyAssumption DEF TokenType
<1>4. trusted' \in Seq(Nat)
  <2>1. trusted \in Seq(Nat)  BY <1>0 DEF TypeOK
  <2>2. trusted' # trusted => t.pos \in Nat  BY <1>1, <1>3 DEF Trusts
  <2>3. CASE trusted' = trusted  BY <2>1, <2>3
  <2>4. CASE trusted' # trusted
    <3>1. t.pos \in Nat /\ trusted' = Append(trusted, t.pos)  BY <1>1, <2>2, <2>4
    <3> QED  BY <2>1, <3>1
  <2> QED  BY <2>3, <2>4
<1>5. TypeOK'
  <2>1. Len(draft') <= MaxDraft  BY <1>1, <1>2, AcceptancePolicyAssumption
  <2>2. 0 .. Len(draft) \subseteq 0 .. Len(draft')  BY <1>2
  <2> QED  BY <1>0, <1>1, <1>2, <1>4, <2>1, <2>2 DEF TypeOK
<1>6. Checked' = Checked  BY <1>1 DEF Checked
<1>7. Checked => t.finite  BY <1>1 DEF Stops, TokenStops, UnitTokenStops
<1>8. WalkInv'
  <2>1. Checked' => FiniteUpTo(Len(draft))'
    <3> SUFFICES ASSUME Checked, NEW i \in 1 .. Len(draft') PROVE draft'[i].finite
      BY <1>6 DEF FiniteUpTo
    <3>1. i \in 1 .. Len(draft) \/ i = Len(draft) + 1  BY <1>2
    <3> QED  BY <1>0, <1>1, <1>2, <1>7, <3>1 DEF WalkInv, FiniteUpTo
  <2> QED  BY <1>0, <1>1, <2>1 DEF WalkInv
<1>9. TrimInv' /\ RegressInv'  BY <1>1 DEF TrimInv, Trimmed, RegressInv
<1> QED  BY <1>5, <1>8, <1>9 DEF IndInv

(* The walk stops: what it keeps was read before the token it stops at. *)
LEMMA StopAtTokenInv == ASSUME IndInv, NEW t \in Tokens, StopAtToken(t) PROVE IndInv'
<1>0. TypeOK /\ WalkInv  BY DEF IndInv
<1>1. /\ phase = "walk" /\ Len(draft) < MaxDraft /\ Checked /\ draft' = Append(draft, t)
      /\ phase' = "trim" /\ unsafe' = Len(draft')
      /\ kept' = IF cfg.variant = "token" \/ t.starts \/ draft = <<>> THEN Len(draft)
                 ELSE UnitStart(Len(draft)) - 1
      /\ UNCHANGED <<cfg, req, drafted, argmax_streak, streak, trusted, upto, pending, accepted>>
  BY DEF StopAtToken, Stop
<1>2. /\ draft \in Seq(Tokens) /\ Len(draft) \in Nat /\ draft' \in Seq(Tokens)
      /\ Len(draft') = Len(draft) + 1 /\ draft'[Len(draft) + 1] = t
      /\ \A i \in 1 .. Len(draft) : draft'[i] = draft[i]
  BY <1>0, <1>1 DEF TypeOK
<1>3. \A u \in Tokens : u.pos \in Nat \cup {NoPos}
  BY AcceptancePolicyAssumption DEF TokenType
<1>4. blocked' \in Nat \cup {NoPos}
  <2>1. \/ blocked' = t.pos
        \/ blocked' \in {u.pos : u \in Tokens}
    BY DEF StopAtToken, Stop
  <2> QED  BY <1>3, <2>1
<1>5. kept' \in 0 .. Len(draft)
  <2>1. CASE draft = <<>> \/ cfg.variant = "token" \/ t.starts  BY <1>1, <1>2, <2>1
  <2>2. CASE ~(draft = <<>> \/ cfg.variant = "token" \/ t.starts)
    <3>1. Len(draft) >= 1  BY <1>2, <2>2
    <3>2. UnitStart(Len(draft)) \in 1 .. Len(draft)  BY <1>2, <3>1, UnitStartProps
    <3>3. kept' = UnitStart(Len(draft)) - 1  BY <1>1, <2>2
    <3> QED  BY <1>2, <3>2, <3>3
  <2> QED  BY <2>1, <2>2
<1>6. TypeOK'
  <2>1. Len(draft') <= MaxDraft  BY <1>1, <1>2, AcceptancePolicyAssumption
  <2>2. 0 .. Len(draft) \subseteq 0 .. Len(draft') /\ Len(draft') \in 0 .. Len(draft')
    BY <1>2
  <2> QED  BY <1>0, <1>1, <1>2, <1>4, <1>5, <2>1, <2>2 DEF TypeOK
<1>7. WalkInv'
  <2>1. FiniteUpTo(kept)'
    <3> SUFFICES ASSUME NEW i \in 1 .. kept' PROVE draft'[i].finite  BY DEF FiniteUpTo
    <3>1. i \in 1 .. Len(draft)  BY <1>2, <1>5
    <3> QED  BY <1>0, <1>1, <1>2, <3>1 DEF WalkInv, FiniteUpTo
  <2>2. draft'[unsafe'].starts => kept' = unsafe' - 1  BY <1>1, <1>2
  <2> QED  BY <1>0, <1>1, <2>1, <2>2 DEF WalkInv
<1>8. TrimInv' /\ RegressInv'  BY <1>1 DEF TrimInv, Trimmed, RegressInv
<1> QED  BY <1>6, <1>7, <1>8 DEF IndInv

LEMMA StopAtUnitInv == ASSUME IndInv, StopAtUnit PROVE IndInv'
<1>0. TypeOK /\ WalkInv  BY DEF IndInv
<1>a. draft \in Seq(Tokens) /\ Len(draft) \in Nat /\ draft # <<>> /\ Len(draft) >= 1
  BY <1>0 DEF TypeOK, StopAtUnit
<1>1. PICK start \in 1 .. Len(draft) : start = UnitStart(Len(draft))
  BY <1>a, UnitStartProps
<1>2. /\ phase = "walk" /\ Checked /\ phase' = "trim" /\ unsafe' = start /\ kept' = start - 1
      /\ blocked' = draft[start].pos
      /\ UNCHANGED <<cfg, req, draft, drafted, argmax_streak, streak, trusted, upto, pending,
                     accepted>>
  BY <1>1 DEF StopAtUnit, Stop
<1>3. blocked' \in Nat \cup {NoPos}
  BY <1>0, <1>2, Typed DEF TokenType
<1>4. kept' \in 0 .. Len(draft) /\ unsafe' \in 0 .. Len(draft)  BY <1>a, <1>2
<1>5. TypeOK'  BY <1>0, <1>2, <1>3, <1>4 DEF TypeOK
<1>6. WalkInv'
  <2>1. FiniteUpTo(kept)'
    <3> SUFFICES ASSUME NEW i \in 1 .. kept' PROVE draft'[i].finite  BY DEF FiniteUpTo
    <3>1. i \in 1 .. Len(draft)  BY <1>a, <1>4
    <3> QED  BY <1>0, <1>2, <3>1 DEF WalkInv, FiniteUpTo
  <2> QED  BY <1>0, <1>2, <2>1 DEF WalkInv
<1>7. TrimInv' /\ RegressInv'  BY <1>2 DEF TrimInv, Trimmed, RegressInv
<1> QED  BY <1>5, <1>6, <1>7 DEF IndInv

LEMMA DraftEndsInv == ASSUME IndInv, DraftEnds PROVE IndInv'
<1>0. TypeOK /\ WalkInv  BY DEF IndInv
<1>1. /\ phase = "walk" /\ phase' = "trim" /\ kept' = Len(draft)
      /\ \E unseen \in 0 .. MaxUnseen : drafted' = Len(draft) + unseen
      /\ UNCHANGED <<cfg, req, draft, unsafe, blocked, trusted, argmax_streak, streak, upto,
                     pending, accepted>>
  BY DEF DraftEnds
<1>2. Len(draft) \in Nat /\ drafted' \in Nat
  BY <1>0, <1>1, AcceptancePolicyAssumption DEF TypeOK
<1>3. TypeOK'  BY <1>0, <1>1, <1>2 DEF TypeOK
<1>4. Checked' = Checked /\ FiniteUpTo(kept)' = FiniteUpTo(Len(draft))
  BY <1>1 DEF Checked, FiniteUpTo
<1>5. WalkInv'  BY <1>0, <1>1, <1>4 DEF WalkInv
<1>6. TrimInv' /\ RegressInv'  BY <1>1 DEF TrimInv, Trimmed, RegressInv
<1> QED  BY <1>3, <1>5, <1>6 DEF IndInv

(* A draft that nothing was asked of. *)
LEMMA AcceptUncheckedInv == ASSUME IndInv, AcceptUnchecked PROVE IndInv'
<1>0. TypeOK  BY DEF IndInv
<1>1. /\ ~Checked /\ phase' = "done"
      /\ accepted' \in {drafted, StaticCutoff, 0}
      /\ UNCHANGED <<cfg, req, draft, drafted, unsafe, blocked, kept, trusted, argmax_streak,
                     streak, upto, pending>>
  BY DEF AcceptUnchecked, Flush
<1>2. StaticCutoff \in Nat
  <2>1. drafted \in Nat /\ cfg.cutoff_units \in Nat  BY <1>0, Typed DEF TypeOK, ConfigType
  <2>2. CutUnits(drafted, cfg.cutoff_units) \in {0, drafted} \cup UnitEnds(drafted)
    BY <2>1, CutProps
  <2>3. UnitEnds(drafted) \in SUBSET (1 .. drafted)  BY <2>1, EndsProps
  <2>4. CutUnits(drafted, cfg.cutoff_units) \in Nat  BY <2>1, <2>2, <2>3
  <2> QED  BY <2>1, <2>4 DEF StaticCutoff
<1>3. TypeOK'  BY <1>0, <1>1, <1>2 DEF TypeOK
<1>4. ~Checked' /\ WalkInv'  BY <1>1 DEF Checked, WalkInv
<1>5. TrimInv' /\ RegressInv'  BY <1>1, <1>4 DEF TrimInv, Trimmed, RegressInv
<1> QED  BY <1>3, <1>4, <1>5 DEF IndInv

(* The trims before the loop over units. *)
LEMMA TrimBoundaryInv == ASSUME IndInv, TrimBoundary PROVE IndInv'
<1>0. TypeOK /\ WalkInv  BY DEF IndInv
<1>a. Len(draft) \in Nat /\ kept \in 0 .. Len(draft) /\ kept \in Nat  BY <1>0 DEF TypeOK
<1>1. /\ phase = "trim" /\ Checked /\ kept' = FrontierTrim(BoundaryTrim)
      /\ IF cfg.regression_action = "stop" THEN phase' = "cut" /\ upto' = kept'
         ELSE phase' = "regress" /\ UNCHANGED upto
      /\ trusted' = <<>> /\ streak' = 0
      /\ UNCHANGED <<cfg, req, draft, drafted, unsafe, blocked, argmax_streak, pending,
                     accepted>>
  BY DEF TrimBoundary
<1>2. PICK b \in 0 .. kept : b = BoundaryTrim /\ Boundary(b)  BY <1>0, <1>1, BoundaryWhole
<1>3. b \in 0 .. Len(draft)  BY <1>a
<1>4. PICK n \in 0 .. b : n = kept' /\ Boundary(n) /\ InsideFrom(n)
  BY <1>0, <1>1, <1>2, <1>3, FrontierWhole
<1>5. n \in 0 .. kept /\ n \in 0 .. Len(draft)  BY <1>a
<1>6. FiniteUpTo(n)
  <2>1. FiniteUpTo(kept)  BY <1>0, <1>1 DEF WalkInv
  <2> QED  BY <1>0, <1>a, <1>4, <1>5, <2>1, Narrowed
<1>7. upto = 0 /\ pending = NoPos  BY <1>0, <1>1 DEF WalkInv
<1>a7. upto' \in {0, n} /\ n \in Nat /\ kept' = n
       /\ (phase' = "regress" => upto' = 0) /\ phase' \in {"cut", "regress"}
       /\ (phase' = "cut" => upto' = n /\ cfg.regression_action = "stop")
  BY <1>1, <1>4, <1>7
<1>8. TypeOK'  BY <1>0, <1>1, <1>4, <1>5, <1>7, <1>a7 DEF TypeOK
<1>9. WalkInv'  BY <1>1 DEF WalkInv
<1>10. /\ Boundary(n)' /\ FiniteUpTo(n)' /\ InsideFrom(n)'
  BY <1>1, <1>4, <1>6, Steady
<1>11. phase' # "regress" => Progressing(n)'
  <2>1. phase' # "regress" => cfg'.regression_action = "stop"  BY <1>1
  <2> QED  BY <2>1 DEF Progressing, Spared
<1>12. TrimInv'
  <2>1. phase' # "done" /\ Result' = n /\ n \in 0 .. kept'  BY <1>a7 DEF Result
  <2> QED  BY <1>10, <1>11, <2>1 DEF TrimInv
<1>13. RegressInv'
  <2> SUFFICES ASSUME phase' = "regress"
               PROVE  /\ upto' \in {0} \cup UnitEnds(kept)'
                      /\ pending' \in {NoPos, 0} \cup UnitEnds(kept)' /\ pending' <= upto'
                      /\ PlainRegression' => SuffixInv'
    BY DEF RegressInv
  <2>1. upto' = 0 /\ pending' = NoPos /\ trusted' = <<>> /\ NoPos <= 0
    BY <1>1, <1>7, <1>a7 DEF NoPos
  <2>2. PendingTrim' = 0  BY <2>1 DEF PendingTrim
  <2>3. \A e \in UnitEnds(kept)' : e \in 1 .. n  BY <1>a7 DEF UnitEnds
  <2>4. \A e \in UnitEnds(kept)' : ~(e <= 0)  BY <1>a7, <2>3
  <2>5. Progressing(PendingTrim)'  BY <2>2, <2>4 DEF Progressing
  <2>6. TrustedOf(upto)'
    <3>1. trusted' = <<>> /\ upto' = 0 /\ Len(<<>>) = 0  BY <2>1
    <3>2. 1 .. Len(<<>>) = {} /\ 1 .. 0 = {}  OBVIOUS
    <3> QED  BY <3>1, <3>2 DEF TrustedOf
  <2>7. Between(PendingTrim, upto)' = {}  BY <2>1, <2>4 DEF Between
  <2>8. streak' = Cardinality(Between(PendingTrim, upto)')  BY <1>1, <2>7, FS_EmptySet
  <2>9. streak' < Patience'
    <3>1. Patience' = Patience  BY <1>1 DEF Patience
    <3> QED  BY <1>0, <1>1, <3>1, PatienceType
  <2>10. SuffixInv'  BY <2>2, <2>5, <2>6, <2>7, <2>8, <2>9 DEF SuffixInv
  <2> QED  BY <2>1, <2>10
<1> QED  BY <1>8, <1>9, <1>12, <1>13 DEF IndInv

(* One unit of the loop that does not regress. *)
LEMMA UnitAdvancesInv == ASSUME IndInv, UnitAdvances PROVE IndInv'
<1>0. /\ TypeOK /\ TrimInv /\ RegressInv
      /\ Len(draft) \in Nat /\ kept \in Nat /\ kept <= Len(draft) /\ upto \in Nat
  BY DEF IndInv, TypeOK
<1>1. /\ phase = "regress" /\ upto < kept /\ ~Regresses(Evidence, Reference(trusted))
      /\ upto' = NextEnd /\ streak' = 0 /\ pending' = NoPos
      /\ trusted' = trusted \o UnitPositions
      /\ UNCHANGED <<cfg, req, draft, drafted, phase, unsafe, blocked, kept, argmax_streak,
                     accepted>>
  BY DEF UnitAdvances
<1>2. upto \in {0} \cup UnitEnds(kept)  BY <1>0, <1>1 DEF RegressInv
<1>3. PICK n \in 1 .. kept : n = NextEnd /\ n > upto /\ n \in UnitEnds(kept)
  BY <1>0, <1>1, <1>2, NextEndProps
<1>4. /\ UnitPositions \in Seq(Nat)
      /\ \A k \in 1 .. Len(UnitPositions) :
           \E i \in upto + 1 .. n : UnitPositions[k] = draft[i].pos
      /\ \A i \in upto + 1 .. n :
           draft[i].pos = NoPos
           \/ \E k \in 1 .. Len(UnitPositions) : UnitPositions[k] = draft[i].pos
  BY <1>0, <1>1, <1>2, <1>3, UnitPositionsProps
<1> DEFINE p == UnitPositions
<1> HIDE DEF p
<1>5. /\ trusted \in Seq(Nat) /\ p \in Seq(Nat) /\ trusted' = trusted \o p
      /\ Len(trusted) \in Nat /\ Len(p) \in Nat
  BY <1>0, <1>1, <1>4 DEF TypeOK, p
<1>6. /\ trusted' \in Seq(Nat) /\ Len(trusted') = Len(trusted) + Len(p)
      /\ \A k \in 1 .. Len(trusted) : trusted'[k] = trusted[k]
      /\ \A k \in 1 .. Len(p) : trusted'[Len(trusted) + k] = p[k]
  <2>1. ASSUME NEW a \in Seq(Nat), NEW b \in Seq(Nat)
        PROVE  /\ a \o b \in Seq(Nat) /\ Len(a \o b) = Len(a) + Len(b)
               /\ \A k \in 1 .. Len(a) : (a \o b)[k] = a[k]
               /\ \A k \in 1 .. Len(b) : (a \o b)[Len(a) + k] = b[k]
    OBVIOUS
  <2>2. PICK w : w = trusted \o p  OBVIOUS
  <2>3. /\ w \in Seq(Nat) /\ Len(w) = Len(trusted) + Len(p)
        /\ \A k \in 1 .. Len(trusted) : w[k] = trusted[k]
        /\ \A k \in 1 .. Len(p) : w[Len(trusted) + k] = p[k]
    BY <1>5, <2>1, <2>2
  <2> QED  BY <1>5, <2>2, <2>3
<1>7. TypeOK'
  <2>1. n \in 0 .. Len(draft)  BY <1>0
  <2> QED  BY <1>0, <1>1, <1>3, <1>6, <2>1 DEF TypeOK
<1>8. WalkInv'  BY <1>1 DEF WalkInv
<1>9. TrimInv'
  <2>1. Result' = Result /\ Result = kept  BY <1>1 DEF Result
  <2>2. Boundary(kept) /\ FiniteUpTo(kept) /\ InsideFrom(kept)
    BY <1>0, <1>1, <2>1 DEF TrimInv, Trimmed
  <2>3. Boundary(kept)' /\ FiniteUpTo(kept)' /\ InsideFrom(kept)'
    BY <1>1, <2>2 DEF Boundary, FiniteUpTo, InsideFrom, AtFrontier
  <2>4. Result' = kept' /\ kept' \in 0 .. kept' /\ phase' = "regress"
    BY <1>0, <1>1, <2>1
  <2> QED  BY <2>3, <2>4 DEF TrimInv
<1>10. RegressInv'
  <2>1. upto' = n /\ pending' = NoPos /\ NoPos <= n /\ n \in Nat  BY <1>1, <1>3 DEF NoPos
  <2>2. n \in UnitEnds(kept)'  BY <1>1, <1>3 DEF UnitEnds
  <2>3. PendingTrim' = n  BY <2>1 DEF PendingTrim
  <2>4. ASSUME PlainRegression' PROVE TrustedOf(upto)'
    <3>1. PlainRegression /\ TrustedOf(upto)
      <4>1. PlainRegression  BY <1>1, <2>4 DEF PlainRegression
      <4> QED  BY <1>0, <1>1, <4>1 DEF RegressInv, SuffixInv
    <3>2. ASSUME NEW k \in 1 .. Len(trusted') PROVE \E i \in 1 .. n : trusted'[k] = draft[i].pos
      <4>1. CASE k \in 1 .. Len(trusted)
        <5>1. PICK i \in 1 .. upto : trusted[k] = draft[i].pos  BY <3>1, <4>1 DEF TrustedOf
        <5>2. i \in 1 .. n  BY <1>0, <1>3
        <5> QED  BY <1>6, <4>1, <5>1, <5>2
      <4>2. CASE k \notin 1 .. Len(trusted)
        <5>1. PICK l \in 1 .. Len(p) : k = Len(trusted) + l
          <6>1. k - Len(trusted) \in 1 .. Len(p) /\ k = Len(trusted) + (k - Len(trusted))
            BY <1>5, <1>6, <4>2
          <6> QED  BY <6>1
        <5>2. PICK i \in upto + 1 .. n : p[l] = draft[i].pos  BY <1>4 DEF p
        <5>3. i \in 1 .. n  BY <1>0, <1>3
        <5> QED  BY <1>6, <5>1, <5>2, <5>3
      <4> QED  BY <4>1, <4>2
    <3>3. ASSUME NEW i \in 1 .. n
          PROVE  draft[i].pos = NoPos \/ \E k \in 1 .. Len(trusted') : trusted'[k] >= draft[i].pos
      <4>1. CASE i \in 1 .. upto
        <5>1. draft[i].pos = NoPos \/ \E k \in 1 .. Len(trusted) : trusted[k] >= draft[i].pos
          BY <3>1, <4>1 DEF TrustedOf
        <5>2. \A k \in 1 .. Len(trusted) : k \in 1 .. Len(trusted') /\ trusted'[k] = trusted[k]
          BY <1>5, <1>6
        <5> QED  BY <5>1, <5>2
      <4>2. CASE i \in upto + 1 .. n
        <5>1. draft[i].pos = NoPos \/ \E k \in 1 .. Len(p) : p[k] = draft[i].pos
          BY <1>4, <4>2 DEF p
        <5>2. \A k \in 1 .. Len(p) : /\ Len(trusted) + k \in 1 .. Len(trusted')
                                     /\ trusted'[Len(trusted) + k] = p[k] /\ p[k] \in Nat
                                     /\ p[k] >= p[k]
          BY <1>5, <1>6
        <5> QED  BY <5>1, <5>2
      <4> QED  BY <1>0, <1>3, <4>1, <4>2
    <3> QED  BY <1>1, <2>1, <3>2, <3>3 DEF TrustedOf
  <2>5. ASSUME PlainRegression' PROVE SuffixInv'
    <3>1. PlainRegression  BY <1>1, <2>5 DEF PlainRegression
    <3>2. Progressing(n) /\ ~Behind(n)  BY <1>1, <1>3, <3>1, AdvanceProgress
    <3>3. Progressing(n)' /\ ~Behind(n)'  BY <1>1, <3>2, Steady
    <3>4. Between(n, n) = {}
      <4>1. \A e \in UnitEnds(kept) : e \in Nat  BY <1>0, EndsProps
      <4>2. \A e \in UnitEnds(kept) : ~(n < e /\ e <= n)  BY <2>1, <4>1
      <4> QED  BY <4>2 DEF Between
    <3>5. Between(PendingTrim, upto)' = {}
      <4>1. Between(n, n)' = Between(n, n)  BY <1>1, Steady
      <4> QED  BY <2>1, <2>3, <3>4, <4>1 DEF Between
    <3>6. streak' = Cardinality(Between(PendingTrim, upto)')  BY <1>1, <3>5, FS_EmptySet
    <3>7. streak' < Patience'
      <4>1. Patience' = Patience  BY <1>1 DEF Patience
      <4> QED  BY <1>0, <1>1, <4>1, PatienceType
    <3> QED  BY <2>3, <2>4, <2>5, <3>3, <3>5, <3>6, <3>7 DEF SuffixInv
  <2> QED  BY <2>1, <2>2, <2>5 DEF RegressInv
<1> QED  BY <1>7, <1>8, <1>9, <1>10 DEF IndInv

(* Where a trim of the loop may cut. *)
LEMMA PendingWhole ==
  ASSUME IndInv, phase = "regress"
  PROVE  /\ PendingTrim \in {0} \cup UnitEnds(kept) /\ PendingTrim \in 0 .. kept
         /\ PendingTrim <= upto
         /\ Boundary(PendingTrim) /\ FiniteUpTo(PendingTrim) /\ InsideFrom(PendingTrim)
         /\ kept \in 0 .. Len(draft)
<1>0. /\ TypeOK /\ TrimInv /\ RegressInv /\ kept \in 0 .. Len(draft)
      /\ draft \in Seq(Tokens) /\ kept \in Nat /\ upto \in Nat
  BY DEF IndInv, TypeOK
<1>1. Result = kept /\ Boundary(kept) /\ FiniteUpTo(kept) /\ InsideFrom(kept)
  BY <1>0 DEF TrimInv, Trimmed, Result
<1>2. PendingTrim \in {0} \cup UnitEnds(kept) /\ PendingTrim <= upto
  BY <1>0 DEF RegressInv, PendingTrim
<1>3. PendingTrim \in 0 .. kept /\ Boundary(PendingTrim)  BY <1>0, <1>1, <1>2, EndBoundary
<1>4. FiniteUpTo(PendingTrim) /\ InsideFrom(PendingTrim)
  <2> DEFINE a == PendingTrim
  <2>1. a \in 0 .. kept /\ Boundary(a)  BY <1>3
  <2> HIDE DEF a
  <2>2. FiniteUpTo(a) /\ InsideFrom(a)  BY <1>0, <1>1, <2>1, Narrowed
  <2> QED  BY <2>2 DEF a
<1> QED  BY <1>0, <1>2, <1>3, <1>4

(* One unit that does. *)
LEMMA UnitRegressesInv == ASSUME IndInv, UnitRegresses PROVE IndInv'
<1>0. /\ TypeOK /\ TrimInv /\ RegressInv
      /\ Len(draft) \in Nat /\ kept \in Nat /\ kept <= Len(draft) /\ upto \in Nat
      /\ streak \in Nat
  BY DEF IndInv, TypeOK
<1> DEFINE limit == cfg.regression_action = "trim_target_unit"
                    /\ streak + 1 >= cfg.regression_patience
<1>1. /\ phase = "regress" /\ upto < kept /\ Regresses(Evidence, Reference(trusted))
      /\ streak' = streak + 1
      /\ limit => upto' = PendingTrim /\ phase' = "cut" /\ UNCHANGED pending
      /\ ~limit => upto' = NextEnd /\ pending' = PendingTrim /\ UNCHANGED phase
      /\ UNCHANGED <<cfg, req, draft, drafted, unsafe, blocked, kept, trusted, argmax_streak,
                     accepted>>
  BY DEF UnitRegresses
<1>2. PICK a \in 0 .. kept : /\ a = PendingTrim /\ a \in {0} \cup UnitEnds(kept) /\ a <= upto
                             /\ Boundary(a) /\ FiniteUpTo(a) /\ InsideFrom(a)
  BY <1>1, PendingWhole
<1>3. Progressing(a)
  BY <1>0, <1>1, <1>2 DEF RegressInv, SuffixInv, Progressing
<1>4. /\ Boundary(a)' /\ FiniteUpTo(a)' /\ InsideFrom(a)' /\ Progressing(a)'
  BY <1>1, <1>2, <1>3, Steady
<1>5. upto \in {0} \cup UnitEnds(kept)  BY <1>0, <1>1 DEF RegressInv
<1>6. PICK n \in 1 .. kept : /\ n = NextEnd /\ n > upto /\ n \in UnitEnds(kept)
                             /\ \A e \in UnitEnds(kept) : e > upto => e >= n
  BY <1>0, <1>1, <1>5, NextEndProps
<1>7. CASE limit
  <2>1. kept' = kept /\ phase' = "cut" /\ upto' = a /\ pending' = pending
    BY <1>1, <1>2, <1>7
  <2>2. a \in 0 .. Len(draft)  BY <1>0
  <2>3. TypeOK'  BY <1>0, <1>1, <2>1, <2>2 DEF TypeOK
  <2>4. WalkInv' /\ RegressInv'  BY <2>1 DEF WalkInv, RegressInv
  <2>5. Result' = a /\ a \in 0 .. kept'  BY <2>1 DEF Result
  <2>6. TrimInv'  BY <1>4, <2>5 DEF TrimInv
  <2> QED  BY <2>3, <2>4, <2>6 DEF IndInv
<1>8. CASE ~limit
  <2> HIDE DEF limit
  <2>1. upto' = n /\ pending' = a /\ kept' = kept /\ phase' = "regress"
    BY <1>1, <1>2, <1>6, <1>8
  <2>2. n \in 0 .. Len(draft) /\ a \in Nat /\ n \in Nat /\ a <= n  BY <1>0, <1>2, <1>6
  <2>3. TypeOK'  BY <1>0, <1>1, <2>1, <2>2 DEF TypeOK
  <2>4. WalkInv'  BY <2>1 DEF WalkInv
  <2>5. TrimInv'
    <3>1. Result' = Result /\ Result = kept  BY <1>1, <2>1 DEF Result
    <3>2. Boundary(kept) /\ FiniteUpTo(kept) /\ InsideFrom(kept)
      BY <1>0, <1>1, <3>1 DEF TrimInv, Trimmed
    <3>3. Boundary(kept)' /\ FiniteUpTo(kept)' /\ InsideFrom(kept)'
      BY <1>1, <2>1, <3>2 DEF Boundary, FiniteUpTo, InsideFrom, AtFrontier
    <3>4. Result' = kept' /\ kept' \in 0 .. kept'  BY <1>0, <1>1, <2>1, <3>1
    <3> QED  BY <2>1, <3>3, <3>4 DEF TrimInv
  <2>6. UnitEnds(kept)' = UnitEnds(kept)  BY <1>1, <2>1 DEF UnitEnds
  <2>7. a # NoPos  BY <2>2 DEF NoPos
  <2>8. PendingTrim' = a  BY <2>1, <2>7 DEF PendingTrim
  <2>9. ASSUME PlainRegression' PROVE TrustedOf(upto)'
    <3>1. PlainRegression  BY <1>1, <2>9 DEF PlainRegression
    <3>2. TrustedOf(upto)  BY <1>0, <1>1, <3>1 DEF RegressInv, SuffixInv
    <3> DEFINE h == Evidence.pos
               ref == Reference(trusted)
    <3>3. /\ cfg.max_regression \in Nat
          /\ h # NoPos /\ ref # NoPos /\ h < ref - cfg.max_regression
      BY <1>0, <1>1, <1>5, <3>1, PlainGate
    <3>5. h = HighestOf(upto + 1 .. n)  BY <1>0, <1>1, <1>5, <1>6, EvidenceProps
    <3>6. /\ h \in Nat \cup {NoPos}
          /\ \A i \in upto + 1 .. n : draft[i].pos \in Nat \cup {NoPos} /\ draft[i].pos <= h
      <4>1. upto + 1 .. n \in SUBSET (1 .. Len(draft))  BY <1>0
      <4> QED  BY <1>0, <3>5, <4>1, HighestProps
    <3>7. ref \in Nat /\ \E k \in 1 .. Len(trusted) : trusted[k] = ref
      BY <1>0, <3>1, <3>3, ReferenceProps DEF PlainRegression
    <3> HIDE DEF h, ref
    <3>8. \A i \in upto + 1 .. n : ref >= draft[i].pos
      <4>1. NoPos = -1  BY DEF NoPos
      <4>2. h <= ref  BY <3>3, <3>6, <3>7, <4>1
      <4> QED  BY <3>6, <3>7, <4>1, <4>2
    <3>9. \A k \in 1 .. Len(trusted) : \E i \in 1 .. n : trusted[k] = draft[i].pos
      <4>1. \A i \in 1 .. upto : i \in 1 .. n  BY <1>0, <1>6
      <4> QED  BY <3>2, <4>1 DEF TrustedOf
    <3>10. \A i \in 1 .. n :
             draft[i].pos = NoPos \/ \E k \in 1 .. Len(trusted) : trusted[k] >= draft[i].pos
      <4>1. \A i \in 1 .. n : i \in 1 .. upto \/ i \in upto + 1 .. n  BY <1>0, <1>6
      <4> QED  BY <3>2, <3>7, <3>8, <4>1 DEF TrustedOf
    <3> QED  BY <1>1, <2>1, <3>9, <3>10 DEF TrustedOf
  <2>10. ASSUME PlainRegression' PROVE SuffixInv'
    <3>1. PlainRegression /\ SuffixInv
      <4>1. PlainRegression  BY <1>1, <2>10 DEF PlainRegression
      <4> QED  BY <1>0, <1>1, <4>1 DEF RegressInv
    <3>2. Behind(n)  BY <1>0, <1>1, <1>5, <1>6, <3>1, GateBehind DEF SuffixInv
    <3> DEFINE S == Between(a, upto)
    <3>3. Between(a, n) = S \cup {n} /\ n \notin S
      <4>1. \A e \in UnitEnds(kept) : e \in Nat  BY <1>0, EndsProps
      <4>2. \A e \in UnitEnds(kept) : a < e /\ e <= n <=> (a < e /\ e <= upto) \/ e = n
        BY <1>0, <1>2, <1>6, <2>2, <4>1
      <4>3. ~(n <= upto)  BY <1>0, <1>6, <2>2
      <4> QED  BY <1>6, <4>2, <4>3 DEF Between
    <3>4. IsFiniteSet(S) /\ Cardinality(S) \in Nat  BY <1>0, BetweenProps
    <3>5. streak = Cardinality(S) /\ \A e \in S : Behind(e)  BY <1>2, <3>1 DEF SuffixInv
    <3> HIDE DEF S
    <3>6. Cardinality(Between(a, n)) = streak + 1  BY <3>3, <3>4, <3>5, FS_AddElement
    <3>7. Between(PendingTrim, upto)' = Between(a, n)
      <4>1. Between(a, n)' = Between(a, n)  BY <1>1, Steady
      <4> QED  BY <2>1, <2>8, <4>1 DEF Between
    <3>8. \A e \in Between(PendingTrim, upto)' : Behind(e)'
      <4>1. \A e \in Between(a, n) : Behind(e)  BY <3>2, <3>3, <3>5
      <4> QED  BY <1>1, <3>7, <4>1, Steady
    <3>9. streak' = Cardinality(Between(PendingTrim, upto)')  BY <1>1, <3>6, <3>7
    <3>10. cfg'.regression_action = "trim_target_unit" => streak' < Patience'
      <4>1. Patience' = Patience  BY <1>1 DEF Patience
      <4>2. cfg.regression_patience \in Nat  BY <1>0, PatienceType
      <4>3. cfg.regression_action = "trim_target_unit" => streak + 1 < cfg.regression_patience
        BY <1>0, <1>8, <4>2 DEF limit
      <4>4. cfg.regression_action = "trim_target_unit" => streak + 1 < Patience
        BY <1>0, <4>2, <4>3 DEF Patience
      <4> QED  BY <1>1, <4>1, <4>4
    <3>11. PendingTrim' = 0 \/ ~Behind(PendingTrim)'
      <4>1. a = 0 \/ ~Behind(a)  BY <1>2, <3>1 DEF SuffixInv
      <4>2. a = 0 \/ ~Behind(a)'  BY <1>1, <4>1, Steady
      <4> QED  BY <2>8, <4>2
    <3>12. Progressing(PendingTrim)'  BY <1>4, <2>8
    <3> QED  BY <2>9, <2>10, <3>8, <3>9, <3>10, <3>11, <3>12 DEF SuffixInv
  <2>11. RegressInv'
    <3>1. upto' \in UnitEnds(kept)' /\ pending' \in {0} \cup UnitEnds(kept)' /\ pending' <= upto'
      BY <1>2, <1>6, <2>1, <2>2, <2>6
    <3> QED  BY <2>10, <3>1 DEF RegressInv
  <2> QED  BY <2>3, <2>4, <2>5, <2>11 DEF IndInv
<1> QED  BY <1>7, <1>8

(* The loop is over. *)
LEMMA RegressionTrimmedInv == ASSUME IndInv, RegressionTrimmed PROVE IndInv'
<1>0. /\ TypeOK /\ TrimInv /\ RegressInv
      /\ Len(draft) \in Nat /\ kept \in Nat /\ kept <= Len(draft) /\ upto \in Nat
      /\ streak \in Nat
  BY DEF IndInv, TypeOK
<1>1. /\ phase = "regress" /\ upto = kept /\ upto' = Recovered /\ phase' = "cut"
      /\ UNCHANGED <<cfg, req, draft, drafted, unsafe, blocked, kept, trusted, argmax_streak,
                     streak, pending, accepted>>
  BY DEF RegressionTrimmed
<1>2. PICK a \in 0 .. kept : /\ a = PendingTrim
                             /\ Boundary(a) /\ FiniteUpTo(a) /\ InsideFrom(a)
  BY <1>1, PendingWhole
<1>3. Boundary(kept) /\ FiniteUpTo(kept) /\ InsideFrom(kept)
  BY <1>0, <1>1 DEF TrimInv, Trimmed, Result
<1>4. Recovered = kept \/ Recovered = a  BY <1>2 DEF Recovered, PendingTrim
<1>5. PICK r \in 0 .. kept : r = Recovered  BY <1>0, <1>4
<1>6. Boundary(r) /\ FiniteUpTo(r) /\ InsideFrom(r)  BY <1>2, <1>3, <1>4, <1>5
<1>7. Progressing(r)
  <2>1. Progressing(Recovered)  BY <1>1, RecoveredProgress
  <2> QED  BY <1>5, <2>1 DEF Progressing
<1>8. /\ Boundary(r)' /\ FiniteUpTo(r)' /\ InsideFrom(r)' /\ Progressing(r)'
  BY <1>1, <1>6, <1>7, Steady
<1>9. r \in 0 .. Len(draft)  BY <1>0
<1>10. TypeOK'  BY <1>0, <1>1, <1>5, <1>9 DEF TypeOK
<1>11. WalkInv' /\ RegressInv'  BY <1>1 DEF WalkInv, RegressInv
<1>12. Result' = r /\ r \in 0 .. kept'  BY <1>1, <1>5 DEF Result
<1>13. TrimInv'  BY <1>8, <1>12 DEF TrimInv
<1> QED  BY <1>10, <1>11, <1>13 DEF IndInv

(* The last trims. *)
LEMMA AcceptInv == ASSUME IndInv, Accept PROVE IndInv'
<1>0. TypeOK /\ TrimInv /\ kept \in 0 .. Len(draft) /\ kept \in Nat /\ Len(draft) \in Nat
  BY DEF IndInv, TypeOK
<1>1. /\ phase = "cut" /\ phase' = "done"
      /\ accepted' \in ProvenanceTrim(SourceContext(MinEmit(PunctuationTrim(
                         CutUnits(LookbackTrim(upto), cfg.hold_back)))))
      /\ UNCHANGED <<cfg, req, draft, drafted, unsafe, blocked, kept, trusted, argmax_streak,
                     streak, upto, pending>>
  BY DEF Accept
<1>2. /\ upto \in 0 .. kept /\ upto \in 0 .. Len(draft) /\ upto \in Nat
      /\ Boundary(upto) /\ FiniteUpTo(upto) /\ InsideFrom(upto) /\ Progressing(upto)
  BY <1>0, <1>1 DEF TrimInv, Trimmed, Result
<1>3. PICK a : a = accepted'  OBVIOUS
<1>4. a \in 0 .. upto /\ Boundary(a)  BY <1>0, <1>1, <1>2, <1>3, AcceptWhole
<1>5. FiniteUpTo(a) /\ InsideFrom(a) /\ Progressing(a)  BY <1>0, <1>2, <1>4, Narrowed
<1>6. Boundary(a)' /\ FiniteUpTo(a)' /\ InsideFrom(a)' /\ Progressing(a)'
  BY <1>1, <1>4, <1>5, Steady
<1>7. a \in Nat /\ a \in 0 .. kept  BY <1>0, <1>2, <1>4
<1>8. TypeOK'  BY <1>0, <1>1, <1>3, <1>7 DEF TypeOK
<1>9. WalkInv' /\ RegressInv'  BY <1>1 DEF WalkInv, RegressInv
<1>10. Result' = a /\ a \in 0 .. kept'  BY <1>1, <1>3, <1>7 DEF Result
<1>11. TrimInv'  BY <1>6, <1>10 DEF TrimInv
<1> QED  BY <1>8, <1>9, <1>11 DEF IndInv

LEMMA StutterInv == ASSUME IndInv, UNCHANGED vars PROVE IndInv'
<1>1. /\ UNCHANGED <<cfg, req, draft, drafted, phase, unsafe, blocked, kept, trusted,
                     argmax_streak, streak, upto, pending, accepted>>
  BY DEF vars
<1>2. TypeOK'  BY <1>1 DEF IndInv, TypeOK
<1>3. WalkInv'  BY <1>1 DEF IndInv, WalkInv, Checked, FiniteUpTo
<1>4. Result' = Result /\ Trimmed' = Trimmed /\ PendingTrim' = PendingTrim
  BY <1>1 DEF Result, Trimmed, Checked, PendingTrim
<1>5. PICK r, a, u : r = Result /\ a = PendingTrim /\ u = upto  OBVIOUS
<1>6. /\ Boundary(r)' = Boundary(r) /\ FiniteUpTo(r)' = FiniteUpTo(r)
      /\ InsideFrom(r)' = InsideFrom(r) /\ Progressing(r)' = Progressing(r)
      /\ Progressing(a)' = Progressing(a) /\ Between(a, u)' = Between(a, u)
      /\ \A e : Behind(e)' = Behind(e)
      /\ PlainRegression' = PlainRegression
  BY <1>1, Steady
<1>7. TrimInv'  BY <1>1, <1>4, <1>5, <1>6 DEF IndInv, TrimInv
<1>8. RegressInv'
  <2>1. TrustedOf(upto)' = TrustedOf(upto)  BY <1>1 DEF TrustedOf
  <2>2. UnitEnds(kept)' = UnitEnds(kept)  BY <1>1 DEF UnitEnds
  <2>3. Patience' = Patience  BY <1>1 DEF Patience
  <2>4. Between(PendingTrim, upto)' = Between(PendingTrim, upto)
    BY <1>1, <1>4, <2>2 DEF Between
  <2>5. Behind(PendingTrim)' = Behind(PendingTrim)
        /\ Progressing(PendingTrim)' = Progressing(PendingTrim)
    <3>1. Behind(a)' = Behind(a)  BY <1>6
    <3>2. PendingTrim = a /\ PendingTrim' = a  BY <1>4, <1>5
    <3>3. Behind(PendingTrim)' = Behind(a)'  BY <3>2 DEF Behind, HighestOf, Unit, UnitStart, Starts
    <3>4. Progressing(PendingTrim)' = Progressing(a)'  BY <3>2 DEF Progressing
    <3> QED  BY <1>5, <1>6, <3>1, <3>3, <3>4
  <2>6. SuffixInv' = SuffixInv
    BY <1>1, <1>4, <1>6, <2>1, <2>3, <2>4, <2>5 DEF SuffixInv
  <2> QED  BY <1>1, <1>6, <2>2, <2>6 DEF IndInv, RegressInv
<1> QED  BY <1>2, <1>3, <1>7, <1>8 DEF IndInv

-----------------------------------------------------------------------------
LEMMA InitInv == Init => IndInv
<1> SUFFICES ASSUME Init PROVE IndInv  OBVIOUS
<1>1. Len(draft) = 0 /\ draft \in Seq(Tokens) /\ trusted \in Seq(Nat)  BY DEF Init
<1>2. TypeOK  BY <1>1, AcceptancePolicyAssumption DEF Init, TypeOK
<1>3. WalkInv  BY <1>1 DEF Init, WalkInv, FiniteUpTo
<1>4. TrimInv /\ RegressInv  BY DEF Init, TrimInv, Trimmed, RegressInv
<1> QED  BY <1>2, <1>3, <1>4 DEF IndInv

(* Whatever the draft, its attention and the options, in every reachable state. *)
THEOREM Invariance == Spec => []IndInv
<1>1. IndInv /\ [Next]_vars => IndInv'
  <2> SUFFICES ASSUME IndInv, [Next]_vars PROVE IndInv'  OBVIOUS
  <2> QED
    BY AcceptTokenInv, StopAtTokenInv, StopAtUnitInv, DraftEndsInv, AcceptUncheckedInv,
       TrimBoundaryInv, UnitAdvancesInv, UnitRegressesInv, RegressionTrimmedInv, AcceptInv,
       StutterInv
       DEF Next, Done
<1> QED  BY <1>1, InitInv, PTL DEF Spec

(* What is shown is the result of the trims. *)
LEMMA ShownProps ==
  ASSUME IndInv, Shown # {}
  PROVE  /\ accepted \in 1 .. Len(draft) /\ Shown = 1 .. accepted
         /\ Boundary(accepted) /\ FiniteUpTo(accepted) /\ InsideFrom(accepted)
         /\ \A e \in UnitEnds(accepted) : PlainRegression /\ Behind(e) => Spared(e)
<1>1. phase = "done" /\ Checked /\ Shown = 1 .. accepted  BY DEF Shown
<1>2. TypeOK /\ TrimInv /\ accepted \in Nat /\ kept \in 0 .. Len(draft) /\ Len(draft) \in Nat
  BY DEF IndInv, TypeOK
<1>3. Result = accepted /\ Trimmed /\ phase # "regress"  BY <1>1 DEF Result, Trimmed
<1>a. /\ accepted \in 0 .. kept /\ Boundary(accepted) /\ FiniteUpTo(accepted)
      /\ InsideFrom(accepted) /\ Progressing(accepted)
  BY <1>2, <1>3 DEF TrimInv
<1>4. /\ accepted \in 0 .. Len(draft) /\ Boundary(accepted) /\ FiniteUpTo(accepted)
      /\ InsideFrom(accepted)
      /\ \A e \in UnitEnds(accepted) : PlainRegression /\ Behind(e) => Spared(e)
  <2>1. UnitEnds(accepted) \subseteq UnitEnds(kept)  BY <1>2, <1>a, Narrowed
  <2>2. \A e \in UnitEnds(accepted) : e <= accepted  BY <1>2, EndsProps
  <2> QED  BY <1>2, <1>a, <2>1, <2>2 DEF Progressing
<1>5. accepted # 0
  <2>1. accepted = 0 => 1 .. accepted = {}  BY <1>2
  <2> QED  BY <1>1, <2>1
<1> QED  BY <1>1, <1>2, <1>4, <1>5

(* TypeOK: the counters and indices of translate and finalize_partial stay in range. *)
THEOREM TypeCorrect == Spec => []TypeOK
<1>1. IndInv => TypeOK  BY DEF IndInv
<1> QED  BY <1>1, Invariance, PTL

(* finalize_partial: no trim, in any combination, leaves part of a word at the end. *)
THEOREM UnitsWhole == Spec => []WholeUnits
<1>1. IndInv => WholeUnits
  <2>1. ASSUME IndInv, Shown # {} PROVE accepted < Len(draft) /\ draft[accepted + 1].starts
    BY <2>1, ShownProps DEF Boundary
  <2> QED  BY <2>1 DEF WholeUnits
<1> QED  BY <1>1, Invariance, PTL

(* translate: no token is shown whose captured attention is corrupt. *)
THEOREM CorruptNeverShown == Spec => []CorruptWithheld
<1>1. IndInv => CorruptWithheld
  <2>1. ASSUME IndInv, NEW i \in Shown PROVE draft[i].finite
    BY <2>1, ShownProps DEF FiniteUpTo
  <2> QED  BY <2>1 DEF CorruptWithheld
<1> QED  BY <1>1, Invariance, PTL

(* trim_for_source_frontier_target_units: what is shown beyond the frontier is followed by
   a token inside it. *)
THEOREM FrontierAlwaysRecovered == Spec => []FrontierRecovered
<1>1. IndInv => FrontierRecovered
  <2>1. ASSUME IndInv, NEW i \in Shown, cfg.frontier_action = "trim_unrecovered"
        PROVE  \E j \in i .. Len(draft) : Grounded(draft[j])
    <3>1. accepted \in 1 .. Len(draft) /\ i \in 1 .. accepted /\ InsideFrom(accepted)
      BY <2>1, ShownProps
    <3>2. TypeOK /\ Len(draft) \in Nat  BY <2>1, Typed DEF IndInv
    <3>3. PICK j \in accepted .. Len(draft) : ~AtFrontier(draft[j])
      BY <2>1, <3>1, <3>2 DEF InsideFrom
    <3>4. j \in i .. Len(draft) /\ j \in 1 .. Len(draft)  BY <3>1, <3>2
    <3>5. Grounded(draft[j])
      <4>1. draft[j].pos \in Nat \cup {NoPos} /\ draft[j].inacc \in Nat
        BY <3>2, <3>4, Typed DEF TokenType
      <4>2. req.accessible \in Nat /\ cfg.border_margin \in Nat
        BY <3>2, Typed DEF RequestType, ConfigType
      <4> QED  BY <3>3, <4>1, <4>2 DEF AtFrontier, Grounded, NoPos
    <3> QED  BY <3>4, <3>5
  <2> QED  BY <2>1 DEF FrontierRecovered
<1> QED  BY <1>1, Invariance, PTL

(* trim_for_source_regression_target_units: with "trim_target_unit" a run of units that
   fell behind, as long as the patience, is not shown, whatever the draft and its
   attention. *)
THEOREM UnitsMonotone == Spec => []MonotoneUnits
<1>1. IndInv => MonotoneUnits
  BY ShownProps DEF MonotoneUnits, Spared
<1> QED  BY <1>1, Invariance, PTL

(* With "trim_unrecovered" one is only if a later candidate caught up. *)
THEOREM RegressionAlwaysRecovered == Spec => []RegressionRecovered
<1>1. IndInv => RegressionRecovered
  BY ShownProps DEF RegressionRecovered, Spared
<1> QED  BY <1>1, Invariance, PTL
=============================================================================
