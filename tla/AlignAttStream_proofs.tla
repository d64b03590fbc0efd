----------------------- MODULE AlignAttStream_proofs -----------------------
(* Theorems about AlignAttStream, for every window, threshold and budget.  *)
EXTENDS AlignAttStream, TLAPS

(* The number of audio frames never decreases as the audio of a stream grows. *)
LEMMA FramesMonotone ==
  ASSUME NEW a \in Nat, NEW b \in Nat, a <= b
  PROVE  Frames(a) \in Nat /\ Frames(b) \in Nat /\ Frames(a) <= Frames(b)
<1> DEFINE S == SamplesPerFrame
<1> DEFINE x == a + S - 1
<1> DEFINE y == b + S - 1
<1>1. S \in Nat /\ S > 0  BY AlignAttStreamAssumption
<1>2. x \in Nat /\ y \in Nat /\ x <= y  BY <1>1
<1> HIDE DEF S, x, y
<1>3. x \div S \in Nat /\ y \div S \in Nat /\ x \div S <= y \div S  BY <1>1, <1>2
<1> QED  BY <1>3 DEF Frames, S, x, y

(* So is the start of the window: it never moves back. *)
LEMMA WinStartMonotone ==
  ASSUME NEW a \in Nat, NEW b \in Nat, a <= b
  PROVE  WinStart(a) \in Nat /\ WinStart(b) \in Nat /\ WinStart(a) <= WinStart(b)
<1>1. MaxWindow \in Nat  BY AlignAttStreamAssumption
<1>2. CASE b <= MaxWindow  BY <1>1, <1>2 DEF WinStart
<1>3. CASE a <= MaxWindow /\ b > MaxWindow
  <2>1. b - MaxWindow \in Nat  BY <1>1, <1>3
  <2>2. Frames(b - MaxWindow) \in Nat  BY <2>1, FramesMonotone
  <2> QED  BY <1>1, <1>3, <2>2 DEF WinStart
<1>4. CASE a > MaxWindow
  <2>1. a - MaxWindow \in Nat /\ b - MaxWindow \in Nat /\ a - MaxWindow <= b - MaxWindow
    BY <1>1, <1>4
  <2>2. Frames(a - MaxWindow) \in Nat /\ Frames(b - MaxWindow) \in Nat
        /\ Frames(a - MaxWindow) <= Frames(b - MaxWindow)
    BY <2>1, FramesMonotone
  <2> QED  BY <1>1, <1>4, <2>2 DEF WinStart
<1> QED  BY <1>1, <1>2, <1>3, <1>4

-----------------------------------------------------------------------------
(* The indices in forced and in fallen are on their side of the window start. *)
Sides ==
  /\ \A i \in forced : committed[i] >= WinStart(audio)
  /\ \A i \in fallen : committed[i] < WinStart(audio)

(* Sorted anchors need the frontier of the last retained token, holes need sorted
   anchors, and both need that what left the window stays out of it. *)
IndInv == TypeOK /\ SortedAnchors /\ AnchorsBehindHead /\ Sides

(* A stream that has heard nothing satisfies the invariant. *)
LEMMA InitInv == Init => IndInv
<1> SUFFICES ASSUME Init PROVE IndInv  OBVIOUS
<1>1. committed = <<>> /\ Len(committed) = 0  BY DEF Init
<1>2. TypeOK
  <2>1. committed \in Seq(Nat)  BY <1>1
  <2>2. forced = {} /\ fallen = {} /\ audio \in Nat /\ ended \in BOOLEAN
        /\ commit_policy \in CommitPolicies
    BY DEF Init
  <2> QED  BY <2>1, <2>2 DEF TypeOK
<1>3. SortedAnchors /\ AnchorsBehindHead  BY <1>1 DEF SortedAnchors, AnchorsBehindHead
<1>4. Sides  BY DEF Init, Sides
<1> QED  BY <1>2, <1>3, <1>4 DEF IndInv

(* What hearing more audio does to the window, whatever is committed afterwards: time
   grows, and the two index sets are on their side of the new window start. *)
LEMMA HearSides ==
  ASSUME IndInv, NEW is_final \in BOOLEAN, Hear(is_final)
  PROVE  /\ audio \in Nat /\ audio' \in Nat /\ audio <= audio'
         /\ ended = FALSE /\ ended' = is_final /\ commit_policy' = commit_policy
         /\ forced' \subseteq 1 .. Len(committed) /\ fallen' \subseteq 1 .. Len(committed)
         /\ \A i \in forced' : committed[i] >= WinStart(audio')
         /\ \A i \in fallen' : committed[i] < WinStart(audio')
<1>1. audio \in Nat /\ audio' \in Nat /\ audio <= audio'
  <2>1. PICK chunk \in Chunks \cup (IF is_final THEN {0} ELSE {}) : audio' = audio + chunk
    BY DEF Hear
  <2>2. chunk \in Nat  BY AlignAttStreamAssumption
  <2> QED  BY <2>1, <2>2 DEF IndInv, TypeOK
<1>2. WinStart(audio) \in Nat /\ WinStart(audio') \in Nat /\ WinStart(audio) <= WinStart(audio')
  BY <1>1, WinStartMonotone
<1>3. committed \in Seq(Nat)  BY DEF IndInv, TypeOK
<1>4. ASSUME NEW i \in fallen PROVE committed[i] < WinStart(audio')
  <2>1. i \in 1 .. Len(committed)  BY DEF IndInv, TypeOK
  <2>2. committed[i] \in Nat  BY <2>1, <1>3
  <2>3. committed[i] < WinStart(audio)  BY DEF IndInv, Sides
  <2> QED  BY <2>2, <2>3, <1>2
<1>5. fallen' = fallen \cup {i \in 1 .. Len(committed) : committed[i] < WinStart(audio')}
  BY DEF Hear
<1>6. \A i \in fallen' : committed[i] < WinStart(audio')  BY <1>4, <1>5
<1>7. fallen' \subseteq 1 .. Len(committed)  BY <1>5 DEF IndInv, TypeOK
<1>8. forced' = {i \in 1 .. Len(committed) : committed[i] >= WinStart(audio')}
  BY DEF Hear, InWindow
<1> QED  BY <1>1, <1>6, <1>7, <1>8 DEF Hear, IndInv, TypeOK

(* A step that commits nothing keeps the invariant: the head only moves on. *)
LEMMA SkipInv == ASSUME IndInv, StepSkipped PROVE IndInv'
<1>1. PICK is_final \in BOOLEAN : Hear(is_final)  BY DEF StepSkipped
<1>2. committed' = committed  BY DEF StepSkipped
<1>3. /\ audio \in Nat /\ audio' \in Nat /\ audio <= audio'
      /\ ended = FALSE /\ ended' = is_final /\ commit_policy' = commit_policy
      /\ forced' \subseteq 1 .. Len(committed) /\ fallen' \subseteq 1 .. Len(committed)
      /\ \A i \in forced' : committed[i] >= WinStart(audio')
      /\ \A i \in fallen' : committed[i] < WinStart(audio')
  BY <1>1, HearSides
<1>4. TypeOK'  BY <1>2, <1>3 DEF IndInv, TypeOK
<1>5. SortedAnchors'  BY <1>2, <1>3 DEF IndInv, SortedAnchors
<1>6. AnchorsBehindHead'
  <2>1. Frames(audio) \in Nat /\ Frames(audio') \in Nat /\ Frames(audio) <= Frames(audio')
    BY <1>3, FramesMonotone
  <2>2. ASSUME NEW i \in 1 .. Len(committed)
        PROVE  committed[i] < Frames(audio') /\ committed[i] + FrameThreshold < Frames(audio')
    <3>1. committed[i] \in Nat /\ FrameThreshold \in Nat
      BY AlignAttStreamAssumption DEF IndInv, TypeOK
    <3>2. committed[i] + FrameThreshold < Frames(audio)
      BY <1>3 DEF IndInv, AnchorsBehindHead
    <3> QED  BY <2>1, <3>1, <3>2
  <2> QED  BY <1>2, <2>2 DEF AnchorsBehindHead
<1>7. Sides'  BY <1>2, <1>3 DEF Sides
<1> QED  BY <1>4, <1>5, <1>6, <1>7 DEF IndInv

(* The path of the walk: a clipped argmax is a frame of the window, and under
   frontier_flush the path rises from the frontier and stays on frames that are the
   frontier or a clipped argmax. *)
LEMMA PathBounds ==
  ASSUME NEW content \in Nat \ {0}, NEW n \in Nat, NEW am \in [1 .. n -> -1 .. content],
         NEW prev \in Nat, NEW p, IsMajorant(p, Clipped(am, content), prev)
  PROVE  \A i \in 1 .. n :
           /\ p[i] \in Nat /\ p[i] >= prev /\ (p[i] = prev \/ p[i] < content)
           /\ \A j \in 1 .. n : i <= j => p[i] <= p[j]
<1> DEFINE clip == Clipped(am, content)
<1>1. DOMAIN clip = 1 .. n  BY DEF Clipped
<1>2. \A i \in 1 .. n : clip[i] \in Nat /\ clip[i] < content  BY DEF Clipped, Clip
<1>3. \A i \in 1 .. n : /\ p[i] >= prev /\ \A j \in 1 .. i : p[i] >= clip[j]
                        /\ p[i] = prev \/ \E j \in 1 .. i : p[i] = clip[j]
  BY <1>1 DEF IsMajorant
<1> HIDE DEF clip
<1>4. \A i \in 1 .. n : p[i] \in Nat /\ (p[i] = prev \/ p[i] < content)
  BY <1>2, <1>3
<1>5. ASSUME NEW i \in 1 .. n, NEW j \in 1 .. n, i <= j PROVE p[i] <= p[j]
  <2>1. CASE p[i] = prev  BY <2>1, <1>3
  <2>2. CASE \E m \in 1 .. i : p[i] = clip[m]
    <3>1. PICK m \in 1 .. i : p[i] = clip[m]  BY <2>2
    <3>2. m \in 1 .. j  BY <1>5, <3>1
    <3> QED  BY <3>1, <3>2, <1>3
  <2> QED  BY <2>1, <2>2, <1>3
<1> QED  BY <1>3, <1>4, <1>5

(* Under frontier_flush, with sorted anchors, the frontier is the greatest anchor there
   is, seen from the window start, or 0 when every anchor lies before it. *)
LEMMA FrontierIsLast ==
  ASSUME TypeOK, SortedAnchors, commit_policy = "frontier_flush", NEW w \in Nat
  PROVE  /\ PrevCommit(w) \in Nat
         /\ \A i \in 1 .. Len(committed) : committed[i] <= w + PrevCommit(w)
         /\ PrevCommit(w) = 0 \/ \E i \in 1 .. Len(committed) : committed[i] = w + PrevCommit(w)
<1> DEFINE L == Len(committed)
<1>1. L \in Nat /\ \A i \in 1 .. L : committed[i] \in Nat  BY DEF TypeOK
<1>2. \A i, j \in 1 .. L : i <= j => committed[i] <= committed[j]  BY DEF SortedAnchors
<1>3. CASE InWindow(w) = {}
  <2>1. PrevCommit(w) = 0  BY <1>3 DEF PrevCommit
  <2>2. \A i \in 1 .. L : ~(committed[i] >= w)  BY <1>3 DEF InWindow
  <2> QED  BY <2>1, <2>2, <1>1
<1>4. CASE InWindow(w) # {}
  <2>1. PICK a \in 1 .. L : committed[a] >= w  BY <1>4 DEF InWindow
  <2>2. L \in 1 .. L /\ a <= L  BY <2>1, <1>1
  <2>3. committed[L] >= w  BY <2>1, <2>2, <1>1, <1>2
  <2>4. L \in InWindow(w) /\ \A j \in InWindow(w) : j <= L  BY <2>2, <2>3, <1>1 DEF InWindow
  <2> DEFINE c == CHOOSE i \in InWindow(w) : \A j \in InWindow(w) : j <= i
  <2>5. c \in InWindow(w) /\ \A j \in InWindow(w) : j <= c  BY <2>4
  <2>6. c = L  BY <2>4, <2>5, <1>1 DEF InWindow
  <2>7. PrevCommit(w) = committed[L] - w  BY <1>4, <2>6 DEF PrevCommit
  <2>8. \A i \in 1 .. L : committed[i] <= committed[L]  BY <2>2, <1>1, <1>2
  <2> QED  BY <2>2, <2>3, <2>7, <2>8, <1>1
<1> QED  BY <1>3, <1>4

(* A sum is monotone in its second part. *)
LEMMA AddMonotone ==
  ASSUME NEW c \in Nat, NEW w \in Nat, NEW x \in Nat, NEW y \in Nat, c <= w + x, x <= y
  PROVE  c <= w + y
OBVIOUS

(* The committed anchors are before frame F. *)
BehindFrame(F) == \A i \in 1 .. Len(committed) : committed[i] < F

(* The first k tokens of path p may be appended: they are behind the head F and its band,
   and under frontier_flush sorted and after what is committed. *)
GoodWalk(w, F, p, k, is_final) ==
  /\ \A i \in 1 .. k : /\ p[i] \in Nat /\ w + p[i] < F
                       /\ ~is_final => w + p[i] + FrameThreshold < F
  /\ commit_policy = "frontier_flush" =>
       /\ \A i, j \in 1 .. k : i <= j => p[i] <= p[j]
       /\ \A i \in 1 .. k, j \in 1 .. Len(committed) : committed[j] <= w + p[i]

(* What a commit walk appends: each new anchor is behind the head and, before the final
   chunk, behind the held-back band; under frontier_flush the new anchors are sorted and
   after every earlier one. *)
LEMMA WalkAnchors ==
  ASSUME TypeOK, SortedAnchors, NEW w \in Nat, NEW F \in Nat, NEW n \in Nat,
         NEW content \in 1 .. F - w, NEW am \in [1 .. n -> -1 .. content],
         NEW k \in 0 .. n, NEW p \in [1 .. n -> {PrevCommit(w)} \cup -1 .. content - 1],
         NEW is_final \in BOOLEAN, CommitWalk(w, content, am, p, k, is_final), BehindFrame(F)
  PROVE  GoodWalk(w, F, p, k, is_final)
<1> DEFINE prev == PrevCommit(w)
<1>1. content \in Nat \ {0} /\ w + content <= F /\ FrameThreshold \in Nat
      /\ \A i \in 1 .. k : i \in 1 .. n
  BY AlignAttStreamAssumption
<1>2. \A i \in 1 .. k : ~is_final => p[i] < content - FrameThreshold
  BY DEF CommitWalk, Commits
<1>3. CASE commit_policy = "frontier_flush"
  <2>1. /\ prev \in Nat
        /\ \A i \in 1 .. Len(committed) : committed[i] <= w + prev
        /\ prev = 0 \/ \E i \in 1 .. Len(committed) : committed[i] = w + prev
    BY <1>3, FrontierIsLast
  <2>2. IsMajorant(p, Clipped(am, content), prev)  BY <1>3 DEF CommitWalk
  <2>3. \A i \in 1 .. n :
          /\ p[i] \in Nat /\ p[i] >= prev /\ (p[i] = prev \/ p[i] < content)
          /\ \A j \in 1 .. n : i <= j => p[i] <= p[j]
    BY <1>1, <2>1, <2>2, PathBounds
  <2> HIDE DEF prev
  <2>4. w + prev < F
    <3>1. CASE prev = 0  BY <3>1, <1>1
    <3>2. CASE \E i \in 1 .. Len(committed) : committed[i] = w + prev  BY <3>2 DEF BehindFrame
    <3> QED  BY <2>1, <3>1, <3>2
  <2>5. ASSUME NEW i \in 1 .. k
        PROVE  p[i] \in Nat /\ w + p[i] < F /\ (~is_final => w + p[i] + FrameThreshold < F)
    <3>1. p[i] \in Nat /\ (p[i] = prev \/ p[i] < content)  BY <1>1, <2>3
    <3>2. w + p[i] < F  BY <3>1, <2>4, <1>1
    <3>3. ~is_final => w + p[i] + FrameThreshold < F  BY <3>1, <1>1, <1>2, SMTT(30)
    <3> QED  BY <3>1, <3>2, <3>3
  <2>6. ASSUME NEW i \in 1 .. k, NEW j \in 1 .. Len(committed)
        PROVE  committed[j] <= w + p[i]
    <3>1. p[i] \in Nat /\ p[i] >= prev  BY <1>1, <2>3
    <3>2. committed[j] \in Nat /\ committed[j] <= w + prev  BY <2>1 DEF TypeOK
    <3>3. w \in Nat /\ prev \in Nat  BY <2>1
    <3> HIDE DEF prev
    <3> QED  BY <3>1, <3>2, <3>3, AddMonotone
  <2>7. \A i, j \in 1 .. k : i <= j => p[i] <= p[j]  BY <1>1, <2>3
  <2> QED  BY <2>5, <2>6, <2>7 DEF GoodWalk
<1>4. CASE commit_policy # "frontier_flush"
  <2>1. p = Clipped(am, content)  BY <1>4 DEF CommitWalk
  <2>2. ASSUME NEW i \in 1 .. k
        PROVE  p[i] \in Nat /\ w + p[i] < F /\ (~is_final => w + p[i] + FrameThreshold < F)
    <3>1. p[i] \in Nat /\ p[i] < content  BY <1>1, <2>1 DEF Clipped, Clip
    <3>2. ~is_final => w + p[i] + FrameThreshold < F  BY <3>1, <1>1, <1>2, SMTT(30)
    <3> QED  BY <3>1, <3>2, <1>1
  <2> QED  BY <1>4, <2>2 DEF GoodWalk
<1> QED  BY <1>3, <1>4

(* The elements of a concatenation. *)
LEMMA AppendElements ==
  ASSUME NEW s \in Seq(Nat), NEW t \in Seq(Nat)
  PROVE  /\ s \o t \in Seq(Nat) /\ Len(s \o t) = Len(s) + Len(t)
         /\ \A i \in 1 .. Len(s) : (s \o t)[i] = s[i]
         /\ \A i \in Len(s) + 1 .. Len(s) + Len(t) : (s \o t)[i] = t[i - Len(s)]
<1>1. s \o t \in Seq(Nat)  OBVIOUS
<1>2. Len(s \o t) = Len(s) + Len(t)  OBVIOUS
<1>3. \A i \in 1 .. Len(s) : (s \o t)[i] = s[i]  OBVIOUS
<1>4. \A i \in Len(s) + 1 .. Len(s) + Len(t) : (s \o t)[i] = t[i - Len(s)]  OBVIOUS
<1> QED  BY <1>1, <1>2, <1>3, <1>4

(* A step that commits keeps the invariant. *)
LEMMA CommitInv == ASSUME IndInv, StepCommits PROVE IndInv'
<1>1. PICK is_final \in BOOLEAN :
        /\ Hear(is_final)
        /\ \E content \in 1 .. Frames(audio') - WinStart(audio'), n \in 1 .. MaxTokens :
           \E am \in [1 .. n -> -1 .. content], k \in 0 .. n :
           \E p \in [1 .. n -> {PrevCommit(WinStart(audio'))} \cup -1 .. content - 1] :
             CommitWalk(WinStart(audio'), content, am, p, k, is_final)
  BY DEF StepCommits
<1>0. /\ audio \in Nat /\ audio' \in Nat /\ audio <= audio'
      /\ ended = FALSE /\ ended' = is_final /\ commit_policy' = commit_policy
      /\ forced' \subseteq 1 .. Len(committed) /\ fallen' \subseteq 1 .. Len(committed)
      /\ \A i \in forced' : committed[i] >= WinStart(audio')
      /\ \A i \in fallen' : committed[i] < WinStart(audio')
  BY <1>1, HearSides
<1>a. WinStart(audio') \in Nat /\ Frames(audio) \in Nat /\ Frames(audio') \in Nat
      /\ Frames(audio) <= Frames(audio')
  BY <1>0, FramesMonotone, WinStartMonotone
<1>b. PICK w \in Nat, F \in Nat : w = WinStart(audio') /\ F = Frames(audio')  BY <1>a
<1>2. PICK content \in 1 .. F - w, n \in 1 .. MaxTokens :
        \E am \in [1 .. n -> -1 .. content], k \in 0 .. n :
        \E p \in [1 .. n -> {PrevCommit(w)} \cup -1 .. content - 1] :
          CommitWalk(w, content, am, p, k, is_final)
  BY <1>1, <1>b
<1>3. PICK am \in [1 .. n -> -1 .. content], k \in 0 .. n,
           p \in [1 .. n -> {PrevCommit(w)} \cup -1 .. content - 1] :
        CommitWalk(w, content, am, p, k, is_final)
  BY <1>2
<1>4. /\ \A i \in forced' : committed[i] >= w
      /\ \A i \in fallen' : committed[i] < w
      /\ Frames(audio) \in Nat /\ Frames(audio) <= F /\ n \in Nat /\ FrameThreshold \in Nat
  BY <1>0, <1>a, <1>b, AlignAttStreamAssumption
<1> DEFINE L == Len(committed)
<1>6. L \in Nat /\ \A i \in 1 .. L : committed[i] \in Nat  BY SMTT(30) DEF IndInv, TypeOK
<1>7. ASSUME NEW i \in 1 .. L
      PROVE  committed[i] < F /\ committed[i] + FrameThreshold < F
  <2>1. committed[i] + FrameThreshold < Frames(audio)  BY <1>0 DEF IndInv, AnchorsBehindHead
  <2> QED  BY <2>1, <1>4, <1>6
<1>5. TypeOK /\ SortedAnchors  BY DEF IndInv
<1>8. /\ \A i \in 1 .. k : /\ p[i] \in Nat /\ w + p[i] < F
                           /\ ~is_final => w + p[i] + FrameThreshold < F
      /\ commit_policy = "frontier_flush" =>
           /\ \A i, j \in 1 .. k : i <= j => p[i] <= p[j]
           /\ \A i \in 1 .. k, j \in 1 .. Len(committed) : committed[j] <= w + p[i]
  <2>1. BehindFrame(F)  BY <1>7 DEF BehindFrame
  <2>2. CommitWalk(w, content, am, p, k, is_final)  BY <1>3
  <2>3. n \in Nat  BY <1>4
  <2> HIDE DEF L
  <2>4. /\ w \in Nat /\ F \in Nat /\ content \in 1 .. F - w /\ am \in [1 .. n -> -1 .. content]
        /\ k \in 0 .. n /\ p \in [1 .. n -> {PrevCommit(w)} \cup -1 .. content - 1]
        /\ is_final \in BOOLEAN
    BY <1>b, <1>1, <1>2, <1>3
  <2>5. GoodWalk(w, F, p, k, is_final)  BY <1>5, <2>1, <2>2, <2>3, <2>4, WalkAnchors
  <2> QED  BY <2>5 DEF GoodWalk
<1> DEFINE new == [i \in 1 .. k |-> w + p[i]]
<1>9. committed' = committed \o new  BY <1>3 DEF CommitWalk
<1>10. k \in Nat /\ new \in Seq(Nat) /\ Len(new) = k /\ \A i \in 1 .. k : new[i] = w + p[i]
  BY <1>8
<1> HIDE DEF new
<1>11. /\ Len(committed') = L + k /\ committed' \in Seq(Nat)
       /\ \A i \in 1 .. L : committed'[i] = committed[i]
       /\ \A i \in L + 1 .. L + k : i - L \in 1 .. k /\ committed'[i] = w + p[i - L]
  <2>1. committed \in Seq(Nat)  BY DEF IndInv, TypeOK
  <2>2. /\ committed' \in Seq(Nat) /\ Len(committed') = L + k
        /\ \A i \in 1 .. L : committed'[i] = committed[i]
        /\ \A i \in L + 1 .. L + k : committed'[i] = new[i - L]
    BY <2>1, <1>9, <1>10, AppendElements
  <2>3. \A i \in L + 1 .. L + k : i - L \in 1 .. k  BY <1>6, <1>10
  <2> QED  BY <2>2, <2>3, <1>10
<1>12. \A i \in 1 .. L + k : i \in 1 .. L \/ i \in L + 1 .. L + k  BY <1>6, <1>10
<1>13. TypeOK'  BY <1>0, <1>6, <1>10, <1>11 DEF IndInv, TypeOK
<1>14. SortedAnchors'
  <2> SUFFICES ASSUME commit_policy = "frontier_flush", NEW i \in 1 .. L + k,
                      NEW j \in 1 .. L + k, i <= j
               PROVE  committed'[i] <= committed'[j]
    BY <1>0, <1>11 DEF SortedAnchors
  <2>1. CASE j \in 1 .. L
    <3>1. i \in 1 .. L  BY <2>1, <1>6, <1>10
    <3>2. committed[i] <= committed[j]  BY <2>1, <3>1, <1>5 DEF SortedAnchors
    <3> QED  BY <2>1, <3>1, <3>2, <1>11
  <2>2. CASE i \in 1 .. L /\ j \in L + 1 .. L + k  BY <2>2, <1>8, <1>11
  <2>3. CASE i \in L + 1 .. L + k /\ j \in L + 1 .. L + k
    <3>1. i - L \in 1 .. k /\ j - L \in 1 .. k /\ i - L <= j - L  BY <2>3, <1>6, <1>11
    <3>2. p[i - L] \in Nat /\ p[j - L] \in Nat /\ p[i - L] <= p[j - L]  BY <3>1, <1>8
    <3>3. committed'[i] = w + p[i - L] /\ committed'[j] = w + p[j - L]  BY <2>3, <1>11
    <3>4. PICK x \in Nat, y \in Nat : x = p[i - L] /\ y = p[j - L] /\ x <= y  BY <3>2
    <3>a. w \in Nat /\ x \in Nat /\ y \in Nat /\ x <= y  BY <3>4
    <3> HIDE DEF L
    <3>5. w + x <= w + y  BY <3>a
    <3> QED  BY <3>3, <3>4, <3>5
  <2>4. /\ i \in 1 .. L \/ i \in L + 1 .. L + k
        /\ j \in 1 .. L \/ j \in L + 1 .. L + k
    BY <1>12
  <2>5. i \in L + 1 .. L + k => j \notin 1 .. L  BY <1>6, <1>10
  <2> QED  BY <2>1, <2>2, <2>3, <2>4, <2>5
<1>15. AnchorsBehindHead'
  <2> SUFFICES ASSUME NEW i \in 1 .. L + k
               PROVE  committed'[i] < F /\ (~is_final => committed'[i] + FrameThreshold < F)
    BY <1>0, <1>b, <1>11 DEF AnchorsBehindHead
  <2>1. CASE i \in 1 .. L  BY <2>1, <1>7, <1>11
  <2>2. CASE i \in L + 1 .. L + k  BY <2>2, <1>8, <1>11
  <2> QED  BY <2>1, <2>2, <1>12
<1>16. Sides'  BY <1>0, <1>11 DEF Sides
<1> QED  BY <1>13, <1>14, <1>15, <1>16 DEF IndInv

(* A reset starts over. *)
LEMMA ResetInv == ASSUME IndInv, Reset PROVE IndInv'
<1>1. committed' = <<>> /\ Len(committed') = 0 /\ forced' = {} /\ fallen' = {}  BY DEF Reset
<1>2. TypeOK'
  <2>1. committed' \in Seq(Nat)  BY <1>1
  <2>2. audio' \in Nat /\ ended' \in BOOLEAN /\ commit_policy' \in CommitPolicies
    BY DEF Reset, IndInv, TypeOK
  <2> QED  BY <1>1, <2>1, <2>2 DEF TypeOK
<1>3. SortedAnchors' /\ AnchorsBehindHead'  BY <1>1 DEF SortedAnchors, AnchorsBehindHead
<1>4. Sides'  BY <1>1 DEF Sides
<1> QED  BY <1>2, <1>3, <1>4 DEF IndInv

(* A step that changes no variable keeps the invariant. *)
LEMMA StutterInv == ASSUME IndInv, UNCHANGED vars PROVE IndInv'
BY DEF vars, IndInv, TypeOK, SortedAnchors, AnchorsBehindHead, Sides

(* The invariant holds of every behaviour of a stream. *)
THEOREM Invariance == Spec => []IndInv
<1>1. Init => IndInv  BY InitInv
<1>2. IndInv /\ [Next]_vars => IndInv'
  BY SkipInv, CommitInv, ResetInv, StutterInv DEF Next
<1> QED  BY <1>1, <1>2, PTL DEF Spec

(* Type correctness of the stream's state, for every window and threshold. *)
THEOREM TypeCorrect == Spec => []TypeOK
<1>1. IndInv => TypeOK  BY DEF IndInv
<1> QED  BY <1>1, Invariance, PTL

(* frontier_flush keeps the committed transcript in acoustic order: however far the
   attention of a step rewinds, no token is anchored before an earlier one. *)
THEOREM AnchorsSorted == Spec => []SortedAnchors
<1>1. IndInv => SortedAnchors  BY DEF IndInv
<1> QED  BY <1>1, Invariance, PTL

(* The held-back band is respected by every commit before the final chunk. *)
THEOREM AnchorsBehind == Spec => []AnchorsBehindHead
<1>1. IndInv => AnchorsBehindHead  BY DEF IndInv
<1> QED  BY <1>1, Invariance, PTL

(* The window start of the audio heard is a frame number. *)
LEMMA WindowOfInv == ASSUME IndInv PROVE WinStart(audio) \in Nat
<1>1. audio \in Nat /\ audio <= audio  BY DEF IndInv, TypeOK
<1> QED  BY <1>1, WinStartMonotone

(* A token that left the window is never in a forced prefix again, under either policy. *)
THEOREM FallenStayOut == Spec => []NeverRefed
<1>1. IndInv => NeverRefed
  <2> SUFFICES ASSUME IndInv, NEW i \in forced, i \in fallen PROVE FALSE  BY DEF NeverRefed
  <2>1. committed[i] >= WinStart(audio) /\ committed[i] < WinStart(audio)
    BY DEF IndInv, Sides
  <2>2. i \in 1 .. Len(committed) /\ committed \in Seq(Nat)  BY DEF IndInv, TypeOK
  <2>3. committed[i] \in Nat /\ WinStart(audio) \in Nat  BY <2>2, WindowOfInv
  <2> QED  BY <2>1, <2>3
<1> QED  BY <1>1, Invariance, PTL

(* Under frontier_flush what is forced is the end of what was committed before. *)
THEOREM ForcedIsSuffix == Spec => []PrefixWithoutHole
<1>1. IndInv => PrefixWithoutHole
  <2> SUFFICES ASSUME IndInv, commit_policy = "frontier_flush", NEW i \in forced,
                      NEW j \in 1 .. Len(committed), i <= j, j \in fallen
               PROVE  FALSE
    BY DEF PrefixWithoutHole
  <2>1. committed[i] >= WinStart(audio) /\ committed[j] < WinStart(audio)
    BY DEF IndInv, Sides
  <2>2. i \in 1 .. Len(committed) /\ committed \in Seq(Nat)  BY DEF IndInv, TypeOK
  <2>3. committed[i] \in Nat /\ committed[j] \in Nat /\ WinStart(audio) \in Nat
    BY <2>2, WindowOfInv
  <2>4. committed[i] <= committed[j]  BY <2>2 DEF IndInv, SortedAnchors
  <2> QED  BY <2>1, <2>3, <2>4
<1> QED  BY <1>1, Invariance, PTL
=============================================================================
