------------------------ MODULE AudioCascade_proofs ------------------------
(* Theorems about AudioCascade, for every vocabulary, configuration, speech and answer of
   the ASR, the aligner and the MT. *)
EXTENDS AudioCascade, DataLemmas

(* Cuts in order, and word ends, of which two may be the same. *)
Ordered(e) == \A i, j \in 1 .. Len(e) : i < j => e[i] < e[j]
Ascending(e) == \A i, j \in 1 .. Len(e) : i < j => e[i] <= e[j]

(* The parts of the type invariant; there is always a segment, the speech's empty first. *)
AudioTyped ==
  cfg \in Configs /\ buffered \in Nat /\ heard \in Nat /\ buffered + heard <= MaxAudio
ModeTyped ==
  phase \in {"idle", "asr", "mt", "ended", "failed"} /\ eos \in BOOLEAN /\ final \in BOOLEAN
CutsTyped ==
  /\ utt_timestamps \in Seq(0 .. heard) /\ Ordered(utt_timestamps)
  /\ utt_sources \in Seq(Seq(Token)) /\ Len(utt_timestamps) = Len(utt_sources)
  /\ Len(utt_sources) >= 1
TextsTyped ==
  /\ asr_hypotheses \in Seq(Seq(Token)) /\ Len(asr_hypotheses) \in 1 .. 2
  /\ word_ends \in Seq(1 .. heard)
TargetsTyped ==
  accepted \in Seq(Targets) /\ emitted \in Seq(Targets) /\ translated \in Seq(Seq(Targets))

(* The open committed tokens of the stream lie in order within the live audio. *)
StreamTyped ==
  /\ stream \in Seq([token : Token, end : 1 .. LiveAudio])
  /\ \A i, j \in 1 .. Len(stream) : i < j => stream[i].end <= stream[j].end

(* At most one segment waits for its translation, and only while a step renders it. *)
Pending ==
  /\ Len(translated) \in {Len(utt_sources), Len(utt_sources) - 1}
  /\ phase # "mt" => Len(translated) = Len(utt_sources)

(* The end of the stream: nothing is buffered any more. *)
Ending ==
  /\ eos => buffered = 0
  /\ final => eos
  /\ phase = "idle" => ~eos
  /\ phase = "ended" => eos

(* Between two steps no ASR result is left that a step has still to render. *)
Silent ==
  phase # "mt" =>
    /\ spoken.text = <<>> /\ spoken.segments \in Nat
    /\ spoken.usable => Len(utt_sources) <= spoken.segments

IndInv ==
  /\ AudioTyped /\ ModeTyped /\ CutsTyped /\ TextsTyped /\ TargetsTyped /\ StreamTyped
  /\ Pending /\ Ending /\ Silent
  /\ SegmentsCoverAudio /\ FlushedAtEnd /\ ShownIsTranslation

-----------------------------------------------------------------------------
(* Texts. *)

(* The tokens two texts begin with. *)
LEMMA CommonProps ==
  ASSUME NEW S, NEW s \in Seq(S), NEW t \in Seq(S)
  PROVE  /\ Common(s, t) \in 0 .. Len(s) /\ Common(s, t) \in 0 .. Len(t)
         /\ \A i \in 1 .. Common(s, t) : s[i] = t[i]
         /\ IsPrefix(s, t) => Common(s, t) = Len(s)
<1> DEFINE K == {k \in 0 .. Shorter(s, t) : SubSeq(s, 1, k) = SubSeq(t, 1, k)}
<1>1. Len(s) \in Nat /\ Len(t) \in Nat /\ Shorter(s, t) \in Nat
      /\ Shorter(s, t) <= Len(s) /\ Shorter(s, t) <= Len(t)
  BY DEF Shorter
<1>2. K \in SUBSET (0 .. Shorter(s, t))  OBVIOUS
<1>3. 0 \in K
  <2>1. SubSeq(s, 1, 0) = <<>> /\ SubSeq(t, 1, 0) = <<>>  OBVIOUS
  <2>2. 0 \in 0 .. Shorter(s, t)  BY <1>1
  <2> QED  BY <2>1, <2>2, Zenon
<1>4. Common(s, t) = Max(K)  BY DEF Common
<1>5. Common(s, t) \in K /\ \A k \in K : k <= Common(s, t)
  <2> HIDE DEF K
  <2> QED  BY <1>1, <1>2, <1>3, <1>4, MaxOfBounded
<1>6. Common(s, t) \in 0 .. Shorter(s, t)
      /\ SubSeq(s, 1, Common(s, t)) = SubSeq(t, 1, Common(s, t))
  BY <1>5
<1>7. PICK c \in 0 .. Shorter(s, t) : c = Common(s, t)  BY <1>6
<1>8. c \in 0 .. Len(s) /\ c \in 0 .. Len(t) /\ SubSeq(s, 1, c) = SubSeq(t, 1, c)
  BY <1>1, <1>6, <1>7
<1>9. \A i \in 1 .. c : s[i] = t[i]
  <2>1. \A i \in 1 .. c : SubSeq(s, 1, c)[i] = s[i]  BY <1>8, FirstEntries
  <2>2. \A i \in 1 .. c : SubSeq(t, 1, c)[i] = t[i]  BY <1>8, FirstEntries
  <2> QED  BY <1>8, <2>1, <2>2
<1>10. ASSUME IsPrefix(s, t) PROVE c = Len(s)
  <2>1. Len(s) <= Len(t) /\ SubSeq(s, 1, Len(s)) = SubSeq(t, 1, Len(s))
    BY <1>10 DEF IsPrefix
  <2>2. Shorter(s, t) = Len(s)  BY <2>1 DEF Shorter
  <2>3. Len(s) \in K  BY <1>1, <2>1, <2>2
  <2> HIDE DEF K
  <2> QED  BY <1>1, <1>5, <1>7, <1>8, <2>3
<1> QED  BY <1>7, <1>8, <1>9, <1>10

(* The token a commit ends in is one of the hypothesis, and has a mark. *)
LEMMA BoundaryProps ==
  ASSUME NEW s \in Seq(Token), NEW t \in Seq(Token)
  PROVE  /\ Boundary(s, t) \in 0 .. Len(t)
         /\ Boundary(s, t) > 0 => t[Boundary(s, t)].mark \in {"stop", "number"}
<1>1. PICK c : c = Common(s, t)  OBVIOUS
<1>2. c \in 0 .. Len(s) /\ c \in 0 .. Len(t) /\ Len(s) \in Nat /\ Len(t) \in Nat
  BY <1>1, CommonProps
<1>3. \A i \in 1 .. Len(t) : t[i].mark \in {"bare", "stop", "number"}
  <2>1. \A i \in 1 .. Len(t) : t[i] \in Token  OBVIOUS
  <2>2. \A u \in Token : u.mark \in {"bare", "stop", "number"}  BY DEF Token, Marks
  <2> QED  BY <2>1, <2>2
<1>4. Shorter(s, t) \in Nat /\ Shorter(s, t) <= Len(t)  BY <1>2 DEF Shorter
<1>5. CASE Spaced(s, t) # {}
  <2>1. Spaced(s, t) \in SUBSET (0 .. Len(t))  BY <1>1, <1>2 DEF Spaced
  <2>2. Max(Spaced(s, t)) \in Spaced(s, t)  BY <1>2, <1>5, <2>1, MaxOfBounded
  <2>3. Boundary(s, t) \in Spaced(s, t)  BY <1>5, <2>2 DEF Boundary
  <2>4. Boundary(s, t) \in 1 .. c /\ t[Boundary(s, t)].mark = "stop"
    BY <1>1, <2>3 DEF Spaced
  <2> QED  BY <1>2, <2>4
<1>6. CASE Spaced(s, t) = {}
  <2>1. Boundary(s, t) = Terminal(s, t)  BY <1>6 DEF Boundary
  <2>2. CASE EndsInNumber(s, t)
    <3>1. c + 1 <= Shorter(s, t) /\ t[c + 1].mark # "bare"
      BY <1>1, <2>2 DEF EndsInNumber
    <3>2. Terminal(s, t) = c + 1
      <4>1. c # Shorter(s, t)  BY <1>2, <1>4, <3>1
      <4> QED  BY <1>1, <2>2, <4>1 DEF Terminal
    <3>3. c + 1 \in 1 .. Len(t)  BY <1>2, <1>4, <3>1
    <3> QED  BY <1>3, <2>1, <3>1, <3>2, <3>3
  <2>3. CASE ~EndsInNumber(s, t) /\ c > 0 /\ t[c].mark = "stop" /\ c = Shorter(s, t)
    <3>1. Terminal(s, t) = c  BY <1>1, <2>3 DEF Terminal
    <3> QED  BY <1>2, <2>1, <2>3, <3>1
  <2>4. CASE ~EndsInNumber(s, t) /\ ~(c > 0 /\ t[c].mark = "stop" /\ c = Shorter(s, t))
    <3>1. Terminal(s, t) = 0  BY <1>1, <2>4 DEF Terminal
    <3> QED  BY <1>2, <2>1, <3>1
  <2> QED  BY <2>2, <2>3, <2>4
<1> QED  BY <1>5, <1>6

(* What is committed and what is left over of a text that is cut at b. *)
LEMMA CommittedProps ==
  ASSUME NEW t \in Seq(Token), NEW b \in 1 .. Len(t)
  PROVE  /\ Committed(t, b) \in Seq(Token) /\ Len(Committed(t, b)) = b
         /\ Committed(t, b)[b] = [t[b] EXCEPT !.mark = "stop"]
<1>1. t[b] \in Token /\ Len(t) \in Nat /\ b \in Nat  OBVIOUS
<1>2. [t[b] EXCEPT !.mark = "stop"] \in Token  BY <1>1 DEF Token, Marks
<1>3. b - 1 \in 0 .. Len(t)  BY <1>1
<1>4. SubSeq(t, 1, b - 1) \in Seq(Token) /\ Len(SubSeq(t, 1, b - 1)) = b - 1
  BY <1>3, FirstEntries
<1>5. PICK u \in Seq(Token) : u = SubSeq(t, 1, b - 1) /\ Len(u) = b - 1  BY <1>4
<1>6. PICK x \in Token : x = [t[b] EXCEPT !.mark = "stop"]  BY <1>2
<1>7. u \o <<x>> \in Seq(Token) /\ Len(u \o <<x>>) = b /\ (u \o <<x>>)[b] = x
  BY <1>1, <1>5
<1> QED  BY <1>5, <1>6, <1>7 DEF Committed

LEMMA RemainderProps ==
  ASSUME NEW t \in Seq(Token), NEW b \in 1 .. Len(t)
  PROVE  /\ Remainder(t, b) \in Seq(Token)
         /\ Len(Remainder(t, b)) = Len(t) - b + (IF t[b].mark = "number" THEN 1 ELSE 0)
<1>1. Len(t) \in Nat /\ b \in Nat /\ Len(t) - b \in Nat  OBVIOUS
<1>2. SubSeq(t, b + 1, Len(t)) \in Seq(Token) /\ Len(SubSeq(t, b + 1, Len(t))) = Len(t) - b
  BY <1>1
<1>3. [word |-> Fraction, mark |-> "bare"] \in Token  BY DEF Token, Marks
<1>4. PICK u \in Seq(Token) : u = SubSeq(t, b + 1, Len(t)) /\ Len(u) = Len(t) - b  BY <1>2
<1>5. PICK x \in Token : x = [word |-> Fraction, mark |-> "bare"]  BY <1>3
<1>6. /\ <<x>> \o u \in Seq(Token) /\ Len(<<x>> \o u) = Len(u) + 1
      /\ <<>> \o u = u
  OBVIOUS
<1>7. Remainder(t, b) = (IF t[b].mark = "number" THEN <<x>> ELSE <<>>) \o u
  BY <1>4, <1>5 DEF Remainder
<1>8. CASE t[b].mark = "number"
  <2>1. Remainder(t, b) = <<x>> \o u  BY <1>7, <1>8
  <2>2. Len(Remainder(t, b)) = Len(t) - b + 1  BY <1>4, <1>6, <2>1
  <2> QED  BY <1>6, <1>8, <2>1, <2>2
<1>9. CASE t[b].mark # "number"
  <2>1. Remainder(t, b) = u  BY <1>6, <1>7, <1>9
  <2> QED  BY <1>1, <1>4, <1>9, <2>1
<1> QED  BY <1>8, <1>9

(* The live tail has the words of its text, and the numbers. *)
LEMMA LiveTailProps ==
  ASSUME NEW t \in Seq(Token)
  PROVE  /\ LiveTail(t) \in Seq(Token) /\ Len(LiveTail(t)) = Len(t)
         /\ \A i \in 1 .. Len(t) :
              /\ LiveTail(t)[i].word = t[i].word
              /\ LiveTail(t)[i].mark = "number" <=> t[i].mark = "number"
         /\ LiveTail(t) = <<>> <=> t = <<>>
<1> DEFINE x(i) == IF i = Len(t) /\ t[i].mark = "stop" THEN [t[i] EXCEPT !.mark = "bare"] ELSE t[i]
<1>1. \A i \in 1 .. Len(t) :
        x(i) \in Token /\ x(i).word = t[i].word /\ (x(i).mark = "number" <=> t[i].mark = "number")
  <2> SUFFICES ASSUME NEW i \in 1 .. Len(t)
               PROVE  /\ x(i) \in Token /\ x(i).word = t[i].word
                      /\ x(i).mark = "number" <=> t[i].mark = "number"
    OBVIOUS
  <2>1. t[i] \in Token  OBVIOUS
  <2> QED  BY <2>1 DEF Token, Marks
<1>2. LiveTail(t) = [i \in 1 .. Len(t) |-> x(i)]  BY DEF LiveTail
<1> HIDE DEF x
<1>3. LiveTail(t) \in Seq(Token) /\ Len(LiveTail(t)) = Len(t)
      /\ \A i \in 1 .. Len(t) : LiveTail(t)[i] = x(i)
  BY <1>1, <1>2
<1>4. LiveTail(t) = <<>> <=> t = <<>>
  <2>1. \A s \in Seq(Token) : s = <<>> <=> Len(s) = 0  OBVIOUS
  <2> QED  BY <1>3, <2>1
<1> QED  BY <1>1, <1>3, <1>4

-----------------------------------------------------------------------------
(* The caps on the words that are open to translation. *)

(* The values a configuration may have. *)
LEMMA ConfigProps ==
  ASSUME AudioTyped
  PROVE  /\ cfg.chunk \in Nat /\ cfg.min_start \in Nat /\ cfg.min_commit_words \in Nat
         /\ cfg.append_slack \in Nat /\ cfg.max_tail_rewrite_words \in Int
BY AudioCascadeAssumption DEF AudioTyped, Config

(* The words that have ended are a prefix, and the longest one. *)
LEMMA EndedProps ==
  ASSUME NEW n \in Nat, NEW ends \in Seq(Nat), NEW until \in Int
  PROVE  /\ Ended(n, ends, until) \in 0 .. n /\ Ended(n, ends, until) <= Len(ends)
         /\ \A i \in 1 .. Ended(n, ends, until) : ends[i] <= until
         /\ \A k \in 0 .. n : k <= Len(ends) /\ (\A i \in 1 .. k : ends[i] <= until)
                              => k <= Ended(n, ends, until)
<1> DEFINE K == {k \in 0 .. n : k <= Len(ends) /\ \A i \in 1 .. k : ends[i] <= until}
<1>1. K \in SUBSET (0 .. n) /\ 0 \in K  OBVIOUS
<1>2. Ended(n, ends, until) = Max(K)  BY DEF Ended
<1>3. Max(K) \in K /\ \A k \in K : k <= Max(K)
  <2> HIDE DEF K
  <2> QED  BY <1>1, MaxOfBounded
<1> QED  BY <1>2, <1>3

LEMMA StableCapTyped ==
  ASSUME NEW s \in Seq(Token), NEW t \in Seq(Token), NEW slack \in Nat
  PROVE  Stable(s, t) \in Int /\ StableCap(s, t, slack) \in Int
<1>1. PICK c \in Int : c = Common(s, t)  BY CommonProps
<1>2. Stable(s, t) \in {c + 1, (c + 1) - 1}  BY <1>1 DEF Stable
<1>3. PICK k \in Int : k = Stable(s, t)  BY <1>1, <1>2
<1>4. StableCap(s, t, slack) \in {0, k + slack, k + 0}  BY <1>3 DEF StableCap
<1> QED  BY <1>3, <1>4

(* A text that repeats n words of the one before it, the mark of the last aside, has n
   stable words. *)
LEMMA StableRepeated ==
  ASSUME NEW s \in Seq(Token), NEW t \in Seq(Token), NEW n \in 1 .. Len(s), n <= Len(t),
         SubSeq(t, 1, n - 1) = SubSeq(s, 1, n - 1), Within(t[n], s[n])
  PROVE  Stable(s, t) \in Nat /\ n <= Stable(s, t)
<1> DEFINE K == {k \in 0 .. Shorter(s, t) : SubSeq(s, 1, k) = SubSeq(t, 1, k)}
<1>1. Len(s) \in Nat /\ Len(t) \in Nat /\ Shorter(s, t) \in Nat /\ n \in Nat
      /\ n <= Shorter(s, t)
  BY DEF Shorter
<1>2. n - 1 \in K  BY <1>1
<1>3. Common(s, t) = Max(K) /\ K \in SUBSET (0 .. Shorter(s, t))  BY DEF Common
<1>4. PICK c \in Nat : c = Common(s, t) /\ n - 1 <= c
  <2> HIDE DEF K
  <2>1. Max(K) \in 0 .. Shorter(s, t) /\ n - 1 <= Max(K)
    BY <1>1, <1>2, <1>3, MaxOfBounded
  <2> QED  BY <1>1, <1>3, <2>1
<1>5. Stable(s, t) = IF c + 1 <= Shorter(s, t) /\ Within(t[c + 1], s[c + 1])
                       THEN c + 1 ELSE (c + 1) - 1
  BY <1>4 DEF Stable
<1>6. CASE c = n - 1
  <2>1. c + 1 = n  BY <1>1, <1>6
  <2> QED  BY <1>1, <1>5, <2>1
<1>7. CASE c >= n  BY <1>1, <1>5, <1>7
<1> QED  BY <1>1, <1>4, <1>6, <1>7

-----------------------------------------------------------------------------
(* Hearing: what a longer speech, a commit and an uncommitted hypothesis keep. *)

LEMMA LiveAudioProps ==
  ASSUME heard \in Nat, CutsTyped
  PROVE  /\ Last(utt_timestamps) \in 0 .. heard /\ LiveAudio \in Nat
         /\ heard = Last(utt_timestamps) + LiveAudio
         /\ Len(utt_timestamps) \in Nat \ {0}
<1>1. Len(utt_timestamps) \in Nat /\ Len(utt_timestamps) >= 1  BY DEF CutsTyped
<1>2. Last(utt_timestamps) \in 0 .. heard  BY <1>1 DEF CutsTyped, Last
<1> QED  BY <1>1, <1>2 DEF LiveAudio

(* More audio lies behind all cuts. *)
LEMMA MoreAudio ==
  ASSUME heard \in Nat, CutsTyped, TextsTyped, StreamTyped,
         heard' \in Nat, heard' >= heard, UNCHANGED asrVars
  PROVE  CutsTyped' /\ TextsTyped' /\ StreamTyped'
<1>1. /\ utt_timestamps' = utt_timestamps /\ utt_sources' = utt_sources
      /\ asr_hypotheses' = asr_hypotheses /\ word_ends' = word_ends /\ stream' = stream
  BY DEF asrVars
<1>2. 0 .. heard \subseteq 0 .. heard' /\ 1 .. heard \subseteq 1 .. heard'  OBVIOUS
<1>3. utt_timestamps \in Seq(0 .. heard') /\ word_ends \in Seq(1 .. heard')
  BY <1>2, SeqMonotonic DEF CutsTyped, TextsTyped
<1>4. CutsTyped'  BY <1>1, <1>3 DEF CutsTyped, Ordered
<1>5. TextsTyped'  BY <1>1, <1>3 DEF TextsTyped
<1>6. StreamTyped'
  <2>1. PICK l \in Nat : l = LiveAudio  BY LiveAudioProps
  <2>2. PICK m \in Nat : m = LiveAudio' /\ m >= l
    <3>1. LiveAudio' = heard' - Last(utt_timestamps)  BY <1>1 DEF LiveAudio
    <3>2. heard' - Last(utt_timestamps) \in Nat /\ heard' - Last(utt_timestamps) >= l
      BY <2>1, LiveAudioProps
    <3> QED  BY <3>1, <3>2
  <2>3. [token : Token, end : 1 .. l] \subseteq [token : Token, end : 1 .. m]
    BY <2>1, <2>2
  <2>4. stream \in Seq([token : Token, end : 1 .. l])  BY <2>1 DEF StreamTyped
  <2>5. stream \in Seq([token : Token, end : 1 .. m])  BY <2>3, <2>4, SeqMonotonic
  <2> QED  BY <1>1, <2>2, <2>5 DEF StreamTyped
<1> QED  BY <1>4, <1>5, <1>6

(* The timestamps of the last words. *)
LEMMA LastEndsProps ==
  ASSUME NEW m \in Nat, NEW ends \in Seq(1 .. m), NEW n \in Nat
  PROVE  LastEnds(ends, n) \in Seq(1 .. m)
<1>1. Len(ends) \in Nat /\ \A i \in 1 .. Len(ends) : ends[i] \in 1 .. m  OBVIOUS
<1>2. CASE n <= Len(ends)
  <2>1. SubSeq(ends, Len(ends) - n + 1, Len(ends)) \in Seq(1 .. m)
    BY <1>1, <1>2, SubSeqProperties
  <2> QED  BY <1>2, <2>1 DEF LastEnds
<1>3. CASE ~(n <= Len(ends))  BY <1>3 DEF LastEnds
<1> QED  BY <1>2, <1>3

(* A commit adds a segment, and a cut behind the cuts before it. *)
LEMMA CommitKeeps ==
  ASSUME heard \in Nat, CutsTyped, heard' = heard,
         NEW text \in Seq(Token), NEW rest \in Seq(Token),
         NEW ends \in Seq(1 .. LiveAudio), NEW end \in 1 .. LiveAudio,
         ApplyCommit(text, rest, ends, end)
  PROVE  /\ CutsTyped' /\ TextsTyped' /\ StreamTyped'
         /\ Last(utt_timestamps') = Last(utt_timestamps) + end
         /\ Last(utt_sources') = text /\ Len(utt_sources') = Len(utt_sources) + 1
         /\ asr_hypotheses' = <<rest>>
<1>1. PICK x \in 0 .. heard : x = Last(utt_timestamps)  BY LiveAudioProps
<1>2. PICK l \in Nat : l = LiveAudio /\ heard = x + l  BY <1>1, LiveAudioProps
<1>3. end \in 1 .. l /\ ends \in Seq(1 .. l)  BY <1>2
<1>4. PICK to \in 0 .. heard : to = x + end /\ to > x
  <2>1. x + end \in 0 .. heard /\ x + end > x  BY <1>1, <1>2, <1>3
  <2> QED  BY <2>1
<1>5. /\ utt_timestamps' = Append(utt_timestamps, to)
      /\ utt_sources' = Append(utt_sources, text)
      /\ asr_hypotheses' = <<rest>> /\ word_ends' = LastEnds(ends, Len(rest))
      /\ stream' = <<>>
  BY <1>1, <1>4 DEF ApplyCommit
<1>6. PICK n \in Nat : n = Len(utt_timestamps) /\ n = Len(utt_sources) /\ n >= 1
                       /\ utt_timestamps[n] = x
  BY <1>1 DEF CutsTyped, Last
<1>7. /\ utt_timestamps' \in Seq(0 .. heard) /\ Len(utt_timestamps') = n + 1
      /\ \A i \in 1 .. n : utt_timestamps'[i] = utt_timestamps[i]
      /\ utt_timestamps'[n + 1] = to
  BY <1>5, <1>6, SMTT(30) DEF CutsTyped
<1>8. /\ utt_sources' \in Seq(Seq(Token)) /\ Len(utt_sources') = n + 1
      /\ utt_sources'[n + 1] = text
  BY <1>5, <1>6 DEF CutsTyped
<1>9. Ordered(utt_timestamps')
  <2> SUFFICES ASSUME NEW i \in 1 .. n + 1, NEW j \in 1 .. n + 1, i < j
               PROVE  utt_timestamps'[i] < utt_timestamps'[j]
    BY <1>7 DEF Ordered
  <2>1. \A k \in 1 .. n : utt_timestamps[k] \in 0 .. heard
    <3>1. utt_timestamps \in Seq(0 .. heard)  BY DEF CutsTyped
    <3>2. \A k \in 1 .. Len(utt_timestamps) : utt_timestamps[k] \in 0 .. heard  BY <3>1
    <3>3. n = Len(utt_timestamps)  BY <1>6
    <3> QED  BY <3>2, <3>3
  <2>2. \A k \in 1 .. n : k < n => utt_timestamps[k] < utt_timestamps[n]
    <3>1. Ordered(utt_timestamps) /\ n \in 1 .. n  BY <1>6 DEF CutsTyped
    <3> QED  BY <1>6, <3>1 DEF Ordered
  <2>3. i \in 1 .. n  BY <1>6
  <2>4. CASE j = n + 1
    <3>1. utt_timestamps[i] <= x /\ utt_timestamps[i] \in Int  BY <1>6, <2>1, <2>2, <2>3, SMTT(30)
    <3>2. utt_timestamps[i] < to  BY <1>1, <1>4, <3>1
    <3> QED  BY <1>7, <2>3, <2>4, <3>2
  <2>5. CASE j # n + 1
    <3>1. j \in 1 .. n  BY <2>5
    <3>2. utt_timestamps[i] < utt_timestamps[j]
      BY <1>6, <2>3, <3>1 DEF CutsTyped, Ordered
    <3> QED  BY <1>7, <2>3, <3>1, <3>2
  <2> QED  BY <2>4, <2>5
<1>10. CutsTyped'  BY <1>6, <1>7, <1>8, <1>9 DEF CutsTyped
<1>11. TextsTyped'
  <2>1. LastEnds(ends, Len(rest)) \in Seq(1 .. l)
    <3>1. Len(rest) \in Nat  OBVIOUS
    <3> QED  BY <1>3, <3>1, LastEndsProps
  <2>2. 1 .. l \subseteq 1 .. heard  BY <1>1, <1>2
  <2>3. word_ends' \in Seq(1 .. heard)  BY <1>5, <2>1, <2>2, SeqMonotonic
  <2>4. <<rest>> \in Seq(Seq(Token)) /\ Len(<<rest>>) = 1  OBVIOUS
  <2> QED  BY <1>5, <2>3, <2>4 DEF TextsTyped
<1>12. StreamTyped'
  <2>1. <<>> \in Seq([token : Token, end : 1 .. LiveAudio']) /\ Len(<<>>) = 0  OBVIOUS
  <2> QED  BY <1>5, <2>1 DEF StreamTyped
<1>13. Last(utt_timestamps') = to /\ Last(utt_sources') = text
  BY <1>7, <1>8 DEF Last
<1> QED  BY <1>1, <1>4, <1>5, <1>6, <1>8, <1>10, <1>11, <1>12, <1>13

(* A hypothesis that commits nothing leaves the cuts alone. *)
LEMMA NoCommitKeeps ==
  ASSUME heard \in Nat, CutsTyped, TextsTyped, heard' = heard,
         NEW text \in Seq(Token), NEW ends \in Seq(1 .. LiveAudio), NoCommit(text, ends)
  PROVE  /\ CutsTyped' /\ TextsTyped' /\ LiveAudio' = LiveAudio
         /\ Len(utt_sources') = Len(utt_sources) /\ Last(asr_hypotheses') = text
<1>1. /\ utt_timestamps' = utt_timestamps /\ utt_sources' = utt_sources
      /\ asr_hypotheses' = <<Last(asr_hypotheses), text>> /\ word_ends' = ends
  BY DEF NoCommit, Hypotheses
<1>2. CutsTyped' /\ LiveAudio' = LiveAudio  BY <1>1 DEF CutsTyped, LiveAudio, Ordered
<1>3. PICK l \in Nat : l = LiveAudio /\ l <= heard  BY LiveAudioProps
<1>4. 1 .. l \subseteq 1 .. heard  BY <1>3
<1>5. word_ends' \in Seq(1 .. heard)  BY <1>1, <1>3, <1>4, SeqMonotonic
<1>6. Last(asr_hypotheses) \in Seq(Token)
  <2>1. Len(asr_hypotheses) \in 1 .. 2 /\ asr_hypotheses \in Seq(Seq(Token))
    BY DEF TextsTyped
  <2> QED  BY <2>1, SMTT(30) DEF Last
<1>7. PICK u \in Seq(Token) : u = Last(asr_hypotheses)  BY <1>6
<1>8. <<u, text>> \in Seq(Seq(Token)) /\ Len(<<u, text>>) = 2 /\ <<u, text>>[2] = text  OBVIOUS
<1>9. asr_hypotheses' = <<u, text>>  BY <1>1, <1>7
<1>10. TextsTyped'  BY <1>5, <1>8, <1>9 DEF TextsTyped
<1>11. Last(asr_hypotheses') = text  BY <1>8, <1>9 DEF Last
<1> QED  BY <1>1, <1>2, <1>10, <1>11

(* The audio before "until" is old enough to translate. *)
Until == IF heard >= cfg.inaccessible THEN heard - cfg.inaccessible ELSE 0

(* The words open to translation are words of the live tail, and have ended. *)
LEMMA OpenHaveEnded ==
  ASSUME AudioTyped, TextsTyped
  PROVE  /\ Until \in Int /\ Live \in Seq(Token) /\ word_ends \in Seq(Nat)
         /\ Accessible \in Int /\ Accessible <= Len(Live) /\ Accessible <= Len(word_ends)
         /\ \A i \in 1 .. Accessible : word_ends[i] <= Until
<1> DEFINE ended == Ended(Len(Live), word_ends, Until)
           cap == IF Len(asr_hypotheses) < 2 THEN 0
                  ELSE StableCap(LiveTail(asr_hypotheses[1]), Live, cfg.append_slack)
<1>1. Until \in Int
  <2>1. heard \in Nat /\ cfg.inaccessible \in Nat
    BY AudioCascadeAssumption DEF AudioTyped, Config
  <2> QED  BY <2>1 DEF Until
<1>2. word_ends \in Seq(Nat)
  <2>1. 1 .. heard \subseteq Nat  BY DEF AudioTyped
  <2> QED  BY <2>1, SeqMonotonic DEF TextsTyped
<1>3. Live \in Seq(Token)
  <2>1. Len(asr_hypotheses) \in 1 .. 2 /\ asr_hypotheses \in Seq(Seq(Token))
    BY DEF TextsTyped
  <2>2. Last(asr_hypotheses) \in Seq(Token)  BY <2>1, SMTT(30) DEF Last
  <2> QED  BY <2>2, LiveTailProps DEF Live
<1>4. PICK e \in 0 .. Len(Live) : /\ e = ended /\ e <= Len(word_ends)
                                  /\ \A i \in 1 .. e : word_ends[i] <= Until
  <2>1. Len(Live) \in Nat  BY <1>3
  <2> QED  BY <1>1, <1>2, <2>1, EndedProps
<1>5. cap \in Int
  <2>1. CASE Len(asr_hypotheses) < 2  BY <2>1
  <2>2. CASE ~(Len(asr_hypotheses) < 2)
    <3>1. asr_hypotheses[1] \in Seq(Token)  BY DEF TextsTyped
    <3>2. LiveTail(asr_hypotheses[1]) \in Seq(Token)  BY <3>1, LiveTailProps
    <3>3. StableCap(LiveTail(asr_hypotheses[1]), Live, cfg.append_slack) \in Int
      BY <1>3, <3>2, ConfigProps, StableCapTyped
    <3> QED  BY <2>2, <3>3
  <2> QED  BY <2>1, <2>2
<1>6. Accessible = IF cfg.source_lcp_stability /\ cap < e THEN cap ELSE e
  BY <1>4 DEF Accessible, Until
<1> HIDE DEF cap, ended
<1>7. Accessible \in Int /\ Accessible <= e  BY <1>4, <1>5, <1>6
<1>8. Len(Live) \in Nat /\ Len(word_ends) \in Nat  BY <1>2, <1>3
<1> QED  BY <1>1, <1>2, <1>3, <1>4, <1>7, <1>8

(* What is open stays open over the words a hypothesis repeats: they end no later, and
   the hypothesis before confirms them. *)
LEMMA RepeatedStayOpen ==
  ASSUME AudioTyped, CutsTyped, TextsTyped, heard' = heard, cfg' = cfg,
         NEW text \in Seq(Token), NEW ends \in Seq(1 .. LiveAudio), NoCommit(text, ends),
         NEW n \in 1 .. Accessible, Repeats(n)
  PROVE  n <= Accessible'
<1> DEFINE ended == Ended(Len(Live), word_ends, Until)
           cap == IF Len(asr_hypotheses) < 2 THEN 0
                  ELSE StableCap(LiveTail(asr_hypotheses[1]), Live, cfg.append_slack)
<1>1. heard \in Nat  BY DEF AudioTyped
<1>2. TextsTyped' /\ AudioTyped /\ Until' = Until  BY <1>1, NoCommitKeeps DEF Until
<1>3. PICK live \in Seq(Token) : live = Live /\ live = LiveTail(Last(asr_hypotheses))
  BY OpenHaveEnded DEF Live
<1>4. asr_hypotheses' = <<Last(asr_hypotheses), text>>  BY DEF NoCommit, Hypotheses
<1>5. PICK next \in Seq(Token) : next = Live' /\ next = LiveTail(text)
  <2>1. Last(asr_hypotheses') = text  BY <1>4 DEF Last
  <2> QED  BY <2>1, LiveTailProps DEF Live
<1>6. PICK u \in Int : u = Until  BY OpenHaveEnded
<1>7. PICK a \in Int : /\ a = Accessible /\ a <= Len(live) /\ a <= Len(word_ends)
                       /\ \A i \in 1 .. a : word_ends[i] <= u
  <2>1. PICK a : a = Accessible  OBVIOUS
  <2>2. /\ a \in Int /\ a <= Len(live) /\ a <= Len(word_ends)
        /\ \A i \in 1 .. a : word_ends[i] <= u
    BY <1>3, <1>6, <2>1, OpenHaveEnded
  <2> QED  BY <2>1, <2>2
<1>8. word_ends \in Seq(Nat)  BY OpenHaveEnded
<1>9. word_ends' \in Seq(Nat)
  <2>1. 1 .. heard \subseteq Nat  OBVIOUS
  <2>2. word_ends' \in Seq(1 .. heard)  BY <1>2 DEF TextsTyped
  <2> QED  BY <2>1, <2>2, SeqMonotonic
<1>10. Len(next) \in Nat /\ Len(word_ends') \in Nat /\ Len(word_ends) \in Nat
  BY <1>8, <1>9
<1>11. PICK d \in 0 .. Len(next) :
         /\ d = ended'
         /\ \A k \in 0 .. Len(next) :
              k <= Len(word_ends') /\ (\A i \in 1 .. k : word_ends'[i] <= u) => k <= d
  <2>1. ended' = Ended(Len(next), word_ends', u)  BY <1>2, <1>5, <1>6
  <2> HIDE DEF ended
  <2> QED  BY <1>9, <1>10, <2>1, EndedProps
<1>12. Accessible' = IF cfg.source_lcp_stability /\ cap' < d THEN cap' ELSE d
  BY <1>11 DEF Accessible, Until
<1>13. cap' = StableCap(live, next, cfg.append_slack)
  <2>1. Len(asr_hypotheses') = 2 /\ asr_hypotheses'[1] = Last(asr_hypotheses)  BY <1>4
  <2> QED  BY <1>3, <1>5, <2>1
<1> HIDE DEF cap, ended
<1>14. n \in 1 .. a /\ n \in 1 .. Len(live)
  <2>1. Len(live) \in Nat  OBVIOUS
  <2> QED  BY <1>7, <2>1
<1>15. /\ n <= Len(next) /\ n <= Len(word_ends')
       /\ SubSeq(next, 1, n - 1) = SubSeq(live, 1, n - 1) /\ Within(next[n], live[n])
       /\ \A i \in 1 .. n : word_ends'[i] <= word_ends[i]
  BY <1>3, <1>5 DEF Repeats
<1>16. n <= d
  <2>1. ASSUME NEW i \in 1 .. n PROVE word_ends'[i] <= u
    <3>1. word_ends[i] <= u /\ word_ends'[i] <= word_ends[i]  BY <1>7, <1>14, <1>15
    <3>2. i \in 1 .. Len(word_ends')  BY <1>10, <1>14, <1>15
    <3>3. word_ends'[i] \in Int  BY <1>9, <3>2, ElementOfSeq
    <3>4. word_ends[i] \in Int
      <4>1. i \in 1 .. Len(word_ends)  BY <1>7, <1>10, <1>14
      <4> QED  BY <1>8, <4>1, ElementOfSeq
    <3> QED  BY <1>6, <3>1, <3>3, <3>4
  <2>2. n \in 0 .. Len(next)  BY <1>10, <1>14, <1>15
  <2> QED  BY <1>11, <1>15, <2>1, <2>2
<1>17. cap' \in Int /\ n <= cap'
  <2>1. Stable(live, next) \in Nat /\ n <= Stable(live, next)
    BY <1>14, <1>15, StableRepeated
  <2>2. live # <<>> /\ next # <<>>  BY <1>10, <1>14, <1>15
  <2>3. cfg.append_slack \in Nat  BY ConfigProps
  <2>4. StableCap(live, next, cfg.append_slack)
          \in {Stable(live, next) + 0, Stable(live, next) + cfg.append_slack}
    BY <2>2 DEF StableCap
  <2> QED  BY <1>13, <1>14, <2>1, <2>3, <2>4
<1> QED  BY <1>11, <1>12, <1>14, <1>16, <1>17

-----------------------------------------------------------------------------
(* A step of the ASR. *)

LEMMA EndsProps ==
  ASSUME NEW n \in Nat, NEW m \in Nat, NEW e \in Ends(n, m)
  PROVE  e \in Seq(1 .. m) /\ Len(e) = n /\ Ascending(e)
<1>1. e \in [1 .. n -> 1 .. m] /\ \A i, j \in 1 .. n : i < j => e[i] <= e[j]  BY DEF Ends
<1>2. e \in Seq(1 .. m) /\ Len(e) = n  BY <1>1
<1> QED  BY <1>1, <1>2 DEF Ascending

(* The words up to the one whose end is the cut end by it, and so do those that end with
   one of them. *)
LEMMA CutAtWord ==
  ASSUME NEW from \in Nat, NEW m \in Nat, NEW ends \in Seq(1 .. m), Ascending(ends),
         NEW w \in 1 .. Len(ends)
  PROVE  /\ \A i \in 1 .. w : i \in DOMAIN ends /\ from + ends[i] <= from + ends[w]
         /\ \A i \in DOMAIN ends :
              from + ends[i] <= from + ends[w] => \E j \in 1 .. w : ends[i] = ends[j]
<1>1. Len(ends) \in Nat /\ DOMAIN ends = 1 .. Len(ends)
      /\ \A i \in 1 .. Len(ends) : ends[i] \in Nat
  OBVIOUS
<1>2. ASSUME NEW i \in 1 .. w PROVE i \in DOMAIN ends /\ from + ends[i] <= from + ends[w]
  <2>1. i \in 1 .. Len(ends) /\ (i < w \/ i = w)  BY <1>1
  <2>2. i < w => ends[i] <= ends[w]  BY <2>1 DEF Ascending
  <2>3. ends[i] \in Nat /\ ends[w] \in Nat  BY <1>1, <2>1
  <2> QED  BY <1>1, <2>1, <2>2, <2>3
<1>3. ASSUME NEW i \in DOMAIN ends, from + ends[i] <= from + ends[w]
      PROVE  \E j \in 1 .. w : ends[i] = ends[j]
  <2>1. i \in 1 .. Len(ends) /\ ends[i] \in Nat /\ ends[w] \in Nat  BY <1>1
  <2>2. CASE i <= w
    <3>1. i \in 1 .. w  BY <1>1, <2>1, <2>2
    <3> QED  BY <3>1
  <2>3. CASE w < i
    <3>1. ends[w] <= ends[i]  BY <2>1, <2>3 DEF Ascending
    <3>2. ends[i] = ends[w]  BY <1>3, <2>1, <3>1
    <3>3. w \in 1 .. w  BY <1>1
    <3> QED  BY <3>2, <3>3
  <2>4. i <= w \/ w < i  BY <1>1, <2>1
  <2> QED  BY <2>2, <2>3, <2>4
<1> QED  BY <1>2, <1>3

(* Where a step goes on: it renders, or there was nothing to show. *)
LEMMA Skipped ==
  ASSUME ModeTyped, Ending, phase = "asr", UNCHANGED audioVars, NothingToRender
  PROVE  /\ ModeTyped' /\ Ending' /\ phase' \in {"mt", "idle", "asr"}
         /\ phase' = "mt" <=> final
<1>1. eos' = eos /\ buffered' = buffered  BY DEF audioVars
<1>2. CASE final
  <2>1. phase' = "mt" /\ final' = final  BY <1>2 DEF NothingToRender
  <2> QED  BY <1>1, <1>2, <2>1 DEF ModeTyped, Ending
<1>3. CASE ~final
  <2>1. phase' = (IF eos THEN "asr" ELSE "idle") /\ final' = eos  BY <1>3 DEF NothingToRender
  <2> QED  BY <1>1, <1>3, <2>1 DEF ModeTyped, Ending
<1> QED  BY <1>2, <1>3

LEMMA GoesOn ==
  ASSUME ModeTyped, Ending, phase = "asr", UNCHANGED audioVars, Rendered
  PROVE  /\ ModeTyped' /\ Ending' /\ phase' \in {"mt", "idle", "asr"}
         /\ phase' = "mt" => final' = final
         /\ phase' # "mt" => /\ ~final /\ ~(Len(utt_sources') > 1)
                             /\ LiveTail(Last(asr_hypotheses')) = <<>>
<1>1. eos' = eos /\ buffered' = buffered  BY DEF audioVars
<1>2. CASE final \/ Len(utt_sources') > 1 \/ LiveTail(Last(asr_hypotheses')) # <<>>
  <2>1. phase' = "mt" /\ final' = final  BY <1>2 DEF Rendered
  <2> QED  BY <1>1, <2>1 DEF ModeTyped, Ending
<1>3. CASE ~(final \/ Len(utt_sources') > 1 \/ LiveTail(Last(asr_hypotheses')) # <<>>)
  <2>1. NothingToRender  BY <1>3 DEF Rendered
  <2>2. ModeTyped' /\ Ending' /\ phase' \in {"mt", "idle", "asr"} /\ (phase' = "mt" <=> final)
    BY <2>1, Skipped
  <2> QED  BY <1>3, <2>2
<1> QED  BY <1>2, <1>3

(* What a step leaves alone that does not render. *)
LEMMA NotRendered ==
  ASSUME AudioTyped, TargetsTyped, ShownIsTranslation, UNCHANGED <<audioVars, mtVars>>
  PROVE  AudioTyped' /\ TargetsTyped' /\ ShownIsTranslation'
<1>1. /\ cfg' = cfg /\ buffered' = buffered /\ heard' = heard /\ eos' = eos
      /\ accepted' = accepted /\ translated' = translated /\ emitted' = emitted
      /\ dropped' = dropped
  BY DEF audioVars, mtVars
<1>2. Raw' = Raw  BY <1>1 DEF Raw
<1> QED  BY <1>1, <1>2 DEF AudioTyped, TargetsTyped, ShownIsTranslation

(* A result that commits nothing. *)
LEMMA AfterNoCommit ==
  ASSUME IndInv, phase = "asr", NEW text \in Seq(Token), NEW ends, NEW usable \in BOOLEAN,
         Heard(text, ends, usable), Rendered, UNCHANGED <<audioVars, mtVars>>,
         CutsTyped', TextsTyped', StreamTyped', Len(utt_sources') = Len(utt_sources),
         Last(asr_hypotheses') = <<>> => text = <<>>,
         final => text = <<>> \/ ~usable
  PROVE  IndInv'
<1>1. /\ ModeTyped' /\ Ending' /\ phase' \in {"mt", "idle", "asr"}
      /\ phase' = "mt" => final' = final
      /\ phase' # "mt" => LiveTail(Last(asr_hypotheses')) = <<>>
  BY GoesOn DEF IndInv
<1>2. AudioTyped' /\ TargetsTyped' /\ ShownIsTranslation'  BY NotRendered DEF IndInv
<1>3. /\ spoken'.text = text /\ spoken'.usable = usable
      /\ spoken'.segments = Len(utt_sources) /\ Len(utt_sources) \in Nat
  BY DEF Heard, IndInv, CutsTyped
<1>4. Pending'
  <2>1. translated' = translated  BY DEF mtVars
  <2> QED  BY <2>1 DEF IndInv, Pending
<1>5. Silent'
  <2>1. ASSUME phase' # "mt" PROVE text = <<>>
    <3>1. Last(asr_hypotheses') \in Seq(Token)
      <4>1. PICK h : h = asr_hypotheses'  OBVIOUS
      <4>2. h \in Seq(Seq(Token)) /\ Len(h) \in 1 .. 2  BY <4>1 DEF TextsTyped
      <4>3. Len(h) # 0
        <5>1. \A m \in 1 .. 2 : m # 0  OBVIOUS
        <5> QED  BY <4>2, <5>1, Zenon
      <4>4. Last(h) \in Seq(Token)  BY <4>2, <4>3, LastEntry
      <4> QED  BY <4>1, <4>4
    <3>2. Last(asr_hypotheses') = <<>>  BY <1>1, <2>1, <3>1, LiveTailProps
    <3> QED  BY <3>2
  <2> QED  BY <1>3, <2>1 DEF Silent
<1>6. SegmentsCoverAudio'
  <2>1. ~(Len(utt_sources') > spoken'.segments)  BY <1>3
  <2> QED  BY <2>1 DEF SegmentsCoverAudio, JustCommitted
<1>7. FlushedAtEnd'  BY <1>1, <1>3 DEF FlushedAtEnd
<1> QED  BY <1>1, <1>2, <1>4, <1>5, <1>6, <1>7 DEF IndInv

(* A result that commits the segment "seg", and cuts the audio behind word w. *)
LEMMA AfterCommit ==
  ASSUME IndInv, phase = "asr", NEW text \in Seq(Token), NEW ends \in Seq(1 .. LiveAudio),
         Ascending(ends), NEW w \in 1 .. Len(ends), NEW seg \in Seq(Token),
         Heard(text, ends, TRUE), Rendered, UNCHANGED <<audioVars, mtVars>>,
         CutsTyped', TextsTyped', StreamTyped',
         Last(utt_timestamps') = Last(utt_timestamps) + ends[w],
         Last(utt_sources') = seg, Len(utt_sources') = Len(utt_sources) + 1,
         Len(ends) = Len(text)
           => w = IF seg[Len(seg)] # text[Len(seg)] THEN Len(seg) - 1 ELSE Len(seg),
         final => seg = text /\ Last(asr_hypotheses') = <<>>
  PROVE  IndInv'
<1>1. heard \in Nat /\ Len(utt_sources) \in Nat /\ Len(utt_sources) >= 1
  BY DEF IndInv, AudioTyped, CutsTyped
<1>2. /\ ModeTyped' /\ Ending' /\ phase' = "mt" /\ final' = final
  <2>1. Len(utt_sources') > 1  BY <1>1
  <2> QED  BY <2>1, GoesOn DEF IndInv
<1>3. AudioTyped' /\ TargetsTyped' /\ ShownIsTranslation'  BY NotRendered DEF IndInv
<1>4. /\ spoken'.text = text /\ spoken'.ends = ends /\ spoken'.from = Last(utt_timestamps)
      /\ spoken'.segments = Len(utt_sources)
  BY DEF Heard
<1>5. Pending'
  <2>1. translated' = translated /\ Len(translated) = Len(utt_sources)
    BY DEF mtVars, IndInv, Pending
  <2>2. Len(utt_sources) = (Len(utt_sources) + 1) - 1  BY <1>1
  <2> QED  BY <1>2, <2>1, <2>2 DEF Pending
<1>6. Silent'  BY <1>2 DEF Silent
<1>7. SegmentsCoverAudio'
  <2> DEFINE cut == {i \in DOMAIN ends :
                       Last(utt_timestamps) + ends[i] <= Last(utt_timestamps')}
             last == IF seg[Len(seg)] # text[Len(seg)] THEN Len(seg) - 1 ELSE Len(seg)
  <2>1. SUFFICES ASSUME Len(ends) = Len(text)
                 PROVE  /\ 1 .. last \subseteq cut
                        /\ \A i \in cut : \E j \in 1 .. last : ends[i] = ends[j]
    BY <1>4 DEF SegmentsCoverAudio, JustCommitted
  <2>2. PICK x \in Nat : x = Last(utt_timestamps)
    BY <1>1, LiveAudioProps DEF IndInv
  <2>3. LiveAudio \in Nat  BY <1>1, LiveAudioProps DEF IndInv
  <2>4. last = w  BY <2>1
  <2>5. \A i : i \in cut <=> i \in DOMAIN ends /\ x + ends[i] <= x + ends[w]  BY <2>2
  <2> HIDE DEF cut, last
  <2>6. /\ \A i \in 1 .. w : i \in DOMAIN ends /\ x + ends[i] <= x + ends[w]
        /\ \A i \in DOMAIN ends :
             x + ends[i] <= x + ends[w] => \E j \in 1 .. w : ends[i] = ends[j]
    BY <2>2, <2>3, CutAtWord
  <2> QED  BY <2>4, <2>5, <2>6, Zenon
<1>8. FlushedAtEnd'
  <2>1. ASSUME final PROVE buffered' = 0 /\ Live' = <<>>
    <3>1. buffered' = 0  BY <2>1 DEF IndInv, Ending, audioVars
    <3>2. <<>> \in Seq(Token) /\ <<>> = <<>>  OBVIOUS
    <3>3. LiveTail(<<>>) = <<>>  BY <3>2, LiveTailProps
    <3> QED  BY <2>1, <3>1, <3>3 DEF Live
  <2> QED  BY <1>2, <1>4, <2>1 DEF FlushedAtEnd
<1> QED  BY <1>2, <1>3, <1>5, <1>6, <1>7, <1>8 DEF IndInv

(* _transcribe_non_streaming. *)
LEMMA TranscribeInv ==
  ASSUME IndInv, NEW n \in Nat, NEW text \in [1 .. n -> Tokens], NEW k \in Nat,
         NEW ends \in Ends(k, LiveAudio), Transcribe(text, ends)
  PROVE  IndInv'
<1> DEFINE b == Boundary(Last(asr_hypotheses), text)
           rest == Remainder(text, b)
<1>1. /\ phase = "asr" /\ ~IndexError(text, ends) /\ TryCommit(text, ends)
      /\ Heard(text, ends, ends # <<>>) /\ Rendered /\ UNCHANGED <<audioVars, mtVars>>
      /\ stream' = stream
  BY DEF Transcribe
<1>2. heard \in Nat /\ heard' = heard /\ cfg.min_commit_words \in Nat
  BY <1>1, ConfigProps DEF IndInv, AudioTyped, audioVars
<1>3. PICK l \in Nat : l = LiveAudio  BY <1>2, LiveAudioProps DEF IndInv
<1>4. text \in Seq(Token) /\ Len(text) = n
  <2>1. Tokens \subseteq Token  BY AudioCascadeAssumption
  <2> QED  BY <2>1
<1>5. ends \in Seq(1 .. LiveAudio) /\ Len(ends) = k /\ Ascending(ends)  BY <1>3, EndsProps
<1>6. Last(asr_hypotheses) \in Seq(Token)
  <2>1. Len(asr_hypotheses) \in 1 .. 2 /\ asr_hypotheses \in Seq(Seq(Token))
    BY DEF IndInv, TextsTyped
  <2>2. Len(asr_hypotheses) # 0
    <3>1. \A m \in 1 .. 2 : m # 0  OBVIOUS
    <3> QED  BY <2>1, <3>1, Zenon
  <2> QED  BY <2>1, <2>2, LastEntry
<1>7. b \in 0 .. n /\ (b > 0 => text[b].mark \in {"stop", "number"})
  BY <1>4, <1>6, BoundaryProps
<1>8. \/ NoCommit(text, ends) /\ (final => text = <<>> \/ ends = <<>>)
      \/ final /\ text # <<>> /\ ends # <<>> /\ ApplyCommit(text, <<>>, ends, Last(ends))
      \/ /\ ~final /\ b # 0 /\ b >= cfg.min_commit_words /\ Len(ends) = Len(text)
         /\ ApplyCommit(Committed(text, b), rest, ends, ends[EndWord(ends, rest)])
  <2>1. CASE final /\ (text = <<>> \/ ends = <<>>)
    BY <1>1, <2>1 DEF TryCommit, CommitsAll
  <2>2. CASE final /\ text # <<>> /\ ends # <<>>
    BY <1>1, <2>2 DEF TryCommit, CommitsAll
  <2>3. CASE ~final /\ (b = 0 \/ b < cfg.min_commit_words \/ Len(ends) # Len(text))
    BY <1>1, <2>3 DEF TryCommit, CommitsAll
  <2>4. CASE ~final /\ ~(b = 0 \/ b < cfg.min_commit_words \/ Len(ends) # Len(text))
    <3>1. b >= cfg.min_commit_words  BY <1>2, <1>7, <2>4
    <3> QED  BY <1>1, <2>4, <3>1 DEF TryCommit, CommitsAll
  <2> QED  BY <2>1, <2>2, <2>3, <2>4
<1> HIDE DEF b, rest
<1>9. CASE NoCommit(text, ends) /\ (final => text = <<>> \/ ends = <<>>)
  <2>1. /\ CutsTyped' /\ TextsTyped' /\ LiveAudio' = LiveAudio
        /\ Len(utt_sources') = Len(utt_sources) /\ Last(asr_hypotheses') = text
    BY <1>2, <1>4, <1>5, <1>9, NoCommitKeeps DEF IndInv
  <2>2. StreamTyped'  BY <1>1, <2>1 DEF IndInv, StreamTyped
  <2>3. (ends # <<>>) \in BOOLEAN  OBVIOUS
  <2>4. PICK usable \in BOOLEAN : usable = (ends # <<>>)  BY <2>3
  <2>5. Heard(text, ends, usable)  BY <1>1, <2>4
  <2>6. final => text = <<>> \/ ~usable  BY <1>9, <2>4
  <2> QED  BY <1>1, <1>4, <2>1, <2>2, <2>5, <2>6, AfterNoCommit
<1>10. CASE final /\ text # <<>> /\ ends # <<>> /\ ApplyCommit(text, <<>>, ends, Last(ends))
  <2>1. k \in 1 .. Len(ends) /\ Last(ends) = ends[k] /\ ends[k] \in 1 .. LiveAudio
    <3>1. Len(ends) # 0  BY <1>5, <1>10
    <3> QED  BY <1>5, <3>1, LastEntry
  <2>2. <<>> \in Seq(Token)  OBVIOUS
  <2>3. ApplyCommit(text, <<>>, ends, ends[k])  BY <1>10, <2>1
  <2>4. /\ CutsTyped' /\ TextsTyped' /\ StreamTyped'
        /\ Last(utt_timestamps') = Last(utt_timestamps) + ends[k]
        /\ Last(utt_sources') = text /\ Len(utt_sources') = Len(utt_sources) + 1
        /\ asr_hypotheses' = <<<<>>>>
    BY <1>2, <1>4, <1>5, <2>1, <2>2, <2>3, CommitKeeps DEF IndInv
  <2>5. Last(asr_hypotheses') = <<>>  BY <2>4 DEF Last
  <2>6. Heard(text, ends, TRUE)
    <3>1. (ends # <<>>) = TRUE  BY <1>10
    <3> QED  BY <1>1, <3>1
  <2>7. Len(ends) = Len(text) =>
          k = IF text[Len(text)] # text[Len(text)] THEN Len(text) - 1 ELSE Len(text)
    BY <1>5
  <2> QED  BY <1>1, <1>4, <1>5, <2>1, <2>4, <2>5, <2>6, <2>7, AfterCommit
<1>11. CASE /\ ~final /\ b # 0 /\ b >= cfg.min_commit_words /\ Len(ends) = Len(text)
            /\ ApplyCommit(Committed(text, b), rest, ends, ends[EndWord(ends, rest)])
  <2>1. b \in 1 .. Len(text)  BY <1>4, <1>7, <1>11
  <2>2. PICK seg \in Seq(Token) : /\ seg = Committed(text, b) /\ Len(seg) = b
                                  /\ seg[b] = [text[b] EXCEPT !.mark = "stop"]
    BY <1>4, <2>1, CommittedProps
  <2>3. /\ rest \in Seq(Token)
        /\ Len(rest) = Len(text) - b + (IF text[b].mark = "number" THEN 1 ELSE 0)
    BY <1>4, <2>1, RemainderProps DEF rest
  <2>4. PICK w \in Int : w = EndWord(ends, rest)
                         /\ w = IF text[b].mark = "number" THEN b - 1 ELSE b
    <3>1. EndWord(ends, rest) = IF text[b].mark = "number" THEN b - 1 ELSE b
      BY <1>4, <1>11, <2>1, <2>3 DEF EndWord
    <3> QED  BY <2>1, <3>1
  <2>5. w # 0
    <3>1. b > 0  BY <1>7, <1>11
    <3> QED  BY <1>1, <1>11, <2>4, <3>1 DEF IndexError, b, rest
  <2>6. w \in 1 .. Len(ends) /\ ends[w] \in 1 .. LiveAudio
    <3>1. w \in 1 .. Len(ends)  BY <1>4, <1>11, <2>1, <2>4, <2>5
    <3> QED  BY <1>5, <3>1, ElementOfSeq
  <2>7. ApplyCommit(seg, rest, ends, ends[w])  BY <1>11, <2>2, <2>4
  <2>8. /\ CutsTyped' /\ TextsTyped' /\ StreamTyped'
        /\ Last(utt_timestamps') = Last(utt_timestamps) + ends[w]
        /\ Last(utt_sources') = seg /\ Len(utt_sources') = Len(utt_sources) + 1
    BY <1>2, <1>5, <2>2, <2>3, <2>6, <2>7, CommitKeeps DEF IndInv
  <2>9. Heard(text, ends, TRUE)
    <3>1. Len(ends) # 0  BY <2>6
    <3>2. (ends # <<>>) = TRUE  BY <3>1
    <3> QED  BY <1>1, <3>2
  <2>10. w = IF seg[Len(seg)] # text[Len(seg)] THEN Len(seg) - 1 ELSE Len(seg)
    <3>1. text[b] \in Token /\ text[b].mark \in {"stop", "number"}  BY <1>4, <1>7, <2>1
    <3>2. seg[b] # text[b] <=> text[b].mark = "number"
      BY <2>2, <3>1 DEF Token
    <3> QED  BY <2>2, <2>4, <3>2
  <2> QED  BY <1>1, <1>4, <1>5, <1>11, <2>2, <2>6, <2>8, <2>9, <2>10, AfterCommit
<1> QED  BY <1>8, <1>9, <1>10, <1>11

LEMMA TranscribeFailsInv ==
  ASSUME IndInv, NEW n \in Nat, NEW text \in [1 .. n -> Tokens], NEW k \in Nat,
         NEW ends \in Ends(k, LiveAudio), TranscribeFails(text, ends)
  PROVE  IndInv'
<1>1. /\ phase = "asr" /\ phase' = "failed" /\ NoCommit(text, ends) /\ final' = final
      /\ stream' = stream /\ spoken' = spoken /\ UNCHANGED <<audioVars, mtVars>>
  BY DEF TranscribeFails
<1>2. heard \in Nat /\ heard' = heard  BY <1>1 DEF IndInv, AudioTyped, audioVars
<1>3. PICK l \in Nat : l = LiveAudio  BY <1>2, LiveAudioProps DEF IndInv
<1>4. text \in Seq(Token)
  <2>1. Tokens \subseteq Token  BY AudioCascadeAssumption
  <2> QED  BY <2>1
<1>5. ends \in Seq(1 .. LiveAudio)  BY <1>3, EndsProps
<1>6. /\ CutsTyped' /\ TextsTyped' /\ LiveAudio' = LiveAudio
      /\ Len(utt_sources') = Len(utt_sources)
  BY <1>1, <1>2, <1>4, <1>5, NoCommitKeeps DEF IndInv
<1>7. StreamTyped'  BY <1>1, <1>6 DEF IndInv, StreamTyped
<1>8. AudioTyped' /\ TargetsTyped' /\ ShownIsTranslation'  BY <1>1, NotRendered DEF IndInv
<1>9. ModeTyped' /\ Ending'
  <2>1. eos' = eos /\ buffered' = buffered  BY <1>1 DEF audioVars
  <2> QED  BY <1>1, <2>1 DEF IndInv, ModeTyped, Ending
<1>10. Pending' /\ Silent'
  <2>1. translated' = translated  BY <1>1 DEF mtVars
  <2> QED  BY <1>1, <1>6, <2>1 DEF IndInv, Pending, Silent
<1>11. SegmentsCoverAudio' /\ FlushedAtEnd'
  BY <1>1 DEF SegmentsCoverAudio, JustCommitted, FlushedAtEnd
<1> QED  BY <1>6, <1>7, <1>8, <1>9, <1>10, <1>11 DEF IndInv

LEMMA NoResultInv == ASSUME IndInv, NoResult PROVE IndInv'
<1>1. /\ phase = "asr" /\ NothingToRender /\ spoken' = spoken
      /\ UNCHANGED asrVars /\ UNCHANGED <<audioVars, mtVars>>
  BY DEF NoResult
<1>2. heard \in Nat /\ heard' = heard  BY <1>1 DEF IndInv, AudioTyped, audioVars
<1>3. CutsTyped' /\ TextsTyped' /\ StreamTyped'  BY <1>1, <1>2, MoreAudio DEF IndInv
<1>4. AudioTyped' /\ TargetsTyped' /\ ShownIsTranslation'  BY <1>1, NotRendered DEF IndInv
<1>5. ModeTyped' /\ Ending' /\ phase' \in {"mt", "idle", "asr"}  BY <1>1, Skipped DEF IndInv
<1>6. /\ spoken.text = <<>> /\ spoken.segments \in Nat
      /\ spoken.usable => Len(utt_sources) <= spoken.segments
  BY <1>1 DEF IndInv, Silent
<1>7. utt_sources' = utt_sources /\ translated' = translated  BY <1>1 DEF asrVars, mtVars
<1>8. Pending'  BY <1>1, <1>7 DEF IndInv, Pending
<1>9. Silent'  BY <1>1, <1>6, <1>7 DEF Silent
<1>10. SegmentsCoverAudio'
  <2>1. ~JustCommitted'
    <3>1. SUFFICES ASSUME JustCommitted' PROVE FALSE  OBVIOUS
    <3>2. spoken.usable /\ Len(utt_sources) > spoken.segments
      BY <1>1, <1>7, <3>1 DEF JustCommitted
    <3>3. Len(utt_sources) \in Nat  BY DEF IndInv, CutsTyped
    <3> QED  BY <1>6, <3>2, <3>3
  <2> QED  BY <2>1 DEF SegmentsCoverAudio
<1>11. FlushedAtEnd'  BY <1>1, <1>5, <1>6 DEF FlushedAtEnd
<1> QED  BY <1>3, <1>4, <1>5, <1>8, <1>9, <1>10, <1>11 DEF IndInv

(* The tokens a stream holds after it has committed more. *)
LEMMA CommittableProps ==
  ASSUME heard \in Nat, CutsTyped, StreamTyped, NEW more \in Committable
  PROVE  /\ stream \o more \in Seq([token : Token, end : 1 .. LiveAudio])
         /\ \A i, j \in 1 .. Len(stream \o more) :
              i < j => (stream \o more)[i].end <= (stream \o more)[j].end
<1>1. PICK l \in Nat : l = LiveAudio  BY LiveAudioProps
<1> DEFINE T == [token : Token, end : 1 .. l]
<1>2. PICK n \in Nat : n = Len(stream)  BY DEF StreamTyped
<1>3. PICK last \in 0 .. l :
        /\ stream = <<>> => last = 0
        /\ stream # <<>> => last = Last(stream).end
        /\ \A i \in 1 .. n : stream[i].end <= last /\ stream[i].end \in 1 .. l
  <2>1. \A i \in 1 .. n : stream[i].end \in 1 .. l
    <3>1. \A i \in 1 .. Len(stream) : stream[i] \in [token : Token, end : 1 .. l]
      BY <1>1, ElementOfSeq DEF StreamTyped
    <3> QED  BY <1>2, <3>1
  <2>2. CASE stream = <<>>
    <3>1. n = 0 /\ 0 \in 0 .. l  BY <1>2, <2>2
    <3> QED  BY <2>2, <3>1
  <2>3. CASE stream # <<>>
    <3>1. n # 0 /\ n \in 1 .. n
      <4>1. Len(stream) # 0  BY <2>3 DEF StreamTyped
      <4> QED  BY <1>2, <4>1
    <3>2. Last(stream) = stream[n]  BY <1>2 DEF Last
    <3>3. \A i \in 1 .. n : i < n => stream[i].end <= stream[n].end
      BY <1>2, <3>1 DEF StreamTyped
    <3>4. \A i \in 1 .. n : stream[i].end <= stream[n].end
      <4> SUFFICES ASSUME NEW i \in 1 .. n PROVE stream[i].end <= stream[n].end  OBVIOUS
      <4>1. i < n \/ i = n  OBVIOUS
      <4> QED  BY <2>1, <3>1, <3>3, <4>1
    <3>5. stream[n].end \in 0 .. l  BY <2>1, <3>1
    <3> QED  BY <2>1, <2>3, <3>2, <3>4, <3>5
  <2> QED  BY <2>2, <2>3
<1> DEFINE first == IF stream = <<>> THEN 1 ELSE Last(stream).end
<1>4. PICK off \in 0 .. l : first = off + 1 /\ last <= off + 1
  <2>1. CASE stream = <<>>
    <3>1. first = 0 + 1 /\ last <= 0 + 1 /\ 0 \in 0 .. l  BY <1>3, <2>1
    <3> QED  BY <3>1
  <2>2. CASE stream # <<>>
    <3>1. n # 0 /\ n \in 1 .. n
      <4>1. Len(stream) # 0  BY <2>2 DEF StreamTyped
      <4> QED  BY <1>2, <4>1
    <3>2. Last(stream) = stream[n]  BY <1>2 DEF Last
    <3>3. last = stream[n].end /\ last \in 1 .. l  BY <1>3, <2>2, <3>1, <3>2
    <3>4. first = (last - 1) + 1 /\ last <= (last - 1) + 1 /\ last - 1 \in 0 .. l
      BY <1>3, <2>2, <3>3
    <3> QED  BY <3>4
  <2> QED  BY <2>1, <2>2
<1> DEFINE More(k) == {[i \in 1 .. k |-> [token |-> t[i], end |-> first - 1 + e[i]]] :
                         t \in [1 .. k -> Tokens], e \in Ends(k, l - first + 1)}
<1>5a. Committable = UNION {More(k) : k \in 0 .. MaxWords}  BY <1>1 DEF Committable
<1>5b. PICK k \in 0 .. MaxWords : more \in More(k)
  <2> HIDE DEF More
  <2> QED  BY <1>5a
<1>5c. PICK t \in [1 .. k -> Tokens] : \E e \in Ends(k, l - first + 1) :
         more = [i \in 1 .. k |-> [token |-> t[i], end |-> first - 1 + e[i]]]
  BY <1>5b
<1>5. PICK e \in Ends(k, l - first + 1) :
        more = [i \in 1 .. k |-> [token |-> t[i], end |-> first - 1 + e[i]]]
  BY <1>5c
<1> HIDE DEF first
<1>6. PICK m \in Nat : m = l - off /\ m = l - first + 1
  <2>1. l - off \in Nat /\ l - (off + 1) + 1 = l - off  BY <1>1
  <2> QED  BY <1>4, <2>1
<1>6a. k \in Nat  BY AudioCascadeAssumption
<1>7. e \in Seq(1 .. m) /\ Len(e) = k /\ Ascending(e)  BY <1>5, <1>6, <1>6a, EndsProps
<1>8. \A i \in 1 .. k : /\ e[i] \in 1 .. m /\ t[i] \in Token
                        /\ more[i] = [token |-> t[i], end |-> off + e[i]]
  <2> SUFFICES ASSUME NEW i \in 1 .. k
               PROVE  /\ e[i] \in 1 .. m /\ t[i] \in Token
                      /\ more[i] = [token |-> t[i], end |-> off + e[i]]
    OBVIOUS
  <2>1. e[i] \in 1 .. m  BY <1>7, ElementOfSeq
  <2>2. t[i] \in Token  BY AudioCascadeAssumption
  <2>3. more[i] = [token |-> t[i], end |-> first - 1 + e[i]]  BY <1>5
  <2>4. first - 1 + e[i] = off + e[i]  BY <1>4, <2>1
  <2> QED  BY <2>1, <2>2, <2>3, <2>4
<1>9. \A i \in 1 .. k : more[i] \in T /\ more[i].end >= last /\ more[i].end = off + e[i]
  <2> SUFFICES ASSUME NEW i \in 1 .. k
               PROVE  more[i] \in T /\ more[i].end >= last /\ more[i].end = off + e[i]
    OBVIOUS
  <2>1. e[i] \in 1 .. m /\ off \in 0 .. l /\ m = l - off /\ last \in 0 .. l /\ last <= off + 1
    BY <1>3, <1>4, <1>6, <1>8
  <2>2. off + e[i] \in 1 .. l /\ off + e[i] >= last  BY <2>1
  <2>3. t[i] \in Token /\ more[i] = [token |-> t[i], end |-> off + e[i]]  BY <1>8
  <2> QED  BY <2>2, <2>3
<1>10. more \in Seq(T) /\ Len(more) = k
  <2>1. more \in [1 .. k -> T]  BY <1>5, <1>9
  <2> HIDE DEF T
  <2> QED  BY <2>1
<1>11. stream \in Seq(T)  BY <1>1 DEF StreamTyped
<1>12. PICK s \in Seq(T) : s = stream \o more  BY <1>10, <1>11, ConcatProperties
<1>13. /\ Len(s) = n + k
       /\ \A i \in 1 .. n : s[i] = stream[i]
       /\ \A i \in n + 1 .. n + k : s[i] = more[i - n]
  <2> HIDE DEF T
  <2>1. /\ Len(stream \o more) = Len(stream) + Len(more)
        /\ \A i \in 1 .. Len(stream) + Len(more) :
             (stream \o more)[i] = IF i <= Len(stream) THEN stream[i] ELSE more[i - Len(stream)]
    BY <1>10, <1>11, ConcatProperties
  <2>2. Len(s) = n + k
        /\ \A i \in 1 .. n + k : s[i] = IF i <= n THEN stream[i] ELSE more[i - n]
    BY <1>2, <1>10, <1>12, <2>1
  <2> QED  BY <1>2, <2>2
<1>14. ASSUME NEW i \in 1 .. n + k, NEW j \in 1 .. n + k, i < j
       PROVE  s[i].end <= s[j].end
  <2>1. CASE j <= n
    <3>1. i \in 1 .. n /\ j \in 1 .. n  BY <1>14, <2>1
    <3>2. stream[i].end <= stream[j].end  BY <1>2, <1>14, <3>1 DEF StreamTyped
    <3> QED  BY <1>13, <3>1, <3>2
  <2>2. CASE i <= n /\ n < j
    <3>1. i \in 1 .. n /\ j \in n + 1 .. n + k /\ j - n \in 1 .. k  BY <2>2
    <3>2. stream[i].end <= last /\ stream[i].end \in 1 .. l  BY <1>3, <3>1
    <3>3. more[j - n].end >= last /\ more[j - n].end = off + e[j - n] /\ e[j - n] \in 1 .. m
      BY <1>8, <1>9, <3>1
    <3>4. stream[i].end <= more[j - n].end  BY <3>2, <3>3
    <3> QED  BY <1>13, <3>1, <3>4
  <2>3. CASE n < i
    <3>1. /\ i \in n + 1 .. n + k /\ j \in n + 1 .. n + k
          /\ i - n \in 1 .. k /\ j - n \in 1 .. k /\ i - n < j - n
      BY <1>14, <2>3
    <3>2. e[i - n] <= e[j - n] /\ e[i - n] \in 1 .. m /\ e[j - n] \in 1 .. m
      BY <1>7, <1>8, <3>1 DEF Ascending
    <3>3. more[i - n].end = off + e[i - n] /\ more[j - n].end = off + e[j - n]
      BY <1>9, <3>1
    <3>4. off + e[i - n] <= off + e[j - n]  BY <3>2
    <3>5. more[i - n].end <= more[j - n].end  BY <3>3, <3>4
    <3> QED  BY <1>13, <3>1, <3>5
  <2> QED  BY <1>2, <1>14, <2>1, <2>2, <2>3
<1> QED  BY <1>1, <1>12, <1>13, <1>14

(* _drive_alignatt_stream and _emit_alignatt_segment. *)
LEMMA DriveStreamInv ==
  ASSUME IndInv, NEW more \in Committable, NEW shown \in UpTo(Tokens, 1),
         DriveStream(more, shown)
  PROVE  IndInv'
<1>1. heard \in Nat  BY DEF IndInv, AudioTyped
<1>2. PICK l \in Nat : l = LiveAudio  BY <1>1, LiveAudioProps DEF IndInv
<1>3. PICK tokens \in Seq([token : Token, end : 1 .. l]) :
        /\ tokens = stream \o more
        /\ \A i, j \in 1 .. Len(tokens) : i < j => tokens[i].end <= tokens[j].end
  BY <1>1, <1>2, CommittableProps DEF IndInv
<1>4. PICK n \in Nat : n = Len(tokens)  OBVIOUS
<1>5. \A i \in 1 .. n : tokens[i].token \in Token /\ tokens[i].end \in 1 .. l
  <2>1. \A i \in 1 .. n : tokens[i] \in [token : Token, end : 1 .. l]
    BY <1>4, ElementOfSeq
  <2> QED  BY <2>1
<1>6. PICK text \in Seq(Token) : text = Texts(tokens) /\ Len(text) = n
  <2>1. DOMAIN tokens = 1 .. n  BY <1>4
  <2>2. PICK t \in [1 .. n -> Token] : t = [i \in 1 .. n |-> tokens[i].token]  BY <1>5
  <2>3. t \in Seq(Token) /\ Len(t) = n  BY <2>2
  <2>4. Texts(tokens) = t  BY <2>1, <2>2 DEF Texts
  <2> QED  BY <2>3, <2>4
<1>7. PICK ends \in Seq(1 .. l) : /\ ends = [i \in DOMAIN tokens |-> tokens[i].end]
                                  /\ Len(ends) = n /\ Ascending(ends)
                                  /\ \A i \in 1 .. n : ends[i] = tokens[i].end
  <2>1. DOMAIN tokens = 1 .. n  BY <1>4
  <2>2. PICK e \in [1 .. n -> 1 .. l] : e = [i \in DOMAIN tokens |-> tokens[i].end]
    BY <1>5, <2>1
  <2>3. e \in Seq(1 .. l) /\ Len(e) = n  BY <2>2
  <2>4. \A i \in 1 .. n : e[i] = tokens[i].end  BY <2>1, <2>2
  <2>5. Ascending(e)  BY <1>3, <1>4, <2>3, <2>4 DEF Ascending
  <2> QED  BY <2>2, <2>3, <2>4, <2>5
<1> DEFINE closes == text # <<>> /\ (final \/ Last(text).mark = "stop")
<1>8. /\ phase = "asr" /\ Heard(text, ends, TRUE) /\ Rendered
      /\ UNCHANGED <<audioVars, mtVars>>
      /\ closes => ApplyCommit(text, <<>>, <<>>, Last(tokens).end)
      /\ ~closes => NoCommit(text \o shown, <<>>) /\ stream' = tokens
  BY <1>3, <1>6, <1>7 DEF DriveStream
<1>9. heard' = heard  BY <1>8 DEF audioVars
<1>10. ends \in Seq(1 .. LiveAudio) /\ <<>> \in Seq(1 .. LiveAudio) /\ <<>> \in Seq(Token)
  BY <1>2
<1>11. CASE closes
  <2>1. n # 0 /\ n \in 1 .. n
    <3>1. Len(text) # 0  BY <1>11
    <3> QED  BY <1>6, <3>1
  <2>2. Last(tokens).end = ends[n] /\ ends[n] \in 1 .. LiveAudio
    <3>1. Last(tokens) = tokens[n]  BY <1>4 DEF Last
    <3> QED  BY <1>2, <1>5, <1>7, <2>1, <3>1
  <2>3. ApplyCommit(text, <<>>, <<>>, ends[n])  BY <1>8, <1>11, <2>2
  <2>4. /\ CutsTyped' /\ TextsTyped' /\ StreamTyped'
        /\ Last(utt_timestamps') = Last(utt_timestamps) + ends[n]
        /\ Last(utt_sources') = text /\ Len(utt_sources') = Len(utt_sources) + 1
        /\ asr_hypotheses' = <<<<>>>>
    BY <1>1, <1>9, <1>10, <2>2, <2>3, CommitKeeps DEF IndInv
  <2>5. Last(asr_hypotheses') = <<>>  BY <2>4 DEF Last
  <2>6. n \in 1 .. Len(ends)  BY <1>7, <2>1
  <2>7. Len(ends) = Len(text) =>
          n = IF text[Len(text)] # text[Len(text)] THEN Len(text) - 1 ELSE Len(text)
    BY <1>6
  <2> HIDE DEF closes
  <2> QED  BY <1>7, <1>8, <1>10, <2>4, <2>5, <2>6, <2>7, AfterCommit
<1>12. CASE ~closes
  <2>1. shown \in Seq(Token)
    <3>1. PICK k \in 0 .. 1 : shown \in [1 .. k -> Tokens]  BY DEF UpTo
    <3>2. Tokens \subseteq Token  BY AudioCascadeAssumption
    <3> QED  BY <3>1, <3>2
  <2>2. PICK hypothesis \in Seq(Token) : /\ hypothesis = text \o shown
                                         /\ hypothesis = <<>> => text = <<>>
    <3>1. text \o shown \in Seq(Token) /\ Len(text \o shown) = Len(text) + Len(shown)
      BY <2>1, ConcatProperties
    <3>2. ASSUME text \o shown = <<>> PROVE text = <<>>
      <4>1. Len(text) + Len(shown) = 0 /\ Len(text) \in Nat /\ Len(shown) \in Nat
        BY <2>1, <3>1, <3>2
      <4>2. Len(text) = 0  BY <4>1
      <4> QED  BY <4>2
    <3> QED  BY <3>1, <3>2
  <2>3. NoCommit(hypothesis, <<>>) /\ stream' = tokens  BY <1>8, <1>12, <2>2
  <2>4. /\ CutsTyped' /\ TextsTyped' /\ LiveAudio' = LiveAudio
        /\ Len(utt_sources') = Len(utt_sources) /\ Last(asr_hypotheses') = hypothesis
    BY <1>1, <1>9, <1>10, <2>3, NoCommitKeeps DEF IndInv
  <2>5. StreamTyped'  BY <1>2, <1>3, <2>3, <2>4 DEF StreamTyped
  <2>6. final => text = <<>> \/ ~TRUE  BY <1>12
  <2>7. Last(asr_hypotheses') = <<>> => text = <<>>  BY <2>2, <2>4
  <2>8. TRUE \in BOOLEAN  OBVIOUS
  <2> HIDE DEF closes
  <2> QED  BY <1>8, <2>4, <2>5, <2>6, <2>7, <2>8, AfterNoCommit
<1> QED  BY <1>11, <1>12

-----------------------------------------------------------------------------
(* The chunks, and the end of the stream. *)

(* What a step keeps that only listens. *)
LEMMA Listening ==
  ASSUME IndInv, phase = "idle", phase' \in {"idle", "asr"}, spoken' = spoken,
         UNCHANGED <<asrVars, mtVars>>
  PROVE  /\ TargetsTyped' /\ Pending' /\ Silent'
         /\ SegmentsCoverAudio' /\ FlushedAtEnd' /\ ShownIsTranslation'
<1>1. /\ utt_sources' = utt_sources /\ accepted' = accepted /\ translated' = translated
      /\ emitted' = emitted /\ dropped' = dropped
  BY DEF asrVars, mtVars
<1>2. TargetsTyped'  BY <1>1 DEF IndInv, TargetsTyped
<1>3. Pending' /\ Silent'  BY <1>1 DEF IndInv, Pending, Silent
<1>4. SegmentsCoverAudio' /\ FlushedAtEnd'
  BY DEF SegmentsCoverAudio, JustCommitted, FlushedAtEnd
<1>5. Raw' = Raw  BY <1>1 DEF Raw
<1>6. ShownIsTranslation'  BY <1>1, <1>5 DEF IndInv, ShownIsTranslation
<1> QED  BY <1>2, <1>3, <1>4, <1>6

LEMMA ReceiveInv ==
  ASSUME IndInv, NEW slots \in 1 .. MaxSend, Receive(slots)
  PROVE  IndInv'
<1>1. /\ phase = "idle" /\ heard + buffered + slots <= MaxAudio /\ cfg' = cfg
      /\ eos' = eos /\ final' = final /\ spoken' = spoken /\ UNCHANGED <<asrVars, mtVars>>
      /\ UNCHANGED asrVars
  BY DEF Receive
<1>2. /\ heard \in Nat /\ buffered \in Nat /\ slots \in Nat /\ slots > 0 /\ MaxAudio \in Nat
  BY AudioCascadeAssumption DEF IndInv, AudioTyped
<1>3. ~eos /\ ~final  BY <1>1 DEF IndInv, Ending, ModeTyped
<1>4. /\ heard' \in Nat /\ heard' >= heard /\ buffered' \in Nat /\ buffered' + heard' <= MaxAudio
      /\ phase' \in {"idle", "asr"}
  <2>1. CASE buffered + slots < cfg.chunk
    <3>1. buffered' = buffered + slots /\ heard' = heard /\ phase' = phase
      BY <2>1 DEF Receive
    <3> QED  BY <1>1, <1>2, <3>1
  <2>2. CASE ~(buffered + slots < cfg.chunk)
    <3>1. buffered' = 0 /\ heard' = heard + (buffered + slots)  BY <2>2 DEF Receive, Feed
    <3>2. phase' = IF heard' < cfg.min_start THEN "idle" ELSE "asr"  BY <2>2 DEF Receive
    <3> QED  BY <1>1, <1>2, <3>1, <3>2
  <2> QED  BY <2>1, <2>2
<1>5. CutsTyped' /\ TextsTyped' /\ StreamTyped'
  BY <1>1, <1>2, <1>4, MoreAudio DEF IndInv
<1>6. AudioTyped' /\ ModeTyped' /\ Ending'
  BY <1>1, <1>3, <1>4 DEF IndInv, AudioTyped, ModeTyped, Ending
<1> QED  BY <1>1, <1>4, <1>5, <1>6, Listening DEF IndInv

LEMMA EndOfStreamInv ==
  ASSUME IndInv, EndOfStream
  PROVE  IndInv'
<1>1. /\ phase = "idle" /\ eos' = TRUE /\ phase' = "asr" /\ cfg' = cfg /\ spoken' = spoken
      /\ UNCHANGED <<asrVars, mtVars>> /\ UNCHANGED asrVars
      /\ buffered' = 0 /\ heard' = heard + buffered
      /\ final' = (buffered = 0 \/ heard' < cfg.min_start)
  BY DEF EndOfStream, FlushBuffer, Feed
<1>2. /\ heard \in Nat /\ buffered \in Nat /\ MaxAudio \in Nat /\ buffered + heard <= MaxAudio
  BY AudioCascadeAssumption DEF IndInv, AudioTyped
<1>3. /\ heard' \in Nat /\ heard' >= heard /\ buffered' + heard' <= MaxAudio /\ buffered' \in Nat
  BY <1>1, <1>2
<1>4. CutsTyped' /\ TextsTyped' /\ StreamTyped'
  BY <1>1, <1>2, <1>3, MoreAudio DEF IndInv
<1>5. AudioTyped' /\ ModeTyped' /\ Ending'
  <2>1. final' \in BOOLEAN  BY <1>1
  <2> QED  BY <1>1, <1>3, <2>1 DEF IndInv, AudioTyped, ModeTyped, Ending
<1> QED  BY <1>1, <1>4, <1>5, Listening DEF IndInv

-----------------------------------------------------------------------------
(* Rendering: translations grow, and the gate lets them pass. *)

(* What a final or a partial is continued with comes after what was shown. *)
LEMMA ShownFirst ==
  ASSUME NEW shown \in Seq(Targets), NEW open \in Seq(Targets),
         NEW more \in Seq(Targets), NEW rest \in Seq(Targets)
  PROVE  /\ IsPrefix(shown \o open, shown \o (open \o more))
         /\ IsPrefix(shown \o open, (shown \o (open \o more)) \o rest)
<1>1. PICK u \in Seq(Targets) : u = shown \o open  BY ConcatProperties
<1>2. u \o more = shown \o (open \o more)  BY <1>1, ConcatAssociative
<1>3. (u \o more) \o rest = u \o (more \o rest)  BY ConcatAssociative, SMTT(30)
<1>4. IsPrefix(u, u \o more)  BY PrefixOfConcat
<1>5. IsPrefix(u, u \o (more \o rest))
  <2>1. more \o rest \in Seq(Targets)  BY ConcatProperties
  <2> QED  BY <2>1, PrefixOfConcat
<1> QED  BY <1>1, <1>2, <1>3, <1>4, <1>5

(* A text that extends what was emitted is emitted under every policy. *)
LEMMA EmittedIfGrown ==
  ASSUME AudioTyped, NEW previous \in Seq(Targets), NEW raw \in Seq(Targets),
         IsPrefix(previous, raw)
  PROVE  Emission(previous, raw) = raw
<1>1. Common(previous, raw) = Len(previous) /\ Len(previous) \in Nat  BY CommonProps
<1>2. cfg.max_tail_rewrite_words \in Int  BY ConfigProps
<1>3. cfg.max_tail_rewrite_words >= 0 => ~MajorRewrite(previous, raw)
  BY <1>1, <1>2 DEF MajorRewrite
<1> QED  BY <1>3 DEF Emission

LEMMA RawTyped ==
  ASSUME TargetsTyped
  PROVE  Raw \in Seq(Targets)
<1>1. FlattenSeq(translated) \in Seq(Targets)
  <2>1. <<>> \in Seq(Targets)  OBVIOUS
  <2> QED  BY <2>1, FlattenAppend DEF TargetsTyped
<1> QED  BY <1>1, ConcatProperties DEF Raw, TargetsTyped

LEMMA RenderInv ==
  ASSUME IndInv, NEW more \in Growth(MaxMore), NEW partial \in Growth(MaxMore),
         Render(more, partial)
  PROVE  IndInv'
<1> DEFINE pending == Len(utt_sources) > Len(translated)
<1>1. /\ phase = "mt"
      /\ translated' = IF pending THEN Append(translated, accepted \o more) ELSE translated
      /\ accepted' = IF Live = <<>> THEN <<>> ELSE FreshTarget \o partial
      /\ dropped' = (dropped \/ (Live = <<>> /\ FreshTarget # <<>>))
      /\ emitted' = Gate(Emission(emitted, Raw'))
      /\ StepDone /\ UNCHANGED <<audioVars, asrVars>> /\ UNCHANGED asrVars
  BY DEF Render, Prefill
<1>2. more \in Seq(Targets) /\ partial \in Seq(Targets)
  <2>1. \A n \in Nat : UpTo(Targets, n) \subseteq Seq(Targets)
    <3> SUFFICES ASSUME NEW n \in Nat, NEW t \in UpTo(Targets, n) PROVE t \in Seq(Targets)
      OBVIOUS
    <3>1. PICK k \in 0 .. n : t \in [1 .. k -> Targets]  BY DEF UpTo
    <3> QED  BY <3>1
  <2>2. MaxMore \in Nat /\ <<>> \in Seq(Targets)  BY AudioCascadeAssumption
  <2> QED  BY <2>1, <2>2 DEF Growth
<1>3. /\ accepted \in Seq(Targets) /\ emitted \in Seq(Targets)
      /\ translated \in Seq(Seq(Targets)) /\ <<>> \in Seq(Targets)
  BY DEF IndInv, TargetsTyped
<1>4. FreshTarget = IF pending THEN <<>> ELSE accepted  BY DEF FreshTarget
<1>5. accepted' \in Seq(Targets)
  <2>1. FreshTarget \in Seq(Targets)  BY <1>3, <1>4
  <2>2. FreshTarget \o partial \in Seq(Targets)  BY <1>2, <2>1, ConcatProperties
  <2> QED  BY <1>1, <1>3, <2>2
<1>6. PICK final_text \in Seq(Targets) : final_text = accepted \o more
  BY <1>2, <1>3, ConcatProperties
<1>7. translated' \in Seq(Seq(Targets))
  <2>1. Append(translated, final_text) \in Seq(Seq(Targets))  BY <1>3
  <2> QED  BY <1>1, <1>3, <1>6, <2>1
<1>8. PICK old \in Seq(Targets) : old = FlattenSeq(translated)  BY <1>3, FlattenAppend
<1>9. PICK new \in Seq(Targets) : new = FlattenSeq(translated')
  BY <1>3, <1>7, FlattenAppend
<1>10. PICK raw \in Seq(Targets) : raw = Raw'
  <2>1. Raw' = new \o accepted'  BY <1>9 DEF Raw
  <2> QED  BY <1>5, <2>1, ConcatProperties
<1>11. raw = new \o accepted'  BY <1>9, <1>10 DEF Raw
<1>12. emitted' \in Seq(Targets)
  <2>1. Emission(emitted, raw) \in {emitted, raw}  BY DEF Emission
  <2>2. emitted' = Gate(Emission(emitted, raw))  BY <1>1, <1>10
  <2> QED  BY <1>3, <2>1, <2>2 DEF Gate
<1>13. TargetsTyped'  BY <1>5, <1>7, <1>12 DEF TargetsTyped
<1>14. ASSUME ~dropped' PROVE emitted' = Raw'
  <2>0. /\ old \in Seq(Targets) /\ accepted \in Seq(Targets) /\ more \in Seq(Targets)
        /\ partial \in Seq(Targets) /\ emitted \in Seq(Targets) /\ accepted' \in Seq(Targets)
    BY <1>2, <1>3, <1>5
  <2>1. ~dropped /\ (Live = <<>> => FreshTarget = <<>>)  BY <1>1, <1>14
  <2>2. emitted = old \o accepted  BY <1>8, <2>1 DEF IndInv, ShownIsTranslation, Raw
  <2>3. IsPrefix(emitted, raw)
    <3>1. CASE pending
      <4>1. new = old \o final_text
        <5>1. translated' = Append(translated, final_text)  BY <1>1, <1>6, <3>1
        <5> QED  BY <1>3, <1>8, <1>9, <5>1, FlattenAppend
      <4>2. raw = (old \o (accepted \o more)) \o accepted'  BY <1>6, <1>11, <4>1
      <4>3. IsPrefix(old \o accepted, (old \o (accepted \o more)) \o accepted')
        BY <2>0, ShownFirst
      <4> QED  BY <2>2, <4>2, <4>3
    <3>2. CASE ~pending
      <4>1. new = old /\ FreshTarget = accepted
        <5>1. translated' = translated  BY <1>1, <3>2
        <5> QED  BY <1>4, <1>8, <1>9, <3>2, <5>1
      <4>2. CASE Live = <<>>
        <5>1. accepted' = accepted  BY <1>1, <2>1, <4>1, <4>2
        <5>2. raw = emitted  BY <1>11, <2>2, <4>1, <5>1
        <5> QED  BY <1>2, <1>3, <5>2, PrefixOfConcat
      <4>3. CASE Live # <<>>
        <5>1. accepted' = accepted \o partial  BY <1>1, <4>1, <4>3
        <5>2. raw = old \o (accepted \o partial)  BY <1>11, <4>1, <5>1
        <5>3. IsPrefix(old \o accepted, old \o (accepted \o partial))  BY <2>0, ShownFirst
        <5> QED  BY <2>2, <5>2, <5>3
      <4> QED  BY <4>2, <4>3
    <3> QED  BY <3>1, <3>2
  <2>4. Emission(emitted, raw) = raw  BY <1>3, <2>3, EmittedIfGrown DEF IndInv
  <2>5. Gate(raw) = raw  BY <2>3 DEF Gate
  <2> QED  BY <1>1, <1>10, <2>4, <2>5
<1>15. /\ heard' = heard /\ buffered' = buffered /\ cfg' = cfg /\ eos' = eos
       /\ utt_sources' = utt_sources
  BY <1>1 DEF audioVars, asrVars
<1>16. /\ phase' = IF final THEN "ended" ELSE IF eos THEN "asr" ELSE "idle"
       /\ final' = eos /\ spoken' = Silence
  BY <1>1 DEF StepDone
<1>17. AudioTyped' /\ ModeTyped' /\ Ending'
  BY <1>15, <1>16 DEF IndInv, AudioTyped, ModeTyped, Ending
<1>18. CutsTyped' /\ TextsTyped' /\ StreamTyped'
  <2>1. heard \in Nat /\ heard' >= heard /\ heard' \in Nat  BY <1>15 DEF IndInv, AudioTyped
  <2> QED  BY <1>1, <2>1, MoreAudio DEF IndInv
<1>19. Len(translated') = Len(utt_sources)
  <2>1. /\ Len(translated) \in Nat /\ Len(utt_sources) \in Nat
        /\ Len(translated) \in {Len(utt_sources), Len(utt_sources) - 1}
    BY DEF IndInv, Pending, CutsTyped, TargetsTyped
  <2>2. CASE pending
    <3>1. Len(translated) = Len(utt_sources) - 1  BY <2>1, <2>2
    <3>2. translated' = Append(translated, final_text)  BY <1>1, <1>6, <2>2
    <3>3. Len(translated') = Len(translated) + 1  BY <1>3, <3>2
    <3> QED  BY <2>1, <3>1, <3>3
  <2>3. CASE ~pending
    <3>1. Len(translated) = Len(utt_sources)  BY <2>1, <2>3
    <3> QED  BY <1>1, <2>3, <3>1
  <2> QED  BY <2>2, <2>3
<1>20. Pending'  BY <1>15, <1>19 DEF Pending
<1>21. Silent'  BY <1>16 DEF Silent, Silence
<1>22. SegmentsCoverAudio' /\ FlushedAtEnd'
  <2>1. phase' # "mt"  BY <1>16
  <2>2. phase' = "ended" => buffered' = 0  BY <1>17 DEF Ending
  <2> QED  BY <1>15, <1>19, <2>1, <2>2 DEF SegmentsCoverAudio, JustCommitted, FlushedAtEnd
<1>23. ShownIsTranslation'  BY <1>14 DEF ShownIsTranslation
<1> QED  BY <1>13, <1>17, <1>18, <1>20, <1>21, <1>22, <1>23 DEF IndInv

-----------------------------------------------------------------------------
(* A fresh session, and every step. *)

LEMMA AppendLonger ==
  ASSUME NEW S, NEW s \in Seq(S), NEW x
  PROVE  Append(s, x) # s
<1>1. Len(Append(s, x)) = Len(s) + 1 /\ Len(s) \in Nat  OBVIOUS
<1> QED  BY <1>1

LEMMA InitInv == Init => IndInv
<1> SUFFICES ASSUME Init PROVE IndInv  OBVIOUS
<1>1. /\ cfg \in Configs /\ buffered = 0 /\ heard = 0 /\ phase = "idle" /\ eos = FALSE
      /\ final = FALSE /\ utt_timestamps = <<0>> /\ utt_sources = <<<<>>>>
      /\ asr_hypotheses = <<<<>>>> /\ word_ends = <<>> /\ stream = <<>>
      /\ accepted = <<>> /\ translated = <<<<>>>> /\ emitted = <<>> /\ spoken = Silence
  BY DEF Init
<1>2. AudioTyped
  <2>1. MaxAudio \in Nat  BY AudioCascadeAssumption
  <2> QED  BY <1>1, <2>1 DEF AudioTyped
<1>3. ModeTyped /\ Ending  BY <1>1 DEF ModeTyped, Ending
<1>4. CutsTyped  BY <1>1 DEF CutsTyped, Ordered
<1>5. TextsTyped  BY <1>1 DEF TextsTyped
<1>6. TargetsTyped  BY <1>1 DEF TargetsTyped
<1>7. StreamTyped  BY <1>1 DEF StreamTyped
<1>8. Pending /\ Silent  BY <1>1 DEF Pending, Silent, Silence
<1>9. SegmentsCoverAudio /\ FlushedAtEnd
  BY <1>1 DEF SegmentsCoverAudio, JustCommitted, FlushedAtEnd
<1>10. ShownIsTranslation
  <2>1. <<>> \in Seq(Seq(Targets)) /\ <<>> \in Seq(Targets)  OBVIOUS
  <2>2. FlattenSeq(<<>>) = <<>>  BY DEF FlattenSeq
  <2>3. FlattenSeq(Append(<<>>, <<>>)) = FlattenSeq(<<>>) \o <<>>  BY <2>1, FlattenAppend
  <2>4. Append(<<>>, <<>>) = <<<<>>>>  OBVIOUS
  <2>5. <<>> \o <<>> = <<>>  OBVIOUS
  <2>6. Raw = <<>>  BY <1>1, <2>2, <2>3, <2>4, <2>5 DEF Raw
  <2> QED  BY <1>1, <2>6 DEF ShownIsTranslation
<1> QED  BY <1>2, <1>3, <1>4, <1>5, <1>6, <1>7, <1>8, <1>9, <1>10 DEF IndInv

(* clear() leaves what a new session starts from. *)
LEMMA ClearInv == ASSUME IndInv, Clear PROVE IndInv'
<1>1. Init'  BY DEF Clear, Init, IndInv, AudioTyped
<1> QED  BY <1>1, InitInv, PTL

LEMMA StutterInv == ASSUME IndInv, UNCHANGED vars PROVE IndInv'
<1>1. /\ UNCHANGED audioVars /\ UNCHANGED asrVars /\ UNCHANGED mtVars
      /\ phase' = phase /\ final' = final /\ spoken' = spoken
      /\ UNCHANGED <<audioVars, mtVars>>
  BY DEF vars
<1>2. AudioTyped' /\ TargetsTyped' /\ ShownIsTranslation'  BY <1>1, NotRendered DEF IndInv
<1>3. CutsTyped' /\ TextsTyped' /\ StreamTyped'
  <2>1. heard \in Nat /\ heard' \in Nat /\ heard' >= heard
    BY <1>1 DEF IndInv, AudioTyped, audioVars
  <2> QED  BY <1>1, <2>1, MoreAudio DEF IndInv
<1>4. ModeTyped' /\ Ending'  BY <1>1 DEF IndInv, ModeTyped, Ending, audioVars
<1>5. Pending' /\ Silent'  BY <1>1 DEF IndInv, Pending, Silent, asrVars, mtVars
<1>6. SegmentsCoverAudio' /\ FlushedAtEnd'
  BY <1>1 DEF IndInv, SegmentsCoverAudio, JustCommitted, FlushedAtEnd, Live,
              audioVars, asrVars, mtVars
<1> QED  BY <1>2, <1>3, <1>4, <1>5, <1>6 DEF IndInv

LEMMA NextInv == IndInv /\ [Next]_vars => IndInv'
<1> SUFFICES ASSUME IndInv, [Next]_vars PROVE IndInv'  OBVIOUS
<1>1. ASSUME NEW slots \in 1 .. MaxSend, Receive(slots) PROVE IndInv'  BY <1>1, ReceiveInv
<1>2. CASE EndOfStream  BY <1>2, EndOfStreamInv
<1>3. CASE NoResult  BY <1>3, NoResultInv
<1>4. CASE Hear
  <2>1. MaxWords \in Nat  BY AudioCascadeAssumption
  <2>2. PICK n \in 0 .. MaxWords : \E text \in [1 .. n -> Tokens], k \in AlignedWords(n) :
          \E ends \in Ends(k, LiveAudio) : Transcribe(text, ends) \/ TranscribeFails(text, ends)
    BY <1>4 DEF Hear
  <2>3. PICK text \in [1 .. n -> Tokens], k \in AlignedWords(n) :
          \E ends \in Ends(k, LiveAudio) : Transcribe(text, ends) \/ TranscribeFails(text, ends)
    BY <2>2
  <2>4. PICK ends \in Ends(k, LiveAudio) : Transcribe(text, ends) \/ TranscribeFails(text, ends)
    BY <2>3
  <2>5. n \in Nat /\ k \in Nat  BY <2>1 DEF AlignedWords
  <2> QED  BY <2>4, <2>5, TranscribeInv, TranscribeFailsInv
<1>5. ASSUME NEW more \in Committable, NEW shown \in UpTo(Tokens, 1), DriveStream(more, shown)
      PROVE  IndInv'
  BY <1>5, DriveStreamInv
<1>6. ASSUME NEW more \in Growth(MaxMore), NEW partial \in Growth(MaxMore), Render(more, partial)
      PROVE  IndInv'
  BY <1>6, RenderInv
<1>7. CASE Clear  BY <1>7, ClearInv
<1>8. CASE UNCHANGED vars  BY <1>8, StutterInv
<1> QED  BY <1>1, <1>2, <1>3, <1>4, <1>5, <1>6, <1>7, <1>8 DEF Next

-----------------------------------------------------------------------------
(* The theorems. *)

(* Whatever is said, heard, aligned and translated, in every reachable state. *)
THEOREM Invariance == Spec => []IndInv
BY InitInv, NextInv, PTL DEF Spec

(* CascadeState, _apply_commit: the lists of the session keep their shapes, and each audio
   cut lies behind the one before it and within the audio heard. *)
THEOREM TypeCorrect == Spec => []TypeOK
<1>1. IndInv => TypeOK
  <2>1. ASSUME CutsTyped PROVE \A i, j \in DOMAIN utt_timestamps :
                                 i < j => utt_timestamps[i] < utt_timestamps[j]
    <3>1. DOMAIN utt_timestamps = 1 .. Len(utt_timestamps)  BY <2>1 DEF CutsTyped
    <3>2. Ordered(utt_timestamps)  BY <2>1 DEF CutsTyped
    <3> QED  BY <3>1, <3>2 DEF Ordered
  <2> QED  BY <2>1 DEF IndInv, AudioTyped, ModeTyped, CutsTyped, TextsTyped, Pending, TypeOK
<1> QED  BY <1>1, Invariance, PTL

(* _try_commit_punctuation_lcp, find_end_time, _apply_commit: the audio of every word that
   is committed as text is cut away, and of no other word unless the aligner ended it
   together with a committed one, for any hypotheses and alignments. *)
THEOREM NoWordLost == Spec => []SegmentsCoverAudio
<1>1. IndInv => SegmentsCoverAudio  BY DEF IndInv
<1> QED  BY <1>1, Invariance, PTL

(* end_of_stream, finalize_stream: what the last step heard is in a segment, and every
   segment has a translation. *)
THEOREM AllFlushed == Spec => []FlushedAtEnd
<1>1. IndInv => FlushedAtEnd  BY DEF IndInv
<1> QED  BY <1>1, Invariance, PTL

(* _compute_incremental_output: until a live tail vanishes, the output is the translation,
   under every emission policy. *)
THEOREM NothingHeldBack == Spec => []ShownIsTranslation
<1>1. IndInv => ShownIsTranslation  BY DEF IndInv
<1> QED  BY <1>1, Invariance, PTL

(* source_lcp_stable_prefix_chars, build_source_accessibility_frontier: what was open to
   translation stays open over the words that the next hypothesis of the utterance repeats,
   for every configuration, text and alignment. *)
THEOREM FrontierKept == Spec => OpenWordsStayOpen
<1> DEFINE A == phase = "asr" /\ phase' = "mt" /\ utt_sources' = utt_sources
                  => \A n \in 1 .. Accessible : Repeats(n) => n <= Accessible'
<1>1. ASSUME IndInv, [Next]_vars PROVE [A]_vars
  <2>1. SUFFICES ASSUME Next, phase = "asr", phase' = "mt", utt_sources' = utt_sources,
                        NEW n \in 1 .. Accessible, Repeats(n)
                 PROVE  n <= Accessible'
    BY <1>1
  <2>2. AudioTyped /\ CutsTyped /\ TextsTyped  BY <1>1 DEF IndInv
  <2>3. Accessible \in Int  BY <2>2, OpenHaveEnded
  <2>4. ASSUME NEW text, NEW rest, NEW ends, NEW end, ApplyCommit(text, rest, ends, end)
        PROVE  FALSE
    <3>1. utt_sources' = Append(utt_sources, text)  BY <2>4 DEF ApplyCommit
    <3> QED  BY <2>1, <2>2, <3>1, AppendLonger DEF CutsTyped
  <2>5. CASE NoResult
    <3>1. Accessible' = Accessible
      BY <2>5 DEF NoResult, audioVars, asrVars, Accessible, Live
    <3> QED  BY <2>3, <3>1
  <2>6. CASE Hear
    <3>1. LiveAudio \in Nat /\ MaxWords \in Nat
      BY <2>2, LiveAudioProps, AudioCascadeAssumption DEF AudioTyped
    <3>2. PICK m \in 0 .. MaxWords : \E text \in [1 .. m -> Tokens], k \in AlignedWords(m) :
            \E ends \in Ends(k, LiveAudio) : Transcribe(text, ends) \/ TranscribeFails(text, ends)
      BY <2>6 DEF Hear
    <3>3. PICK text \in [1 .. m -> Tokens], k \in AlignedWords(m) :
            \E ends \in Ends(k, LiveAudio) : Transcribe(text, ends) \/ TranscribeFails(text, ends)
      BY <3>2
    <3>4. PICK ends \in Ends(k, LiveAudio) : Transcribe(text, ends)
      <4>1. \A e : ~TranscribeFails(text, e)  BY <2>1 DEF TranscribeFails
      <4> QED  BY <3>3, <4>1
    <3>5. text \in Seq(Token) /\ ends \in Seq(1 .. LiveAudio)
      <4>1. m \in Nat /\ k \in Nat  BY <3>1 DEF AlignedWords
      <4>2. Tokens \subseteq Token  BY AudioCascadeAssumption
      <4> QED  BY <3>1, <4>1, <4>2, EndsProps
    <3>6. TryCommit(text, ends) /\ heard' = heard /\ cfg' = cfg
      BY <3>4 DEF Transcribe, audioVars
    <3>7. NoCommit(text, ends)  BY <2>4, <3>6 DEF TryCommit
    <3> QED  BY <2>1, <2>2, <3>5, <3>6, <3>7, RepeatedStayOpen
  <2>7. ASSUME NEW more \in Committable, NEW shown \in UpTo(Tokens, 1), DriveStream(more, shown)
        PROVE  n <= Accessible'
    <3>1. word_ends' = <<>>  BY <2>4, <2>7 DEF DriveStream, NoCommit
    <3>2. n <= 0 /\ n \in 1 .. Accessible  BY <2>1, <3>1 DEF Repeats
    <3> QED  BY <2>3, <3>2
  <2>8. CASE \E slots \in 1 .. MaxSend : Receive(slots)  BY <2>1, <2>8 DEF Receive
  <2>9. CASE EndOfStream  BY <2>1, <2>9 DEF EndOfStream
  <2>10. CASE \E more, partial \in Growth(MaxMore) : Render(more, partial)
    BY <2>1, <2>10 DEF Render
  <2>11. CASE Clear  BY <2>1, <2>11 DEF Clear
  <2> QED  BY <2>1, <2>5, <2>6, <2>7, <2>8, <2>9, <2>10, <2>11 DEF Next
<1>2. IndInv /\ [Next]_vars => [A]_vars  BY <1>1
<1>3. Spec => [][A]_vars  BY <1>2, Invariance, PTL DEF Spec
<1> QED  BY <1>3 DEF OpenWordsStayOpen
=============================================================================
