--------------------------- MODULE AlignAttStream ---------------------------
(***************************************************************************)
(* The streaming ASR state of                                              *)
(* src/src/alignatt4llm/alignment/gemma_alignatt_stream.py: one            *)
(* GemmaAlignAttStream, driven chunk by chunk over growing audio.          *)
(*                                                                         *)
(* A committed token is its anchor, end_frame_abs.  Audio is counted in    *)
(* samples.  The ASR backend is external: it generates any number of       *)
(* tokens and its attention argmaxes may be any frames.                    *)
(***************************************************************************)
EXTENDS Integers, Sequences, FiniteSets

CONSTANTS
  SamplesPerFrame,   \* _samples_per_audio_frame
  MaxWindow,         \* _max_window_samples
  FrameThreshold,    \* frame_threshold: the trailing band that is held back
  RewindThreshold,   \* rewind_threshold
  CommitPolicies,    \* the commit policies a stream may be made with
  Budget,            \* prompt tokens that can_fit_step allows audio and prefix
  Chunks,            \* numbers of samples a chunk may bring
  MaxAudio,          \* bound: samples of one stream
  MaxTokens          \* bound: tokens generated in one step

ASSUME AlignAttStreamAssumption ==
  /\ SamplesPerFrame \in Nat \ {0} /\ MaxWindow \in Nat
  /\ FrameThreshold \in Nat /\ RewindThreshold \in Nat
  /\ CommitPolicies \subseteq {"frontier_flush", "rewind_abort"}
  /\ Budget \in Nat /\ Chunks \subseteq Nat /\ MaxAudio \in Nat /\ MaxTokens \in Nat

VARIABLES
  commit_policy,
  audio,      \* len(utterance_audio) at the last step
  committed,  \* committed_tokens, each by its end_frame_abs
  forced,     \* the indices of committed sent as forced prefix at the last step
  fallen,     \* history: the indices that have been outside the window
  ended       \* the final chunk was processed

vars == <<commit_policy, audio, committed, forced, fallen, ended>>

\* Audio frames that have begun.
Frames(a) == (a + SamplesPerFrame - 1) \div SamplesPerFrame

\* The window start, rounded up to a frame so that the window fits the encoder.
WinStart(a) == IF a <= MaxWindow THEN 0 ELSE Frames(a - MaxWindow)

Init ==
  /\ commit_policy \in CommitPolicies
  /\ audio = 0 /\ committed = <<>> /\ forced = {} /\ fallen = {} /\ ended = FALSE

\* Mutant: every committed token is retained.
AllRetained(w) == 1 .. Len(committed)

\* retained: the committed tokens anchored at or after frame w.
InWindow(w) == {i \in 1 .. Len(committed) : committed[i] >= w}

\* Mutant: the frontier of the earlier steps is forgotten.
PrevCommitZero(w) == 0

\* prev_commit_frame_local: the last retained anchor, from the window start.
PrevCommit(w) ==
  IF InWindow(w) = {} THEN 0
  ELSE committed[CHOOSE i \in InWindow(w) : \A j \in InWindow(w) : j <= i] - w

\* Mutant: only the upper end is clipped.
ClipAbove(am, n) == IF am >= n THEN n - 1 ELSE am

\* An argmax clipped into the visible window of n content frames.
Clip(am, n) == IF am < 0 THEN 0 ELSE IF am >= n THEN n - 1 ELSE am

\* Mutant: running_floor is not raised inside the loop.
IsFloored(p, clip, floor) ==
  \A i \in DOMAIN clip : p[i] = IF clip[i] < floor THEN floor ELSE clip[i]

\* The least monotone majorant of clip that starts at floor: the running maximum.
IsMajorant(p, clip, floor) ==
  \A i \in DOMAIN clip :
    /\ p[i] >= floor /\ \A j \in 1 .. i : p[i] >= clip[j]
    /\ p[i] = floor \/ \E j \in 1 .. i : p[i] = clip[j]

\* Mutant: no trailing band is held back.
CommitsToHead(am, content, prev, is_final) ==
  \/ is_final
  \/ /\ am < content
     /\ commit_policy = "rewind_abort" => am >= prev - RewindThreshold

\* The commit walk stops at the first token that enters the held-back band or, under
\* rewind_abort, rewinds too far; the final chunk commits everything.
Commits(am, content, prev, is_final) ==
  \/ is_final
  \/ /\ am < content - FrameThreshold
     /\ commit_policy = "rewind_abort" => am >= prev - RewindThreshold

fits(w) == Frames(audio') - w + Cardinality(InWindow(w)) <= Budget

\* What every step does first: more audio (the final chunk may bring none), and the
\* prefix for its window.
Hear(is_final) ==
  /\ ~ended
  /\ \E chunk \in Chunks \cup (IF is_final THEN {0} ELSE {}) :
       audio + chunk <= MaxAudio /\ audio' = audio + chunk
  /\ audio' > 0
  /\ forced' = InWindow(WinStart(audio'))
  /\ fallen' = fallen \cup {i \in 1 .. Len(committed) : committed[i] < WinStart(audio')}
  /\ ended' = is_final
  /\ UNCHANGED commit_policy

\* The prompt is over budget, or nothing was generated, or the window has no content:
\* the step commits nothing.
StepSkipped ==
  /\ \E is_final \in BOOLEAN : Hear(is_final)
  /\ UNCHANGED committed

Clipped(am, content) == [i \in DOMAIN am |-> Clip(am[i], content)]

\* The walk over tokens with argmaxes am commits the first k of them, along the path p.
CommitWalk(w, content, am, p, k, is_final) ==
  LET prev == PrevCommit(w)
  IN  /\ IF commit_policy = "frontier_flush"
           THEN IsMajorant(p, Clipped(am, content), prev) ELSE p = Clipped(am, content)
      /\ \A i \in 1 .. k : Commits(p[i], content, prev, is_final)
      /\ k < Len(am) => ~Commits(p[k + 1], content, prev, is_final)
      /\ committed' = committed \o [i \in 1 .. k |-> w + p[i]]

\* The model generates n tokens for a window of content frames.
StepCommits ==
  \E is_final \in BOOLEAN :
    /\ Hear(is_final) /\ fits(WinStart(audio'))
    /\ \E content \in 1 .. Frames(audio') - WinStart(audio'), n \in 1 .. MaxTokens :
       \E am \in [1 .. n -> -1 .. content], k \in 0 .. n :
       \E p \in [1 .. n -> {PrevCommit(WinStart(audio'))} \cup -1 .. content - 1] :
         CommitWalk(WinStart(audio'), content, am, p, k, is_final)

\* The session starts a new segment: reset, and the audio counted from there.
Reset ==
  /\ audio > 0
  /\ audio' = 0 /\ committed' = <<>> /\ forced' = {} /\ fallen' = {} /\ ended' = FALSE
  /\ UNCHANGED commit_policy

Next == StepSkipped \/ StepCommits \/ Reset

Spec == Init /\ [][Next]_vars

-----------------------------------------------------------------------------
(* Properties.                                                             *)

\* Every variable keeps its type; forced and fallen are indices of committed tokens.
TypeOK ==
  /\ commit_policy \in CommitPolicies /\ audio \in Nat /\ committed \in Seq(Nat) /\ ended \in BOOLEAN
  /\ forced \subseteq 1 .. Len(committed) /\ fallen \subseteq 1 .. Len(committed)

\* Under frontier_flush the anchors never decrease, however the attention rewinds and
\* the window slides between steps.
SortedAnchors ==
  commit_policy = "frontier_flush" =>
    \A i, j \in 1 .. Len(committed) : i <= j => committed[i] <= committed[j]

\* Under frontier_flush the forced prefix has no hole: the model continues the end of
\* the transcript that was committed when the step began.  The tokens after the prefix
\* are those of the step itself, so a token in it is followed by a token in it.
PrefixWithoutHole ==
  commit_policy = "frontier_flush" =>
    \A i \in forced : \A j \in 1 .. Len(committed) : i <= j => j \notin fallen

\* A token that fell out of the window is never fed to the model again ("are never
\* re-fed to the model"), under either policy.
NeverRefed == forced \cap fallen = {}

\* No token is anchored beyond the audio heard, and before the final chunk none within
\* the held-back band at its end.
AnchorsBehindHead ==
  \A i \in 1 .. Len(committed) :
    /\ committed[i] < Frames(audio)
    /\ ~ended => committed[i] + FrameThreshold < Frames(audio)
=============================================================================
