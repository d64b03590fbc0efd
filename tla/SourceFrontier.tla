--------------------------- MODULE SourceFrontier ---------------------------
(***************************************************************************)
(* Source texts of the audio cascade: where two ASR hypotheses agree up to *)
(* the end of a sentence (src/src/alignatt4llm/runtime.py), and how many   *)
(* words are open to translation (src/src/alignatt4llm/source_frontier.py  *)
(* and the caps of TranslationUnitManager).                                *)
(*                                                                         *)
(* A text is the sequence of its lexical words.  A word is followed by     *)
(* nothing, by a sentence-final mark, or it is a number with a fraction,   *)
(* as in "3.5": a mark that no space follows.  The code compares texts     *)
(* character by character; Grows says which words begin other words.       *)
(***************************************************************************)
EXTENDS Integers, Sequences, FiniteSets, FiniteSetsExt

CONSTANTS
  Words,     \* words, a number by the part before its fraction
  Grows,     \* pairs of words: the first is a proper prefix of the second
  Fraction   \* what is left of a number cut after its point

Marks == {"bare", "stop", "number"}

Token == [word : Words \cup {Fraction}, mark : Marks]

ASSUME SourceFrontierAssumption == Grows \subseteq Words \X Words

Shorter(s, t) == IF Len(s) <= Len(t) THEN Len(s) ELSE Len(t)

\* The tokens that two texts begin with.
Common(s, t) == Max({k \in 0 .. Shorter(s, t) : SubSeq(s, 1, k) = SubSeq(t, 1, k)})

-----------------------------------------------------------------------------
(* CascadeSession._try_commit_punctuation_lcp: the boundary.               *)

\* longest_common_prefix ends in the mark of the token after the common ones: a
\* sentence end in one hypothesis and the point of a number in the other.
EndsInNumber(previous, current) ==
  LET k == Common(previous, current) + 1
  IN  /\ k <= Shorter(previous, current)
      /\ previous[k].word = current[k].word
      /\ previous[k].mark # "bare" /\ current[k].mark # "bare"

\* The sentence ends of the common prefix that a space follows.
Spaced(previous, current) ==
  {i \in 1 .. Common(previous, current) :
     current[i].mark = "stop" /\ i < Shorter(previous, current)}

\* The sentence end that the common prefix ends with, 0 if it does not.
Terminal(previous, current) ==
  LET k == Common(previous, current)
  IN  CASE EndsInNumber(previous, current)                             -> k + 1
        [] k > 0 /\ current[k].mark = "stop" /\ k = Shorter(previous, current) -> k
        [] OTHER                                                       -> 0

\* n_utterances and rightest_punct_idx: the token of the current hypothesis that the
\* committed text ends in, 0 if there is none.  A spaced mark wins over a final one.
Boundary(previous, current) ==
  IF Spaced(previous, current) # {} THEN Max(Spaced(previous, current))
  ELSE Terminal(previous, current)

\* The text up to the boundary, cut right after the mark.
Committed(current, b) == SubSeq(current, 1, b - 1) \o <<[current[b] EXCEPT !.mark = "stop"]>>

\* Mutant: the fraction of a cut number is forgotten.
RemainderWhole(current, b) == SubSeq(current, b + 1, Len(current))

\* remainder_text: the rest of a number that is cut at its point is a word of its own.
Remainder(current, b) ==
  (IF current[b].mark = "number" THEN <<[word |-> Fraction, mark |-> "bare"]>> ELSE <<>>)
    \o SubSeq(current, b + 1, Len(current))

\* normalize_partial_asr_hypothesis: without its trailing sentence end.
LiveTail(text) ==
  [i \in 1 .. Len(text) |->
     IF i = Len(text) /\ text[i].mark = "stop" THEN [text[i] EXCEPT !.mark = "bare"] ELSE text[i]]

-----------------------------------------------------------------------------
(* TranslationUnitManager.source_lcp_stable_prefix_chars and               *)
(* build_source_accessibility_frontier.                                    *)

\* Token t ends, its mark left aside, within what s is written with.
Within(t, s) ==
  \/ t.word = s.word /\ (t.mark = "number" => s.mark = "number")
  \/ t.mark # "number" /\ <<t.word, s.word>> \in Grows

\* Mutant: a word that ends where the common prefix does not count.
StableShort(previous, current) ==
  LET k == Common(previous, current)
  IN  IF k < Shorter(previous, current) \/ k = 0 THEN k ELSE k - 1

\* The words of the current text that end within the common prefix of both.
Stable(previous, current) ==
  LET k == Common(previous, current) + 1
  IN  IF k <= Shorter(previous, current) /\ Within(current[k], previous[k]) THEN k ELSE k - 1

\* With source_lcp_prefix_chars_with_append_slack: a text that only appends words to
\* the previous one opens slack words more.
StableCap(previous, current, slack) ==
  IF previous = <<>> \/ current = <<>> THEN 0
  ELSE Stable(previous, current)
         + (IF Common(previous, current) = Len(previous)
              THEN slack ELSE 0)

\* The words that have ended, by their timestamps, before "until".
Ended(n, ends, until) ==
  Max({k \in 0 .. n : k <= Len(ends) /\ \A i \in 1 .. k : ends[i] <= until})
=============================================================================
