---------------------------- MODULE AudioCascade ----------------------------
(***************************************************************************)
(* The audio cascade, from the samples a client sends to the text it gets: *)
(* CascadeSession of src/src/alignatt4llm/runtime.py (ASR hypotheses,      *)
(* commits, translation segments), the chunk buffer of                     *)
(* src/src/alignatt4llm/incremental_output.py, the emission policy of      *)
(* emission.py and the append-only gate of simulstream_processor.py.       *)
(*                                                                         *)
(* Audio is counted in slots.  The ASR is external: it may write anything  *)
(* for the tail it is given; the forced aligner gives each word an end     *)
(* within that tail, never before the word's before it.  The MT is         *)
(* external too: it appends                                                *)
(* any target words to its prefill (TextSession and AcceptancePolicy model *)
(* what it accepts).                                                       *)
(***************************************************************************)
EXTENDS SourceFrontier, SequencesExt

CONSTANTS
  Configs,    \* the configurations a session may run with
  Tokens,     \* the tokens the ASR may write
  Targets,    \* target words, each a public emission unit
  MaxAudio,   \* bound: slots of one speech
  MaxSend,    \* bound: slots a client sends at once
  MaxWords,   \* bound: words the ASR writes for one tail, and commits to the stream at once
  MaxMore,    \* bound: target words the MT appends in one call
  MaxEmitted  \* bound: target words at which partials stop growing

Backends == {"qwen_forced", "gemma_vllm_qk_fast"}
EmitPolicies == {"raw_passthrough", "freeze_major_tail_rewrites", "freeze_nonexpanding_major_rewrites"}

Config ==
  [alignment_backend_name : Backends, chunk : Nat, min_start : Nat, min_commit_words : Nat,
   inaccessible : Nat, source_lcp_stability : BOOLEAN, append_slack : Nat,
   emit_policy : EmitPolicies, max_tail_rewrite_words : Int]

ASSUME AudioCascadeAssumption ==
  /\ Configs \subseteq Config /\ Tokens \subseteq Token
  /\ MaxAudio \in Nat /\ MaxSend \in Nat /\ MaxWords \in Nat /\ MaxMore \in Nat /\ MaxEmitted \in Nat

VARIABLES
  cfg,
  buffered,        \* MessageProcessor.client_buffer
  heard,           \* len(CascadeState.source)
  phase,           \* what the session does next
  eos,             \* MessageProcessor.end_of_stream runs
  final,           \* finalize_stream runs
  utt_timestamps, utt_sources,
  asr_hypotheses,  \* the last two, as far as they are one utterance's
  word_ends,       \* partial_word_timestamps_ms: the ends of the words
  stream,          \* committed tokens of the Gemma stream, each with its end
  accepted,        \* partial_translation.accepted_target
  translated,      \* the texts of utt_translations
  emitted,         \* _emitted_units
  spoken,          \* history: the ASR result of this step
  dropped          \* history: a shown partial was reset without a final

audioVars == <<cfg, buffered, heard, eos>>
asrVars == <<utt_timestamps, utt_sources, asr_hypotheses, word_ends, stream>>
mtVars == <<accepted, translated, emitted, dropped>>
vars == <<audioVars, phase, final, asrVars, mtVars, spoken>>

UpTo(S, n) == UNION {[1 .. k -> S] : k \in 0 .. n}

\* The ends of n words, in order, within m slots; two words may end in one slot.
Ends(n, m) == {e \in [1 .. n -> 1 .. m] : \A i, j \in 1 .. n : i < j => e[i] <= e[j]}

Silence == [text |-> <<>>, ends |-> <<>>, from |-> 0, segments |-> 1, usable |-> FALSE]

\* CascadeState(), and the processor's own fields.
Init ==
  /\ cfg \in Configs
  /\ buffered = 0 /\ heard = 0 /\ phase = "idle" /\ eos = FALSE /\ final = FALSE
  /\ utt_timestamps = <<0>> /\ utt_sources = <<<<>>>>
  /\ asr_hypotheses = <<<<>>>> /\ word_ends = <<>> /\ stream = <<>>
  /\ accepted = <<>> /\ translated = <<<<>>>> /\ emitted = <<>>
  /\ spoken = Silence /\ dropped = FALSE

-----------------------------------------------------------------------------
(* MessageProcessor: process_speech and end_of_stream.                     *)

\* process_audio_chunk appends the buffer and does no more before min_start_seconds.
Feed(slots) ==
  /\ buffered' = 0 /\ heard' = heard + slots

\* process_speech: audio is held back until it fills a chunk.
Receive(slots) ==
  /\ phase = "idle" /\ heard + buffered + slots <= MaxAudio
  /\ IF buffered + slots < cfg.chunk
       THEN buffered' = buffered + slots /\ UNCHANGED <<heard, phase>>
       ELSE /\ Feed(buffered + slots)
            /\ phase' = IF heard' < cfg.min_start THEN "idle" ELSE "asr"
  /\ UNCHANGED <<cfg, eos, final, asrVars, mtVars, spoken>>

\* The rest of the buffer is processed like a chunk, before finalize_stream.
FlushBuffer ==
  /\ Feed(buffered)
  /\ final' = (buffered = 0 \/ heard' < cfg.min_start)

EndOfStream ==
  /\ phase = "idle" /\ eos' = TRUE /\ phase' = "asr"
  /\ FlushBuffer
  /\ UNCHANGED <<cfg, asrVars, mtVars, spoken>>

\* The chunk is done: the client is listened to, or end_of_stream goes on.
StepDone ==
  /\ phase' = IF final THEN "ended" ELSE IF eos THEN "asr" ELSE "idle"
  /\ final' = eos
  /\ spoken' = Silence

\* The ASR wrote nothing to show: process_audio_chunk returns None.  finalize_stream
\* renders all the same.
NothingToRender ==
  IF final THEN phase' = "mt" /\ UNCHANGED final
  ELSE phase' = (IF eos THEN "asr" ELSE "idle") /\ final' = eos

-----------------------------------------------------------------------------
(* CascadeSession.transcribe_audio.                                        *)

LiveAudio == heard - Last(utt_timestamps)

\* The last two hypotheses are the only ones ever read.
Hypotheses(text) == <<Last(asr_hypotheses), text>>

\* The timestamps of the last n words.
LastEnds(ends, n) == IF n <= Len(ends) THEN SubSeq(ends, Len(ends) - n + 1, Len(ends)) ELSE ends

\* _apply_commit, for an end counted from the start of the tail.
ApplyCommit(text, rest, ends, end) ==
  /\ LET to == Last(utt_timestamps) + end
     IN  utt_timestamps' = Append(utt_timestamps, IF to <= heard THEN to ELSE heard)
  /\ utt_sources' = Append(utt_sources, text)
  /\ asr_hypotheses' = <<rest>>
  /\ word_ends' = LastEnds(ends, Len(rest))
  /\ stream' = <<>>

\* The hypothesis is only remembered.
NoCommit(text, ends) ==
  /\ asr_hypotheses' = Hypotheses(text) /\ word_ends' = ends
  /\ UNCHANGED <<utt_timestamps, utt_sources>>

\* find_end_time: the last word before the remainder; 0 stands for an IndexError.
EndWord(ends, rest) == Len(ends) - Len(rest)

\* Mutant: the final flush waits for punctuation too.
FinalAsOthers == FALSE

\* is_final_chunk commits the whole hypothesis.
CommitsAll == final

\* What _try_commit_punctuation_lcp makes of a hypothesis and its aligned words.
TryCommit(text, ends) ==
  LET b == Boundary(Last(asr_hypotheses), text)
      rest == Remainder(text, b)
  IN  CASE CommitsAll /\ (text = <<>> \/ ends = <<>>) -> NoCommit(text, ends)
        [] CommitsAll /\ text # <<>> /\ ends # <<>> ->
             ApplyCommit(text, <<>>, ends, Last(ends))
        [] ~CommitsAll /\ (b = 0 \/ b < cfg.min_commit_words \/ Len(ends) # Len(text)) ->
             NoCommit(text, ends)
        [] OTHER ->
             ApplyCommit(Committed(text, b), rest, ends, ends[EndWord(ends, rest)])

\* The mark of the first word is the point of a number: there is no word before it.
IndexError(text, ends) ==
  LET b == Boundary(Last(asr_hypotheses), text)
  IN  /\ ~final /\ b > 0 /\ b >= cfg.min_commit_words /\ Len(ends) = Len(text)
      /\ EndWord(ends, Remainder(text, b)) = 0

\* Mutant: only a live tail counts as a text.
RenderedLiveOnly ==
  IF final \/ LiveTail(Last(asr_hypotheses')) # <<>>
    THEN phase' = "mt" /\ UNCHANGED final
    ELSE NothingToRender

\* transcribe_audio returned a text: a segment or the live tail.
Rendered ==
  IF final \/ Len(utt_sources') > 1 \/ LiveTail(Last(asr_hypotheses')) # <<>>
    THEN phase' = "mt" /\ UNCHANGED final
    ELSE NothingToRender

Heard(text, ends, usable) ==
  spoken' = [text |-> text, ends |-> ends, from |-> Last(utt_timestamps),
             segments |-> Len(utt_sources), usable |-> usable]

\* The backend gives no result: the aligner ended beyond the audio.
NoResult ==
  /\ phase = "asr" /\ cfg.alignment_backend_name = "qwen_forced"
  /\ NothingToRender
  /\ UNCHANGED <<audioVars, asrVars, mtVars, spoken>>

\* _transcribe_non_streaming.  The aligner may find fewer words than the text has.
Transcribe(text, ends) ==
  /\ phase = "asr" /\ cfg.alignment_backend_name = "qwen_forced"
  /\ ~IndexError(text, ends)
  /\ TryCommit(text, ends) /\ stream' = stream
  /\ Heard(text, ends, ends # <<>>)
  /\ Rendered
  /\ UNCHANGED <<audioVars, mtVars>>

\* The exception leaves process_speech; no chunk follows.
TranscribeFails(text, ends) ==
  /\ phase = "asr" /\ cfg.alignment_backend_name = "qwen_forced"
  /\ IndexError(text, ends)
  /\ NoCommit(text, ends) /\ phase' = "failed"
  /\ UNCHANGED <<audioVars, final, stream, mtVars, spoken>>

Texts(tokens) == [i \in DOMAIN tokens |-> tokens[i].token]

\* _drive_alignatt_stream and _emit_alignatt_segment: the stream commits more tokens
\* (AlignAttStream models which) and shows an uncommitted rest.  A segment is closed
\* when the last committed token ends a sentence, or at the end; words beyond it are
\* left to the next window.
DriveStream(more, shown) ==
  LET tokens == stream \o more
      text == Texts(tokens)
      closes == text # <<>> /\ (final \/ Last(text).mark = "stop")
  IN  /\ phase = "asr" /\ cfg.alignment_backend_name = "gemma_vllm_qk_fast"
      /\ IF closes THEN ApplyCommit(text, <<>>, <<>>, Last(tokens).end)
         ELSE NoCommit(text \o shown, <<>>) /\ stream' = tokens
      /\ Heard(text, [i \in DOMAIN tokens |-> tokens[i].end], TRUE)
      /\ Rendered
      /\ UNCHANGED <<audioVars, mtVars>>

-----------------------------------------------------------------------------
(* TranslationUnitManager.render_translation and the processor's output.   *)

Live == LiveTail(Last(asr_hypotheses))

\* build_source_frontier: the words of the live tail open to translation.  The missing
\* timestamps are padded with None, which ends the count.
Accessible ==
  LET until == IF heard >= cfg.inaccessible THEN heard - cfg.inaccessible ELSE 0
      ended == Ended(Len(Live), word_ends, until)
      cap == IF Len(asr_hypotheses) < 2 THEN 0
             ELSE StableCap(LiveTail(asr_hypotheses[1]), Live, cfg.append_slack)
  IN  IF cfg.source_lcp_stability /\ cap < ended THEN cap ELSE ended

\* Mutant: a final does not continue the partial.
PrefillNone == <<>>

\* assistant_prefill of the last segment.
Prefill == accepted

\* sync_committed_translations resets the partial that a final has continued.
FreshTarget == IF Len(utt_sources) > Len(translated) THEN <<>> ELSE accepted

\* What the session shows.
Raw == FlattenSeq(translated) \o accepted

\* major_rewrite_exceeds_tail_window.
MajorRewrite(previous, raw) ==
  Common(previous, raw) < Len(previous) - cfg.max_tail_rewrite_words

\* apply_emission_policy.
Emission(previous, raw) ==
  IF /\ ~final /\ previous # <<>> /\ raw # <<>>
     /\ cfg.emit_policy # "raw_passthrough" /\ cfg.max_tail_rewrite_words >= 0
     /\ MajorRewrite(previous, raw)
     /\ cfg.emit_policy = "freeze_nonexpanding_major_rewrites" => Len(raw) <= Len(previous)
    THEN previous ELSE raw

\* _compute_incremental_output: only a text that extends what was emitted passes.
Gate(candidate) == IF IsPrefix(emitted, candidate) THEN candidate ELSE emitted

\* The one pending segment becomes a final that continues the partial; then the live
\* tail is translated, or the partial is reset when there is none.  "more" is what the
\* MT appends to each.
Render(more, partial) ==
  /\ phase = "mt"
  /\ translated' = IF Len(utt_sources) > Len(translated)
                     THEN Append(translated, Prefill \o more) ELSE translated
  /\ IF Live = <<>> THEN accepted' = <<>> ELSE accepted' = FreshTarget \o partial
  /\ dropped' = (dropped \/ (Live = <<>> /\ FreshTarget # <<>>))
  /\ emitted' = Gate(Emission(emitted, Raw'))
  /\ StepDone
  /\ UNCHANGED <<audioVars, asrVars>>

\* clear() for the next speech.
Clear ==
  /\ phase \in {"ended", "failed"}
  /\ buffered' = 0 /\ heard' = 0 /\ phase' = "idle" /\ eos' = FALSE /\ final' = FALSE
  /\ utt_timestamps' = <<0>> /\ utt_sources' = <<<<>>>>
  /\ asr_hypotheses' = <<<<>>>> /\ word_ends' = <<>> /\ stream' = <<>>
  /\ accepted' = <<>> /\ translated' = <<<<>>>> /\ emitted' = <<>>
  /\ spoken' = Silence /\ dropped' = FALSE /\ UNCHANGED cfg

\* The tokens a stream may commit next, within the audio it has.
Committable ==
  LET first == IF stream = <<>> THEN 1 ELSE Last(stream).end
  IN  UNION {{[i \in 1 .. k |-> [token |-> t[i], end |-> first - 1 + e[i]]] :
                t \in [1 .. k -> Tokens], e \in Ends(k, LiveAudio - first + 1)} : k \in 0 .. MaxWords}

Growth(n) == IF Len(emitted) + n <= MaxEmitted THEN UpTo(Targets, n) ELSE {<<>>}

\* Every word found, or one missed.
AlignedWords(n) == {n, n - 1} \ {-1}

Hear ==
  \E n \in 0 .. MaxWords : \E text \in [1 .. n -> Tokens], k \in AlignedWords(n) :
    \E ends \in Ends(k, LiveAudio) : Transcribe(text, ends) \/ TranscribeFails(text, ends)

Next ==
  \/ \E slots \in 1 .. MaxSend : Receive(slots)
  \/ EndOfStream
  \/ NoResult
  \/ Hear
  \/ \E more \in Committable, shown \in UpTo(Tokens, 1) : DriveStream(more, shown)
  \/ \E more, partial \in Growth(MaxMore) : Render(more, partial)
  \/ Clear

Spec == Init /\ [][Next]_vars

-----------------------------------------------------------------------------
(* Properties.                                                             *)

\* The lists of the session have their shapes, and the audio cuts stay in order within
\* the audio heard (CascadeState, _apply_commit).
TypeOK ==
  /\ cfg \in Configs /\ buffered \in Nat /\ heard \in Nat /\ buffered + heard <= MaxAudio
  /\ phase \in {"idle", "asr", "mt", "ended", "failed"} /\ eos \in BOOLEAN /\ final \in BOOLEAN
  /\ utt_timestamps \in Seq(0 .. heard) /\ Len(utt_timestamps) = Len(utt_sources)
  /\ \A i, j \in DOMAIN utt_timestamps : i < j => utt_timestamps[i] < utt_timestamps[j]
  /\ utt_sources \in Seq(Seq(Token)) /\ asr_hypotheses \in Seq(Seq(Token))
  /\ Len(asr_hypotheses) \in 1 .. 2 /\ word_ends \in Seq(1 .. heard)
  /\ Len(translated) \in {Len(utt_sources), Len(utt_sources) - 1}

\* The step in progress has closed a segment whose words all have a timestamp.
JustCommitted ==
  /\ phase = "mt" /\ spoken.usable /\ Len(utt_sources) > spoken.segments
  /\ Len(spoken.ends) = Len(spoken.text)

\* A segment's text and its audio agree: the audio of the words committed as text is cut
\* away, and of the others only what the aligner ended together with the last of them,
\* so no word is lost and none is transcribed again; only a number that another
\* hypothesis ended a sentence with is committed up to its point and heard again
\* (_try_commit_punctuation_lcp, find_end_time, _apply_commit).
SegmentsCoverAudio ==
  JustCommitted =>
    LET n == Len(Last(utt_sources))
        split == Last(utt_sources)[n] # spoken.text[n]
        last == IF split THEN n - 1 ELSE n
        cut == {i \in DOMAIN spoken.ends : spoken.from + spoken.ends[i] <= Last(utt_timestamps)}
    IN  /\ 1 .. last \subseteq cut
        /\ \A i \in cut : \E j \in 1 .. last : spoken.ends[i] = spoken.ends[j]

\* Once the stream has ended with a usable ASR result, every word of it is in a
\* segment, nothing is left live and every segment has a translation
\* (MessageProcessor.end_of_stream, finalize_stream).
FlushedAtEnd ==
  /\ phase = "mt" /\ final /\ spoken.usable /\ spoken.text # <<>> =>
       /\ Last(utt_sources) = spoken.text /\ Len(utt_sources) = spoken.segments + 1
       /\ Live = <<>> /\ buffered = 0
  /\ phase = "ended" => Len(translated) = Len(utt_sources) /\ buffered = 0

\* The append-only gate never refuses a translation: what was emitted is exactly what
\* the session shows, unless a live tail vanished with its partial
\* (sync_committed_translations, apply_emission_policy, _compute_incremental_output).
ShownIsTranslation == ~dropped => emitted = Raw

\* The ASR repeats the first n words it wrote last, the mark of the last one aside, and
\* the aligner ends none of them later.
Repeats(n) ==
  /\ n <= Len(Live) /\ n <= Len(Live') /\ n <= Len(word_ends')
  /\ SubSeq(Live', 1, n - 1) = SubSeq(Live, 1, n - 1) /\ Within(Live'[n], Live[n])
  /\ \A i \in 1 .. n : word_ends'[i] <= word_ends[i]

\* Within one utterance the frontier does not go back over words that the ASR repeats:
\* what was open to translation is still open after the next hypothesis, though the one
\* that had confirmed it is forgotten and others come and go behind it
\* (source_lcp_stable_prefix_chars, build_source_accessibility_frontier).
OpenWordsStayOpen ==
  [][phase = "asr" /\ phase' = "mt" /\ utt_sources' = utt_sources
       => \A n \in 1 .. Accessible : Repeats(n) => n <= Accessible']_vars
=============================================================================
