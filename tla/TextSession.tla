---------------------------- MODULE TextSession ----------------------------
(***************************************************************************)
(* One text-in translation session: MTServerConnection.process_update_sync *)
(* and the wire guard of src/src/alignatt4llm/mt_server.py, over the       *)
(* TranslationUnitManager of src/src/alignatt4llm/runtime.py.              *)
(*                                                                         *)
(* A source text is the sequence of its lexical words, the committed ones  *)
(* first; a target text is the sequence of its tokens.  The MT engine is   *)
(* external: it may draft anything, align each token with any source word  *)
(* or none, and its AlignAtt policy may accept any prefix of the draft.    *)
(***************************************************************************)
EXTENDS Integers, Sequences, SequencesExt, FiniteSetsExt

CONSTANTS
  Words,      \* source words
  Tokens,     \* target tokens
  Seeds,      \* accepted_target_prefix values a client may reconnect with
  NoUnit,     \* a token aligned with no source word
  Unread,     \* a token past the end of the alignment: its row was not captured
  Brief,      \* target texts too short to be taken for a repetition of the prefill
  Sources,    \* bound: the source texts of an utterance
  MaxDraft,   \* bound: tokens the engine generates in one call
  MaxTarget,  \* bound: tokens of the accepted target at which partials stop
  MaxUtts,    \* bound: source segments of the session
  MaxFaults   \* bound: failing MT calls

ASSUME TextSessionAssumption ==
  /\ Sources \subseteq Seq(Words) /\ <<>> \in Sources
  /\ MaxDraft \in Nat /\ MaxTarget \in Nat /\ MaxUtts \in Nat /\ MaxFaults \in Nat
  /\ \A s \in Seeds : s \in Seq(Tokens)
  /\ NoUnit \notin Nat /\ Unread \notin Nat

VARIABLES
  words,             \* the committed words of the last update
  heard,             \* the source text and frontier of the last update
  partial,           \* CascadeState.partial_translation
  pending,           \* the utt_sources that have no entry in utt_translations yet
  translated,        \* the number of utt_translations
  outputs,           \* SessionOutputs, and what the last response said
  seed,              \* history: the prefix the open utterance was resumed from
  intact,            \* history: no failure and no empty source in this utterance
  faults             \* failing MT calls so far

vars == <<words, heard, partial, pending, translated, outputs, seed, intact, faults>>

Texts(S, n) == UNION {[1 .. k -> S] : k \in 0 .. n}

\* PartialTranslationState.  "draft" is draft_generated_token_ids, each with its
\* entry of aligned_source_unit_indices when has_units; has_ids tells whether
\* accepted_token_ids is the encoding of accepted_target or still empty.  "aligned"
\* is history: the word each token of the accepted target was aligned with.
NewPartial ==
  [source_prefix |-> <<>>, accepted_target |-> <<>>, has_ids |-> FALSE,
   accepted_generated |-> <<>>, draft |-> <<>>, has_units |-> FALSE,
   accessible |-> 0, aligned |-> <<>>]

NothingHeard == [source |-> <<>>, accessible |-> 0]

Init ==
  /\ words = <<>> /\ heard = NothingHeard
  /\ pending = <<>> /\ translated = 0
  /\ seed \in Seeds
  /\ partial = [NewPartial EXCEPT !.accepted_target = seed,
                                  !.aligned = [i \in 1 .. Len(seed) |-> NoUnit]]
  /\ outputs = [utterance_id |-> 0, emitted_partial |-> seed, final_text |-> <<>>, ok |-> TRUE]
  /\ intact = TRUE /\ faults = 0

-----------------------------------------------------------------------------
(* The MT engine, external.                                                *)

Ids(draft) == [i \in 1 .. Len(draft) |-> draft[i].tok]

\* What it may generate for a source of n words, each token aligned with a word; the
\* last ones may have no entry in the alignment.
Drafts(n) ==
  {d \in Texts([tok : Tokens, unit : {NoUnit, Unread} \cup 0 .. n - 1], MaxDraft) :
     \A i \in 1 .. Len(d) - 1 : d[i].unit = Unread => d[i + 1].unit = Unread}

\* strip_repeated_accepted_prefix: the length of the longest prefix of ids that repeats
\* the end of the prefill, if it has enough content.
Repeated(prefill, ids) ==
  Max({0} \cup {k \in 1 .. Len(ids) : /\ IsSuffix(SubSeq(ids, 1, k), prefill)
                                     /\ SubSeq(ids, 1, k) \notin Brief})

\* decode_candidate_text: the prefill, then the continuation without the part that
\* repeats it.
decode_candidate_text(prefill, ids) ==
  prefill \o SubSeq(ids, Repeated(prefill, ids) + 1, Len(ids))

-----------------------------------------------------------------------------
(* TranslationUnitManager.sync_committed_translations.                     *)

\* Mutant: a final is translated afresh, without the partial prefill.
TranslationsAfresh(segments, conts) ==
  [i \in 1 .. Len(conts) |->
     IF segments[i] = <<>> THEN <<>> ELSE decode_candidate_text(<<>>, conts[i])]

\* The translations of the first pending segments, conts being what the engine
\* generated for them.  The last segment of all continues the accepted target, and
\* an empty one is translated by it.
Translations(segments, conts) ==
  [i \in 1 .. Len(conts) |->
     LET prefill == IF i = Len(segments) THEN partial.accepted_target ELSE <<>>
     IN  IF segments[i] = <<>> THEN prefill ELSE decode_candidate_text(prefill, conts[i])]

\* Mutant: the live partial survives the final that continued it.
AfterSyncKeeps(segments, n) == partial

\* The live partial is reset once the last segment has continued it.
AfterSync(segments, n) ==
  IF n > 0 /\ n = Len(segments) /\ partial.accepted_target # <<>> THEN NewPartial ELSE partial

Continuations(n) == [1 .. n -> Texts(Tokens, MaxDraft)]

-----------------------------------------------------------------------------
(* TranslationUnitManager.render_translation, on a PartialTranslationState p. *)

\* Mutant: an advance of the frontier alone does not run an update.
should_run_on_source_only(p, source, accessible) ==
  IF p.source_prefix = <<>> THEN "initial_partial"
  ELSE IF ~IsPrefix(p.source_prefix, source) THEN "source_rebased"
  ELSE IF source = p.source_prefix THEN "source_prefix_unchanged"
  ELSE "source_prefix_extended"

\* should_run_partial_mt_update, for a source that is not empty.
should_run_partial_mt_update(p, source, accessible) ==
  IF p.source_prefix = <<>> THEN "initial_partial"
  ELSE IF ~IsPrefix(p.source_prefix, source) THEN "source_rebased"
  ELSE IF accessible > p.accessible THEN "accessible_frontier_advanced"
  ELSE IF source = p.source_prefix THEN "source_prefix_unchanged"
  ELSE "source_prefix_extended"

\* An entry of the alignment that is not beyond the frontier.
Released(t, accessible) == t.unit = NoUnit \/ (t.unit # Unread /\ t.unit < accessible)

\* Mutant: a cut need not extend the accepted target.
FastPathCutsAnywhere(p, source, accessible) ==
  {k \in 1 .. Len(p.draft) :
     /\ p.source_prefix = source /\ p.has_units
     /\ \A i \in 1 .. k : Released(p.draft[i], accessible)}

\* The cuts of the cached draft that fast_forward_acceptance may take: before the
\* first token aligned beyond the frontier, and extending the accepted target.
FastPathCuts(p, source, accessible) ==
  {k \in 1 .. Len(p.draft) :
     /\ p.source_prefix = source /\ p.has_units
     /\ \A i \in 1 .. k : Released(p.draft[i], accessible)
     /\ IsPrefix(p.accepted_target, SubSeq(Ids(p.draft), 1, k))}

\* It takes the longest cut that does not split a public emission unit, and gives up
\* when that releases nothing.  Units are not modelled: any cut but that of the whole
\* draft may split one.
FastPathReleases(p, source, accessible) ==
  LET cuts == IF should_run_partial_mt_update(p, source, accessible)
                   = "accessible_frontier_advanced"
                THEN FastPathCuts(p, source, accessible) ELSE {}
  IN  {k \in cuts : k > Len(p.accepted_target) /\ (Len(p.draft) \in cuts => k = Len(p.draft))}

\* The fast path is sure to release something.
FastPathCertain(p, source, accessible) ==
  Len(p.draft) \in FastPathReleases(p, source, accessible)

fast_forward_acceptance(p, accessible, cut) ==
  [p EXCEPT !.accepted_target = SubSeq(Ids(p.draft), 1, cut),
            !.has_ids = TRUE,
            !.accepted_generated = SubSeq(Ids(p.draft), 1, cut),
            !.accessible = accessible,
            !.aligned = [i \in 1 .. cut |-> p.draft[i].unit]]

\* derive_monotone_partial_acceptance keeps the accepted target when the result
\* accepts nothing, or when its token ids do not extend the previous ones; these may
\* differ for a text that does extend, since encoding is not prefix-preserving.
KeepsPrevious(p, candidate, retokenized) ==
  \/ candidate = <<>>
  \/ /\ p.source_prefix # <<>> /\ p.has_ids /\ p.accepted_target # <<>>
     /\ retokenized \/ ~IsPrefix(p.accepted_target, candidate)

\* Mutant: the draft is cached without the units its tokens are aligned with.
update_without_units(p, source, accessible, draft, k, mapped, retokenized) ==
  [p EXCEPT !.source_prefix = source, !.draft = Ids(draft), !.accessible = accessible]

\* update_partial_state, after a draft of which the policy accepts k tokens.  Without
\* a source map (mapped = FALSE) the result has no alignment and accepts nothing.
update_partial_state(p, source, accessible, draft, k, mapped, retokenized) ==
  LET candidate == IF mapped THEN decode_candidate_text(p.accepted_target, SubSeq(Ids(draft), 1, k))
                             ELSE <<>>
      keep  == KeepsPrevious(p, candidate, retokenized)
      added == SubSeq(draft, k - (Len(candidate) - Len(p.accepted_target)) + 1, k)
  IN  [source_prefix |-> source,
       accepted_target |-> IF keep THEN p.accepted_target ELSE candidate,
       has_ids |-> ~keep \/ p.has_ids,
       accepted_generated |-> IF keep THEN p.accepted_generated ELSE SubSeq(Ids(draft), 1, k),
       draft |-> draft, has_units |-> mapped,
       accessible |-> accessible,
       aligned |-> IF keep THEN p.aligned
                   ELSE p.aligned \o [i \in 1 .. Len(added) |-> added[i].unit]]

-----------------------------------------------------------------------------
(* MTServerConnection.process_update_sync.                                 *)

\* append_only_advance: a candidate that does not extend what was emitted is held.
append_only_advance(emitted, candidate) ==
  IF IsPrefix(emitted, candidate) THEN candidate ELSE emitted

\* What an update brings: the whole open utterance, whose committed words only grow,
\* with any tail, and a frontier at any of its committed words.
Ingest(source, n, accessible) ==
  /\ IsPrefix(words, source) /\ n \in Len(words) .. Len(source) /\ accessible \in 0 .. n
  /\ words' = SubSeq(source, 1, n)
  /\ heard' = [source |-> source, accessible |-> accessible]

\* The segments left by a failed final are synced first, then the partial is p.
Synced == AfterSync(pending, Len(pending))

Render(p) ==
  /\ pending' = <<>> /\ translated' = translated + Len(pending)
  /\ partial' = p
  /\ outputs' = [outputs EXCEPT !.emitted_partial = append_only_advance(@, p.accepted_target),
                                !.final_text = <<>>, !.ok = TRUE]
  /\ UNCHANGED <<seed, faults>>

\* An update without words resets the partial state.
PartialEmpty ==
  /\ Ingest(<<>>, 0, 0)
  /\ Render(NewPartial)
  /\ intact' = (intact /\ Synced.accepted_target = <<>>)

PartialSkipped ==
  \E source \in Sources \ {<<>>} : \E n, accessible \in 0 .. Len(source) :
    /\ Ingest(source, n, accessible)
    /\ should_run_partial_mt_update(Synced, source, accessible) = "source_prefix_unchanged"
    /\ Render(Synced)
    /\ UNCHANGED intact

PartialFastPath ==
  \E source \in Sources \ {<<>>} : \E n, accessible \in 0 .. Len(source) :
    /\ Ingest(source, n, accessible)
    /\ \E cut \in FastPathReleases(Synced, source, accessible) :
         Render(fast_forward_acceptance(Synced, accessible, cut))
    /\ UNCHANGED intact

PartialDrafted ==
  \E source \in Sources \ {<<>>} : \E n, accessible \in 0 .. Len(source) :
    /\ Ingest(source, n, accessible)
    /\ should_run_partial_mt_update(Synced, source, accessible) # "source_prefix_unchanged"
    /\ ~FastPathCertain(Synced, source, accessible)
    /\ Len(Synced.accepted_target) <= MaxTarget
    /\ \E draft \in Drafts(Len(source)), mapped, retokenized \in BOOLEAN :
       \E k \in 0 .. Len(draft) :
         Render(update_partial_state(Synced, source, accessible, draft, k, mapped, retokenized))
    /\ UNCHANGED intact

\* A final, the client's or forced by --max-utterance-words: one more segment, and
\* every pending one translated.
Finalize ==
  \E source \in Sources :
    LET segments == Append(pending, source)
    IN  /\ translated + Len(segments) <= MaxUtts /\ IsPrefix(words, source)
        /\ \E conts \in Continuations(Len(segments)) :
             outputs' = [utterance_id |-> outputs.utterance_id + 1, emitted_partial |-> <<>>,
                         final_text |-> Last(Translations(segments, conts)), ok |-> TRUE]
        /\ partial' = AfterSync(segments, Len(segments))
        /\ pending' = <<>> /\ translated' = translated + Len(segments)
        /\ words' = <<>> /\ heard' = NothingHeard /\ seed' = <<>> /\ intact' = TRUE
        /\ UNCHANGED faults

\* The engine cannot be loaded or an MT call raises: what the update did before stays.  A
\* final may fail before its segment is there; otherwise n of the pending segments are
\* translated.  The client is told that the update was dropped; after a final it goes on
\* with the same utterance or with a new one.
UpdateFails ==
  /\ faults < MaxFaults /\ faults' = faults + 1 /\ intact' = FALSE
  /\ \E source \in Sources, is_final \in BOOLEAN :
     \E segments \in {pending} \cup (IF is_final THEN {Append(pending, source)} ELSE {}) :
       /\ IsPrefix(words, source) /\ translated + Len(segments) <= MaxUtts
       /\ \E n \in 0 .. Len(segments) :
            /\ is_final => IF segments = pending THEN n = 0 ELSE n < Len(segments)
            /\ words' \in {words} \cup (IF is_final THEN {<<>>} ELSE {})
            /\ pending' = SubSeq(segments, n + 1, Len(segments))
            /\ translated' = translated + n
            /\ partial' = AfterSync(segments, n)
  /\ outputs' = [outputs EXCEPT !.ok = FALSE, !.final_text = <<>>]
  /\ UNCHANGED <<heard, seed>>

Next == \/ PartialEmpty \/ PartialSkipped \/ PartialFastPath \/ PartialDrafted
        \/ Finalize \/ UpdateFails

Spec == Init /\ [][Next]_vars

-----------------------------------------------------------------------------
(* Properties.                                                             *)

Partials ==
  [source_prefix : Seq(Words), accepted_target : Seq(Tokens), has_ids : BOOLEAN,
   accepted_generated : Seq(Tokens), draft : Seq([tok : Tokens, unit : Nat \cup {NoUnit, Unread}]),
   has_units : BOOLEAN, accessible : Nat,
   aligned : Seq(Nat \cup {NoUnit, Unread})]

\* Every variable keeps its type; the alignment history has one entry for each token
\* of the accepted target.
TypeOK ==
  /\ words \in Seq(Words) /\ heard \in [source : Seq(Words), accessible : Nat]
  /\ partial \in Partials /\ Len(partial.aligned) = Len(partial.accepted_target)
  /\ pending \in Seq(Seq(Words)) /\ translated \in Nat
  /\ outputs \in [utterance_id : Nat, emitted_partial : Seq(Tokens), final_text : Seq(Tokens),
                   ok : BOOLEAN]
  /\ seed \in Seq(Tokens) /\ intact \in BOOLEAN /\ faults \in Nat

\* The wire guard has nothing to hold back: while the utterance is undisturbed, the
\* committed_text shown to the client is the accepted target itself, so emission is
\* never frozen on a prefix the session has abandoned.
WireFollowsAccepted == intact => outputs.emitted_partial = partial.accepted_target

\* Within an utterance the accepted target only grows, whichever of the skip, the
\* fast path and a new draft answers the update, and starts with the resumed prefix.
AcceptedAppendOnly ==
  [][outputs'.utterance_id = outputs.utterance_id /\ intact' =>
       /\ IsPrefix(partial.accepted_target, partial'.accepted_target)
       /\ IsPrefix(seed, partial'.accepted_target)]_vars

\* The final text replaces the streamed partial with an extension of it: nothing the
\* client was shown is taken back when the utterance closes.
FinalExtendsPartial ==
  [][outputs'.utterance_id # outputs.utterance_id /\ intact =>
       IsPrefix(outputs.emitted_partial, outputs'.final_text)]_vars

\* No update is lost to the scheduler: once an update is answered, the draft on display
\* is for the source text that was heard last, and took its frontier into account.
LastUpdateDrafted ==
  outputs.ok /\ heard.source # <<>> =>
    partial.source_prefix = heard.source /\ partial.accessible >= heard.accessible
=============================================================================
