------------------------- MODULE TextSession_proofs -------------------------
(* Theorems about TextSession, for every vocabulary, draft length and number of
   utterances and failures. *)
EXTENDS TextSession, DataLemmas

(* A text of a given set is a sequence over it. *)
LEMMA TextsAreSeqs ==
  ASSUME NEW S, NEW n \in Nat, NEW s \in Texts(S, n)
  PROVE  s \in Seq(S)
<1>1. PICK k \in 0 .. n : s \in [1 .. k -> S]  BY DEF Texts
<1> QED  BY <1>1

-----------------------------------------------------------------------------
(* What the engine's answers become. *)

(* The repeated part is a part of the continuation. *)
LEMMA RepeatedType ==
  ASSUME NEW prefill \in Seq(Tokens), NEW ids \in Seq(Tokens)
  PROVE  Repeated(prefill, ids) \in 0 .. Len(ids)
<1> DEFINE K == {0} \cup {k \in 1 .. Len(ids) : /\ IsSuffix(SubSeq(ids, 1, k), prefill)
                                               /\ SubSeq(ids, 1, k) \notin Brief}
<1>1. Len(ids) \in Nat /\ K \in SUBSET (0 .. Len(ids)) /\ 0 \in K  OBVIOUS
<1> HIDE DEF K
<1>2. Max(K) \in K  BY <1>1, MaxOfBounded
<1>3. Max(K) \in 0 .. Len(ids)  BY <1>1, <1>2
<1> QED  BY <1>3 DEF Repeated, K

(* A decoded text continues its prefill, with what of the continuation does not repeat it. *)
LEMMA DecodeExtends ==
  ASSUME NEW prefill \in Seq(Tokens), NEW ids \in Seq(Tokens)
  PROVE  LET text == decode_candidate_text(prefill, ids)
         IN  /\ text \in Seq(Tokens) /\ IsPrefix(prefill, text)
             /\ Len(text) = Len(prefill) + Len(ids) - Repeated(prefill, ids)
<1> DEFINE r == Repeated(prefill, ids)
<1> DEFINE rest == SubSeq(ids, r + 1, Len(ids))
<1>1. r \in 0 .. Len(ids)  BY RepeatedType
<1> HIDE DEF r
<1>2. Len(ids) \in Nat  OBVIOUS
<1>3. rest \in Seq(Tokens) /\ Len(rest) = Len(ids) - r  BY <1>1, <1>2
<1> HIDE DEF rest
<1>4. prefill \o rest \in Seq(Tokens) /\ Len(prefill \o rest) = Len(prefill) + Len(rest)
  BY <1>3, ConcatProperties
<1>5. IsPrefix(prefill, prefill \o rest)  BY <1>3, PrefixOfConcat
<1>6. decode_candidate_text(prefill, ids) = prefill \o rest
  BY DEF decode_candidate_text, rest, r
<1>7. Len(prefill) \in Nat  OBVIOUS
<1> QED  BY <1>1, <1>2, <1>3, <1>4, <1>5, <1>6, <1>7 DEF r

(* A partial state of the right type, one alignment for each accepted token. *)
GoodPartial(p) == p \in Partials /\ Len(p.aligned) = Len(p.accepted_target)

LEMMA NewPartialGood == GoodPartial(NewPartial) /\ NewPartial.accepted_target = <<>>
BY DEF GoodPartial, NewPartial, Partials

(* The states that sync_committed_translations leaves. *)
LEMMA SyncedGood ==
  ASSUME GoodPartial(partial), NEW segments, NEW n
  PROVE  /\ GoodPartial(AfterSync(segments, n))
         /\ AfterSync(segments, n) \in {NewPartial, partial}
BY NewPartialGood DEF AfterSync

(* The tokens of a draft, and its first k. *)
DraftToken == [tok : Tokens, unit : Nat \cup {NoUnit, Unread}]
DraftType == Seq(DraftToken)

LEMMA IdsType ==
  ASSUME NEW draft \in DraftType, NEW k \in 0 .. Len(draft)
  PROVE  /\ Ids(draft) \in Seq(Tokens) /\ Len(Ids(draft)) = Len(draft)
         /\ SubSeq(Ids(draft), 1, k) \in Seq(Tokens) /\ Len(SubSeq(Ids(draft), 1, k)) = k
<1>1. Len(draft) \in Nat /\ \A i \in 1 .. Len(draft) : draft[i].tok \in Tokens
  <2>1. draft \in Seq(DraftToken)  BY DEF DraftType
  <2>2. \A i \in 1 .. Len(draft) : draft[i] \in DraftToken  BY <2>1
  <2>3. \A t \in DraftToken : t.tok \in Tokens  BY DEF DraftToken
  <2> QED  BY <2>1, <2>2, <2>3
<1>2. Ids(draft) \in Seq(Tokens) /\ Len(Ids(draft)) = Len(draft)  BY <1>1 DEF Ids
<1> QED  BY <1>1, <1>2

(* What the engine drafts for a source of n words is a draft. *)
LEMMA DraftsType ==
  ASSUME NEW n \in Nat, NEW draft \in Drafts(n)
  PROVE  draft \in DraftType
<1> DEFINE T == [tok : Tokens, unit : {NoUnit, Unread} \cup 0 .. n - 1]
<1>1. draft \in Seq(T)
  <2> HIDE DEF T
  <2>1. draft \in Texts(T, MaxDraft)  BY DEF Drafts, T
  <2> QED  BY <2>1, TextsAreSeqs, TextSessionAssumption
<1>2. T \subseteq DraftToken  BY DEF DraftToken
<1> HIDE DEF T
<1> QED  BY <1>1, <1>2, SeqMonotonic DEF DraftType

(* The partial state q answers an update with this source, p being the state before:
   it continues the accepted target of p. *)
Answers(p, q, source, accessible) ==
  /\ GoodPartial(q) /\ IsPrefix(p.accepted_target, q.accepted_target)
  /\ q.source_prefix = source /\ q.accessible >= accessible

(* The commit fast path only releases more of the cached draft. *)
LEMMA FastForwardAnswers ==
  ASSUME NEW p, GoodPartial(p), NEW source \in Seq(Words), NEW accessible \in Nat,
         NEW cut \in FastPathReleases(p, source, accessible)
  PROVE  Answers(p, fast_forward_acceptance(p, accessible, cut), source, accessible)
<1> DEFINE q == fast_forward_acceptance(p, accessible, cut)
<1>1. cut \in FastPathCuts(p, source, accessible)  BY DEF FastPathReleases
<1>2. p.draft \in DraftType /\ p \in Partials
  BY DEF GoodPartial, Partials, DraftType, DraftToken
<1>3. /\ cut \in 1 .. Len(p.draft) /\ p.source_prefix = source
      /\ IsPrefix(p.accepted_target, SubSeq(Ids(p.draft), 1, cut))
  BY <1>1 DEF FastPathCuts
<1>4. Len(p.draft) \in Nat  BY <1>2 DEF DraftType
<1>5. cut \in 0 .. Len(p.draft) /\ cut \in Nat  BY <1>3, <1>4
<1>6. SubSeq(Ids(p.draft), 1, cut) \in Seq(Tokens) /\ Len(SubSeq(Ids(p.draft), 1, cut)) = cut
  BY <1>2, <1>5, IdsType
<1> DEFINE units == [i \in 1 .. cut |-> p.draft[i].unit]
<1>7. units \in Seq(Nat \cup {NoUnit, Unread}) /\ Len(units) = cut
  <2>1. \A i \in 1 .. cut : p.draft[i] \in DraftToken
    BY <1>2, <1>3, <1>4 DEF DraftType
  <2>2. \A t \in DraftToken : t.unit \in Nat \cup {NoUnit, Unread}  BY DEF DraftToken
  <2>3. \A i \in 1 .. cut : p.draft[i].unit \in Nat \cup {NoUnit, Unread}  BY <2>1, <2>2
  <2> QED  BY <1>5, <2>3
<1>8. /\ q.accepted_target = SubSeq(Ids(p.draft), 1, cut) /\ q.aligned = units
      /\ q.source_prefix = p.source_prefix /\ q.accessible = accessible
  BY <1>2 DEF fast_forward_acceptance, Partials
<1>9. q \in Partials
  <2> HIDE DEF units
  <2>1. q = [p EXCEPT !.accepted_target = SubSeq(Ids(p.draft), 1, cut), !.has_ids = TRUE,
                      !.accepted_generated = SubSeq(Ids(p.draft), 1, cut),
                      !.accessible = accessible, !.aligned = units]
    BY DEF fast_forward_acceptance, units
  <2> HIDE DEF q
  <2> QED  BY <1>2, <1>6, <1>7, <2>1 DEF Partials
<1> HIDE DEF q, units
<1> QED  BY <1>3, <1>6, <1>7, <1>8, <1>9 DEF Answers, GoodPartial, q

(* A new draft only extends the accepted target, each new token with its unit. *)
LEMMA UpdateAnswers ==
  ASSUME NEW p, GoodPartial(p), NEW source \in Seq(Words), NEW accessible \in Nat,
         NEW draft \in DraftType, NEW k \in 0 .. Len(draft),
         NEW mapped \in BOOLEAN, NEW retokenized \in BOOLEAN
  PROVE  Answers(p, update_partial_state(p, source, accessible, draft, k, mapped, retokenized),
                 source, accessible)
<1> DEFINE ids == SubSeq(Ids(draft), 1, k)
           candidate == IF mapped THEN decode_candidate_text(p.accepted_target, ids) ELSE <<>>
           keep == KeepsPrevious(p, candidate, retokenized)
           added == SubSeq(draft, k - (Len(candidate) - Len(p.accepted_target)) + 1, k)
           q == update_partial_state(p, source, accessible, draft, k, mapped, retokenized)
           units == p.aligned \o [i \in 1 .. Len(added) |-> added[i].unit]
<1>1. p \in Partials /\ p.accepted_target \in Seq(Tokens) /\ p.aligned \in Seq(Nat \cup {NoUnit, Unread})
      /\ Len(p.aligned) = Len(p.accepted_target) /\ p.has_ids \in BOOLEAN
      /\ p.accepted_generated \in Seq(Tokens)
  BY DEF GoodPartial, Partials
<1>2. ids \in Seq(Tokens) /\ Len(ids) = k  BY IdsType
<1>3. q = [source_prefix |-> source,
           accepted_target |-> IF keep THEN p.accepted_target ELSE candidate,
           has_ids |-> ~keep \/ p.has_ids,
           accepted_generated |-> IF keep THEN p.accepted_generated ELSE ids,
           draft |-> draft, has_units |-> mapped, accessible |-> accessible,
           aligned |-> IF keep THEN p.aligned ELSE units]
  BY DEF update_partial_state
<1>4. draft \in Seq([tok : Tokens, unit : Nat \cup {NoUnit, Unread}])  BY DEF DraftType, DraftToken
<1>5. CASE keep
  <2> HIDE DEF keep, units, ids, q
  <2>1. q \in Partials  BY <1>1, <1>3, <1>4, <1>5 DEF Partials
  <2>2. q.accepted_target = p.accepted_target /\ q.aligned = p.aligned
        /\ q.source_prefix = source /\ q.accessible = accessible
    BY <1>3, <1>5
  <2>3. IsPrefix(p.accepted_target, p.accepted_target)  BY <1>1, PrefixOfConcat
  <2> QED  BY <1>1, <2>1, <2>2, <2>3 DEF Answers, GoodPartial, q
<1>6. CASE ~keep
  <2>1. mapped /\ candidate = decode_candidate_text(p.accepted_target, ids)
    BY <1>6 DEF KeepsPrevious
  <2> DEFINE r == Repeated(p.accepted_target, ids)
  <2> HIDE DEF ids, candidate
  <2>2. /\ candidate \in Seq(Tokens) /\ IsPrefix(p.accepted_target, candidate)
        /\ Len(candidate) = Len(p.accepted_target) + k - r
    BY <1>1, <1>2, <2>1, DecodeExtends
  <2>3. r \in 0 .. k  BY <1>1, <1>2, RepeatedType
  <2> HIDE DEF r
  <2>4. added = SubSeq(draft, r + 1, k)
    <3>1. Len(p.accepted_target) \in Nat /\ k \in Nat  BY <1>1, <1>2
    <3> DEFINE a == Len(p.accepted_target)
               c == Len(candidate)
    <3>2. c = a + k - r /\ a \in Nat  BY <2>2, <3>1
    <3> HIDE DEF a, c
    <3>3. k - (c - a) + 1 = r + 1  BY <2>3, <3>1, <3>2
    <3> QED  BY <3>3 DEF a, c
  <2>5. /\ added \in Seq(DraftToken) /\ Len(added) = k - r
    <3>1. Len(draft) \in Nat /\ draft \in Seq(DraftToken)  BY DEF DraftType
    <3>2. k \in Nat /\ k <= Len(draft)  BY <3>1
    <3>3. \A i \in r + 1 .. k : draft[i] \in DraftToken  BY <2>3, <3>1, <3>2
    <3> HIDE DEF added
    <3> QED  BY <2>3, <2>4, <3>2, <3>3, SubSeqProperties
  <2> HIDE DEF added
  <2> DEFINE more == [i \in 1 .. Len(added) |-> added[i].unit]
  <2>6. more \in Seq(Nat \cup {NoUnit, Unread}) /\ Len(more) = k - r
    <3>1. \A i \in 1 .. Len(added) : added[i] \in DraftToken  BY <2>5
    <3>2. \A t \in DraftToken : t.unit \in Nat \cup {NoUnit, Unread}  BY DEF DraftToken
    <3>3. \A i \in 1 .. Len(added) : added[i].unit \in Nat \cup {NoUnit, Unread}  BY <3>1, <3>2
    <3>4. Len(added) \in Nat  BY <2>5
    <3> QED  BY <2>5, <3>3, <3>4
  <2> HIDE DEF more
  <2>7. units \in Seq(Nat \cup {NoUnit, Unread}) /\ Len(units) = Len(p.aligned) + (k - r)
    BY <1>1, <2>6, ConcatProperties DEF more
  <2> HIDE DEF units, keep, q
  <2>8. q \in Partials  BY <1>2, <1>3, <1>4, <1>6, <2>2, <2>7 DEF Partials
  <2>9. q.accepted_target = candidate /\ q.aligned = units
        /\ q.source_prefix = source /\ q.accessible = accessible
    BY <1>3, <1>6
  <2>10. Len(units) = Len(candidate)
    <3>1. Len(p.accepted_target) \in Nat /\ k \in Nat  BY <1>1
    <3> QED  BY <1>1, <2>2, <2>3, <2>7, <3>1
  <2> QED  BY <2>2, <2>8, <2>9, <2>10 DEF Answers, GoodPartial, q
<1> QED  BY <1>5, <1>6

-----------------------------------------------------------------------------
(* The inductive invariant: an undisturbed utterance was answered without an error, so
   nothing is pending in it, and its accepted target still starts with the prefix it was
   resumed from. *)
Undisturbed == intact => outputs.ok /\ IsPrefix(seed, partial.accepted_target)

(* After an answered update every source segment has its translation. *)
NothingPending == outputs.ok => pending = <<>>

IndInv == /\ TypeOK /\ WireFollowsAccepted /\ NothingPending
          /\ LastUpdateDrafted /\ Undisturbed

LEMMA InitInv == Init => IndInv
<1> SUFFICES ASSUME Init PROVE IndInv  OBVIOUS
<1> DEFINE units == [i \in 1 .. Len(seed) |-> NoUnit]
<1>1. seed \in Seq(Tokens)  BY TextSessionAssumption DEF Init
<1>2. units \in Seq(Nat \cup {NoUnit, Unread}) /\ Len(units) = Len(seed)  BY <1>1
<1>3. partial = [NewPartial EXCEPT !.accepted_target = seed, !.aligned = units]  BY DEF Init
<1> HIDE DEF units
<1>4. partial \in Partials /\ partial.accepted_target = seed /\ partial.aligned = units
  <2>1. partial = [source_prefix |-> <<>>, accepted_target |-> seed, has_ids |-> FALSE,
                   accepted_generated |-> <<>>, draft |-> <<>>, has_units |-> FALSE,
                   accessible |-> 0, aligned |-> units]
    BY <1>3 DEF NewPartial
  <2> QED  BY <1>1, <1>2, <2>1 DEF Partials
<1>5. TypeOK
  <2>1. heard \in [source : Seq(Words), accessible : Nat]  BY DEF Init, NothingHeard
  <2>2. outputs \in [utterance_id : Nat, emitted_partial : Seq(Tokens), final_text : Seq(Tokens),
                     ok : BOOLEAN]
    BY <1>1 DEF Init
  <2> QED  BY <1>1, <1>2, <1>4, <2>1, <2>2 DEF Init, TypeOK
<1>6. WireFollowsAccepted /\ NothingPending /\ LastUpdateDrafted
  BY <1>4 DEF Init, WireFollowsAccepted, NothingPending, LastUpdateDrafted, NothingHeard
<1>7. Undisturbed  BY <1>1, <1>4, PrefixOfConcat DEF Init, Undisturbed
<1> QED  BY <1>5, <1>6, <1>7 DEF IndInv

(* What is shown extends what was shown, if the candidate does. *)
LEMMA AdvanceShows ==
  ASSUME NEW emitted, NEW candidate, IsPrefix(emitted, candidate)
  PROVE  append_only_advance(emitted, candidate) = candidate
BY DEF append_only_advance

(* The state rendered before an update is the one the last update left, unless segments
   of a failed final were pending. *)
LEMMA SyncedState ==
  ASSUME IndInv
  PROVE  GoodPartial(Synced) /\ (intact => Synced = partial)
<1>1. GoodPartial(partial)  BY DEF IndInv, TypeOK, GoodPartial
<1>2. intact => pending = <<>>  BY DEF IndInv, Undisturbed, NothingPending
<1>3. intact => Synced = partial  BY <1>2 DEF Synced, AfterSync
<1> QED  BY <1>1, <1>3, SyncedGood DEF Synced

(* An update that renders p: while the utterance is undisturbed the accepted target only
   grows, and p is a state for the source that was heard. *)
Rendered(source, n, accessible, p) ==
  /\ Ingest(source, n, accessible) /\ Render(p) /\ GoodPartial(p)
  /\ intact' \in BOOLEAN /\ (intact' => intact)
  /\ intact' => IsPrefix(partial.accepted_target, p.accepted_target)
  /\ source # <<>> => p.source_prefix = source /\ p.accessible >= accessible

(* Such an update keeps the invariant: what is shown is the accepted target. *)
LEMMA RenderInv ==
  ASSUME IndInv, NEW source \in Seq(Words), NEW n \in 0 .. Len(source),
         NEW accessible \in Nat, NEW p, Rendered(source, n, accessible, p)
  PROVE  IndInv'
<1> USE DEF Rendered
<1> USE DEF IndInv
<1>1. p \in Partials /\ p.accepted_target \in Seq(Tokens) /\ Len(p.aligned) = Len(p.accepted_target)
  BY DEF GoodPartial, Partials
<1>2. /\ outputs \in [utterance_id : Nat, emitted_partial : Seq(Tokens),
                       final_text : Seq(Tokens), ok : BOOLEAN]
      /\ seed \in Seq(Tokens) /\ translated \in Nat /\ pending \in Seq(Seq(Words))
      /\ partial.accepted_target \in Seq(Tokens) /\ faults \in Nat
  BY DEF TypeOK, Partials
<1> DEFINE shown == append_only_advance(outputs.emitted_partial, p.accepted_target)
<1>3. /\ partial' = p /\ pending' = <<>> /\ translated' = translated + Len(pending)
      /\ outputs' = [outputs EXCEPT !.emitted_partial = shown, !.final_text = <<>>, !.ok = TRUE]
      /\ seed' = seed /\ faults' = faults
  BY DEF Render
<1>4. words' = SubSeq(source, 1, n) /\ heard' = [source |-> source, accessible |-> accessible]
  BY DEF Ingest
<1>5. shown \in Seq(Tokens)  BY <1>1, <1>2 DEF append_only_advance
<1> HIDE DEF shown
<1>6. /\ outputs'.utterance_id = outputs.utterance_id /\ outputs'.emitted_partial = shown
      /\ outputs'.ok = TRUE
      /\ outputs' \in [utterance_id : Nat, emitted_partial : Seq(Tokens),
                        final_text : Seq(Tokens), ok : BOOLEAN]
  <2> DEFINE o == [utterance_id |-> outputs.utterance_id, emitted_partial |-> shown,
                   final_text |-> <<>>, ok |-> TRUE]
  <2>1. outputs' = o  BY <1>2, <1>3
  <2> QED  BY <1>2, <1>5, <2>1
<1>7. TypeOK'
  <2>1. words' \in Seq(Words)  BY <1>4
  <2>2. heard' \in [source : Seq(Words), accessible : Nat]  BY <1>4
  <2>3. translated' \in Nat /\ pending' \in Seq(Seq(Words))  BY <1>2, <1>3
  <2> QED  BY <1>1, <1>2, <1>3, <1>6, <2>1, <2>2, <2>3 DEF TypeOK
<1>8. WireFollowsAccepted'
  <2> SUFFICES ASSUME intact' PROVE outputs'.emitted_partial = p.accepted_target
    BY <1>3 DEF WireFollowsAccepted
  <2>1. outputs.emitted_partial = partial.accepted_target  BY DEF WireFollowsAccepted
  <2>2. shown = p.accepted_target  BY <2>1, AdvanceShows DEF shown
  <2> QED  BY <1>6, <2>2
<1>9. NothingPending'  BY <1>3 DEF NothingPending
<1>10. LastUpdateDrafted'  BY <1>3, <1>4 DEF LastUpdateDrafted
<1>11. Undisturbed'
  <2> SUFFICES ASSUME intact' PROVE IsPrefix(seed, p.accepted_target)
    BY <1>3, <1>6 DEF Undisturbed
  <2>1. IsPrefix(seed, partial.accepted_target)  BY DEF Undisturbed
  <2> QED  BY <1>1, <1>2, <2>1, PrefixTransitive
<1> QED  BY <1>7, <1>8, <1>9, <1>10, <1>11

(* Every partial update renders some state: the empty one, the one before, more of its
   cached draft, or a new draft. *)
LEMMA PartialRenders ==
  ASSUME IndInv, PartialEmpty \/ PartialSkipped \/ PartialFastPath \/ PartialDrafted
  PROVE  \E source \in Seq(Words) : \E n \in 0 .. Len(source), accessible \in Nat : \E p :
           Rendered(source, n, accessible, p)
<1>1. GoodPartial(Synced) /\ (intact => Synced = partial)  BY SyncedState
<1>2. intact \in BOOLEAN  BY DEF IndInv, TypeOK
<1>3. Sources \subseteq Seq(Words)  BY TextSessionAssumption
<1>4. Synced.accepted_target \in Seq(Tokens)  BY <1>1 DEF GoodPartial, Partials
<1>5. CASE PartialEmpty
  <2>1. /\ Ingest(<<>>, 0, 0) /\ Render(NewPartial)
        /\ intact' = (intact /\ Synced.accepted_target = <<>>)
    BY <1>5 DEF PartialEmpty
  <2>2. intact' => intact /\ partial.accepted_target = <<>>  BY <1>1, <2>1
  <2>3. IsPrefix(<<>>, <<>>)
    <3>1. <<>> \in Seq(Tokens)  OBVIOUS
    <3> QED  BY <3>1, EmptyPrefix
  <2>4. Rendered(<<>>, 0, 0, NewPartial)
    BY <1>2, <2>1, <2>2, <2>3, NewPartialGood DEF Rendered
  <2>5. <<>> \in Seq(Words) /\ 0 \in 0 .. Len(<<>>) /\ 0 \in Nat  OBVIOUS
  <2> QED  BY <2>4, <2>5
<1>6. CASE PartialSkipped
  <2>1. PICK source \in Sources \ {<<>>} : \E n, accessible \in 0 .. Len(source) :
          /\ Ingest(source, n, accessible)
          /\ should_run_partial_mt_update(Synced, source, accessible) = "source_prefix_unchanged"
          /\ Render(Synced) /\ UNCHANGED intact
    BY <1>6 DEF PartialSkipped
  <2>2. PICK n \in 0 .. Len(source), accessible \in 0 .. Len(source) :
          /\ Ingest(source, n, accessible)
          /\ should_run_partial_mt_update(Synced, source, accessible) = "source_prefix_unchanged"
          /\ Render(Synced) /\ UNCHANGED intact
    BY <2>1
  <2>3. accessible \in Nat /\ source \in Seq(Words)  BY <1>3
  <2>4. Synced.source_prefix = source /\ ~(accessible > Synced.accessible)
    BY <2>2 DEF should_run_partial_mt_update
  <2>5. Synced.accessible \in Nat  BY <1>1 DEF GoodPartial, Partials
  <2>6. Synced.accessible >= accessible  BY <2>3, <2>4, <2>5
  <2>7. intact => IsPrefix(partial.accepted_target, Synced.accepted_target)
    BY <1>1, <1>4, PrefixOfConcat
  <2>8. Rendered(source, n, accessible, Synced)
    BY <1>1, <1>2, <2>2, <2>4, <2>6, <2>7 DEF Rendered
  <2> QED  BY <2>3, <2>8
<1>7. CASE PartialFastPath
  <2> DEFINE Fast(source, n, accessible) ==
          /\ Ingest(source, n, accessible)
          /\ \E cut \in FastPathReleases(Synced, source, accessible) :
               Render(fast_forward_acceptance(Synced, accessible, cut))
          /\ UNCHANGED intact
  <2>0. PICK source \in Sources \ {<<>>} : \E n, accessible \in 0 .. Len(source) :
          Fast(source, n, accessible)
    BY <1>7 DEF PartialFastPath
  <2>1. PICK n, accessible \in 0 .. Len(source) : Fast(source, n, accessible)  BY <2>0
  <2>2. PICK cut \in FastPathReleases(Synced, source, accessible) :
          Render(fast_forward_acceptance(Synced, accessible, cut))
    BY <2>1
  <2> DEFINE p == fast_forward_acceptance(Synced, accessible, cut)
  <2>3. accessible \in Nat /\ source \in Seq(Words)  BY <1>3
  <2>4. Answers(Synced, p, source, accessible)  BY <1>1, <2>3, FastForwardAnswers
  <2> HIDE DEF p
  <2>5. Rendered(source, n, accessible, p)
    BY <1>1, <1>2, <2>1, <2>2, <2>4 DEF Rendered, Answers, p
  <2> QED  BY <2>3, <2>5
<1>8. CASE PartialDrafted
  <2> DEFINE
        Drafted(source, accessible, draft, mapped, retokenized) ==
          \E k \in 0 .. Len(draft) :
            Render(update_partial_state(Synced, source, accessible, draft, k, mapped, retokenized))
        Fresh(source, n, accessible) ==
          /\ Ingest(source, n, accessible) /\ UNCHANGED intact
          /\ \E draft \in Drafts(Len(source)), mapped, retokenized \in BOOLEAN :
               Drafted(source, accessible, draft, mapped, retokenized)
  <2>0. PICK source \in Sources \ {<<>>} : \E n, accessible \in 0 .. Len(source) :
          Fresh(source, n, accessible)
    BY <1>8 DEF PartialDrafted
  <2>1. PICK n, accessible \in 0 .. Len(source) : Fresh(source, n, accessible)  BY <2>0
  <2>a. PICK draft \in Drafts(Len(source)), mapped, retokenized \in BOOLEAN :
          Drafted(source, accessible, draft, mapped, retokenized)
    BY <2>1
  <2>2. PICK k \in 0 .. Len(draft) :
          Render(update_partial_state(Synced, source, accessible, draft, k, mapped, retokenized))
    BY <2>a
  <2> DEFINE p == update_partial_state(Synced, source, accessible, draft, k, mapped, retokenized)
  <2>3. accessible \in Nat /\ source \in Seq(Words) /\ Len(source) \in Nat  BY <1>3
  <2>4. draft \in DraftType  BY <2>3, DraftsType
  <2>5. Answers(Synced, p, source, accessible)  BY <1>1, <2>3, <2>4, UpdateAnswers
  <2> HIDE DEF p
  <2>6. Rendered(source, n, accessible, p)
    BY <1>1, <1>2, <2>1, <2>2, <2>5 DEF Rendered, Answers, p
  <2> QED  BY <2>3, <2>6
<1> QED  BY <1>5, <1>6, <1>7, <1>8

(* What a final shows: a text that extends the accepted target, after which the open
   utterance is a new one. *)
FinalShows ==
  /\ outputs' \in [utterance_id : Nat, emitted_partial : Seq(Tokens), final_text : Seq(Tokens),
                    ok : BOOLEAN]
  /\ outputs'.utterance_id # outputs.utterance_id
  /\ IsPrefix(partial.accepted_target, outputs'.final_text)
  /\ outputs'.emitted_partial = <<>> /\ outputs'.ok
  /\ partial'.accepted_target = <<>> /\ GoodPartial(partial')

LEMMA FinalizeShows == ASSUME TypeOK, Finalize PROVE FinalShows
<1>1. PICK source \in Sources :
        LET segments == Append(pending, source)
        IN  /\ \E conts \in Continuations(Len(segments)) :
                 outputs' = [utterance_id |-> outputs.utterance_id + 1, emitted_partial |-> <<>>,
                             final_text |-> Last(Translations(segments, conts)), ok |-> TRUE]
            /\ partial' = AfterSync(segments, Len(segments))
  BY DEF Finalize
<1> DEFINE segments == Append(pending, source)
           m == Len(segments)
<1>2. PICK conts \in Continuations(m) :
        outputs' = [utterance_id |-> outputs.utterance_id + 1, emitted_partial |-> <<>>,
                    final_text |-> Last(Translations(segments, conts)), ok |-> TRUE]
  BY <1>1
<1>3. m \in Nat /\ m > 0
  <2>1. pending \in Seq(Seq(Words)) /\ source \in Seq(Words)
    BY TextSessionAssumption DEF TypeOK
  <2> QED  BY <2>1
<1>4. partial' = AfterSync(segments, m)  BY <1>1
<1> HIDE DEF segments
<1>5. partial.accepted_target \in Seq(Tokens) /\ GoodPartial(partial)
      /\ outputs.utterance_id \in Nat
  BY DEF TypeOK, GoodPartial, Partials
<1> DEFINE texts == Translations(segments, conts)
           final == texts[m]
<1>6. conts \in [1 .. m -> Texts(Tokens, MaxDraft)]  BY DEF Continuations
<1> HIDE DEF m
<1>7. Len(conts) = m  BY <1>3, <1>6
<1>8. /\ Last(texts) = final
      /\ final = IF segments[m] = <<>> THEN partial.accepted_target
                 ELSE decode_candidate_text(partial.accepted_target, conts[m])
  <2>1. texts = [i \in 1 .. m |->
                   LET prefill == IF i = m THEN partial.accepted_target ELSE <<>>
                   IN  IF segments[i] = <<>> THEN prefill
                       ELSE decode_candidate_text(prefill, conts[i])]
    BY <1>7 DEF Translations, m
  <2>2. m \in 1 .. m  BY <1>3
  <2>3. Len(texts) = m  BY <1>3, <2>1
  <2>4. final = IF segments[m] = <<>> THEN partial.accepted_target
                 ELSE decode_candidate_text(partial.accepted_target, conts[m])
    BY <2>1, <2>2
  <2> QED  BY <2>3, <2>4 DEF Last
<1> HIDE DEF texts, final
<1>9. conts[m] \in Seq(Tokens)
  <2>1. conts[m] \in Texts(Tokens, MaxDraft)  BY <1>3, <1>6
  <2> QED  BY <2>1, TextsAreSeqs, TextSessionAssumption
<1>10. final \in Seq(Tokens) /\ IsPrefix(partial.accepted_target, final)
  BY <1>5, <1>8, <1>9, DecodeExtends, PrefixOfConcat
<1>11. outputs' = [utterance_id |-> outputs.utterance_id + 1, emitted_partial |-> <<>>,
                   final_text |-> final, ok |-> TRUE]
  BY <1>2, <1>8 DEF texts
<1>12. partial'.accepted_target = <<>> /\ GoodPartial(partial')
  BY <1>3, <1>4, <1>5, NewPartialGood, SyncedGood DEF AfterSync, m
<1> QED  BY <1>5, <1>10, <1>11, <1>12 DEF FinalShows

LEMMA FinalizeInv == ASSUME IndInv, Finalize PROVE IndInv'
<1>1. TypeOK /\ FinalShows  BY FinalizeShows DEF IndInv
<1>2. /\ pending' = <<>> /\ words' = <<>> /\ heard' = NothingHeard /\ seed' = <<>>
      /\ intact' = TRUE /\ faults' = faults
  BY DEF Finalize
<1>3. translated' \in Nat
  <2>1. PICK source \in Sources : translated' = translated + Len(Append(pending, source))
    BY DEF Finalize
  <2>2. pending \in Seq(Seq(Words)) /\ source \in Seq(Words) /\ translated \in Nat
    BY <1>1, TextSessionAssumption DEF TypeOK
  <2>3. Len(Append(pending, source)) \in Nat  BY <2>2
  <2> QED  BY <2>1, <2>2, <2>3
<1>4. TypeOK'
  <2>1. heard' \in [source : Seq(Words), accessible : Nat]  BY <1>2 DEF NothingHeard
  <2> QED  BY <1>1, <1>2, <1>3, <2>1 DEF TypeOK, FinalShows, GoodPartial
<1>5. LastUpdateDrafted'  BY <1>2 DEF LastUpdateDrafted, NothingHeard
<1>6. WireFollowsAccepted' /\ NothingPending'
  BY <1>1, <1>2 DEF FinalShows, WireFollowsAccepted, NothingPending
<1>7. Undisturbed'
  <2>1. <<>> \in Seq(Tokens)  OBVIOUS
  <2>2. IsPrefix(<<>>, <<>>)  BY <2>1, EmptyPrefix
  <2> QED  BY <1>1, <1>2, <2>2 DEF FinalShows, Undisturbed
<1> QED  BY <1>4, <1>5, <1>6, <1>7 DEF IndInv

(* A failed update disturbs its utterance; what it leaves pending is typed. *)
LEMMA FailInv == ASSUME IndInv, UpdateFails PROVE IndInv'
<1>1. TypeOK  BY DEF IndInv
<1>2. /\ faults' = faults + 1 /\ intact' = FALSE /\ heard' = heard /\ seed' = seed
      /\ outputs' = [outputs EXCEPT !.ok = FALSE, !.final_text = <<>>]
  BY DEF UpdateFails
<1>3. PICK source \in Sources, is_final \in BOOLEAN :
        \E segments \in {pending} \cup (IF is_final THEN {Append(pending, source)} ELSE {}) :
        \E n \in 0 .. Len(segments) :
          /\ words' \in {words} \cup (IF is_final THEN {<<>>} ELSE {})
          /\ pending' = SubSeq(segments, n + 1, Len(segments))
          /\ translated' = translated + n
          /\ partial' = AfterSync(segments, n)
  BY DEF UpdateFails
<1> PICK segments \in {pending, Append(pending, source)} :
      \E n \in 0 .. Len(segments) :
        /\ words' \in {words, <<>>}
        /\ pending' = SubSeq(segments, n + 1, Len(segments))
        /\ translated' = translated + n
        /\ partial' = AfterSync(segments, n)
  BY <1>3
<1>4. PICK n \in 0 .. Len(segments) :
        /\ words' \in {words, <<>>}
        /\ pending' = SubSeq(segments, n + 1, Len(segments))
        /\ translated' = translated + n
        /\ partial' = AfterSync(segments, n)
  OBVIOUS
<1>5. segments \in Seq(Seq(Words))
  <2>1. pending \in Seq(Seq(Words)) /\ source \in Seq(Words)
    BY <1>1, TextSessionAssumption DEF TypeOK
  <2>2. Append(pending, source) \in Seq(Seq(Words))  BY <2>1
  <2> QED  BY <2>1, <2>2
<1>6. pending' \in Seq(Seq(Words)) /\ translated' \in Nat
  <2>1. Len(segments) \in Nat /\ n \in Nat /\ translated \in Nat  BY <1>1, <1>5 DEF TypeOK
  <2>2. SubSeq(segments, n + 1, Len(segments)) \in Seq(Seq(Words))  BY <1>5, <2>1
  <2> QED  BY <1>4, <2>1, <2>2
<1>7. GoodPartial(partial')
  BY <1>1, <1>4, SyncedGood DEF TypeOK, GoodPartial
<1>8. outputs' \in [utterance_id : Nat, emitted_partial : Seq(Tokens), final_text : Seq(Tokens),
                    ok : BOOLEAN] /\ outputs'.ok = FALSE
  <2>1. /\ outputs.utterance_id \in Nat /\ outputs.emitted_partial \in Seq(Tokens)
        /\ outputs' = [utterance_id |-> outputs.utterance_id,
                       emitted_partial |-> outputs.emitted_partial, final_text |-> <<>>, ok |-> FALSE]
    BY <1>1, <1>2 DEF TypeOK
  <2> QED  BY <2>1
<1>9. TypeOK'
  <2>1. words \in Seq(Words) /\ <<>> \in Seq(Words)  BY <1>1 DEF TypeOK
  <2>2. words' \in Seq(Words)  BY <1>4, <2>1
  <2>3. /\ heard' \in [source : Seq(Words), accessible : Nat]
        /\ seed' \in Seq(Tokens) /\ intact' \in BOOLEAN /\ faults' \in Nat
    <3>1. /\ heard \in [source : Seq(Words), accessible : Nat] /\ seed \in Seq(Tokens)
          /\ faults \in Nat
      BY <1>1 DEF TypeOK
    <3>2. faults' \in Nat  BY <1>2, <3>1
    <3> QED  BY <1>2, <3>1, <3>2
  <2> QED  BY <1>6, <1>7, <1>8, <2>2, <2>3 DEF TypeOK, GoodPartial
<1> QED
  BY <1>2, <1>8, <1>9 DEF IndInv, WireFollowsAccepted, NothingPending,
    LastUpdateDrafted, Undisturbed

LEMMA StepInv == ASSUME IndInv, [Next]_vars PROVE IndInv'
<1>1. CASE PartialEmpty \/ PartialSkipped \/ PartialFastPath \/ PartialDrafted
  <2>1. \E source \in Seq(Words) : \E n \in 0 .. Len(source), accessible \in Nat : \E p :
          Rendered(source, n, accessible, p)
    BY <1>1, PartialRenders
  <2> QED  BY <2>1, RenderInv
<1>2. CASE Finalize  BY <1>2, FinalizeInv
<1>3. CASE UpdateFails  BY <1>3, FailInv
<1>4. CASE UNCHANGED vars
  BY <1>4 DEF vars, IndInv, TypeOK, WireFollowsAccepted, NothingPending,
    LastUpdateDrafted, Undisturbed
<1> QED  BY <1>1, <1>2, <1>3, <1>4 DEF Next

LEMMA Inductive == Spec => []IndInv
<1>1. Init => IndInv  BY InitInv
<1>2. IndInv /\ [Next]_vars => IndInv'  BY StepInv
<1> QED  BY <1>1, <1>2, PTL DEF Spec

-----------------------------------------------------------------------------
(* The theorems. *)

(* The session's variables keep their types, and each accepted token its alignment. *)
THEOREM TypeCorrect == Spec => []TypeOK
<1>1. IndInv => TypeOK  BY DEF IndInv
<1> QED  BY <1>1, Inductive, PTL

(* In an undisturbed utterance the wire guard of mt_server.py never holds a target back:
   what the client was shown is the accepted target. *)
THEOREM WireNeverFrozen == Spec => []WireFollowsAccepted
<1>1. IndInv => WireFollowsAccepted  BY DEF IndInv
<1> QED  BY <1>1, Inductive, PTL

(* After every answered update the draft is for the source and frontier heard last. *)
THEOREM UpdatesDrafted == Spec => []LastUpdateDrafted
<1>1. IndInv => LastUpdateDrafted  BY DEF IndInv
<1> QED  BY <1>1, Inductive, PTL

(* Within an undisturbed utterance the accepted target only grows, from the prefix the
   client resumed with. *)
THEOREM AppendOnly == Spec => AcceptedAppendOnly
<1> DEFINE A == outputs'.utterance_id = outputs.utterance_id /\ intact' =>
                  /\ IsPrefix(partial.accepted_target, partial'.accepted_target)
                  /\ IsPrefix(seed, partial'.accepted_target)
<1>1. ASSUME IndInv, [Next]_vars PROVE [A]_vars
  <2>1. CASE PartialEmpty \/ PartialSkipped \/ PartialFastPath \/ PartialDrafted
    <3>1. PICK source \in Seq(Words) : \E n \in 0 .. Len(source), accessible \in Nat : \E p :
            Rendered(source, n, accessible, p)
      BY <1>1, <2>1, PartialRenders
    <3>2. PICK n \in 0 .. Len(source), accessible \in Nat : \E p : Rendered(source, n, accessible, p)
      BY <3>1
    <3>3. PICK p : Rendered(source, n, accessible, p)  BY <3>2
    <3> SUFFICES ASSUME intact'
                 PROVE  /\ IsPrefix(partial.accepted_target, partial'.accepted_target)
                        /\ IsPrefix(seed, partial'.accepted_target)
      OBVIOUS
    <3>4. IsPrefix(partial.accepted_target, p.accepted_target) /\ partial' = p /\ seed' = seed
      BY <3>3 DEF Rendered, Render
    <3>5. IndInv'  BY <1>1, StepInv
    <3> QED  BY <3>4, <3>5 DEF IndInv, Undisturbed
  <2>2. CASE Finalize
    <3>1. FinalShows  BY <1>1, <2>2, FinalizeShows DEF IndInv
    <3> QED  BY <3>1 DEF FinalShows
  <2>3. CASE UpdateFails  BY <2>3 DEF UpdateFails
  <2> QED  BY <1>1, <2>1, <2>2, <2>3 DEF Next
<1>2. IndInv /\ [Next]_vars => [A]_vars  BY <1>1
<1> QED  BY <1>2, Inductive, PTL DEF Spec, AcceptedAppendOnly

(* The final text of an undisturbed utterance extends the partial the client was shown. *)
THEOREM FinalExtends == Spec => FinalExtendsPartial
<1> DEFINE A == outputs'.utterance_id # outputs.utterance_id /\ intact =>
                  IsPrefix(outputs.emitted_partial, outputs'.final_text)
<1>1. ASSUME IndInv, [Next]_vars PROVE [A]_vars
  <2>1. CASE PartialEmpty \/ PartialSkipped \/ PartialFastPath \/ PartialDrafted
    <3>1. PICK source \in Seq(Words) : \E n \in 0 .. Len(source), accessible \in Nat : \E p :
            Rendered(source, n, accessible, p)
      BY <1>1, <2>1, PartialRenders
    <3>2. PICK n \in 0 .. Len(source), accessible \in Nat : \E p : Rendered(source, n, accessible, p)
      BY <3>1
    <3>3. PICK p : Rendered(source, n, accessible, p)  BY <3>2
    <3>4. Render(p) /\ outputs \in [utterance_id : Nat, emitted_partial : Seq(Tokens),
                                    final_text : Seq(Tokens), ok : BOOLEAN]
      BY <1>1, <3>3 DEF Rendered, IndInv, TypeOK
    <3>5. outputs'.utterance_id = outputs.utterance_id  BY <3>4 DEF Render
    <3> QED  BY <3>5
  <2>2. CASE Finalize
    <3>1. FinalShows  BY <1>1, <2>2, FinalizeShows DEF IndInv
    <3>2. intact => outputs.emitted_partial = partial.accepted_target
      BY <1>1 DEF IndInv, WireFollowsAccepted
    <3> QED  BY <3>1, <3>2 DEF FinalShows
  <2>3. CASE UpdateFails
    <3>1. outputs' = [outputs EXCEPT !.ok = FALSE, !.final_text = <<>>]
          /\ outputs \in [utterance_id : Nat, emitted_partial : Seq(Tokens),
                           final_text : Seq(Tokens), ok : BOOLEAN]
      BY <1>1, <2>3 DEF UpdateFails, IndInv, TypeOK
    <3>2. outputs'.utterance_id = outputs.utterance_id  BY <3>1
    <3> QED  BY <3>2
  <2> QED  BY <1>1, <2>1, <2>2, <2>3 DEF Next
<1>2. IndInv /\ [Next]_vars => [A]_vars  BY <1>1
<1> QED  BY <1>2, Inductive, PTL DEF Spec, FinalExtendsPartial
=============================================================================
