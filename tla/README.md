# AlignAtt4LLM: TLA+ models

Models of the state-keeping core of AlignAtt4LLM, a simultaneous translation
system: speech is transcribed by an AlignAtt-decoded ASR model, the transcript is
translated by an LLM whose attention decides how much of each draft may be shown,
and the target text only ever grows. Paths below are relative to
`src/src/alignatt4llm/`.

## 1. Inventory

| component | state | operations | talks to |
|---|---|---|---|
| **MT server** (`mt_server.py`: `serve_mt`, `handle_connection`, `UpdateMailbox`, `TextMTEngine.run_serialized`) | the slot counter; per connection the mailbox (`_finals`, `_latest_partial`, `_event`, `closed`), the reader and consumer coroutines; the executor's queue | accept or refuse a connection, read init/update/junk, put, get, close, submit, respond | the client over a websocket; the session on the executor thread |
| **Text session** (`mt_server.py`: `TextMTSession`, `process_update_sync`; `runtime.py`: `TranslationUnitManager`) | the open utterance's words and frontier, `PartialTranslationState`, `utt_sources`, `utt_translations`, the wire's last partial | ingest an update, finalize, sync committed translations, skip / fast-path / draft a partial, guard the wire | the MT backend, through the bundle |
| **Model bundle** (`TextMTEngine._ensure_bundle`, `run_serialized_sync`; `LoadedModelBundle.ensure_mt_backend`; `load`, `refresh_alignatt_artifacts` of `mt/gemma_vllm_backend.py`) | the bundle's config, the backend with its heads, policy and worker observer, the recorded fingerprint and heads path | first load, swap of the config, rebuild, artifact refresh | every session, on the executor |
| **AlignAtt stream** (`alignment/gemma_alignatt_stream.py`) | `committed_tokens` with absolute frame anchors | `step` on growing audio, `reset` | the ASR backend; the cascade session that drives it |
| **Cascade session** (`runtime.py`: `CascadeSession`) | audio buffer, live ASR tail, committed transcript and its timestamps, emitted target | process a chunk, commit at punctuation, cut the buffer, finalize | stream, translation units, emission |
| **Acceptance policy** (`mt/base.py`) | per-request source provenance, target alignment, stop reason | accept the longest prefix of a draft before the first inaccessible source word | the Q/K observer |
| **Source frontier** (`source_frontier.py`, `source_surface.py`, `source_text.py`) | previous source text | accessible unit count, inaccessible tail, common-prefix caps | translation units |
| **Q/K observer** (`vllm_qk/`) | one active request, captured rows, step budget | prepare, capture per forward pass, collect | the vLLM worker |
| **Emission** (`emission.py`, `incremental_output.py`, `text_surface.py`) | previously emitted units | freeze a major rewrite, diff an update | cascade session, SimulStream |
| **SimulStream processor** (`simulstream_processor.py`) | class-level bundle, one session | load, chunk, end of stream, clear | SimulStream server |
| **Other**: Qwen forced-alignment path, MT subclasses and prompts, batch driver, presets, artifacts, paper context, attention trace | none that interacts | pure input and output, or sequential | |

What is hard, and where:

* *concurrency*: reader, consumer and executor thread of every connection; one
  engine for all sessions; `new_session` on the event loop while a call runs;
* *ordering*: finals overtake partials in the mailbox; a server-side rollover
  meets updates already in flight; the wire may not take back text;
* *partial failure*: an MT call that raises between two state changes; a model load
  or refresh that raises halfway;
* *stale state*: cached drafts, alignments and configs used after what they were
  made from has changed;
* *boundaries*: the sliding audio window, the hold-back band, rewinding attention.

`PROJECT.json` lists the hazards one by one at their lines, with the property
that would catch each, or why none does yet.

What makes each component correct: the server loses, repeats and reorders no final,
never lets a partial undo a newer one, answers each client about its own utterance,
keeps its slots; the session's accepted target is append-only and the wire follows
it; a call runs with its own session's model configuration; the stream's anchors are
sorted, behind the audio, and its forced prefix is the end of what was committed.

## 2. Modules

| module | models | about |
|---|---|---|
| `MTServer` | the server and its connections | one action per run of a coroutine between two awaits, or per call on the executor |
| `MTServerStream` (extends `MTServer`) | the same server and clients that never stop sending | one more action, of the client |
| `UpdateService` | what the server promises | abstract; `MTServer` implements it |
| `TextSession` | one session's updates | one action per path through `process_update_sync` |
| `ModelBundle` | the shared backend | one action per swap, rebuild, reuse, and per place where they raise |
| `AlignAttStream` | one ASR stream | one action per outcome of `step`, and `reset` |
| `AudioCascade` (extends `SourceFrontier`) | one audio session, from chunks to output | one action per transcription, rendering, chunk and end of stream |
| `SourceFrontier` | source texts | operators: punctuation boundary, common-prefix caps, timestamp frontier |
| `AcceptancePolicy` | how much of one draft is accepted | one action per token of the walk, and per stage of the trims |
| `QKObserver` | the passes of the observed engine | one action per call of prepare and fetch and per forward |
| `MTServer_proofs`, `TextSession_proofs`, `ModelBundle_proofs`, `AlignAttStream_proofs`, `AudioCascade_proofs`, `AcceptancePolicy_proofs`, `QKObserver_proofs` | the module of that name | theorems |
| `DataLemmas` | | lemmas about numbers and sequences that the proofs share |
| `MC*` | | constants for the model checker |

How they fit together: `MTServer` treats a session as the texts it translates;
`TextSession` opens that session up and takes any prefix of a draft as accepted;
`AcceptancePolicy` says which prefix; `QKObserver` gives the rows the policy reads and
bounds how many tokens of a draft have none (`MaxUnseen`). `AudioCascade` is the other
client of the translation units: its stream commits what `AlignAttStream` may commit and
its translations grow as `TextSession!AcceptedAppendOnly` says. `ModelBundle` is what
all sessions share.

**MTServer.** A client has an `utt` and `words`, which stand for the text of its open
utterance; the server never looks at these except through the update it processes. A
session's text is likewise the *set of client utterances it translates*: that is what
the properties tell apart. `wire` and `replies` are the two directions of the
websocket. `Connect`/`ReaderJoins` are `serve_mt`'s handler around
`handle_connection`; `Read*` the loop of the reader and `Leave` its `finally`;
`ConsumerGets` is one turn of `UpdateMailbox.get`, which may wait and be woken;
`Work*` run on the executor in the order of `jobs`. `init_ok` is sent across an
await, so `InitSent` is a step of its own and the client may leave in between. The
client side follows the protocol document: updates after `init_ok`, committed words
that grow, the next utterance after a final or an announced rollover, and it may
pipeline, send junk or leave at any time. A failing final leaves its segment, or fails
before there is one (a malformed clock, a backend that cannot be loaded).
`MTServerStream!SendMore` adds partials without end after the numbered frames, so that
fairness is asked of the server and not given by clients that fall silent.

**TextSession.** Source texts are sequences of words, the target a sequence of tokens.
The MT engine is external: any draft, any alignment of each token with a word or with
none, any accepted prefix, and an encoding that may or may not be prefix-preserving
(`retokenized`). `decode_candidate_text` removes the longest repetition of the prefill
from the continuation, as `strip_repeated_accepted_prefix` does, unless it is too short
to count (`Brief`: fewer than four content characters, two of CJK text). A draft may run
past its alignment (`Unread`): the fast path ends there. A failing final may leave its
segment or none. The loop of `sync_committed_translations` is one step: it translates all
that is pending or raises. `aligned`, `heard`, `seed` and `intact` are history variables. Public emission units are not represented:
the fast path may stop at any cut but the whole draft.

**ModelBundle.** A config is a fingerprint, a heads path and the knobs. `backend`
records what the backend, its policy and the worker's observer hold. The calls are one
at a time (`MTServer!OneCallPerSession` and the one-worker executor), `NewSession`
interleaves with them. `torn` remembers that a failure left the backend half assigned.
Only the fingerprints in `Validating` can reject the heads of a refresh: MiLMMT's and Qwen's
backends validate them, Gemma's does not.

**AlignAttStream.** A token is its absolute anchor; audio is counted in samples. The
backend may generate any number of tokens, with any argmax from -1 to the content
length, for any content length up to the window's. `StepSkipped` covers the over-budget, empty-generation
and empty-content returns; `Hear` is the head of `step` shared by all of them. The
monotone projection is stated as the *least majorant* the code's comment promises,
rather than by its loop.

**AudioCascade.** Audio is counted in slots; the aligner ends the words of a hypothesis in
order, several of them in one slot if it likes, and `MaxWords` bounds a hypothesis. A word is followed by
nothing, by a sentence end, or is a number with a fraction, since the punctuation commit
confuses the point of "3.5" with a sentence end. ASR, forced aligner and MT are external
and may answer anything within the audio they are given: the aligner may also find fewer
words than the text has, end beyond the audio (`NoResult`), or leave no word before a cut
number (`TranscribeFails`, an `IndexError` in `find_end_time`). `Receive`, `FlushBuffer`
and `EndOfStream` are the chunk buffer of `incremental_output.py`; `StepDone` and
`NothingToRender` go on where `process_audio_chunk` and `finalize_stream` return. `spoken`
and `dropped` are history variables. One session: the switch `CASCADE_DISABLE_EOS_FLUSH`
is off. `source_bounded_*` prefill is never called on this path and left out. The
stream's anchors are taken in order, as `AlignAttStream_proofs!AnchorsSorted` shows of
`frontier_flush`, the default of `asr_alignatt_commit_policy`.

**AcceptancePolicy.** The draft is chosen token by token as the walk reads it: a token is
the source position its heads agree on, the mass on accessible and inaccessible source,
whether it opens a unit, and whether its row is finite (one bit for the fields that
`mt/base.py:969` looks at: one softmax makes a row not a number as a whole). The optional per-token mass and
agreement gates are one bit (`weak`): they stop the walk for reasons of their own, and no
property depends on which. Means of masses (`StopAtUnit`, `ProvenanceTrim`) are
nondeterministic. `finalize_partial` is `TrimBoundary`, the unit loop of the regression
trim (`UnitAdvances`, `UnitRegresses`, `RegressionTrimmed`) and `Accept`, in the code's order.
`kept` is the candidates the regression trim is given, `upto` how far it has come and
then what it leaves of them.
Targets written without spaces (character units) are left out, so is the branch for a
token that closes a unit, which only they take.

**QKObserver.** A key or query stands for the text that ends with its token, so that a
row of the wrong request, of a rejected draft or of the warm-up can be told from the right
one. The engine may prefill in chunks of any size, reuse keys of known prefixes, accept
any number of speculative tokens, stop or fail at any point. One layer stands for all.
The warm-up runs after the buffers are zeroed and the prompt length is set, and its dummy
forwards leave keys and queries like any other (`WarmupKeys`, `WarmupQueries`).

An MT engine is eager, the default, or replays CUDA graphs. Under graphs a forward may not be
captured at all, or padded rows may overwrite any of the prompt's keys, as
`docs/limitations.md` reports; `RowsOfRequest` and `RowsComplete` claim nothing then
(`CaptureSafe`). The audio engine runs with graphs by default, on
what `runtime.py:412` calls a validated seam; it is taken to capture what it computes.

Text and audio observers are one module: the audio one has a span inside the prompt, a
cache of keys and the rescue of a pass that only said end-of-stream. The rescue is off by
default (`gemma_audio_eos_only_rescue_enabled`), and such a pass then returns an empty
step; one engine of the run has it on.
The audio backend's cache is keyed by token ids, which do not tell clips apart: with
prefix caching, off by default, the restored keys may be another clip's, and
`RowsOfRequest` says so.

## 3. Runs

| run | bounds | shows |
|---|---|---|
| `server_mailbox` | 1 connection, 5 frames, 3 utterances of 2 words, rollover above 1 word, 1 failing call | `FinalsSticky`, `LatestPartialWins`, `NoLostWakeup`; for clients that wait for replies, `OrderlyPartials`, `OrderlyFinals`, `OneSegmentPerUtterance`; `OneCallPerSession`; the refinement `ImplementsService` |
| `server_sessions` | 3 connections, 2 slots, 2 frames each, 1 failing call | `SlotAccounting` |
| `server_fairness` | 1 connection, 4 frames (init and three updates, two of them finals at most) and then partials without end, 1 failing call | `FinalsProcessed`, `SlotReleased` |
| `session_partials` | 1 word, 2 tokens, drafts of 2, accepted target up to 2 before a partial | `AcceptedAppendOnly`, `FinalExtendsPartial` |
| `session_updates` | texts over 2 words, 1 token, drafts of 1, 2 utterances, 2 failing calls | `WireFollowsAccepted`, `LastUpdateDrafted` |
| `bundle_swap` | 3 sessions, 2 fingerprints, 2 directions, 2 failures | `RunsOwnConfig`, `PolicyOfDirection` |
| `stream_steps` | 2 samples per frame, window 5, threshold 1, budget 6, 9 samples in chunks of 0 to 3, up to 2 tokens a step, both policies | `SortedAnchors`, `PrefixWithoutHole`, `AnchorsBehindHead`, `NeverRefed` |
| `policy_walk` | 18 configurations, 4 requests, drafts of up to 4 tokens of 9 kinds, 1 token without a row | `WholeUnits`, `FrontierRecovered`, `CorruptWithheld`, `MonotoneUnits`, `RegressionRecovered` |
| `cascade` | 4 configurations over both ASR paths, 3 slots of audio in chunks of 1 or 2, hypotheses of up to 2 words, 2 target words | `SegmentsCoverAudio`, `FlushedAtEnd`, `ShownIsTranslation`, `OpenWordsStayOpen` |
| `observer` | 6 engines, 6 prompts of 2 to 4 tokens, 4 decode slots, 2 speculative tokens | `RowsOfRequest`, `RowsComplete` |
| `server_dropped`, `bundle_knobs` | small | two disagreements between code and documentation (section 6) |

Why the bounds are enough. Mailbox hazards need a call in flight, something waiting,
and something put on top: init and four more frames give two finals and two partials
in all orders, and two calls of one session. The slot counter needs one connection more than slots.
Starvation needs a final, another one behind it, and partials that never stop. A fast-path
cut needs a draft of two tokens, one of which is beyond the frontier; a source
revision needs two words. A bundle needs two directions and a third session that
returns to the first. The window of five samples over frames of two starts at a
rounded-up frame and slides four times; two tokens a step suffice for a rewind within
a step and one across steps. Four draft tokens make two units of two tokens, or a unit
that advances, two that regress and one that recovers: both trims of the regression gate
run with a patience of one and of two. Each
configuration turns on one mechanism of the policy, one of them several at once. A commit in the
middle of a hypothesis needs a word at the boundary and one after it, and a second
utterance needs audio left: two words and three slots; the
vocabulary has a word that grows into another, and one that ends a sentence in one
hypothesis and is cut as a number in the next. An observer that mixes requests needs two
prompts that share a prefix, in chunks, and rejected drafts past the end; the warm-up
writes inside prompts, at their end and beyond. What a bound
hides is stated for all values where a theorem covers it (section 5).

Deadlock checking is off where clients may stop for good (server, session) and where
the stream's audio ends.

**Fairness** (`Fairness`, with the clients of `MTServerStream` in `StreamSpec`). Weak fairness
of the reader, the consumer and the executor
of each connection: the asyncio loop runs each ready task, and the executor is a FIFO
with one worker whose calls return or raise. Nothing is assumed of clients: they may
stop at any point or send partials for ever, and `FinalsProcessed` and `SlotReleased` hold
nevertheless. A client
that has gone is seen by the reader since `async for raw in websocket` ends; TCP
timeouts before that are the library's. Fairness *between* sessions is not checked: the
executor's FIFO queue is part of the model, and with it a call waits for at most one
call of every other session (`OneCallPerSession`). The other modules have no liveness properties:
their code is sequential and does what it is called for.

## 4. Refinement

`UpdateService` is the server without its machinery: a bounded number of connections,
per connection a queue of finals processed once and in order, a newest partial that may
be processed or overtaken by a newer one, one update in process at a time, answered (or
lost with its connection) before the next. `MTServer!Service` maps it: `serving` is
the set of handled connections, `accepted` what the reader put, `processed` what the executor
finished, `answering` the update whose response the consumer is sending. The newest
partial offered (`Offered`) waits in the mailbox, or is the call in flight, or is the last
one processed. `server_mailbox` checks `ImplementsService` and `MTServer_proofs` proves
it (`ServiceImplemented`). Not included in the service are utterances and texts, which `OrderlyPartials` and
`OneSegmentPerUtterance` are about, and liveness, which `server_fairness` checks.

## 5. Proofs

Every invariant, action property and refinement that a run checks is proved, for every
value of the constants; only the two liveness properties are model-checked alone. Each
proof is an inductive invariant, its initial case, one lemma per action, and the
properties as consequences.

**`MTServer_proofs`**: for every finite set of connections, every capacity, rollover limit
and bound. There are three invariants, each inductive given the ones before.

*The server's parts* (`TypeCorrect`, `StickyFinals`, `NoWakeupLost`, `SlotsCounted`,
`OneCall`). A conjunction of one part per piece of state, so that a handler is
argued only for the parts it touches (`Frame` gives the others):

* `ClientTyped`, `MailboxTyped`, `ConsumerTyped`, `SessionTyped` are the types, and what
  types do not say: the mailbox keeps finals and partials apart, a consumer that has
  submitted or is sending has an update (and a response) in hand, and a session has no
  more translations than source segments, which makes the calls of one synchronisation
  well defined (`SyncTyped`).
* `Slots` adds to `SlotAccounting` that a connection which was not let in has no reader,
  without which letting it in would not add to `Handled`.
* `NotYetConsuming`: while `init_ok` is being sent there is no consumer, so creating it
  strands no call and no final in hand.
* `Queued`, `FinalsSticky` and `NoLostWakeup` themselves. A final moves from the mailbox
  (`PutInv`) to the consumer's hand (`TakeFinalInv`) to the history of the executor
  (`RespondInv`), and the equation of `FinalsSticky` is associativity of concatenation
  at each of the three.

*The order of updates* (`PartialsLatest`). `LatestPartialWins` alone is not inductive, since
it does not see what is still on the wire. `OrderInv` adds that no number the server has
seen is above the client's own counter, that the numbers on the wire increase and are
above every partial the server was given (`WireOrder`), and that a consumer which has not
ended belongs to a reader that reads or drains (`Awake`), so that a new consumer never
meets an old partial.

*The client that waits* (`PartialsOfUtterance`, `FinalsOfUtterance`, `OneSegment`). The
properties speak of a reply that has arrived; the invariant has to follow the update there.
`Turn` says that the one update in flight is in exactly one place: on the wire (`Sent`), in
the mailbox (`Waits`), on the executor (`Works`), its response with the consumer (`Answering`)
or on the way back (`Answered`), or gone with its client (`Lost`), and that the client's and the
session's utterance counters differ there by just the finals and rollovers the client has
not been told of. `Segmented` says of the session that its source segments are of
different, earlier utterances. `Fresh` covers the time before `init_ok`.

*Implementing the service* (`ServiceImplemented`): each action of a client, a reader, a
consumer or the executor maps to one action of `UpdateService` or to a stutter
(`ClientService`, `ReaderService`, `ConsumerService`, `ExecutorService`). A put is an
`AcceptFinal` or `AcceptPartial`, and the order invariant gives that the partial is newer; the
end of a call is a `ProcessFinal` or `ProcessPartial`, and `FinalsSticky` gives that it is the
next final; a response sent, or lost, is an `Answer`; the reader's return frees the slot
only after the consumer has ended, which is what `Close` asks.

**`TextSession_proofs`**: for every set of texts, tokens and seeds, every draft, alignment and
acceptance. `TypeCorrect`, `WireNeverFrozen`, `UpdatesDrafted`, and the
action properties `AppendOnly` and `FinalExtends`. The two invariants and typing are
inductive together with `NothingPending` and `Undisturbed`: an answered update leaves no
segment to translate, an utterance that no failure or rollover disturbed
was answered without an error, and its accepted target
still starts with the prefix it was resumed from. Typing includes that a partial's
alignment has one entry for each token of its continuation (`GoodPartial`). `UpdateAnswers` says of every path of a
partial update (skip, fast path, draft) that it leaves the partial of the text just
heard, extends the accepted target and leaves the same partial good; `DecodeExtends` is why the
text shown extends the prefix although repetitions are stripped; `RenderInv` takes the wire
guard from there.

**`AudioCascade_proofs`**: for every vocabulary, configuration and speech, and every answer of
ASR, aligner and MT. `TypeCorrect`, `NoWordLost`, `AllFlushed`, `NothingHeldBack`, and the
action property `FrontierKept`. The invariant adds to typing and the properties:

* `CutsTyped`: texts and cuts go together, the cuts are in order, and there is always a
  segment; `StreamTyped`: what the stream has committed beyond the last cut lies in order
  within the live audio, so a commit can cut text and audio at the same word, or at the
  last of the words that end where it ends (`CutAtWord`);
* `Pending`: at most one segment waits for its translation, and only while a step renders
  it; `Silent`: between steps no ASR result is left unrendered; `Ending`: how `eos`, `final`,
  the buffer and the phases go together. These make `FlushedAtEnd` and `ShownIsTranslation`
  inductive: a step that returns early leaves nothing to translate.

`ShownIsTranslation` rests on one fact about the gate: it lets a text through whenever the
text extends what was emitted (`EmittedIfGrown`), and the session's text is the
concatenation of translations of which only the last may still grow
(`DataLemmas!FlattenAppend`).

`FrontierKept` compares a frontier with the next one. Words that were open had ended behind
the inaccessible audio, of which there is only less as the stream goes on
(`OpenHaveEnded`); and a prefix that the last two hypotheses shared is shared again by the
newer of them and one that repeats it (`StableRepeated`). So the words repeated are open by
the time stamps as by the cap (`RepeatedStayOpen`).

**`AcceptancePolicy_proofs`**: for every configuration, request and draft. `TypeCorrect`, `UnitsWhole`,
`CorruptNeverShown`, `FrontierAlwaysRecovered`, `UnitsMonotone`, `RegressionAlwaysRecovered`.
The properties speak of the end of a pipeline of trims, each of which shortens the
result of the one before; so each is carried as a statement about *any* length that
may still be the result: it is a unit boundary (`Boundary`), has no corrupt row before it
(`FiniteUpTo`), the draft came inside the frontier again at or after it (`InsideFrom`), and
a unit before it that fell behind was one of fewer than the patience, or the draft caught
up after it (`Progressing`, by `Spared`). `WalkInv` is the
part before the trims: what the walk has read is finite, and the stop at an
unsafe token keeps the tokens before it. `RegressInv` and `SuffixInv` are those of the unit
loop: the trusted positions are those of the units passed, and none of these is ahead of them
(`TrustedOf`), so the reference the code takes from them is the highest position
(`ReferenceHighest`) and its gate says just whether a unit is behind (`GateBehind`); the
streak counts the units behind since the last one that was not (`Between`), which bounds
the run any of them belongs to (`RunWithin`) and makes the suffix to drop start where the run does.

**`QKObserver_proofs`**: for every engine, set of prompts and draft. `TypeCorrect`,
`RowsOfOwnRequest`, `RowsCaptured`: of eager text engines and of audio engines, the others
capture what they like (`SafeCapture`). The invariant says of a pass that the observer is prepared
for its request (`SpanPrepared`), what the engine has computed (`Generated`), that a key the
buffer holds behind the computed part is the request's, and is there unless the engine
could reuse it (`KeysCaptured`), and that the decode buffer holds the query of every token fed
back, whatever rejected drafts or the warm-up left behind them (`QueriesCaptured`). `WarmFirst` is why
the keys the warm-up wrote survive nowhere: nothing can be reused before it, so the
prefill overwrites them. The queries it wrote are overwritten as tokens are fed back, all but that
of a last token cut at the limit, which is the exception `RowsOfRequest` names. `CacheSound` is why keys restored from the backend's cache are
those of a prompt with the same ids.

**`ModelBundle_proofs`**: for every set of sessions, fingerprints, directions and knobs.
`TypeCorrect`, `OwnConfig`, `OwnDirection`. The invariant adds to typing that
there is no call before the first session, that between failures the backend is
loaded, of the recorded fingerprint, and its heads and policy are those of the recorded
path (`Whole`), and that a call finds the bundle pointed at its own session
(`CallOwnsBundle`, `RunningBound`).

**`AlignAttStream_proofs`**: for every frame size, window, threshold, budget and commit policy.
`TypeCorrect`, `AnchorsSorted`, `AnchorsBehind`, `ForcedIsSuffix`, and the action property
`FallenStayOut`. The invariant is `TypeOK /\ SortedAnchors /\ AnchorsBehindHead /\ Sides`.
`SortedAnchors` alone is not inductive: the next step starts from the frontier of the
*last retained* token, and only sorted anchors make that the greatest (`FrontierIsLast`); when
nothing is retained, every anchor lies before the window. `AnchorsBehindHead` is needed
for the walk, which may commit at the frontier itself. `Sides` puts the forced and the
fallen tokens on their side of a window start that never moves back (`WinStartMonotone`);
with sorted anchors that leaves no hole. `WalkAnchors` says what one commit walk
appends, from the bounds of the monotone path (`PathBounds`).

**`DataLemmas`** holds what several of them need: least and greatest members of sets of
numbers, the n-th member (`NthNumber`), prefixes, and flattening, which is a recursive
function and is reasoned about by a least counterexample.

**Assumptions.** All are about constants, and TLC evaluates each in a passing run.

| assumption | says |
|---|---|
| `MTServerAssumption`, `NoneAssumption` | finitely many connections, natural bounds; `NoUpdate` is not an update |
| `TextSessionAssumption` | source texts are word sequences, the empty one among them; seeds are token sequences; `NoUnit` and `Unread` are not numbers; natural bounds |
| `ModelBundleAssumption` | `None` is not a configuration; a natural bound |
| `AlignAttStreamAssumption` | positive frame size, natural thresholds and bounds |
| `AudioCascadeAssumption`, `SourceFrontierAssumption` | configurations and tokens are of their type; which word grows into which is a relation on words; natural bounds |
| `AcceptancePolicyAssumption` | configurations, requests and tokens are of their type; a final request has a source map: being final is a field of it |
| `QKObserverAssumption` | prompts are not empty; the observed span is not empty and inside the prompt (the audio span is found in it); warm-up positions, draft and rescue limits are natural; `Stop` is not a word |

**What the proofs changed in the models.**

* `LastUpdateDrafted` was claimed too widely: it now speaks of updates that brought a source
  text. A final leaves a partial of which nothing was accepted in place (`AfterSync`), and then
  it is the closed utterance's. `session_updates` has two failures, so that a final and the
  update after it can both fail.
* The cases of `should_run_partial_mt_update` overlapped as `CASE` arms; they are a chain of
  `IF`, as in the code.
* `SegmentsCoverAudio` and its proof assumed that words end at different times; the aligner
  only promises that none ends before the one before it.
* `MonotoneUnits` and `RegressionRecovered` were claimed for a patience of one; the proof
  for every patience showed that what counts is the run a unit belongs to.
* `QKObserver!RowsOfRequest` needs the observed span not to be empty, which no run had shown.
* `AcceptancePolicy!UnitPositions` is stated without `SelectSeq`, which has no definition the
  prover can use.

**Only model-checked**: `FinalsProcessed` and `SlotReleased`. They need fairness and `ENABLED`,
which the prover does not handle.

## 6. Where code and documentation disagree

With a run:

1. `server_dropped`: an update answered with `processing_failed` is not dropped when it
   is a final: its source segment stays in the session.
2. `bundle_knobs`: sessions of one direction share the decoder policy's knobs, those
   of the session for which the policy was last bound.

Met while modelling, without a run:

3. `docs/mt_server_protocol.md:115` calls `committed_text` the target "for the open
   utterance"; a client that pipelines can be shown a partial of the utterance it has
   closed, since finals overtake the waiting partial (`mt_server.py:571`).
   `OrderlyPartials` is claimed of clients that wait.
4. `docs/mt_server_protocol.md:121`: `covered_source_units` is computed from the
   continuation of the last draft (`mt_server.py:406`), not from the whole accepted target.
5. `mt_server.py:312` says a change of direction needs an artifact refresh only; the
   observer in the worker keeps capturing the heads of the first load
   (`mt/gemma_vllm_backend.py:775`).
6. `runtime.py:2158`: the comment says that without word timestamps the frontier falls
   back to all but the last word; the empty list is padded with `None` and no word is
   accessible (`Ended` of a text without ends is 0).
7. `mt/gemma_vllm_backend.py:1081`: the comment says a query was captured for every
   emitted token; the last token is never fed back, so a draft that ran into its limit has one row
   fewer (`MaxUnseen`, `RowsComplete`).
8. `runtime.py:2132`: the comment says tokens the window slides past are dropped from
   `stream.committed_tokens`; they stay in that list and are only no longer fed
   (`gemma_alignatt_stream.py:190`, `InWindow`).

Behaviours the models show that no document speaks of, and that the properties make room for:

* A sentence end in one hypothesis that is the point of a number in the next is
  committed, and the number's fraction heard again with its word (`SegmentsCoverAudio`); when it is the
  first word, `find_end_time` raises (`runtime.py:834`) and the speech ends.
* A live tail that vanishes resets a partial that was shown; the append-only gate then
  holds the output until a translation extends it (`dropped`).
* A final step without an ASR result, because the aligner overshot or the stream was over
  budget, leaves its tail uncommitted.
* Under CUDA graphs the rows of an MT draft may be missing or another's; `docs/limitations.md`
  says so and eager mode is the default, so this is no disagreement.
* `inaccessible_ms` is compared with word ends counted from the utterance's start but with
  the time of the whole stream (`Accessible`): from the second utterance on it holds back less.
* `trim_unrecovered` may keep a token beyond the frontier for the sake of a token the same
  trim drops; `cut_last_x` cuts inside words; the
  source-unit cap and the provenance trim come last and do not ask again for what
  `min_emit` and the punctuation trim had established.
* A one-token ASR draft that is cut by its limit has no row and raises.
* Read in the code and not modelled: with character units, an unsafe token that completes
  a character closes a unit (`mt/base.py:902`), so the prefix that ends inside
  that character is kept whole rather than trimmed (`finalize_partial`, `:2444`).

## 7. Not modelled, and plan

Not modelled: model internals, prompt text, character-unit targets, the emission
reports and file runner, the class-level bundle of the SimulStream processor (one
configuration per process in the server), command-line tools, presets and artifacts,
paper-context extraction, the attention display, the Qwen local-agreement stream (used by
a research tool only), and `data/`, `tools/` and `docs/`. None of these keeps state
that interacts with the above.

Within the modules, finer than the models: a repetition of the prefill that differs in
punctuation is stripped as well; two different fractions of a number are one; of two words
only that one is written with the beginning of the other is known (`Grows`), not the characters
at which `source_lcp_stable_prefix_chars` cuts; the lexical test of the
append-only gate and its character diff see the same units; heads that are skipped in
silence at collection count as captured.

Next: the audio session over the real stream, with `AlignAttStream`'s anchors in place of
the order `AudioCascade` takes from it; the append-only promise of a text session as an
abstract specification that `TextSession` and the audio session both implement; the
parts of `mt/base.py` that are left out, character units first.
