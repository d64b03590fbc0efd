----------------------------- MODULE QKObserver -----------------------------
(***************************************************************************)
(* The Q/K observer: how the attention rows of a draft are captured inside *)
(* the vLLM engine and read back.  The text side is vllm_qk/observer.py,   *)
(* vllm_qk/worker.py and translate of mt/gemma_vllm_backend.py; its audio  *)
(* twin is alignment/gemma_vllm_asr_backend.py and its worker.             *)
(*                                                                         *)
(* A key or a query is represented by what it was computed from: the text  *)
(* that ends with its token.  A buffer is a function whose domain is its   *)
(* mask of written entries.  One layer stands for all: every observed      *)
(* layer sees the same forwards.  The engine is external: it prefills in   *)
(* chunks, may reuse the keys of a prefix it has seen, may feed drafts of  *)
(* a speculative model, and samples what it likes.  A text engine that     *)
(* replays CUDA graphs corrupts the capture (docs/limitations.md); the     *)
(* graphs of the audio engine are taken to capture as eager code does.     *)
(***************************************************************************)
EXTENDS Integers, SequencesExt

CONSTANTS
  Configs,         \* how the engine was loaded
  Requests,        \* the prompts a backend may send
  Words,           \* the tokens the model may generate, besides Stop
  Stop,            \* a special token that ends the generation
  WarmupPositions, \* the positions of the dummy forwards of the warm-up
  MaxDrafts,       \* mt_vllm_num_speculative_tokens
  RescueTokens     \* gemma_audio_eos_only_rescue_max_new_tokens

Kinds == {"mt", "asr"}
\* eager is the text engine's enforce_eager, rescue the audio step's EOS-only rescue.
Config ==
  [kind : Kinds, eager : BOOLEAN, rescue : BOOLEAN, prefix_caching : BOOLEAN,
   speculative : BOOLEAN, max_decode : Nat \ {0}]

\* span is where the observed keys start and how many there are: the audio of an
\* ASR prompt, which has one token at least, and all of an MT prompt.  An MT request is partial or not.
RequestType == [kind : Kinds, prompt : Seq(STRING), start : Nat, length : Nat, partial : BOOLEAN]

ASSUME QKObserverAssumption ==
  /\ Configs \subseteq Config /\ Requests \subseteq RequestType
  /\ \A r \in Requests :
       /\ r.prompt # <<>> /\ r.length > 0 /\ r.start + r.length <= Len(r.prompt)
       /\ r.kind = "mt" => r.start = 0 /\ r.length = Len(r.prompt)
  /\ WarmupPositions \subseteq Nat /\ MaxDrafts \in Nat /\ RescueTokens \in Nat \ {0}
  /\ Stop \notin Words

VARIABLES
  cfg,
  warm,          \* _observer_warm
  request,       \* the request of the current or the last pass
  rescue,        \* the pass is the EOS-only rescue
  warming,       \* the warm-up ran when the pass was prepared
  max_tokens,    \* of its sampling parameters
  prompt_length, span, \* what the observer was prepared for
  prompt_k,      \* prompt_k_buffer: offset in the span -> text of the key
  decode_q,      \* decode_q_buffer: decode step -> text of the query
  computed,      \* engine: positions of the prompt and the draft with keys
  tokens,        \* engine: the completion's token ids
  known,         \* engine: the prompt prefixes whose keys it may reuse
  cache,         \* _prompt_observer_cache: prompt without its audio -> keys
  phase,
  rows           \* the rows of the last pass: query and keys of each

observerVars == <<prompt_length, span, prompt_k, decode_q>>
engineVars == <<computed, tokens, known>>
passVars == <<request, rescue, warming, max_tokens>>
vars == <<cfg, warm, passVars, observerVars, engineVars, cache, phase, rows>>

Upto(s, n) == SubSeq(s, 1, n)
NoEntries == [i \in {} |-> <<>>]

\* The mask of a decode buffer read up to its first hole.
Written(buffer, n) == CHOOSE m \in 0 .. n : 0 .. m - 1 \subseteq DOMAIN buffer /\ m \notin DOMAIN buffer

Init ==
  /\ cfg \in Configs /\ warm = FALSE
  /\ request \in {r \in Requests : r.kind = cfg.kind}
  /\ rescue = FALSE /\ warming = FALSE /\ max_tokens = 1
  /\ prompt_length = 0 /\ span = <<0, 0>> /\ prompt_k = NoEntries /\ decode_q = NoEntries
  /\ computed = 0 /\ tokens = <<>> /\ known = {}
  /\ cache = NoEntries /\ phase = "idle" /\ rows = <<>>

-----------------------------------------------------------------------------
(* The observer.                                                           *)

\* Mutants of Cleared and Capture below.
DecodeKept == decode_q

\* prepare zeroes every buffer; what the decode buffer holds after it.
Cleared == NoEntries

OnlyChunk(old, new) == new

\* The buffer after a forward wrote the entries of new, each with its text.
Overlay(old, new) ==
  [o \in DOMAIN new \cup DOMAIN old |-> IF o \in DOMAIN new THEN new[o] ELSE old[o]]

\* The keys among positions from .. to - 1 that fall in the observed span.
KeysOf(text, from, to) ==
  [i \in {p - span[1] : p \in {q \in from .. to - 1 :
                                 /\ q < prompt_length
                                 /\ q >= span[1] /\ q < span[1] + span[2]}}
     |-> Upto(text, span[1] + i + 1)]

\* Mutant of QueriesOf.
QueriesUnbounded(text, from, to) ==
  [i \in {p - prompt_length : p \in {q \in from .. to - 1 : q >= prompt_length}}
     |-> Upto(text, prompt_length + i + 1)]

\* Their queries beyond the prompt, up to the capacity of the decode buffer.
QueriesOf(text, from, to) ==
  [i \in {p - prompt_length : p \in {q \in from .. to - 1 :
                                       /\ q >= prompt_length
                                       /\ q - prompt_length < cfg.max_decode}}
     |-> Upto(text, prompt_length + i + 1)]

\* The capture of eager code, and of the graphs that were validated.
CaptureSafe == cfg.eager \/ cfg.kind = "asr"

\* What a forward adds to the buffers: a graph may scatter padded rows over the keys.
Captured(text, from, to, padded) ==
  /\ prompt_k' = Overlay(Overlay(prompt_k, KeysOf(text, from, to)), [o \in padded |-> <<>>])
  /\ decode_q' = Overlay(decode_q, QueriesOf(text, from, to))

\* Every forward of the model runs through the observer of each layer, unless a graph
\* was compiled without it.
Capture(text, from, to) ==
  IF CaptureSafe THEN Captured(text, from, to, {})
  ELSE \/ \E padded \in SUBSET (0 .. span[2] - 1) : Captured(text, from, to, padded)
       \/ UNCHANGED <<prompt_k, decode_q>>

-----------------------------------------------------------------------------
(* A pass: prepare, generate, fetch.                                       *)

\* The warm-up that the first prepare triggers runs after the buffers were zeroed and
\* the prompt length was set: its dummy forwards are captured like any other.
WarmupEntries(from, size) ==
  IF warm THEN {} ELSE {o \in 0 .. size - 1 : from + o \in WarmupPositions}
WarmupKeys(r) == [o \in WarmupEntries(r.start, r.length) |-> <<>>]
WarmupQueries(r) == [o \in WarmupEntries(Len(r.prompt), cfg.max_decode) |-> <<>>]

\* The engine reuses keys of a prefix it knows, but computes the last position.
Reused(r) ==
  {n \in 0 .. Len(r.prompt) - 1 :
     n > 0 => cfg.prefix_caching /\ \A m \in 1 .. n : Upto(r.prompt, m) \in known}

StartPass(r, limit, again) ==
  /\ request' = r /\ rescue' = again /\ warming' = ~warm /\ max_tokens' = limit
  /\ prompt_length' = Len(r.prompt) /\ span' = <<r.start, r.length>>
  /\ prompt_k' = WarmupKeys(r) /\ decode_q' = Overlay(Cleared, WarmupQueries(r))
  /\ warm' = TRUE
  /\ computed' \in Reused(r) /\ tokens' = <<>>
  /\ phase' = "prefill" /\ rows' = <<>>
  /\ UNCHANGED <<cfg, known, cache>>

\* translate, or _run_alignatt_inference with its primary pass.
Prepare(r, limit) ==
  /\ phase = "idle" /\ r.kind = cfg.kind /\ limit <= cfg.max_decode
  /\ StartPass(r, limit, FALSE)

\* What generation keeps of a text: up to its stop token or its limit.
Ends(s, i) == s[i] = Stop \/ i = max_tokens
Kept(s) ==
  IF \E i \in DOMAIN s : Ends(s, i)
    THEN Upto(s, CHOOSE i \in DOMAIN s : Ends(s, i) /\ \A j \in 1 .. i - 1 : ~Ends(s, j))
    ELSE s

\* The rescue's logit bias keeps the special tokens out.
Samples == IF rescue THEN Words ELSE Words \cup {Stop}

PromptPrefixes == UNION {{Upto(r.prompt, n) : n \in 1 .. Len(r.prompt)} : r \in Requests}

Generate(more) ==
  /\ tokens' = Kept(tokens \o more)
  /\ phase' = IF \E i \in DOMAIN tokens' : Ends(tokens', i) THEN "finished" ELSE "decode"
  /\ known' = IF cfg.prefix_caching
                THEN known \cup {t \in PromptPrefixes :
                                   /\ Len(t) < Len(request.prompt) + Len(tokens')
                                   /\ IsPrefix(t, request.prompt \o tokens')}
                ELSE known

Prefill(to) ==
  /\ phase = "prefill" /\ to > computed /\ to <= Len(request.prompt)
  /\ Capture(request.prompt, computed, to)
  /\ computed' = to
  /\ IF to < Len(request.prompt) THEN UNCHANGED <<tokens, known, phase>>
     ELSE \E t \in Samples : Generate(<<t>>)
  /\ UNCHANGED <<cfg, warm, passVars, prompt_length, span, cache, rows>>

\* The last sampled token is fed, with the drafts; the model keeps some and adds one.
Decode(drafts) ==
  /\ phase = "decode" /\ (drafts = <<>> \/ cfg.speculative)
  /\ LET text == request.prompt \o tokens \o drafts IN Capture(text, computed, Len(text))
  /\ \E n \in 0 .. Len(drafts), t \in Samples : Generate(Upto(drafts, n) \o <<t>>)
  /\ computed' = Len(request.prompt) + Len(tokens') - 1
  /\ UNCHANGED <<cfg, warm, passVars, prompt_length, span, cache, rows>>

\* generate raises, or returns no completion.
GenerateFails ==
  /\ phase \in {"prefill", "decode", "finished"} /\ phase' = "idle"
  /\ UNCHANGED <<cfg, warm, passVars, observerVars, engineVars, cache, rows>>

-----------------------------------------------------------------------------
(* Reading the capture back.                                               *)

\* Special tokens at the end are trimmed; at most one can be there.
Draft == IF tokens # <<>> /\ Last(tokens) = Stop THEN Front(tokens) ELSE tokens

Missing(k) == {i \in 0 .. span[2] - 1 : i \notin DOMAIN k}

\* The backend's cache knows a prompt by its ids, where all audio has one id, and by
\* the positions of the audio.
Key(r) == [ids |-> [i \in DOMAIN r.prompt |->
                      IF i > r.start /\ i <= r.start + r.length THEN "audio" ELSE r.prompt[i]],
           start |-> r.start, length |-> r.length]

\* Mutant of Restored.
NotRestored == prompt_k

\* Keys the engine did not compute in this pass are restored from the cache.
Restored ==
  IF cfg.kind = "asr" /\ Missing(prompt_k) # {} /\ Key(request) \in DOMAIN cache
    THEN cache[Key(request)] ELSE prompt_k

\* Without every key there are no rows; the rows kept are those of the trimmed draft.
RowsOf(k) ==
  LET n == Written(decode_q, cfg.max_decode)
  IN  IF Missing(k) # {} \/ span[2] = 0 THEN <<>>
      ELSE [i \in 1 .. (IF n < Len(Draft) THEN n ELSE Len(Draft)) |-> [q |-> decode_q[i - 1], k |-> k]]

Store(k) ==
  cache' = IF Missing(k) # {} THEN cache
           ELSE [key \in {Key(request)} \cup DOMAIN cache |-> IF key = Key(request) THEN k ELSE cache[key]]

\* translate fetches only for a partial translation under the alignatt policy.
FetchText ==
  /\ phase = "finished" /\ cfg.kind = "mt" /\ phase' = "idle"
  /\ rows' = IF request.partial THEN RowsOf(prompt_k) ELSE <<>>
  /\ UNCHANGED <<cfg, warm, passVars, observerVars, engineVars, cache>>

\* A pass that only said Stop is run again without its special tokens.
Rescue ==
  /\ phase = "eos_only" /\ warm
  /\ StartPass(request, IF RescueTokens < max_tokens THEN RescueTokens ELSE max_tokens, TRUE)

\* run_pass after generate: the keys are restored, stored and turned into rows.  An
\* empty completion is an ordinary empty step, unless the rescue is enabled.  A rescue
\* may be rejected.
FetchAudio ==
  /\ phase = "finished" /\ cfg.kind = "asr"
  /\ Store(Restored)
  /\ \/ /\ Draft = <<>> /\ rows' = <<>>
        /\ phase' = IF cfg.rescue /\ ~rescue THEN "eos_only" ELSE "idle"
     \/ /\ Draft # <<>> /\ RowsOf(Restored) # <<>>
        /\ rows' = RowsOf(Restored) /\ phase' = "idle"
     \/ /\ Draft # <<>> /\ rescue
        /\ rows' = <<>> /\ phase' = "idle"
     \/ /\ Draft # <<>> /\ ~rescue /\ RowsOf(Restored) = <<>>
        /\ rows' = <<>> /\ phase' = "raised"
  /\ UNCHANGED <<cfg, warm, passVars, observerVars, engineVars>>

\* The RuntimeError of a pass without rows reaches the caller; the next request
\* prepares anew.
Raised ==
  /\ phase = "raised" /\ phase' = "idle"
  /\ UNCHANGED <<cfg, warm, passVars, observerVars, engineVars, cache, rows>>

Drafts == UNION {[1 .. n -> Words \cup {Stop}] : n \in 0 .. MaxDrafts}

Next ==
  \/ \E r \in Requests, limit \in 1 .. cfg.max_decode : Prepare(r, limit)
  \/ \E to \in 1 .. Len(request.prompt) : Prefill(to)
  \/ \E drafts \in Drafts : Decode(drafts)
  \/ GenerateFails \/ FetchText \/ FetchAudio \/ Rescue \/ Raised

Spec == Init /\ [][Next]_vars

-----------------------------------------------------------------------------
(* Properties.                                                             *)

\* The buffers hold texts at offsets within their capacity, and rows exist only
\* between two passes.
TypeOK ==
  /\ cfg \in Configs /\ warm \in BOOLEAN /\ rescue \in BOOLEAN /\ warming \in BOOLEAN
  /\ request \in Requests /\ request.kind = cfg.kind /\ max_tokens \in 1 .. cfg.max_decode
  /\ DOMAIN prompt_k \subseteq 0 .. span[2] - 1
  /\ DOMAIN decode_q \subseteq 0 .. cfg.max_decode - 1
  /\ computed \in 0 .. Len(request.prompt) + max_tokens
  /\ Len(tokens) <= max_tokens /\ known \subseteq PromptPrefixes
  /\ phase \in {"idle", "prefill", "decode", "finished", "eos_only", "raised"}
  /\ rows # <<>> => phase = "idle"

KeyOf(r, i) == Upto(r.prompt, r.start + i + 1)

\* Every row a policy reads is the query of its own token over the keys of its own
\* prompt: nothing of an earlier request, of the warm-up or of a rejected draft is in
\* it, whatever chunks the engine prefilled in, when the capture is safe.  Two exceptions:
\* the last token of a draft cut at its limit was never fed back, and may carry the query
\* of a rejected draft token, or of the warm-up in the pass that triggered it; and keys
\* restored from the ASR cache are those of a prompt with the same ids, whose audio may
\* be another.
RowsOfRequest ==
  CaptureSafe => \A i \in DOMAIN rows :
    /\ \/ rows[i].q = Upto(request.prompt \o tokens, prompt_length + i)
       \/ (cfg.speculative \/ warming) /\ i = max_tokens /\ Last(tokens) # Stop
    /\ \E r \in Requests :
         /\ r = request \/ (cfg.kind = "asr" /\ cfg.prefix_caching /\ Key(r) = Key(request))
         /\ \A k \in 0 .. span[2] - 1 : rows[i].k[k] = KeyOf(r, k)

\* A pass that finished with a safe capture has a row for every token that was fed back,
\* all of a draft that a stop token ended and all but the last token of one cut at its
\* limit, unless the engine reused keys no cache of the backend can restore.
RowsComplete ==
  CaptureSafe /\ phase = "finished" /\ (~cfg.prefix_caching \/ Key(request) \in DOMAIN cache)
    => Len(RowsOf(Restored)) >= Len(tokens) - 1
=====
