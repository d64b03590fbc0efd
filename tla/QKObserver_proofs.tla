-------------------------- MODULE QKObserver_proofs --------------------------
(* Theorems about QKObserver, for every set of prompts, every way to prefill them in
   chunks and every draft that the engine samples, keeps or rejects. *)
EXTENDS QKObserver, DataLemmas

Symbols == STRING \cup Words \cup {Stop}

(* What an admissible request is. *)
LEMMA RequestProps ==
  ASSUME NEW r \in Requests
  PROVE  /\ r.kind \in Kinds /\ r.partial \in BOOLEAN /\ r.start \in Nat /\ r.length \in Nat
         /\ r.length > 0 /\ r.prompt \in Seq(STRING) /\ r.prompt \in Seq(Symbols)
         /\ Len(r.prompt) \in Nat /\ r.start + r.length <= Len(r.prompt) /\ Len(r.prompt) > 0
         /\ r.kind = "mt" => r.start = 0 /\ r.length = Len(r.prompt)
<1>1. r \in RequestType /\ r.length > 0 /\ r.start + r.length <= Len(r.prompt)
      /\ (r.kind = "mt" => r.start = 0 /\ r.length = Len(r.prompt))
  BY QKObserverAssumption
<1>2. r.kind \in Kinds /\ r.partial \in BOOLEAN /\ r.start \in Nat /\ r.length \in Nat
      /\ r.prompt \in Seq(STRING)
  BY <1>1 DEF RequestType
<1>3. r.prompt \in Seq(Symbols)  BY <1>2, SeqMonotonic DEF Symbols
<1>4. Len(r.prompt) \in Nat  BY <1>2
<1> QED  BY <1>1, <1>2, <1>3, <1>4

(* The engine's settings. *)
LEMMA ConfigProps ==
  ASSUME NEW c \in Configs
  PROVE  /\ c.kind \in Kinds /\ c.prefix_caching \in BOOLEAN /\ c.speculative \in BOOLEAN
         /\ c.max_decode \in Nat \ {0} /\ c.eager \in BOOLEAN /\ c.rescue \in BOOLEAN
BY QKObserverAssumption DEF Config

(* The first hole of a buffer is well defined. *)
LEMMA WrittenProps ==
  ASSUME NEW buffer, NEW n \in Nat, DOMAIN buffer \subseteq 0 .. n - 1
  PROVE  /\ Written(buffer, n) \in 0 .. n /\ Written(buffer, n) \notin DOMAIN buffer
         /\ \A i \in 0 .. Written(buffer, n) - 1 : i \in DOMAIN buffer
<1> DEFINE Holes == {m \in 0 .. n : m \notin DOMAIN buffer}
           First(m) == 0 .. m - 1 \subseteq DOMAIN buffer /\ m \notin DOMAIN buffer
<1>1. n \in Holes /\ Holes \subseteq Nat  OBVIOUS
<1>2. PICK m \in Holes : \A k \in Holes : m <= k
  <2> HIDE DEF Holes
  <2> QED  BY <1>1, LeastOf
<1>3. \E k \in 0 .. n : First(k)
  <2>1. ASSUME NEW i \in 0 .. m - 1 PROVE i \in DOMAIN buffer
    <3>1. i \in 0 .. n /\ ~(m <= i)  BY <1>2
    <3> QED  BY <1>2, <3>1
  <2> QED  BY <1>2, <2>1
<1> DEFINE w == CHOOSE k \in 0 .. n : First(k)
<1>4. w \in 0 .. n /\ First(w)
  <2> HIDE DEF First
  <2> QED  BY <1>3
<1>5. Written(buffer, n) = w  BY DEF Written
<1> HIDE DEF w
<1> QED  BY <1>4, <1>5

(* A sampled text is kept up to its first end. *)
LEMMA KeptProps ==
  ASSUME NEW S, NEW s \in Seq(S), NEW a \in Nat, a < Len(s), max_tokens \in Nat,
         a < max_tokens, \A i \in 1 .. a : ~Ends(s, i)
  PROVE  \E m \in a + 1 .. Len(s) :
           /\ Kept(s) = Upto(s, m) /\ m <= max_tokens
           /\ \A i \in 1 .. m - 1 : ~Ends(s, i)
           /\ ~Ends(s, m) => m = Len(s)
<1> DEFINE E == {i \in DOMAIN s : Ends(s, i)}
           First(i) == Ends(s, i) /\ \A j \in 1 .. i - 1 : ~Ends(s, j)
<1>1. Len(s) \in Nat /\ DOMAIN s = 1 .. Len(s)  OBVIOUS
<1>2. CASE E = {}
  <2>1. \A i \in 1 .. Len(s) : ~Ends(s, i)  BY <1>1, <1>2
  <2>2. Kept(s) = s  BY <1>1, <2>1 DEF Kept
  <2>3. Upto(s, Len(s)) = s  BY SubSeqFull DEF Upto
  <2>4. Len(s) <= max_tokens
    <3>1. max_tokens \notin 1 .. Len(s)  BY <2>1 DEF Ends
    <3> QED  BY <1>1, <3>1
  <2>5. Len(s) \in a + 1 .. Len(s)  BY <1>1
  <2>6. \A i \in 1 .. Len(s) - 1 : ~Ends(s, i)  BY <1>1, <2>1
  <2> QED  BY <2>2, <2>3, <2>4, <2>5, <2>6
<1>3. CASE E # {}
  <2>1. E \subseteq Nat  BY <1>1
  <2>2. PICK m \in E : \A k \in E : m <= k
    <3> HIDE DEF E
    <3> QED  BY <1>3, <2>1, LeastOf
  <2>3. m \in 1 .. Len(s) /\ Ends(s, m)  BY <1>1, <2>2
  <2>4. \A j \in 1 .. m - 1 : ~Ends(s, j)
    <3> SUFFICES ASSUME NEW j \in 1 .. m - 1 PROVE ~Ends(s, j)  OBVIOUS
    <3>1. j \in DOMAIN s /\ ~(m <= j)  BY <1>1, <2>3
    <3> QED  BY <2>2, <3>1
  <2> DEFINE f == CHOOSE i \in DOMAIN s : First(i)
  <2>5. f \in DOMAIN s /\ First(f)
    <3>1. m \in DOMAIN s /\ First(m)  BY <1>1, <2>3, <2>4
    <3> HIDE DEF First
    <3> QED  BY <3>1
  <2>6. Kept(s) = Upto(s, f)
    <3>1. \E i \in DOMAIN s : Ends(s, i)  BY <1>1, <2>3
    <3> QED  BY <3>1 DEF Kept
  <2> HIDE DEF f
  <2>7. f \in 1 .. Len(s)  BY <1>1, <2>5
  <2>8. a < f
    <3>1. f \notin 1 .. a  BY <2>5
    <3> QED  BY <2>7, <3>1
  <2>9. f <= max_tokens
    <3>1. max_tokens \notin 1 .. f - 1  BY <2>5 DEF Ends
    <3> QED  BY <2>7, <3>1
  <2>10. f \in a + 1 .. Len(s)  BY <1>1, <2>7, <2>8
  <2> QED  BY <2>5, <2>6, <2>9, <2>10
<1> QED  BY <1>2, <1>3

(* A text with the same first words keeps them. *)
LEMMA UptoPrompt ==
  ASSUME NEW S, NEW p \in Seq(S), NEW t \in Seq(S), NEW n \in 0 .. Len(p)
  PROVE  Upto(p \o t, n) = Upto(p, n)
<1>1. p \o t \in Seq(S) /\ Len(p \o t) = Len(p) + Len(t)
      /\ \A i \in 1 .. Len(p) : (p \o t)[i] = p[i]
  <2>1. Len(p) \in Nat /\ Len(t) \in Nat  OBVIOUS
  <2> QED  BY <2>1, ConcatProperties
<1>2. n \in Nat /\ n <= Len(p) /\ n <= Len(p \o t)
  <2>1. Len(p) \in Nat /\ Len(t) \in Nat  OBVIOUS
  <2> QED  BY <1>1, <2>1
<1>3. \A i \in 1 .. n : (p \o t)[i] = p[i]  BY <1>1, <1>2
<1> HIDE DEF Upto
<1> QED  BY <1>1, <1>2, <1>3, SameFirst DEF Upto

(* A draft that agrees with another on its first n tokens has the same queries for them. *)
LEMMA UptoDraft ==
  ASSUME NEW S, NEW p \in Seq(S), NEW t \in Seq(S), NEW u \in Seq(S), NEW n \in Nat,
         n <= Len(t), n <= Len(u), \A i \in 1 .. n : t[i] = u[i]
  PROVE  Upto(p \o t, Len(p) + n) = Upto(p \o u, Len(p) + n)
<1> DEFINE x == p \o t
           y == p \o u
           m == Len(p) + n
<1>1. Len(p) \in Nat /\ Len(t) \in Nat /\ Len(u) \in Nat  OBVIOUS
<1>2. x \in Seq(S) /\ Len(x) = Len(p) + Len(t)
      /\ \A i \in 1 .. Len(p) + Len(t) : x[i] = IF i <= Len(p) THEN p[i] ELSE t[i - Len(p)]
  BY ConcatProperties
<1>3. y \in Seq(S) /\ Len(y) = Len(p) + Len(u)
      /\ \A i \in 1 .. Len(p) + Len(u) : y[i] = IF i <= Len(p) THEN p[i] ELSE u[i - Len(p)]
  BY ConcatProperties
<1> HIDE DEF x, y
<1>4. m \in Nat /\ m <= Len(x) /\ m <= Len(y)  BY <1>1, <1>2, <1>3
<1>5. \A i \in 1 .. m : x[i] = y[i]
  <2> SUFFICES ASSUME NEW i \in 1 .. m PROVE x[i] = y[i]  OBVIOUS
  <2>1. i \in 1 .. Len(p) + Len(t) /\ i \in 1 .. Len(p) + Len(u)  BY <1>1
  <2>2. CASE i <= Len(p)  BY <1>2, <1>3, <2>1, <2>2
  <2>3. CASE ~(i <= Len(p))
    <3>1. i - Len(p) \in 1 .. n  BY <1>1, <2>3
    <3> QED  BY <1>2, <1>3, <2>1, <2>3, <3>1
  <2> QED  BY <2>2, <2>3
<1>6. SubSeq(x, 1, m) = SubSeq(y, 1, m)  BY <1>2, <1>3, <1>4, <1>5, SameFirst
<1> QED  BY <1>6 DEF x, y, Upto

-----------------------------------------------------------------------------
(* What a forward captures. *)

(* The entries of a buffer after a forward wrote some. *)
LEMMA OverlayProps ==
  ASSUME NEW old, NEW new
  PROVE  /\ DOMAIN Overlay(old, new) = DOMAIN new \cup DOMAIN old
         /\ \A o \in DOMAIN new : Overlay(old, new)[o] = new[o]
         /\ \A o \in DOMAIN old \ DOMAIN new : Overlay(old, new)[o] = old[o]
BY DEF Overlay

(* The keys of positions from .. to - 1, at their offsets in the span. *)
LEMMA KeysOfProps ==
  ASSUME span \in Nat \X Nat, prompt_length \in Nat, NEW text, NEW from \in Nat, NEW to \in Nat
  PROVE  /\ \A o : o \in DOMAIN KeysOf(text, from, to) <=>
              /\ o \in 0 .. span[2] - 1 /\ from <= span[1] + o
              /\ span[1] + o < to /\ span[1] + o < prompt_length
         /\ \A o \in DOMAIN KeysOf(text, from, to) :
              KeysOf(text, from, to)[o] = Upto(text, span[1] + o + 1)
<1> DEFINE a == span[1]
           l == span[2]
           P == {q \in from .. to - 1 : q < prompt_length /\ q >= span[1] /\ q < span[1] + span[2]}
           D == {p - span[1] : p \in P}
<1>1. a \in Nat /\ l \in Nat  OBVIOUS
<1>2. D = {o \in 0 .. l - 1 : from <= a + o /\ a + o < to /\ a + o < prompt_length}
  <2>1. ASSUME NEW p \in P
        PROVE  p - a \in {o \in 0 .. l - 1 : from <= a + o /\ a + o < to /\ a + o < prompt_length}
    BY <1>1
  <2>2. ASSUME NEW o \in 0 .. l - 1, from <= a + o, a + o < to, a + o < prompt_length
        PROVE  a + o \in P /\ o = (a + o) - a
    BY <1>1, <2>2
  <2> HIDE DEF P
  <2> QED  BY <1>1, <2>1, <2>2
<1>3. KeysOf(text, from, to) = [i \in D |-> Upto(text, span[1] + i + 1)]  BY DEF KeysOf
<1> HIDE DEF D
<1>4. DOMAIN KeysOf(text, from, to) = D  BY <1>3
<1> QED  BY <1>2, <1>3, <1>4

(* The queries of positions from .. to - 1, at their decode steps. *)
LEMMA QueriesOfProps ==
  ASSUME prompt_length \in Nat, cfg.max_decode \in Nat, NEW text, NEW from \in Nat, NEW to \in Nat
  PROVE  /\ \A o : o \in DOMAIN QueriesOf(text, from, to) <=>
              o \in 0 .. cfg.max_decode - 1 /\ from <= prompt_length + o /\ prompt_length + o < to
         /\ \A o \in DOMAIN QueriesOf(text, from, to) :
              QueriesOf(text, from, to)[o] = Upto(text, prompt_length + o + 1)
<1> DEFINE P == {q \in from .. to - 1 : q >= prompt_length /\ q - prompt_length < cfg.max_decode}
           D == {p - prompt_length : p \in P}
           C == {o \in 0 .. cfg.max_decode - 1 : from <= prompt_length + o /\ prompt_length + o < to}
<1>1. D = C
  <2>1. ASSUME NEW p \in P PROVE p - prompt_length \in C  OBVIOUS
  <2>2. ASSUME NEW o \in C PROVE prompt_length + o \in P /\ o = (prompt_length + o) - prompt_length
    OBVIOUS
  <2> HIDE DEF P, C
  <2> QED  BY <2>1, <2>2
<1>2. QueriesOf(text, from, to) = [i \in D |-> Upto(text, prompt_length + i + 1)]  BY DEF QueriesOf
<1> HIDE DEF D, C
<1>3. DOMAIN QueriesOf(text, from, to) = C  BY <1>1, <1>2
<1> QED  BY <1>1, <1>2, <1>3 DEF C

(* A safe capture writes the keys and the queries of its positions and nothing else. *)
LEMMA SafeCapture ==
  ASSUME CaptureSafe, NEW text, NEW from, NEW to, Capture(text, from, to)
  PROVE  LET new == KeysOf(text, from, to)
         IN  /\ DOMAIN prompt_k' = DOMAIN new \cup DOMAIN prompt_k
             /\ \A o \in DOMAIN new : prompt_k'[o] = new[o]
             /\ \A o \in DOMAIN prompt_k \ DOMAIN new : prompt_k'[o] = prompt_k[o]
             /\ decode_q' = Overlay(decode_q, QueriesOf(text, from, to))
<1> DEFINE new == KeysOf(text, from, to)
           keys == Overlay(prompt_k, new)
           none == [o \in {} |-> <<>>]
<1>1. prompt_k' = Overlay(keys, none) /\ decode_q' = Overlay(decode_q, QueriesOf(text, from, to))
  BY DEF Capture, Captured
<1>2. DOMAIN none = {}  OBVIOUS
<1> HIDE DEF none, new, keys
<1>3. DOMAIN prompt_k' = DOMAIN keys /\ \A o \in DOMAIN keys : prompt_k'[o] = keys[o]
  <2>1. /\ DOMAIN Overlay(keys, none) = DOMAIN none \cup DOMAIN keys
        /\ \A o \in DOMAIN keys \ DOMAIN none : Overlay(keys, none)[o] = keys[o]
    BY OverlayProps
  <2> QED  BY <1>1, <1>2, <2>1
<1>4. /\ DOMAIN keys = DOMAIN new \cup DOMAIN prompt_k
      /\ \A o \in DOMAIN new : keys[o] = new[o]
      /\ \A o \in DOMAIN prompt_k \ DOMAIN new : keys[o] = prompt_k[o]
  BY OverlayProps DEF keys
<1> QED  BY <1>1, <1>3, <1>4 DEF new

(* No capture writes beyond the buffers. *)
LEMMA CaptureBounds ==
  ASSUME span \in Nat \X Nat, prompt_length \in Nat, cfg.max_decode \in Nat,
         DOMAIN prompt_k \subseteq 0 .. span[2] - 1, DOMAIN decode_q \subseteq 0 .. cfg.max_decode - 1,
         NEW text, NEW from \in Nat, NEW to \in Nat, Capture(text, from, to)
  PROVE  /\ DOMAIN prompt_k' \subseteq 0 .. span[2] - 1
         /\ DOMAIN decode_q' \subseteq 0 .. cfg.max_decode - 1
<1> DEFINE new == KeysOf(text, from, to)
           queries == QueriesOf(text, from, to)
<1>1. \A o \in DOMAIN new : o \in 0 .. span[2] - 1  BY KeysOfProps
<1>2. \A o \in DOMAIN queries : o \in 0 .. cfg.max_decode - 1  BY QueriesOfProps
<1>3. CASE UNCHANGED <<prompt_k, decode_q>>  BY <1>3
<1>4. ASSUME NEW padded \in SUBSET (0 .. span[2] - 1), Captured(text, from, to, padded)
      PROVE  /\ DOMAIN prompt_k' \subseteq 0 .. span[2] - 1
             /\ DOMAIN decode_q' \subseteq 0 .. cfg.max_decode - 1
  <2> DEFINE pads == [o \in padded |-> <<>>]
             keys == Overlay(prompt_k, new)
  <2>1. prompt_k' = Overlay(keys, pads) /\ decode_q' = Overlay(decode_q, queries)
    BY <1>4 DEF Captured
  <2>2. DOMAIN pads = padded  OBVIOUS
  <2> HIDE DEF new, queries, pads, keys
  <2>3. DOMAIN prompt_k' = padded \cup DOMAIN keys  BY <2>1, <2>2, OverlayProps
  <2>4. DOMAIN keys = DOMAIN new \cup DOMAIN prompt_k  BY OverlayProps DEF keys
  <2>5. DOMAIN decode_q' = DOMAIN queries \cup DOMAIN decode_q  BY <2>1, OverlayProps
  <2> QED  BY <1>1, <1>2, <2>3, <2>4, <2>5
<1>5. {} \in SUBSET (0 .. span[2] - 1)  OBVIOUS
<1> QED  BY <1>3, <1>4, <1>5 DEF Capture

-----------------------------------------------------------------------------
(* The inductive invariant. *)

Running == phase \in {"prefill", "decode", "finished"}

(* The observer was prepared for the request of the pass, or of the rows that were read. *)
SpanPrepared ==
  /\ prompt_length \in Nat /\ span \in Nat \X Nat
  /\ phase # "idle" \/ rows # <<>> =>
       prompt_length = Len(request.prompt) /\ span = <<request.start, request.length>>

(* What the engine has computed: part of the prompt, or all of it and every token of the
   draft but the last.  Only the last token of a finished draft ends it. *)
Generated ==
  /\ tokens \in Seq(Words \cup {Stop})
  /\ phase = "prefill" => tokens = <<>> /\ computed < Len(request.prompt)
  /\ phase \in {"decode", "finished"} =>
       /\ tokens # <<>> /\ computed = Len(request.prompt) + Len(tokens) - 1
       /\ \A i \in 1 .. Len(tokens) - 1 : ~Ends(tokens, i)
       /\ Ends(tokens, Len(tokens)) <=> phase = "finished"

(* A key buffer that is safely captured holds, at every position the engine has passed,
   the key of the request; it has it, when the engine could not reuse it. *)
KeyComputed(o) == phase = "prefill" => request.start + o < computed

KeysCaptured ==
  CaptureSafe /\ Running => \A o \in 0 .. request.length - 1 : KeyComputed(o) =>
    /\ o \in DOMAIN prompt_k => prompt_k[o] = KeyOf(request, o)
    /\ ~cfg.prefix_caching => o \in DOMAIN prompt_k

(* So does the decode buffer the query of every token that was fed back; beyond them only
   rejected speculative drafts wrote, and the warm-up of the pass. *)
QueriesCaptured ==
  /\ CaptureSafe /\ phase = "prefill" /\ ~warming => DOMAIN decode_q = {}
  /\ CaptureSafe /\ phase \in {"decode", "finished"} =>
       /\ \A o \in 0 .. Len(tokens) - 2 :
            /\ o \in DOMAIN decode_q
            /\ decode_q[o] = Upto(request.prompt \o tokens, Len(request.prompt) + (o + 1))
       /\ ~cfg.speculative /\ ~warming => DOMAIN decode_q \subseteq 0 .. Len(tokens) - 2

(* Nothing can be reused when the warm-up runs, so the prefill overwrites what it wrote. *)
WarmFirst == (~warm => known = {}) /\ (phase # "idle" => warm)

(* The backend's cache holds complete keys, of a prompt with the cached ids. *)
CacheSound ==
  \A key \in DOMAIN cache :
    /\ cfg.kind = "asr"
    /\ \E r \in Requests :
         /\ key = Key(r) /\ DOMAIN cache[key] = 0 .. r.length - 1
         /\ \A o \in 0 .. r.length - 1 : cache[key][o] = KeyOf(r, o)

IndInv == /\ TypeOK /\ SpanPrepared /\ Generated /\ KeysCaptured /\ QueriesCaptured
          /\ WarmFirst /\ CacheSound /\ RowsOfRequest

(* Every configuration may send a request of its kind: what Init assumes of it. *)
LEMMA InitInv == Init => IndInv
<1> SUFFICES ASSUME Init PROVE IndInv  OBVIOUS
<1>1. request \in Requests /\ request.kind = cfg.kind /\ cfg \in Configs  BY DEF Init
<1>2. Len(request.prompt) \in Nat  BY <1>1, RequestProps
<1>3. cfg.max_decode \in Nat \ {0}  BY <1>1, ConfigProps
<1>4. DOMAIN NoEntries = {}  BY DEF NoEntries
<1>5. TypeOK
  <2>1. 1 \in 1 .. cfg.max_decode  BY <1>3
  <2>2. 0 \in 0 .. Len(request.prompt) + 1  BY <1>2
  <2>3. /\ DOMAIN prompt_k \subseteq 0 .. span[2] - 1
        /\ DOMAIN decode_q \subseteq 0 .. cfg.max_decode - 1
    BY <1>4 DEF Init
  <2>4. warm \in BOOLEAN /\ rescue \in BOOLEAN /\ warming \in BOOLEAN
        /\ known \subseteq PromptPrefixes
    BY DEF Init
  <2>5. /\ max_tokens \in 1 .. cfg.max_decode /\ computed \in 0 .. Len(request.prompt) + max_tokens
        /\ Len(tokens) <= max_tokens
    BY <2>1, <2>2 DEF Init
  <2>6. phase = "idle"  BY DEF Init
  <2> QED  BY <1>1, <2>3, <2>4, <2>5, <2>6 DEF TypeOK
<1>6. SpanPrepared /\ Generated  BY DEF Init, SpanPrepared, Generated
<1>7. KeysCaptured /\ QueriesCaptured /\ WarmFirst
  BY DEF Init, KeysCaptured, QueriesCaptured, WarmFirst, Running
<1>8. CacheSound /\ RowsOfRequest
  <2>1. DOMAIN cache = {} /\ rows = <<>>  BY <1>4 DEF Init
  <2> QED  BY <2>1 DEF CacheSound, RowsOfRequest
<1> QED  BY <1>5, <1>6, <1>7, <1>8 DEF IndInv

(* The types that a step needs most often. *)
LEMMA StateProps ==
  ASSUME TypeOK
  PROVE  /\ cfg \in Configs /\ cfg.max_decode \in Nat \ {0} /\ cfg.kind \in Kinds
         /\ cfg.prefix_caching \in BOOLEAN /\ cfg.speculative \in BOOLEAN
         /\ request \in Requests /\ request.kind = cfg.kind
         /\ max_tokens \in Nat /\ max_tokens > 0 /\ max_tokens <= cfg.max_decode
         /\ request.prompt \in Seq(Symbols) /\ Len(request.prompt) \in Nat
         /\ Len(request.prompt) > 0 /\ request.start \in Nat /\ request.length \in Nat
         /\ request.length > 0 /\ request.start + request.length <= Len(request.prompt)
         /\ computed \in Nat
<1>1. cfg \in Configs /\ request \in Requests /\ request.kind = cfg.kind
      /\ max_tokens \in 1 .. cfg.max_decode
      /\ computed \in 0 .. Len(request.prompt) + max_tokens
  BY DEF TypeOK
<1>2. cfg.max_decode \in Nat \ {0} /\ cfg.kind \in Kinds
      /\ cfg.prefix_caching \in BOOLEAN /\ cfg.speculative \in BOOLEAN
  BY <1>1, ConfigProps
<1>3. max_tokens \in Nat /\ max_tokens > 0 /\ max_tokens <= cfg.max_decode  BY <1>1, <1>2
<1>4. /\ request.prompt \in Seq(Symbols) /\ Len(request.prompt) \in Nat
      /\ Len(request.prompt) > 0 /\ request.start \in Nat /\ request.length \in Nat
      /\ request.length > 0 /\ request.start + request.length <= Len(request.prompt)
  BY <1>1, RequestProps
<1>5. computed \in Nat  BY <1>1, <1>3, <1>4
<1> QED  BY <1>1, <1>2, <1>3, <1>4, <1>5

-----------------------------------------------------------------------------
(* The steps. *)

(* A pass starts with empty buffers, but for the warm-up's keys at positions that the
   engine has still to pass. *)
LEMMA StartPassInv ==
  ASSUME IndInv, NEW r \in Requests, r.kind = cfg.kind, NEW limit \in 1 .. cfg.max_decode,
         NEW again \in BOOLEAN, StartPass(r, limit, again)
  PROVE  IndInv'
<1> USE DEF IndInv
<1>1. /\ request' = r /\ rescue' = again /\ max_tokens' = limit /\ prompt_length' = Len(r.prompt)
      /\ span' = <<r.start, r.length>> /\ prompt_k' = WarmupKeys(r) /\ decode_q' = Overlay(NoEntries, WarmupQueries(r))
      /\ warm' = TRUE /\ warming' = ~warm /\ computed' \in Reused(r) /\ tokens' = <<>> /\ phase' = "prefill"
      /\ rows' = <<>> /\ cfg' = cfg /\ known' = known /\ cache' = cache
  BY DEF StartPass, Cleared
<1>2. /\ r.start \in Nat /\ r.length \in Nat /\ Len(r.prompt) \in Nat /\ Len(r.prompt) > 0
  BY RequestProps
<1>3. cfg.max_decode \in Nat /\ limit \in Nat  BY StateProps
<1>4. computed' \in 0 .. Len(r.prompt) - 1
      /\ (computed' > 0 => cfg.prefix_caching /\ warm)
  <2>1. computed' \in 0 .. Len(r.prompt) - 1  BY <1>1 DEF Reused
  <2>2. ASSUME computed' > 0 PROVE cfg.prefix_caching /\ warm
    <3>1. cfg.prefix_caching /\ \A m \in 1 .. computed' : Upto(r.prompt, m) \in known
      BY <1>1, <2>2 DEF Reused
    <3>2. 1 \in 1 .. computed'  BY <2>1, <2>2
    <3>3. known # {}  BY <3>1, <3>2
    <3> QED  BY <3>1, <3>3 DEF WarmFirst
  <2> QED  BY <2>1, <2>2
<1>5. /\ DOMAIN prompt_k' \subseteq 0 .. r.length - 1 /\ (warm => DOMAIN prompt_k' = {})
      /\ DOMAIN decode_q' \subseteq 0 .. cfg.max_decode - 1 /\ (warm => DOMAIN decode_q' = {})
  <2>1. \A from, size : /\ WarmupEntries(from, size) \subseteq 0 .. size - 1
                        /\ warm => WarmupEntries(from, size) = {}
    BY DEF WarmupEntries
  <2>2. DOMAIN prompt_k' = WarmupEntries(r.start, r.length)  BY <1>1 DEF WarmupKeys
  <2>3. DOMAIN decode_q' = WarmupEntries(Len(r.prompt), cfg.max_decode)
    <3>1. DOMAIN WarmupQueries(r) = WarmupEntries(Len(r.prompt), cfg.max_decode)  BY DEF WarmupQueries
    <3>2. DOMAIN NoEntries = {}  BY DEF NoEntries
    <3>3. DOMAIN Overlay(NoEntries, WarmupQueries(r)) = DOMAIN WarmupQueries(r) \cup DOMAIN NoEntries
      BY OverlayProps
    <3> QED  BY <1>1, <3>1, <3>2, <3>3
  <2> QED  BY <2>1, <2>2, <2>3
<1>6. TypeOK'
  <2>1. warming' \in BOOLEAN  BY <1>1 DEF TypeOK
  <2>2. computed' \in 0 .. Len(r.prompt) + limit  BY <1>2, <1>3, <1>4
  <2>3. Len(tokens') <= limit  BY <1>1, <1>3
  <2>4. known \subseteq PromptPrefixes /\ cfg \in Configs  BY DEF TypeOK
  <2> QED  BY <1>1, <1>5, <2>1, <2>2, <2>3, <2>4 DEF TypeOK
<1>7. SpanPrepared'  BY <1>1, <1>2 DEF SpanPrepared
<1>8. Generated'
  <2>1. computed' < Len(r.prompt)  BY <1>2, <1>4
  <2> QED  BY <1>1, <2>1 DEF Generated
<1>9. KeysCaptured'
  <2> SUFFICES ASSUME NEW o \in 0 .. r.length - 1, r.start + o < computed'
               PROVE  /\ o \in DOMAIN prompt_k' => prompt_k'[o] = KeyOf(r, o)
                      /\ ~cfg.prefix_caching => o \in DOMAIN prompt_k'
    BY <1>1 DEF KeysCaptured, KeyComputed
  <2>1. computed' > 0  BY <1>2, <1>4
  <2> QED  BY <1>4, <1>5, <2>1
<1>10. QueriesCaptured'  BY <1>1, <1>5 DEF QueriesCaptured
<1>11. WarmFirst'  BY <1>1 DEF WarmFirst
<1>12. CacheSound'  BY <1>1 DEF CacheSound
<1>13. RowsOfRequest'  BY <1>1 DEF RowsOfRequest
<1> QED  BY <1>6, <1>7, <1>8, <1>9, <1>10, <1>11, <1>12, <1>13

(* What a generation step keeps of a draft and what it adds: some of it, up to the first
   end, which decides whether the generation goes on. *)
LEMMA GenerateProps ==
  ASSUME IndInv, phase \in {"prefill", "decode"}, NEW more \in Seq(Words \cup {Stop}), more # <<>>,
         Len(tokens) < max_tokens, \A i \in 1 .. Len(tokens) : ~Ends(tokens, i), Generate(more)
  PROVE  /\ tokens' \in Seq(Words \cup {Stop}) /\ tokens' # <<>>
         /\ Len(tokens') \in Len(tokens) + 1 .. Len(tokens) + Len(more)
         /\ Len(tokens') <= max_tokens
         /\ \A i \in 1 .. Len(tokens') : tokens'[i] = (tokens \o more)[i]
         /\ \A i \in 1 .. Len(tokens') - 1 : ~Ends(tokens', i)
         /\ phase' \in {"decode", "finished"}
         /\ Ends(tokens', Len(tokens')) <=> phase' = "finished"
         /\ known \subseteq PromptPrefixes => known' \subseteq PromptPrefixes
<1> DEFINE S == Words \cup {Stop}
           s == tokens \o more
           a == Len(tokens)
<1>1. tokens \in Seq(S)  BY DEF IndInv, Generated
<1>2. a \in Nat /\ Len(more) \in Nat /\ Len(more) > 0  BY <1>1, EmptySeq
<1>3. s \in Seq(S) /\ Len(s) = a + Len(more) /\ \A i \in 1 .. a : s[i] = tokens[i]
  BY <1>1, <1>2, ConcatProperties
<1>4. max_tokens \in Nat  BY StateProps DEF IndInv
<1>5. \A i \in 1 .. a : ~Ends(s, i)  BY <1>3 DEF Ends
<1>6. tokens' = Kept(s)
      /\ phase' = (IF \E i \in DOMAIN tokens' : Ends(tokens', i) THEN "finished" ELSE "decode")
  BY DEF Generate
<1>7. known \subseteq PromptPrefixes => known' \subseteq PromptPrefixes  BY DEF Generate
<1> HIDE DEF s, a, S
<1>8. PICK m \in a + 1 .. Len(s) :
        /\ Kept(s) = Upto(s, m) /\ m <= max_tokens
        /\ \A i \in 1 .. m - 1 : ~Ends(s, i)
        /\ ~Ends(s, m) => m = Len(s)
  <2>1. a < max_tokens  BY DEF a
  <2>2. a < Len(s)  BY <1>2, <1>3
  <2>3. s \in Seq(S) /\ a \in Nat  BY <1>2, <1>3
  <2> QED  BY <1>4, <1>5, <2>1, <2>2, <2>3, KeptProps
<1>9. m \in 0 .. Len(s) /\ m \in Nat /\ m > 0  BY <1>2, <1>3, <1>8
<1>10. tokens' \in Seq(S) /\ Len(tokens') = m /\ \A i \in 1 .. m : tokens'[i] = s[i]
  BY <1>3, <1>6, <1>8, <1>9, FirstEntries DEF Upto
<1>11. \A i \in 1 .. m : Ends(tokens', i) <=> Ends(s, i)  BY <1>10 DEF Ends
<1>12. \A i \in 1 .. m - 1 : ~Ends(tokens', i)
  <2>1. \A i \in 1 .. m - 1 : i \in 1 .. m  BY <1>9
  <2> QED  BY <1>8, <1>11, <2>1
<1>13. (\E i \in DOMAIN tokens' : Ends(tokens', i)) <=> Ends(tokens', m)
  <2>1. DOMAIN tokens' = 1 .. m  BY <1>10
  <2>2. \A i \in 1 .. m : i = m \/ i \in 1 .. m - 1  BY <1>9
  <2>3. m \in 1 .. m  BY <1>9
  <2> QED  BY <1>12, <2>1, <2>2, <2>3
<1>14. phase' \in {"decode", "finished"} /\ (Ends(tokens', m) <=> phase' = "finished")
  BY <1>6, <1>13
<1>15. tokens' # <<>>  BY <1>9, <1>10
<1>16. m \in a + 1 .. a + Len(more)  BY <1>3, <1>8
<1> QED  BY <1>7, <1>8, <1>10, <1>12, <1>14, <1>15, <1>16 DEF s, a, S

(* A draft of any length the model may propose. *)
LEMMA MoreType ==
  ASSUME NEW drafts \in Seq(Words \cup {Stop}), NEW n \in 0 .. Len(drafts), NEW t \in Samples
  PROVE  LET more == Upto(drafts, n) \o <<t>>
         IN  /\ more \in Seq(Words \cup {Stop}) /\ more # <<>> /\ Len(more) = n + 1
             /\ \A i \in 1 .. n : more[i] = drafts[i]
<1> DEFINE S == Words \cup {Stop}
           kept == Upto(drafts, n)
<1>1. t \in S  BY DEF Samples
<1>2. kept \in Seq(S) /\ Len(kept) = n /\ \A i \in 1 .. n : kept[i] = drafts[i]
  BY FirstEntries DEF Upto
<1>3. <<t>> \in Seq(S) /\ Len(<<t>>) = 1  BY <1>1
<1>4. n \in Nat  OBVIOUS
<1> HIDE DEF kept
<1>5. kept \o <<t>> \in Seq(S) /\ Len(kept \o <<t>>) = n + 1
      /\ \A i \in 1 .. n : (kept \o <<t>>)[i] = kept[i]
  BY <1>2, <1>3, <1>4, ConcatProperties
<1>6. kept \o <<t>> # <<>>  BY <1>4, <1>5
<1> QED  BY <1>2, <1>5, <1>6 DEF kept

(* A prefill chunk captures the keys of its positions and no query. *)
LEMMA PrefillInv ==
  ASSUME IndInv, NEW to \in Nat, Prefill(to)
  PROVE  IndInv'
<1> USE DEF IndInv
<1> DEFINE L == Len(request.prompt)
           new == KeysOf(request.prompt, computed, to)
           queries == QueriesOf(request.prompt, computed, to)
<1>1. /\ phase = "prefill" /\ to > computed /\ to <= L
      /\ Capture(request.prompt, computed, to)
      /\ computed' = to /\ cfg' = cfg /\ warm' = warm /\ request' = request /\ rescue' = rescue
      /\ warming' = warming /\ max_tokens' = max_tokens /\ prompt_length' = prompt_length /\ span' = span
      /\ cache' = cache /\ rows' = rows
  BY DEF Prefill, passVars
<1>2. TypeOK /\ (CaptureSafe' <=> CaptureSafe)  BY <1>1 DEF CaptureSafe
<1>3. /\ request \in Requests /\ L \in Nat /\ request.start \in Nat /\ request.length \in Nat
      /\ request.start + request.length <= L /\ computed \in Nat /\ cfg.max_decode \in Nat
      /\ max_tokens \in Nat /\ max_tokens > 0
  BY <1>2, StateProps
<1>4. prompt_length = L /\ span = <<request.start, request.length>>  BY <1>1 DEF SpanPrepared
<1>5. /\ \A o : o \in DOMAIN new <=>
           o \in 0 .. request.length - 1 /\ computed <= request.start + o /\ request.start + o < to
      /\ \A o \in DOMAIN new : new[o] = KeyOf(request, o)
  <2>1. prompt_length \in Nat /\ span \in Nat \X Nat
        /\ span[1] = request.start /\ span[2] = request.length
    BY <1>3, <1>4
  <2>a. /\ \A o : o \in DOMAIN new <=>
             /\ o \in 0 .. span[2] - 1 /\ computed <= span[1] + o
             /\ span[1] + o < to /\ span[1] + o < prompt_length
        /\ \A o \in DOMAIN new : new[o] = Upto(request.prompt, span[1] + o + 1)
    BY <1>3, <2>1, KeysOfProps, ZenonT(30)
  <2> HIDE DEF new
  <2>2. /\ \A o : o \in DOMAIN new <=>
             o \in 0 .. request.length - 1 /\ computed <= request.start + o
             /\ request.start + o < to /\ request.start + o < prompt_length
        /\ \A o \in DOMAIN new : new[o] = Upto(request.prompt, request.start + o + 1)
    BY <2>1, <2>a
  <2>3. \A o \in 0 .. request.length - 1 : request.start + o < prompt_length  BY <1>3, <1>4
  <2> QED  BY <2>2, <2>3 DEF KeyOf
<1>6. DOMAIN queries = {}
  <2>1. prompt_length \in Nat  BY <1>3, <1>4
  <2>2. \A o : o \in DOMAIN queries <=>
          o \in 0 .. cfg.max_decode - 1 /\ computed <= prompt_length + o /\ prompt_length + o < to
    BY <1>3, <2>1, QueriesOfProps
  <2>3. \A o \in 0 .. cfg.max_decode - 1 : ~(prompt_length + o < to)  BY <1>1, <1>3, <1>4
  <2> QED  BY <2>2, <2>3
<1>7. ASSUME CaptureSafe
      PROVE  /\ DOMAIN prompt_k' = DOMAIN new \cup DOMAIN prompt_k
             /\ \A o \in DOMAIN new : prompt_k'[o] = new[o]
             /\ \A o \in DOMAIN prompt_k \ DOMAIN new : prompt_k'[o] = prompt_k[o]
             /\ decode_q' = Overlay(decode_q, queries)
  BY <1>1, <1>7, SafeCapture
<1> HIDE DEF new, queries
<1>8. CaptureSafe /\ ~warming => DOMAIN decode_q' = {}
  <2> SUFFICES ASSUME CaptureSafe, ~warming PROVE DOMAIN decode_q' = {}  OBVIOUS
  <2>1. DOMAIN decode_q' = DOMAIN queries \cup DOMAIN decode_q  BY <1>7, OverlayProps
  <2>2. DOMAIN decode_q = {}  BY <1>1 DEF QueriesCaptured
  <2> QED  BY <1>6, <2>1, <2>2
<1>b. DOMAIN prompt_k' \subseteq 0 .. span[2] - 1 /\ DOMAIN decode_q' \subseteq 0 .. cfg.max_decode - 1
  <2>1. /\ DOMAIN prompt_k \subseteq 0 .. span[2] - 1
        /\ DOMAIN decode_q \subseteq 0 .. cfg.max_decode - 1
    BY DEF TypeOK
  <2>2. span \in Nat \X Nat /\ prompt_length \in Nat  BY <1>3, <1>4
  <2> QED  BY <1>1, <1>3, <2>1, <2>2, CaptureBounds
<1>9. tokens = <<>> /\ Len(tokens) = 0  BY <1>1 DEF Generated
<1>10. CASE to < L
  <2>1. tokens' = tokens /\ known' = known /\ phase' = phase  BY <1>10 DEF Prefill, L
  <2>2. TypeOK'
    <3>2. to \in 0 .. L + max_tokens  BY <1>1, <1>3
    <3> QED  BY <1>1, <1>b, <2>1, <3>2 DEF TypeOK
  <2>3. SpanPrepared'  BY <1>1, <2>1 DEF SpanPrepared
  <2>4. Generated'  BY <1>1, <1>9, <1>10, <2>1 DEF Generated
  <2>5. KeysCaptured'
    <3> SUFFICES ASSUME CaptureSafe, NEW o \in 0 .. request.length - 1, request.start + o < to
                 PROVE  /\ o \in DOMAIN prompt_k' => prompt_k'[o] = KeyOf(request, o)
                        /\ ~cfg.prefix_caching => o \in DOMAIN prompt_k'
      BY <1>1, <1>2, <2>1 DEF KeysCaptured, KeyComputed
    <3>1. CASE o \in DOMAIN new  BY <1>5, <1>7, <3>1
    <3>2. CASE o \notin DOMAIN new
      <4>1. request.start + o < computed  BY <1>3, <1>5, <3>2
      <4>2. /\ o \in DOMAIN prompt_k => prompt_k[o] = KeyOf(request, o)
            /\ ~cfg.prefix_caching => o \in DOMAIN prompt_k
        BY <1>1, <4>1 DEF KeysCaptured, KeyComputed, Running
      <4> QED  BY <1>7, <3>2, <4>2
    <3> QED  BY <3>1, <3>2
  <2>6. QueriesCaptured'  BY <1>1, <1>2, <1>8, <2>1 DEF QueriesCaptured
  <2>7. WarmFirst' /\ CacheSound'  BY <1>1, <2>1 DEF WarmFirst, CacheSound
  <2>8. RowsOfRequest'
    <3>1. rows = <<>>  BY <1>1 DEF TypeOK
    <3> QED  BY <1>1, <3>1 DEF RowsOfRequest
  <2> QED  BY <2>2, <2>3, <2>4, <2>5, <2>6, <2>7, <2>8
<1>11. CASE ~(to < L)
  <2>1. to = L  BY <1>1, <1>3, <1>11
  <2>2. PICK t \in Samples : Generate(<<t>>)  BY <1>11 DEF Prefill, L
  <2>3. <<t>> \in Seq(Words \cup {Stop}) /\ <<t>> # <<>> /\ Len(<<t>>) = 1
    <3>1. t \in Words \cup {Stop}  BY DEF Samples
    <3> QED  BY <3>1
  <2>4. \A i \in 1 .. Len(tokens) : ~Ends(tokens, i)  BY <1>9
  <2>5. Len(tokens) < max_tokens  BY <1>3, <1>9
  <2>6. /\ tokens' \in Seq(Words \cup {Stop}) /\ tokens' # <<>>
        /\ Len(tokens') \in Len(tokens) + 1 .. Len(tokens) + Len(<<t>>)
        /\ Len(tokens') <= max_tokens
        /\ \A i \in 1 .. Len(tokens') - 1 : ~Ends(tokens', i)
        /\ phase' \in {"decode", "finished"}
        /\ Ends(tokens', Len(tokens')) <=> phase' = "finished"
        /\ known \subseteq PromptPrefixes => known' \subseteq PromptPrefixes
    BY <1>1, <2>2, <2>3, <2>4, <2>5, GenerateProps
  <2>7. Len(tokens') = 1
    <3>1. Len(tokens') \in 0 + 1 .. 0 + 1  BY <1>9, <2>3, <2>6
    <3> QED  BY <3>1
  <2>8. TypeOK'
    <3>2. to \in 0 .. L + max_tokens  BY <1>1, <1>3
    <3>3. known' \subseteq PromptPrefixes  BY <2>6 DEF TypeOK
    <3>4. rows' = <<>>  BY <1>1 DEF TypeOK
    <3>5. phase' \in {"idle", "prefill", "decode", "finished", "eos_only", "raised"}  BY <2>6
    <3> QED  BY <1>1, <1>2, <1>b, <2>6, <3>2, <3>3, <3>4, <3>5 DEF TypeOK
  <2>9. SpanPrepared'  BY <1>1, <1>4 DEF SpanPrepared
  <2>10. Generated'
    <3>1. computed' = L + Len(tokens') - 1  BY <1>1, <1>3, <2>1, <2>7
    <3>2. \A i \in 1 .. Len(tokens') : Ends(tokens', i) <=> Ends(tokens, i)'  BY <1>1 DEF Ends
    <3> QED  BY <1>1, <2>6, <2>7, <3>1, <3>2 DEF Generated
  <2>11. KeysCaptured'
    <3> SUFFICES ASSUME CaptureSafe, NEW o \in 0 .. request.length - 1
                 PROVE  /\ o \in DOMAIN prompt_k' => prompt_k'[o] = KeyOf(request, o)
                        /\ ~cfg.prefix_caching => o \in DOMAIN prompt_k'
      BY <1>1, <1>2 DEF KeysCaptured, KeyComputed
    <3>1. CASE o \in DOMAIN new  BY <1>5, <1>7, <3>1
    <3>2. CASE o \notin DOMAIN new
      <4>1. request.start + o < computed  BY <1>3, <1>5, <2>1, <3>2
      <4>2. /\ o \in DOMAIN prompt_k => prompt_k[o] = KeyOf(request, o)
            /\ ~cfg.prefix_caching => o \in DOMAIN prompt_k
        BY <1>1, <4>1 DEF KeysCaptured, KeyComputed, Running
      <4> QED  BY <1>7, <3>2, <4>2
    <3> QED  BY <3>1, <3>2
  <2>12. QueriesCaptured'  BY <1>1, <1>2, <1>8, <2>6, <2>7 DEF QueriesCaptured
  <2>13. WarmFirst' /\ CacheSound'  BY <1>1 DEF WarmFirst, CacheSound
  <2>14. RowsOfRequest'
    <3>1. rows = <<>>  BY <1>1 DEF TypeOK
    <3> QED  BY <1>1, <3>1 DEF RowsOfRequest
  <2> QED  BY <2>8, <2>9, <2>10, <2>11, <2>12, <2>13, <2>14
<1> QED  BY <1>10, <1>11

(* Two drafts that both continue t with the first n entries of d agree that far. *)
LEMMA DraftsAgree ==
  ASSUME NEW S, NEW t \in Seq(S), NEW d \in Seq(S), NEW more \in Seq(S),
         NEW n \in Nat, n <= Len(d), n <= Len(more), \A i \in 1 .. n : more[i] = d[i],
         NEW i \in 1 .. Len(t) + n
  PROVE  (t \o more)[i] = (t \o d)[i]
<1>1. Len(t) \in Nat /\ Len(d) \in Nat /\ Len(more) \in Nat  OBVIOUS
<1>2. i \in 1 .. Len(t) + Len(d) /\ i \in 1 .. Len(t) + Len(more)  BY <1>1
<1>3. (t \o more)[i] = IF i <= Len(t) THEN t[i] ELSE more[i - Len(t)]  BY <1>2, ConcatProperties
<1>4. (t \o d)[i] = IF i <= Len(t) THEN t[i] ELSE d[i - Len(t)]  BY <1>2, ConcatProperties
<1>5. CASE i <= Len(t)  BY <1>3, <1>4, <1>5
<1>6. CASE ~(i <= Len(t))
  <2>1. i - Len(t) \in 1 .. n  BY <1>1, <1>6
  <2> QED  BY <1>3, <1>4, <1>6, <2>1
<1> QED  BY <1>5, <1>6

(* What a decode step leaves of the state: the tokens go on, and with a safe capture the
   keys are as they were and the forward wrote the queries of the last token and of the
   drafts. *)
LEMMA DecodeFacts ==
  ASSUME IndInv, NEW drafts \in Seq(Words \cup {Stop}), Decode(drafts)
  PROVE  LET L == Len(request.prompt)
             a == Len(tokens)
             text == request.prompt \o (tokens \o drafts)
         IN  /\ phase = "decode" /\ (drafts = <<>> \/ cfg.speculative) /\ a \in Nat /\ a > 0
             /\ DOMAIN prompt_k' \subseteq 0 .. span[2] - 1
             /\ DOMAIN decode_q' \subseteq 0 .. cfg.max_decode - 1
             /\ CaptureSafe =>
                  /\ DOMAIN prompt_k' = DOMAIN prompt_k
                  /\ \A o \in DOMAIN prompt_k : prompt_k'[o] = prompt_k[o]
                  /\ \A o : o \in DOMAIN decode_q' <=>
                       \/ o \in DOMAIN decode_q
                       \/ o \in 0 .. cfg.max_decode - 1 /\ a - 1 <= o /\ o < a + Len(drafts)
                  /\ \A o \in DOMAIN decode_q' :
                       decode_q'[o] = IF a - 1 <= o /\ o < a + Len(drafts) /\ o < cfg.max_decode
                                        THEN Upto(text, L + (o + 1)) ELSE decode_q[o]
             /\ \E n \in 0 .. Len(drafts), t \in Samples : Generate(Upto(drafts, n) \o <<t>>)
             /\ computed' = L + Len(tokens') - 1
             /\ cfg' = cfg /\ warm' = warm /\ request' = request /\ rescue' = rescue
             /\ warming' = warming /\ max_tokens' = max_tokens /\ prompt_length' = prompt_length /\ span' = span
             /\ cache' = cache /\ rows' = rows
<1> DEFINE L == Len(request.prompt)
           a == Len(tokens)
           text == request.prompt \o (tokens \o drafts)
           whole == request.prompt \o tokens \o drafts
           new == KeysOf(whole, computed, Len(whole))
           queries == QueriesOf(whole, computed, Len(whole))
<1>1. /\ phase = "decode" /\ (drafts = <<>> \/ cfg.speculative)
      /\ Capture(whole, computed, Len(whole))
      /\ \E n \in 0 .. Len(drafts), t \in Samples : Generate(Upto(drafts, n) \o <<t>>)
      /\ computed' = L + Len(tokens') - 1
      /\ cfg' = cfg /\ warm' = warm /\ request' = request /\ rescue' = rescue
      /\ warming' = warming /\ max_tokens' = max_tokens /\ prompt_length' = prompt_length /\ span' = span
      /\ cache' = cache /\ rows' = rows
  BY DEF Decode, passVars
<1>2. TypeOK /\ Generated /\ SpanPrepared  BY DEF IndInv
<1>3. /\ L \in Nat /\ computed \in Nat /\ cfg.max_decode \in Nat /\ request.prompt \in Seq(Symbols)
  BY <1>2, StateProps
<1>4. tokens \in Seq(Words \cup {Stop}) /\ a \in Nat /\ a > 0 /\ computed = L + a - 1
  BY <1>1, <1>2, EmptySeq DEF Generated
<1>5. prompt_length = L /\ span \in Nat \X Nat  BY <1>1, <1>2 DEF SpanPrepared
<1>6. /\ tokens \in Seq(Symbols) /\ drafts \in Seq(Symbols)
  BY <1>4, SeqMonotonic DEF Symbols
<1>7. whole = text
  <2>1. request.prompt \in Seq(Symbols) /\ tokens \in Seq(Symbols) /\ drafts \in Seq(Symbols)
    BY <1>3, <1>6
  <2>2. \A p, t, d \in Seq(Symbols) : (p \o t) \o d = p \o (t \o d)
    BY ConcatAssociative, SMTT(30)
  <2> QED  BY <2>1, <2>2
<1>8. Len(whole) = L + a + Len(drafts) /\ Len(drafts) \in Nat /\ Len(whole) \in Nat
  <2>1. tokens \o drafts \in Seq(Symbols) /\ Len(tokens \o drafts) = a + Len(drafts)
    BY <1>6, ConcatProperties
  <2> DEFINE more == tokens \o drafts
  <2>2. more \in Seq(Symbols) /\ Len(more) = a + Len(drafts)  BY <2>1
  <2> HIDE DEF more
  <2>3. Len(request.prompt \o more) = L + Len(more)  BY <1>3, <2>2, ConcatProperties
  <2>4. Len(drafts) \in Nat  BY <1>6
  <2>5. Len(whole) = L + Len(more)  BY <1>7, <2>3 DEF more
  <2> HIDE DEF whole, L, a
  <2> QED  BY <1>3, <1>4, <2>2, <2>4, <2>5
<1> HIDE DEF whole, text
<1>9. DOMAIN new = {}
  <2>1. \A o : o \in DOMAIN new =>
             /\ o \in 0 .. span[2] - 1 /\ computed <= span[1] + o /\ span[1] + o < prompt_length
    BY <1>3, <1>5, <1>8, KeysOfProps
  <2> HIDE DEF new
  <2>2. \A o : o \notin DOMAIN new
    <3>1. span[1] \in Nat /\ span[2] \in Nat  BY <1>5
    <3> QED  BY <1>3, <1>4, <1>5, <2>1, <3>1
  <2> QED  BY <2>2
<1>10. /\ \A o : o \in DOMAIN queries <=>
            o \in 0 .. cfg.max_decode - 1 /\ a - 1 <= o /\ o < a + Len(drafts)
       /\ \A o \in DOMAIN queries : queries[o] = Upto(text, L + (o + 1))
  <2>1. prompt_length \in Nat  BY <1>3, <1>5
  <2>2. /\ \A o : o \in DOMAIN queries <=>
             o \in 0 .. cfg.max_decode - 1 /\ computed <= prompt_length + o
             /\ prompt_length + o < Len(whole)
        /\ \A o \in DOMAIN queries : queries[o] = Upto(whole, prompt_length + o + 1)
    BY <1>3, <1>8, <2>1, QueriesOfProps
  <2> HIDE DEF queries
  <2>3. \A o \in Int :
          /\ computed <= prompt_length + o <=> a - 1 <= o
          /\ prompt_length + o < Len(whole) <=> o < a + Len(drafts)
          /\ prompt_length + o + 1 = L + (o + 1)
    <3> DEFINE w == Len(whole)
               d == Len(drafts)
    <3>1. w = L + a + d /\ d \in Nat /\ w \in Nat  BY <1>8
    <3> HIDE DEF w, d, L, a
    <3> SUFFICES ASSUME NEW o \in Int
                 PROVE  /\ computed <= prompt_length + o <=> a - 1 <= o
                        /\ prompt_length + o < w <=> o < a + d
                        /\ prompt_length + o + 1 = L + (o + 1)
      BY DEF w, d
    <3>2. computed = L + a - 1 /\ prompt_length = L /\ L \in Nat /\ a \in Nat
      BY <1>3, <1>4, <1>5
    <3> QED  BY <3>1, <3>2
  <2>4. \A o \in DOMAIN queries : queries[o] = Upto(text, L + (o + 1))
    <3>1. \A o \in DOMAIN queries : o \in Int  BY <1>3, <2>2
    <3>2. \A o \in DOMAIN queries : prompt_length + o + 1 = L + (o + 1)  BY <2>3, <3>1
    <3> QED  BY <1>7, <2>2, <3>2
  <2>5. \A o \in 0 .. cfg.max_decode - 1 : o \in Int  BY <1>3
  <2>6. \A o : o \in DOMAIN queries <=>
          o \in 0 .. cfg.max_decode - 1 /\ a - 1 <= o /\ o < a + Len(drafts)
    <3> SUFFICES ASSUME NEW o
                 PROVE  o \in DOMAIN queries <=>
                          o \in 0 .. cfg.max_decode - 1 /\ a - 1 <= o /\ o < a + Len(drafts)
      OBVIOUS
    <3> HIDE DEF a
    <3>1. CASE o \in 0 .. cfg.max_decode - 1  BY <2>2, <2>3, <2>5, <3>1
    <3>2. CASE o \notin 0 .. cfg.max_decode - 1  BY <2>2, <3>2
    <3> QED  BY <3>1, <3>2
  <2> QED  BY <2>4, <2>6
<1> HIDE DEF new, queries
<1>b. DOMAIN prompt_k' \subseteq 0 .. span[2] - 1 /\ DOMAIN decode_q' \subseteq 0 .. cfg.max_decode - 1
  <2>1. /\ DOMAIN prompt_k \subseteq 0 .. span[2] - 1
        /\ DOMAIN decode_q \subseteq 0 .. cfg.max_decode - 1
    BY <1>2 DEF TypeOK
  <2>2. prompt_length \in Nat  BY <1>3, <1>5
  <2> QED  BY <1>1, <1>3, <1>5, <1>8, <2>1, <2>2, CaptureBounds
<1>s. ASSUME CaptureSafe
      PROVE  /\ DOMAIN prompt_k' = DOMAIN new \cup DOMAIN prompt_k
             /\ \A o \in DOMAIN prompt_k \ DOMAIN new : prompt_k'[o] = prompt_k[o]
             /\ decode_q' = Overlay(decode_q, queries)
  BY <1>1, <1>s, SafeCapture DEF new, queries
<1> SUFFICES ASSUME CaptureSafe
             PROVE  /\ DOMAIN prompt_k' = DOMAIN prompt_k
                    /\ \A o \in DOMAIN prompt_k : prompt_k'[o] = prompt_k[o]
                    /\ \A o : o \in DOMAIN decode_q' <=>
                         \/ o \in DOMAIN decode_q
                         \/ o \in 0 .. cfg.max_decode - 1 /\ a - 1 <= o /\ o < a + Len(drafts)
                    /\ \A o \in DOMAIN decode_q' :
                         decode_q'[o] = IF a - 1 <= o /\ o < a + Len(drafts) /\ o < cfg.max_decode
                                          THEN Upto(text, L + (o + 1)) ELSE decode_q[o]
  BY <1>1, <1>4, <1>b DEF text
<1>11. DOMAIN prompt_k' = DOMAIN prompt_k /\ \A o \in DOMAIN prompt_k : prompt_k'[o] = prompt_k[o]
  BY <1>9, <1>s
<1>12. /\ \A o : o \in DOMAIN decode_q' <=> o \in DOMAIN decode_q \/ o \in DOMAIN queries
       /\ \A o \in DOMAIN decode_q' : decode_q'[o] = IF o \in DOMAIN queries THEN queries[o] ELSE decode_q[o]
  BY <1>s DEF Overlay
<1>13. \A o \in DOMAIN decode_q' :
         decode_q'[o] = IF a - 1 <= o /\ o < a + Len(drafts) /\ o < cfg.max_decode
                          THEN Upto(text, L + (o + 1)) ELSE decode_q[o]
  <2> SUFFICES ASSUME NEW o \in DOMAIN decode_q'
               PROVE  decode_q'[o] = IF a - 1 <= o /\ o < a + Len(drafts) /\ o < cfg.max_decode
                                       THEN Upto(text, L + (o + 1)) ELSE decode_q[o]
    OBVIOUS
  <2>1. o \in 0 .. cfg.max_decode - 1
    <3>1. DOMAIN decode_q \subseteq 0 .. cfg.max_decode - 1  BY <1>2 DEF TypeOK
    <3> QED  BY <1>10, <1>12, <3>1
  <2>2. o \in DOMAIN queries <=> a - 1 <= o /\ o < a + Len(drafts) /\ o < cfg.max_decode
    BY <1>3, <1>10, <2>1
  <2> QED  BY <1>10, <1>12, <2>2
<1>14. \A o : o \in DOMAIN decode_q' <=>
         \/ o \in DOMAIN decode_q
         \/ o \in 0 .. cfg.max_decode - 1 /\ a - 1 <= o /\ o < a + Len(drafts)
  BY <1>10, <1>12
<1> QED  BY <1>11, <1>13, <1>14

(* A decode step captures the query of every token it keeps. *)
LEMMA DecodeInv ==
  ASSUME IndInv, NEW drafts \in Seq(Words \cup {Stop}), Decode(drafts)
  PROVE  IndInv'
<1> DEFINE S == Words \cup {Stop}
           L == Len(request.prompt)
           a == Len(tokens)
           d == Len(drafts)
           all == tokens \o drafts
           text == request.prompt \o all
<1>1. /\ phase = "decode" /\ (drafts = <<>> \/ cfg.speculative) /\ a \in Nat /\ a > 0
      /\ DOMAIN prompt_k' \subseteq 0 .. span[2] - 1
      /\ DOMAIN decode_q' \subseteq 0 .. cfg.max_decode - 1
      /\ CaptureSafe =>
           /\ DOMAIN prompt_k' = DOMAIN prompt_k
           /\ \A o \in DOMAIN prompt_k : prompt_k'[o] = prompt_k[o]
           /\ \A o : o \in DOMAIN decode_q' <=>
                \/ o \in DOMAIN decode_q
                \/ o \in 0 .. cfg.max_decode - 1 /\ a - 1 <= o /\ o < a + d
           /\ \A o \in DOMAIN decode_q' :
                decode_q'[o] = IF a - 1 <= o /\ o < a + d /\ o < cfg.max_decode
                                 THEN Upto(text, L + (o + 1)) ELSE decode_q[o]
      /\ \E n \in 0 .. d, t \in Samples : Generate(Upto(drafts, n) \o <<t>>)
      /\ computed' = L + Len(tokens') - 1
      /\ cfg' = cfg /\ warm' = warm /\ request' = request /\ rescue' = rescue
      /\ warming' = warming /\ max_tokens' = max_tokens /\ prompt_length' = prompt_length /\ span' = span
      /\ cache' = cache /\ rows' = rows
  BY DecodeFacts
<1> HIDE DEF text
<1>c. CaptureSafe' <=> CaptureSafe  BY <1>1 DEF CaptureSafe
<1>2. TypeOK /\ SpanPrepared /\ Generated /\ KeysCaptured /\ QueriesCaptured /\ WarmFirst
      /\ CacheSound
  BY DEF IndInv
<1>3. /\ L \in Nat /\ cfg.max_decode \in Nat /\ max_tokens \in Nat /\ max_tokens <= cfg.max_decode
      /\ request.prompt \in Seq(Symbols) /\ L > 0
  BY <1>2, StateProps
<1>4. /\ tokens \in Seq(S) /\ ~Ends(tokens, a) /\ \A i \in 1 .. a - 1 : ~Ends(tokens, i)
  BY <1>1, <1>2 DEF Generated
<1>5. PICK n \in 0 .. d, t \in Samples : Generate(Upto(drafts, n) \o <<t>>)  BY <1>1
<1> DEFINE more == Upto(drafts, n) \o <<t>>
           m == Len(tokens')
<1>6. d \in Nat /\ n \in Nat /\ n <= d  OBVIOUS
<1>7. /\ more \in Seq(S) /\ more # <<>> /\ Len(more) = n + 1
      /\ \A i \in 1 .. n : more[i] = drafts[i]
  BY MoreType
<1>8. Generate(more)  BY <1>5
<1> HIDE DEF more
<1>9. \A i \in 1 .. a : ~Ends(tokens, i)
  <2>1. \A i \in 1 .. a : i = a \/ i \in 1 .. a - 1  BY <1>1
  <2> QED  BY <1>4, <2>1
<1>10. a < max_tokens
  <2>1. a <= max_tokens  BY <1>2 DEF TypeOK
  <2>2. a # max_tokens  BY <1>4 DEF Ends
  <2> QED  BY <1>1, <1>3, <2>1, <2>2
<1>11. /\ tokens' \in Seq(S) /\ tokens' # <<>>
       /\ m \in a + 1 .. a + Len(more) /\ m <= max_tokens
       /\ \A i \in 1 .. m : tokens'[i] = (tokens \o more)[i]
       /\ \A i \in 1 .. m - 1 : ~Ends(tokens', i)
       /\ phase' \in {"decode", "finished"}
       /\ Ends(tokens', m) <=> phase' = "finished"
       /\ known \subseteq PromptPrefixes => known' \subseteq PromptPrefixes
  BY <1>1, <1>7, <1>8, <1>9, <1>10, GenerateProps
<1>12. m \in Nat /\ a + 1 <= m /\ m <= a + n + 1  BY <1>1, <1>6, <1>7, <1>11
<1>13. /\ all \in Seq(S) /\ Len(all) = a + d
  BY <1>1, <1>4, <1>6, ConcatProperties
<1>14. \A i \in 1 .. m - 1 : tokens'[i] = all[i]
  <2> SUFFICES ASSUME NEW i \in 1 .. m - 1 PROVE tokens'[i] = all[i]  OBVIOUS
  <2> HIDE DEF m
  <2>1. i \in 1 .. m /\ i \in 1 .. a + n  BY <1>1, <1>6, <1>12
  <2>2. tokens'[i] = (tokens \o more)[i]  BY <1>11, <2>1
  <2>3. n <= Len(drafts) /\ n <= Len(more)  BY <1>6, <1>7
  <2> HIDE DEF d, a, all
  <2>4. (tokens \o more)[i] = (tokens \o drafts)[i]
    BY <1>4, <1>6, <1>7, <2>1, <2>3, DraftsAgree DEF a
  <2> QED  BY <2>2, <2>4 DEF all
<1>15. \A i \in 1 .. a : tokens'[i] = tokens[i]
  <2> SUFFICES ASSUME NEW i \in 1 .. a PROVE tokens'[i] = tokens[i]  OBVIOUS
  <2>1. i \in 1 .. m - 1 /\ i \in 1 .. a + d /\ i <= a  BY <1>1, <1>6, <1>12
  <2>2. all[i] = tokens[i]  BY <1>4, <2>1, ConcatProperties
  <2> QED  BY <1>14, <2>1, <2>2
<1>16. tokens' \in Seq(Symbols) /\ tokens \in Seq(Symbols) /\ all \in Seq(Symbols)
  BY <1>4, <1>11, <1>13, SeqMonotonic DEF Symbols
<1> HIDE DEF all
<1>17. TypeOK'
  <2>1. DOMAIN decode_q' \subseteq 0 .. cfg.max_decode - 1  BY <1>1
  <2>2. DOMAIN prompt_k' \subseteq 0 .. span[2] - 1  BY <1>1
  <2>3. computed' \in 0 .. L + max_tokens  BY <1>1, <1>3, <1>11, <1>12, SMTT(30)
  <2>4. known' \subseteq PromptPrefixes  BY <1>2, <1>11 DEF TypeOK
  <2>5. phase' \in {"idle", "prefill", "decode", "finished", "eos_only", "raised"} /\ rows' = <<>>
    BY <1>1, <1>2, <1>11 DEF TypeOK
  <2>6. /\ cfg' \in Configs /\ warm' \in BOOLEAN /\ rescue' \in BOOLEAN /\ warming' \in BOOLEAN
        /\ request' \in Requests /\ request'.kind = cfg'.kind
        /\ max_tokens' \in 1 .. cfg'.max_decode
    BY <1>1, <1>2 DEF TypeOK
  <2> QED  BY <1>1, <1>11, <2>1, <2>2, <2>3, <2>4, <2>5, <2>6 DEF TypeOK
<1>18. SpanPrepared'  BY <1>1, <1>2 DEF SpanPrepared
<1>19. Generated'
  <2>1. \A i \in 1 .. m : Ends(tokens', i) <=> Ends(tokens, i)'  BY <1>1 DEF Ends
  <2>2. \A i \in 1 .. m - 1 : ~Ends(tokens, i)'
    <3>1. \A i \in 1 .. m - 1 : i \in 1 .. m  BY <1>12
    <3> QED  BY <1>11, <2>1, <3>1
  <2>3. Ends(tokens', m) <=> Ends(tokens, Len(tokens))'  BY <1>1 DEF Ends
  <2> QED  BY <1>1, <1>11, <2>2, <2>3 DEF Generated
<1>20. KeysCaptured'
  <2> SUFFICES ASSUME CaptureSafe, NEW o \in 0 .. request.length - 1
               PROVE  /\ o \in DOMAIN prompt_k' => prompt_k'[o] = KeyOf(request, o)
                      /\ ~cfg.prefix_caching => o \in DOMAIN prompt_k'
    BY <1>1, <1>c DEF KeysCaptured, KeyComputed
  <2>1. /\ o \in DOMAIN prompt_k => prompt_k[o] = KeyOf(request, o)
        /\ ~cfg.prefix_caching => o \in DOMAIN prompt_k
    BY <1>1, <1>2 DEF KeysCaptured, KeyComputed, Running
  <2> QED  BY <1>1, <2>1
<1>21. ASSUME CaptureSafe, NEW o \in 0 .. m - 2
       PROVE  /\ o \in DOMAIN decode_q'
              /\ decode_q'[o] = Upto(request.prompt \o tokens', L + (o + 1))
  <2> HIDE DEF m, a, d
  <2>1. o \in Nat /\ o + 1 \in Nat /\ o + 1 <= m - 1 /\ o < cfg.max_decode /\ o + 1 <= a + d
    <3>1. a \in Nat /\ a > 0 /\ m <= max_tokens  BY <1>1, <1>11
    <3> QED  BY <1>3, <1>6, <1>12, <3>1
  <2>2. CASE a - 1 <= o
    <3>1. o < a + d /\ o \in 0 .. cfg.max_decode - 1  BY <1>1, <1>3, <1>6, <2>1
    <3>2. o \in DOMAIN decode_q'  BY <1>1, <1>21, <2>2, <3>1
    <3>3. decode_q'[o] = Upto(text, L + (o + 1))  BY <1>1, <1>21, <2>1, <2>2, <3>1, <3>2
    <3>4. \A i \in 1 .. o + 1 : all[i] = tokens'[i]
      <4>1. \A i \in 1 .. o + 1 : i \in 1 .. m - 1  BY <1>12, <2>1
      <4> QED  BY <1>14, <4>1
    <3>5. o + 1 <= Len(all) /\ o + 1 <= Len(tokens')
      <4>1. o + 1 <= m  BY <1>12, <2>1
      <4> QED  BY <1>13, <2>1, <4>1 DEF m
    <3> DEFINE q == o + 1
    <3>a. q \in Nat /\ q <= Len(all) /\ q <= Len(tokens') /\ \A i \in 1 .. q : all[i] = tokens'[i]
      BY <2>1, <3>4, <3>5
    <3> HIDE DEF q
    <3>b. Upto(request.prompt \o all, L + q) = Upto(request.prompt \o tokens', L + q)
      BY <1>3, <1>16, <3>a, UptoDraft, ZenonT(30)
    <3>6. Upto(request.prompt \o all, L + (o + 1)) = Upto(request.prompt \o tokens', L + (o + 1))
      BY <3>b DEF q
    <3> QED  BY <3>2, <3>3, <3>6 DEF text
  <2>3. CASE ~(a - 1 <= o)
    <3>1. o \in 0 .. a - 2  BY <1>1, <2>1, <2>3
    <3>2. o \in DOMAIN decode_q /\ decode_q[o] = Upto(request.prompt \o tokens, L + (o + 1))
      BY <1>1, <1>2, <1>21, <3>1 DEF QueriesCaptured, a
    <3>3. o \in DOMAIN decode_q' /\ decode_q'[o] = decode_q[o]  BY <1>1, <1>21, <2>3, <3>2
    <3>4. o + 1 <= Len(tokens) /\ o + 1 <= Len(tokens')
      <4>1. o + 1 <= a /\ o + 1 <= m  BY <1>1, <1>12, <2>1, <3>1
      <4> QED  BY <4>1 DEF a, m
    <3>5. \A i \in 1 .. o + 1 : tokens[i] = tokens'[i]
      <4>1. \A i \in 1 .. o + 1 : i \in 1 .. a  BY <1>1, <2>1, <3>1
      <4> QED  BY <1>15, <4>1
    <3> DEFINE q == o + 1
    <3>a. q \in Nat /\ q <= Len(tokens) /\ q <= Len(tokens') /\ \A i \in 1 .. q : tokens[i] = tokens'[i]
      BY <2>1, <3>4, <3>5
    <3> HIDE DEF q
    <3>b. Upto(request.prompt \o tokens, L + q) = Upto(request.prompt \o tokens', L + q)
      BY <1>3, <1>16, <3>a, UptoDraft, ZenonT(30)
    <3>6. Upto(request.prompt \o tokens, L + (o + 1)) = Upto(request.prompt \o tokens', L + (o + 1))
      BY <3>b DEF q
    <3> QED  BY <3>2, <3>3, <3>6
  <2> QED  BY <2>2, <2>3
<1>22. ASSUME CaptureSafe, ~cfg.speculative, ~warming PROVE DOMAIN decode_q' \subseteq 0 .. m - 2
  <2>1. d = 0 /\ n = 0
    <3>1. drafts = <<>>  BY <1>1, <1>22
    <3>2. d = 0  BY <3>1
    <3> QED  BY <1>6, <3>2
  <2>2. m = a + 1  BY <1>1, <1>12, <2>1
  <2>3. DOMAIN decode_q \subseteq 0 .. a - 2  BY <1>1, <1>2, <1>22 DEF QueriesCaptured
  <2> HIDE DEF m, a, d
  <2> SUFFICES ASSUME NEW o \in DOMAIN decode_q' PROVE o \in 0 .. m - 2  OBVIOUS
  <2>4. CASE o \in DOMAIN decode_q  BY <1>1, <1>22, <2>2, <2>3, <2>4
  <2>5. CASE o \in 0 .. cfg.max_decode - 1 /\ a - 1 <= o /\ o < a + d
    BY <1>1, <1>3, <1>22, <2>1, <2>2, <2>5
  <2> QED  BY <1>1, <1>22, <2>4, <2>5
<1>23. QueriesCaptured'
  BY <1>1, <1>11, <1>21, <1>22, <1>c DEF QueriesCaptured
<1>24. WarmFirst' /\ CacheSound'  BY <1>1, <1>2, <1>11 DEF WarmFirst, CacheSound
<1>25. RowsOfRequest'
  <2>1. rows = <<>>  BY <1>1, <1>2 DEF TypeOK
  <2> QED  BY <1>1, <2>1 DEF RowsOfRequest
<1> QED  BY <1>17, <1>18, <1>19, <1>20, <1>23, <1>24, <1>25 DEF IndInv

(* Keys under the same name in the cache are of as long an audio. *)
LEMMA KeyProps ==
  ASSUME NEW r, NEW q, Key(r) = Key(q)
  PROVE  r.start = q.start /\ r.length = q.length
BY DEF Key

(* What is missing from the keys of a finished pass. *)
LEMMA MissingProps ==
  ASSUME IndInv, phase = "finished", NEW k
  PROVE  /\ span[2] = request.length /\ request.length \in Nat /\ request.length > 0
         /\ prompt_length = Len(request.prompt)
         /\ Missing(k) = {} <=> \A o \in 0 .. request.length - 1 : o \in DOMAIN k
<1>1. span = <<request.start, request.length>> /\ prompt_length = Len(request.prompt)
  BY DEF IndInv, SpanPrepared
<1>2. request.length \in Nat /\ request.length > 0  BY StateProps DEF IndInv
<1> QED  BY <1>1, <1>2 DEF Missing

(* The keys a policy reads are complete and of its request, or of a prompt that the cache
   takes for it. *)
LEMMA KeysSound ==
  ASSUME IndInv, CaptureSafe, phase = "finished", NEW k, k = prompt_k \/ k = Restored,
         Missing(k) = {}
  PROVE  \E r \in Requests :
           /\ r = request \/ (cfg.kind = "asr" /\ cfg.prefix_caching /\ Key(r) = Key(request))
           /\ r.length = request.length
           /\ \A o \in 0 .. request.length - 1 : k[o] = KeyOf(r, o)
<1>1. \A o \in 0 .. request.length - 1 : o \in DOMAIN k  BY MissingProps
<1>2. \A o \in 0 .. request.length - 1 :
        /\ o \in DOMAIN prompt_k => prompt_k[o] = KeyOf(request, o)
        /\ ~cfg.prefix_caching => o \in DOMAIN prompt_k
  BY DEF IndInv, KeysCaptured, KeyComputed, Running
<1>3. request \in Requests  BY StateProps DEF IndInv
<1>4. CASE k = prompt_k  BY <1>1, <1>2, <1>3, <1>4
<1>5. CASE k # prompt_k
  <2>1. /\ cfg.kind = "asr" /\ Missing(prompt_k) # {} /\ Key(request) \in DOMAIN cache
        /\ k = cache[Key(request)]
    BY <1>5 DEF Restored
  <2>2. cfg.prefix_caching
    <3>1. ~(\A o \in 0 .. request.length - 1 : o \in DOMAIN prompt_k)  BY <2>1, MissingProps
    <3> QED  BY <1>2, <3>1
  <2>3. PICK r \in Requests :
          /\ Key(request) = Key(r) /\ DOMAIN cache[Key(request)] = 0 .. r.length - 1
          /\ \A o \in 0 .. r.length - 1 : cache[Key(request)][o] = KeyOf(r, o)
    BY <2>1 DEF IndInv, CacheSound
  <2>4. r.length = request.length  BY <2>3, KeyProps
  <2> QED  BY <2>1, <2>2, <2>3, <2>4
<1> QED  BY <1>4, <1>5

(* The draft is the tokens without their stop token. *)
LEMMA DraftProps ==
  ASSUME IndInv, phase = "finished"
  PROVE  /\ Len(tokens) \in Nat /\ Len(tokens) > 0 /\ Len(tokens) <= max_tokens
         /\ Last(tokens) = tokens[Len(tokens)]
         /\ Len(Draft) = IF Last(tokens) = Stop THEN Len(tokens) - 1 ELSE Len(tokens)
         /\ Last(tokens) # Stop => Len(tokens) = max_tokens
<1>1. tokens \in Seq(Words \cup {Stop}) /\ tokens # <<>> /\ Ends(tokens, Len(tokens))
  BY DEF IndInv, Generated
<1>2. Len(tokens) \in Nat /\ Len(tokens) > 0  BY <1>1, EmptySeq
<1>3. Last(tokens) = tokens[Len(tokens)]  BY DEF Last
<1>4. Last(tokens) # Stop => Len(tokens) = max_tokens  BY <1>1, <1>3 DEF Ends
<1>5. Len(tokens) <= max_tokens  BY DEF IndInv, TypeOK
<1>6. CASE Last(tokens) = Stop
  <2>1. Draft = SubSeq(tokens, 1, Len(tokens) - 1)  BY <1>1, <1>6 DEF Draft, Front
  <2>2. Len(SubSeq(tokens, 1, Len(tokens) - 1)) = Len(tokens) - 1
    <3>1. Len(tokens) - 1 \in 0 .. Len(tokens)  BY <1>2
    <3> QED  BY <1>1, <3>1, FirstEntries
  <2> QED  BY <1>2, <1>3, <1>4, <1>5, <1>6, <2>1, <2>2
<1>7. CASE Last(tokens) # Stop  BY <1>2, <1>3, <1>4, <1>5, <1>7 DEF Draft
<1> QED  BY <1>6, <1>7

(* How many rows there are, and what they hold. *)
LEMMA RowsOfProps ==
  ASSUME IndInv, phase = "finished", NEW k
  PROVE  LET n == Written(decode_q, cfg.max_decode)
         IN  /\ n \in Nat /\ n \notin DOMAIN decode_q /\ \A i \in 0 .. n - 1 : i \in DOMAIN decode_q
             /\ Missing(k) # {} => RowsOf(k) = <<>>
             /\ Missing(k) = {} =>
                  /\ Len(RowsOf(k)) = IF n < Len(Draft) THEN n ELSE Len(Draft)
                  /\ DOMAIN RowsOf(k) = 1 .. Len(RowsOf(k))
                  /\ \A i \in DOMAIN RowsOf(k) : RowsOf(k)[i] = [q |-> decode_q[i - 1], k |-> k]
<1> DEFINE n == Written(decode_q, cfg.max_decode)
           size == IF n < Len(Draft) THEN n ELSE Len(Draft)
<1>1. TypeOK /\ cfg.max_decode \in Nat  BY StateProps DEF IndInv
<1>2. DOMAIN decode_q \subseteq 0 .. cfg.max_decode - 1  BY <1>1 DEF TypeOK
<1>3. n \in 0 .. cfg.max_decode /\ n \notin DOMAIN decode_q /\ \A i \in 0 .. n - 1 : i \in DOMAIN decode_q
  BY <1>1, <1>2, WrittenProps
<1>4. n \in Nat  BY <1>1, <1>3
<1>5. Len(Draft) \in Nat  BY DraftProps
<1>6. size \in Nat
  <2> HIDE DEF n
  <2> QED  BY <1>4, <1>5
<1>7. span[2] # 0  BY MissingProps
<1>8. Missing(k) # {} => RowsOf(k) = <<>>  BY DEF RowsOf
<1>9. Missing(k) = {} => RowsOf(k) = [i \in 1 .. size |-> [q |-> decode_q[i - 1], k |-> k]]
  BY <1>7 DEF RowsOf
<1> HIDE DEF size, n
<1>10. ASSUME Missing(k) = {}
       PROVE  /\ Len(RowsOf(k)) = size /\ DOMAIN RowsOf(k) = 1 .. Len(RowsOf(k))
              /\ \A i \in DOMAIN RowsOf(k) : RowsOf(k)[i] = [q |-> decode_q[i - 1], k |-> k]
  BY <1>6, <1>9, <1>10
<1> QED  BY <1>3, <1>4, <1>8, <1>10 DEF size, n

(* The rows of a finished pass are of its request. *)
LEMMA RowsSound ==
  ASSUME IndInv, CaptureSafe, phase = "finished", NEW k, k = prompt_k \/ k = Restored,
         NEW i \in DOMAIN RowsOf(k)
  PROVE  /\ \/ RowsOf(k)[i].q = Upto(request.prompt \o tokens, prompt_length + i)
            \/ (cfg.speculative \/ warming) /\ i = max_tokens /\ Last(tokens) # Stop
         /\ \E r \in Requests :
              /\ r = request \/ (cfg.kind = "asr" /\ cfg.prefix_caching /\ Key(r) = Key(request))
              /\ \A o \in 0 .. span[2] - 1 : RowsOf(k)[i].k[o] = KeyOf(r, o)
<1> DEFINE n == Written(decode_q, cfg.max_decode)
           a == Len(tokens)
<1>1. Missing(k) = {}
  <2>1. ASSUME Missing(k) # {} PROVE FALSE
    <3>1. RowsOf(k) = <<>>  BY <2>1, RowsOfProps
    <3> QED  BY <3>1
  <2> QED  BY <2>1
<1>2. /\ n \in Nat /\ \A j \in 0 .. n - 1 : j \in DOMAIN decode_q
      /\ Len(RowsOf(k)) = (IF n < Len(Draft) THEN n ELSE Len(Draft))
      /\ DOMAIN RowsOf(k) = 1 .. Len(RowsOf(k))
      /\ \A j \in DOMAIN RowsOf(k) : RowsOf(k)[j] = [q |-> decode_q[j - 1], k |-> k]
  BY <1>1, RowsOfProps
<1>3. /\ a \in Nat /\ a > 0 /\ a <= max_tokens
      /\ Len(Draft) = (IF Last(tokens) = Stop THEN a - 1 ELSE a)
      /\ Last(tokens) # Stop => a = max_tokens
  BY DraftProps
<1>4. RowsOf(k)[i].q = decode_q[i - 1] /\ RowsOf(k)[i].k = k
  <2>1. RowsOf(k)[i] = [q |-> decode_q[i - 1], k |-> k]  BY <1>2
  <2> QED  BY <2>1
<1> HIDE DEF n, a
<1>5. i \in Nat /\ i > 0 /\ i <= n /\ i <= Len(Draft) /\ i <= a
  <2> DEFINE size == Len(RowsOf(k))
             l == Len(Draft)
  <2>1. l \in Nat /\ l <= a  BY <1>3
  <2>2. i \in 1 .. size /\ size = (IF n < l THEN n ELSE l)  BY <1>2
  <2> HIDE DEF size, l
  <2>3. i \in Nat /\ i > 0 /\ i <= n /\ i <= l /\ i <= a  BY <1>2, <1>3, <2>1, <2>2
  <2> QED  BY <2>3 DEF l
<1>6. prompt_length = Len(request.prompt) /\ span[2] = request.length  BY MissingProps
<1>7. /\ \A o \in 0 .. a - 2 :
           decode_q[o] = Upto(request.prompt \o tokens, Len(request.prompt) + (o + 1))
      /\ ~cfg.speculative /\ ~warming => DOMAIN decode_q \subseteq 0 .. a - 2
  BY DEF IndInv, QueriesCaptured, a
<1>8. \/ RowsOf(k)[i].q = Upto(request.prompt \o tokens, prompt_length + i)
      \/ (cfg.speculative \/ warming) /\ i = max_tokens /\ Last(tokens) # Stop
  <2>1. CASE i <= a - 1
    <3>1. i - 1 \in 0 .. a - 2 /\ (i - 1) + 1 = i  BY <1>3, <1>5, <2>1
    <3>2. decode_q[i - 1] = Upto(request.prompt \o tokens, Len(request.prompt) + ((i - 1) + 1))
      BY <1>7, <3>1
    <3> QED  BY <1>4, <1>6, <3>1, <3>2
  <2>2. CASE ~(i <= a - 1)
    <3>1. i = a  BY <1>3, <1>5, <2>2
    <3>2. Last(tokens) # Stop  BY <1>3, <1>5, <3>1
    <3>3. cfg.speculative \/ warming
      <4>1. i - 1 \in 0 .. n - 1  BY <1>2, <1>5
      <4>2. i - 1 \in DOMAIN decode_q /\ i - 1 \notin 0 .. a - 2  BY <1>2, <1>3, <3>1, <4>1
      <4> QED  BY <1>7, <4>2
    <3> QED  BY <1>3, <3>1, <3>2, <3>3
  <2> QED  BY <2>1, <2>2
<1>9. \E r \in Requests :
        /\ r = request \/ (cfg.kind = "asr" /\ cfg.prefix_caching /\ Key(r) = Key(request))
        /\ \A o \in 0 .. span[2] - 1 : RowsOf(k)[i].k[o] = KeyOf(r, o)
  BY <1>1, <1>4, <1>6, KeysSound
<1> QED  BY <1>8, <1>9

(* A state whose rows are none, or of the pass that just finished. *)
LEMMA RowsInv ==
  ASSUME IndInv, cfg' = cfg, request' = request, tokens' = tokens, max_tokens' = max_tokens,
         warming' = warming, prompt_length' = prompt_length, span' = span,
         \/ rows' = <<>>
         \/ phase = "finished" /\ \E k : rows' = RowsOf(k) /\ (k = prompt_k \/ k = Restored)
  PROVE  RowsOfRequest'
<1>1. CASE rows' = <<>>  BY <1>1 DEF RowsOfRequest
<1>2. CASE phase = "finished" /\ \E k : rows' = RowsOf(k) /\ (k = prompt_k \/ k = Restored)
  <2>1. PICK k : rows' = RowsOf(k) /\ (k = prompt_k \/ k = Restored)  BY <1>2
  <2> SUFFICES ASSUME CaptureSafe, NEW i \in DOMAIN rows'
        PROVE  /\ \/ rows'[i].q = Upto(request.prompt \o tokens, prompt_length + i)
                  \/ (cfg.speculative \/ warming) /\ i = max_tokens /\ Last(tokens) # Stop
               /\ \E r \in Requests :
                    /\ r = request \/ (cfg.kind = "asr" /\ cfg.prefix_caching /\ Key(r) = Key(request))
                    /\ \A o \in 0 .. span[2] - 1 : rows'[i].k[o] = KeyOf(r, o)
    BY DEF RowsOfRequest, CaptureSafe
  <2> QED  BY <1>2, <2>1, RowsSound
<1> QED  BY <1>1, <1>2

(* The steps that leave the observer, the engine and the pass alone: what is known of a
   running pass is known of a state it did not leave. *)
LEMMA QuietInv ==
  ASSUME IndInv, UNCHANGED <<cfg, warm, passVars, observerVars, engineVars>>, phase # "idle",
         phase' \in {"idle", "eos_only", "raised"}, RowsOfRequest', CacheSound',
         rows' # <<>> => phase' = "idle"
  PROVE  IndInv'
<1>1. /\ cfg' = cfg /\ warm' = warm /\ request' = request /\ rescue' = rescue
      /\ warming' = warming /\ max_tokens' = max_tokens
      /\ prompt_length' = prompt_length /\ span' = span /\ prompt_k' = prompt_k /\ decode_q' = decode_q /\ computed' = computed /\ tokens' = tokens
      /\ known' = known
  BY DEF passVars, observerVars, engineVars
<1>2. TypeOK /\ SpanPrepared /\ Generated /\ WarmFirst  BY DEF IndInv
<1>3. TypeOK'
  <2>1. phase' \in {"idle", "prefill", "decode", "finished", "eos_only", "raised"}  OBVIOUS
  <2>2. /\ cfg' \in Configs /\ warm' \in BOOLEAN /\ rescue' \in BOOLEAN /\ warming' \in BOOLEAN
        /\ request' \in Requests /\ request'.kind = cfg'.kind
        /\ max_tokens' \in 1 .. cfg'.max_decode
    BY <1>1, <1>2 DEF TypeOK
  <2>3. /\ DOMAIN prompt_k' \subseteq 0 .. span'[2] - 1
        /\ DOMAIN decode_q' \subseteq 0 .. cfg'.max_decode - 1
        /\ computed' \in 0 .. Len(request'.prompt) + max_tokens'
        /\ Len(tokens') <= max_tokens' /\ known' \subseteq PromptPrefixes
    BY <1>1, <1>2 DEF TypeOK
  <2> QED  BY <2>1, <2>2, <2>3 DEF TypeOK
<1>4. SpanPrepared'  BY <1>1, <1>2 DEF SpanPrepared
<1>5. Generated'  BY <1>1, <1>2 DEF Generated
<1>6. KeysCaptured' /\ QueriesCaptured'  BY DEF KeysCaptured, QueriesCaptured, Running
<1>7. WarmFirst'  BY <1>1, <1>2 DEF WarmFirst
<1> QED  BY <1>3, <1>4, <1>5, <1>6, <1>7 DEF IndInv

LEMMA FailInv == ASSUME IndInv, GenerateFails \/ Raised PROVE IndInv'
<1>1. /\ UNCHANGED <<cfg, warm, passVars, observerVars, engineVars>> /\ phase # "idle"
      /\ phase' = "idle" /\ cache' = cache /\ rows' = rows
  BY DEF GenerateFails, Raised
<1>2. cfg' = cfg /\ request' = request /\ tokens' = tokens /\ max_tokens' = max_tokens
      /\ warming' = warming /\ prompt_length' = prompt_length /\ span' = span
  BY <1>1 DEF passVars, observerVars, engineVars
<1>3. rows' = <<>>  BY <1>1 DEF IndInv, TypeOK
<1>4. RowsOfRequest'  BY <1>2, <1>3, RowsInv
<1>5. CacheSound'  BY <1>1 DEF IndInv, CacheSound
<1> QED  BY <1>1, <1>3, <1>4, <1>5, QuietInv

LEMMA FetchTextInv == ASSUME IndInv, FetchText PROVE IndInv'
<1>1. /\ UNCHANGED <<cfg, warm, passVars, observerVars, engineVars>> /\ phase = "finished"
      /\ phase' = "idle" /\ cache' = cache /\ (rows' = RowsOf(prompt_k) \/ rows' = <<>>)
  BY DEF FetchText
<1>2. cfg' = cfg /\ request' = request /\ tokens' = tokens /\ max_tokens' = max_tokens
      /\ warming' = warming /\ prompt_length' = prompt_length /\ span' = span
  BY <1>1 DEF passVars, observerVars, engineVars
<1>3. RowsOfRequest'  BY <1>1, <1>2, RowsInv
<1>4. CacheSound'  BY <1>1 DEF IndInv, CacheSound
<1> QED  BY <1>1, <1>3, <1>4, QuietInv

(* The keys that an audio pass stores are complete, and of a prompt with its ids. *)
LEMMA FetchAudioInv == ASSUME IndInv, FetchAudio PROVE IndInv'
<1>1. /\ UNCHANGED <<cfg, warm, passVars, observerVars, engineVars>> /\ phase = "finished"
      /\ phase' \in {"idle", "eos_only", "raised"} /\ cfg.kind = "asr" /\ Store(Restored)
      /\ ((rows' = RowsOf(Restored) /\ phase' = "idle") \/ rows' = <<>>)
  BY DEF FetchAudio
<1>2. cfg' = cfg /\ request' = request /\ tokens' = tokens /\ max_tokens' = max_tokens
      /\ warming' = warming /\ prompt_length' = prompt_length /\ span' = span
  BY <1>1 DEF passVars, observerVars, engineVars
<1>3. RowsOfRequest'  BY <1>1, <1>2, RowsInv
<1>4. CASE Missing(Restored) # {}  
  <2>1. cache' = cache  BY <1>1, <1>4 DEF Store
  <2>2. CacheSound'  BY <1>1, <1>2, <2>1 DEF IndInv, CacheSound
  <2> QED  BY <1>1, <1>3, <2>2, QuietInv
<1>5. CASE Missing(Restored) = {}
  <2> DEFINE name == Key(request)
             Holds(key, k) == \E r \in Requests :
               /\ key = Key(r) /\ DOMAIN k = 0 .. r.length - 1
               /\ \A o \in 0 .. r.length - 1 : k[o] = KeyOf(r, o)
  <2>1. cache' = [key \in {name} \cup DOMAIN cache |-> IF key = name THEN Restored ELSE cache[key]]
    BY <1>1, <1>5 DEF Store
  <2>2. Holds(name, Restored)
    <3>1. CASE Restored = prompt_k
      <4>1. request \in Requests /\ request.length \in Nat  BY StateProps DEF IndInv
      <4>2. DOMAIN prompt_k \subseteq 0 .. request.length - 1
        BY <1>1, MissingProps DEF IndInv, TypeOK
      <4>3. \A o \in 0 .. request.length - 1 : o \in DOMAIN prompt_k
        BY <1>1, <1>5, <3>1, MissingProps
      <4>4. \A o \in 0 .. request.length - 1 : prompt_k[o] = KeyOf(request, o)
        BY <1>1, <4>3 DEF IndInv, KeysCaptured, KeyComputed, Running, CaptureSafe
      <4>5. DOMAIN prompt_k = 0 .. request.length - 1  BY <4>2, <4>3
      <4> QED  BY <3>1, <4>1, <4>4, <4>5
    <3>2. CASE Restored # prompt_k
      <4>1. name \in DOMAIN cache /\ Restored = cache[name]  BY <3>2 DEF Restored
      <4> QED  BY <4>1 DEF IndInv, CacheSound
    <3> QED  BY <3>1, <3>2
  <2>3. \A key \in DOMAIN cache : Holds(key, cache[key])  BY DEF IndInv, CacheSound
  <2> HIDE DEF Holds, name
  <2>4. \A key \in DOMAIN cache' : Holds(key, cache'[key])  BY <2>1, <2>2, <2>3
  <2>5. CacheSound'  BY <1>1, <1>2, <2>4 DEF CacheSound, Holds
  <2> QED  BY <1>1, <1>3, <2>5, QuietInv
<1> QED  BY <1>4, <1>5

LEMMA StepInv == ASSUME IndInv, [Next]_vars PROVE IndInv'
<1>1. ASSUME NEW r \in Requests, NEW limit \in 1 .. cfg.max_decode, Prepare(r, limit) PROVE IndInv'
  <2>1. r.kind = cfg.kind /\ StartPass(r, limit, FALSE)  BY <1>1 DEF Prepare
  <2> QED  BY <2>1, StartPassInv
<1>2. CASE Rescue
  <2> DEFINE limit == IF RescueTokens < max_tokens THEN RescueTokens ELSE max_tokens
  <2>1. StartPass(request, limit, TRUE)  BY <1>2 DEF Rescue
  <2>2. /\ request \in Requests /\ request.kind = cfg.kind /\ max_tokens \in Nat
        /\ max_tokens > 0 /\ max_tokens <= cfg.max_decode /\ cfg.max_decode \in Nat
    BY StateProps DEF IndInv
  <2>3. limit \in 1 .. cfg.max_decode
    <3>1. RescueTokens \in Nat \ {0}  BY QKObserverAssumption
    <3> QED  BY <2>2, <3>1
  <2> HIDE DEF limit
  <2> QED  BY <2>1, <2>2, <2>3, StartPassInv
<1>3. ASSUME NEW to \in 1 .. Len(request.prompt), Prefill(to) PROVE IndInv'
  <2>1. to \in Nat
    <3>1. Len(request.prompt) \in Nat  BY StateProps DEF IndInv
    <3> QED  BY <3>1
  <2> QED  BY <1>3, <2>1, PrefillInv
<1>4. ASSUME NEW drafts \in Drafts, Decode(drafts) PROVE IndInv'
  <2>1. drafts \in Seq(Words \cup {Stop})
    <3>1. PICK n \in 0 .. MaxDrafts : drafts \in [1 .. n -> Words \cup {Stop}]  BY DEF Drafts
    <3>2. n \in Nat  BY QKObserverAssumption
    <3> QED  BY <3>1, <3>2
  <2> QED  BY <1>4, <2>1, DecodeInv
<1>5. CASE GenerateFails \/ Raised  BY <1>5, FailInv
<1>6. CASE FetchText  BY <1>6, FetchTextInv
<1>7. CASE FetchAudio  BY <1>7, FetchAudioInv
<1>8. CASE UNCHANGED vars
  <2>1. /\ cfg' = cfg /\ warm' = warm /\ request' = request /\ rescue' = rescue
        /\ warming' = warming /\ max_tokens' = max_tokens
        /\ prompt_length' = prompt_length /\ span' = span /\ prompt_k' = prompt_k /\ decode_q' = decode_q /\ computed' = computed
        /\ tokens' = tokens /\ known' = known /\ cache' = cache /\ phase' = phase /\ rows' = rows
    BY <1>8 DEF vars, passVars, observerVars, engineVars
  <2>2. TypeOK' /\ SpanPrepared' /\ WarmFirst'
    BY <2>1 DEF IndInv, TypeOK, SpanPrepared, WarmFirst
  <2>3. Generated' /\ KeysCaptured' /\ QueriesCaptured'
    BY <2>1 DEF IndInv, Generated, Ends, KeysCaptured, QueriesCaptured, KeyComputed, Running, CaptureSafe
  <2>4. CacheSound' /\ RowsOfRequest'  BY <2>1 DEF IndInv, CacheSound, RowsOfRequest, CaptureSafe
  <2> QED  BY <2>2, <2>3, <2>4 DEF IndInv
<1> QED  BY <1>1, <1>2, <1>3, <1>4, <1>5, <1>6, <1>7, <1>8 DEF Next

LEMMA Inductive == Spec => []IndInv
<1>1. Init => IndInv  BY InitInv
<1>2. IndInv /\ [Next]_vars => IndInv'  BY StepInv
<1> QED  BY <1>1, <1>2, PTL DEF Spec

-----------------------------------------------------------------------------
(* The theorems. *)

(* The observer's buffers are never written outside their capacity, whatever the engine
   prefills, drafts or rejects. *)
THEOREM TypeCorrect == Spec => []TypeOK
<1>1. IndInv => TypeOK  BY DEF IndInv
<1> QED  BY <1>1, Inductive, PTL

(* With a safe capture no row mixes a request with another, with the warm-up or with a
   rejected draft. *)
THEOREM RowsOfOwnRequest == Spec => []RowsOfRequest
<1>1. IndInv => RowsOfRequest  BY DEF IndInv
<1> QED  BY <1>1, Inductive, PTL

(* A safely captured pass has its rows, unless keys were reused that no cache can restore. *)
THEOREM RowsCaptured == Spec => []RowsComplete
<1>1. ASSUME IndInv PROVE RowsComplete
  <2> SUFFICES ASSUME CaptureSafe, phase = "finished", ~cfg.prefix_caching \/ Key(request) \in DOMAIN cache
               PROVE  Len(RowsOf(Restored)) >= Len(tokens) - 1
    BY DEF RowsComplete
  <2> DEFINE n == Written(decode_q, cfg.max_decode)
             a == Len(tokens)
             l == Len(Draft)
  <2>1. Missing(Restored) = {}
    <3>1. CASE Restored = prompt_k
      <4>1. ASSUME Missing(prompt_k) # {} PROVE FALSE
        <5>1. ~(\A o \in 0 .. request.length - 1 : o \in DOMAIN prompt_k)  BY <1>1, <4>1, MissingProps
        <5>2. cfg.prefix_caching
          BY <1>1, <5>1 DEF IndInv, KeysCaptured, KeyComputed, Running
        <5>3. Key(request) \in DOMAIN cache  BY <5>2
        <5>4. cfg.kind = "asr"  BY <1>1, <5>3 DEF IndInv, CacheSound
        <5>5. prompt_k = cache[Key(request)]  BY <3>1, <4>1, <5>3, <5>4 DEF Restored
        <5>6. PICK r \in Requests :
                Key(request) = Key(r) /\ DOMAIN cache[Key(request)] = 0 .. r.length - 1
          BY <1>1, <5>3 DEF IndInv, CacheSound
        <5>7. r.length = request.length  BY <5>6, KeyProps
        <5> QED  BY <5>1, <5>5, <5>6, <5>7
      <4> QED  BY <3>1, <4>1
    <3>2. CASE Restored # prompt_k
      <4>1. Key(request) \in DOMAIN cache /\ Restored = cache[Key(request)]  BY <3>2 DEF Restored
      <4>2. PICK r \in Requests :
              Key(request) = Key(r) /\ DOMAIN cache[Key(request)] = 0 .. r.length - 1
        BY <1>1, <4>1 DEF IndInv, CacheSound
      <4>3. r.length = request.length  BY <4>2, KeyProps
      <4> QED  BY <1>1, <4>1, <4>2, <4>3, MissingProps
    <3> QED  BY <3>1, <3>2
  <2>2. n \in Nat /\ n \notin DOMAIN decode_q /\ Len(RowsOf(Restored)) = (IF n < l THEN n ELSE l)
    BY <1>1, <2>1, RowsOfProps
  <2>3. a \in Nat /\ l = (IF Last(tokens) = Stop THEN a - 1 ELSE a)  BY <1>1, DraftProps
  <2>4. \A o \in 0 .. a - 2 : o \in DOMAIN decode_q  BY <1>1 DEF IndInv, QueriesCaptured
  <2> HIDE DEF n, a, l
  <2>5. n >= a - 1
    <3>1. n \notin 0 .. a - 2  BY <2>2, <2>4
    <3> QED  BY <2>2, <2>3, <3>1
  <2>6. (IF n < l THEN n ELSE l) >= a - 1
    <3>1. l \in Int /\ l >= a - 1  BY <2>3
    <3> QED  BY <2>2, <2>3, <2>5, <3>1
  <2> QED  BY <2>2, <2>6 DEF a
<1>2. IndInv => RowsComplete  BY <1>1
<1> QED  BY <1>2, Inductive, PTL
=============================================================================
