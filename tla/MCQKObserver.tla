---------------------------- MODULE MCQKObserver ----------------------------
(* Small engines and prompts for QKObserver: two clips of audio under the same ids, a
   longer prompt over the first, and two MT prompts that share a prefix. *)
EXTENDS QKObserver

Engine(kind, prefix_caching, speculative) ==
  [kind |-> kind, eager |-> kind = "mt", rescue |-> FALSE, prefix_caching |-> prefix_caching,
   speculative |-> speculative, max_decode |-> 4]

MCConfigs ==
  {Engine("mt", FALSE, FALSE), Engine("mt", TRUE, FALSE), Engine("mt", FALSE, TRUE),
   [Engine("mt", FALSE, FALSE) EXCEPT !.eager = FALSE],
   Engine("asr", FALSE, FALSE), [Engine("asr", TRUE, FALSE) EXCEPT !.rescue = TRUE]}

Clip(prompt) == [kind |-> "asr", prompt |-> prompt, start |-> 1, length |-> 2, partial |-> TRUE]
Text(prompt, partial) ==
  [kind |-> "mt", prompt |-> prompt, start |-> 0, length |-> Len(prompt), partial |-> partial]

MCRequests ==
  {Clip(<<"bos", "a1", "a2">>), Clip(<<"bos", "b1", "b2">>), Clip(<<"bos", "a1", "a2", "u">>),
   Text(<<"bos", "s">>, TRUE), Text(<<"bos", "s", "u">>, TRUE), Text(<<"bos", "t">>, FALSE)}
=============================================================================
