--------------------------- MODULE MCAudioCascade ---------------------------
(* Small configurations and vocabularies for AudioCascade. *)
EXTENDS AudioCascade

Qwen ==
  [alignment_backend_name |-> "qwen_forced", chunk |-> 1, min_start |-> 1,
   min_commit_words |-> 0, inaccessible |-> 0, source_lcp_stability |-> FALSE,
   append_slack |-> 0, emit_policy |-> "raw_passthrough", max_tail_rewrite_words |-> 0]

Gemma == [Qwen EXCEPT !.alignment_backend_name = "gemma_vllm_qk_fast", !.min_start = 2]

MCConfigs ==
  {Qwen, Gemma,
   [Qwen EXCEPT !.chunk = 2, !.min_commit_words = 2, !.source_lcp_stability = TRUE,
                !.emit_policy = "freeze_major_tail_rewrites"],
   [Qwen EXCEPT !.inaccessible = 1, !.source_lcp_stability = TRUE,
                !.append_slack = 1, !.emit_policy = "freeze_nonexpanding_major_rewrites"]}

MCGrows == {<<"a", "ab">>}

MCTokens ==
  {[word |-> "a", mark |-> "bare"], [word |-> "ab", mark |-> "stop"],
   [word |-> "ab", mark |-> "number"]}
=============================================================================
