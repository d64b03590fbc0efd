------------------------ MODULE MCAcceptancePolicy ------------------------
(* Small configurations, source maps and draft tokens for AcceptancePolicy. *)
EXTENDS AcceptancePolicy

\* The permissive defaults.
Default ==
  [policy |-> "alignatt", cutoff_units |-> 0, variant |-> "token", border_margin |-> 0,
   frontier_min_inaccessible |-> 1, frontier_action |-> "stop",
   argmax_gate |-> FALSE, argmax_min_mass |-> 1, argmax_margin |-> 0, argmax_patience |-> 1,
   max_regression |-> -1, regression_action |-> "stop", regression_patience |-> 1,
   regression_min_mass |-> 0, regression_min_inaccessible |-> 0, recent_tokens |-> 0,
   median_recent |-> FALSE, frontier_reached |-> FALSE, activation_slack |-> 0,
   source_bearing_min |-> 1, lookback |-> FALSE, lookback_units |-> 1,
   lookback_min_mass |-> 1, lookback_min_position |-> 1, hold_back |-> 0,
   defer_punctuation |-> FALSE, punctuation_min_mass |-> 1, min_emit |-> 0,
   min_source_units |-> 0, cap_units |-> FALSE, min_accepted_mass |-> FALSE]

Unrecovering == [Default EXCEPT !.frontier_action = "trim_unrecovered"]
Regressing == [Default EXCEPT !.max_regression = 0]

MCConfigs ==
  {Default, Unrecovering, Regressing,
   [Unrecovering EXCEPT !.argmax_gate = TRUE, !.argmax_patience = 2, !.hold_back = 1,
                        !.max_regression = 0, !.regression_action = "trim_unrecovered"],
   [Regressing EXCEPT !.regression_action = "trim_target_unit"],
   [Regressing EXCEPT !.regression_action = "trim_unrecovered", !.min_emit = 2],
   [Regressing EXCEPT !.regression_action = "trim_target_unit", !.regression_patience = 2],
   [Regressing EXCEPT !.regression_action = "trim_unrecovered", !.regression_patience = 2],
   [Regressing EXCEPT !.recent_tokens = 2, !.median_recent = TRUE, !.regression_patience = 2,
                      !.frontier_reached = TRUE, !.lookback = TRUE],
   [Default EXCEPT !.policy = "cut_last_target_units", !.cutoff_units = 1],
   [Default EXCEPT !.policy = "cut_last_x", !.cutoff_units = 1],
   [Default EXCEPT !.min_source_units = 2, !.cap_units = TRUE, !.defer_punctuation = TRUE],
   [Default EXCEPT !.min_accepted_mass = TRUE, !.frontier_min_inaccessible = 0]}
  \cup {[Default EXCEPT !.variant = v] : v \in UnitVariants}

MCRequests ==
  {[partial |-> TRUE, mapped |-> TRUE, final |-> FALSE, accessible |-> 2, units |-> 1],
   [partial |-> TRUE, mapped |-> TRUE, final |-> TRUE, accessible |-> 2, units |-> 2],
   [partial |-> TRUE, mapped |-> FALSE, final |-> FALSE, accessible |-> 0, units |-> 0],
   [partial |-> FALSE, mapped |-> TRUE, final |-> FALSE, accessible |-> 2, units |-> 2]}

Token(s, p, a, i) ==
  [starts |-> s, pos |-> p, acc |-> a, inacc |-> i, finite |-> TRUE, weak |-> FALSE,
   ends |-> FALSE]

MCTokens ==
  {Token(TRUE, 0, 1, 0), Token(TRUE, 1, 1, 0), Token(TRUE, 2, 0, 1), Token(TRUE, 2, 1, 0),
   Token(FALSE, 1, 1, 0), Token(FALSE, 2, 0, 1),
   [Token(TRUE, NoPos, 0, 0) EXCEPT !.ends = TRUE],
   [Token(FALSE, 0, 1, 0) EXCEPT !.weak = TRUE],
   [Token(FALSE, 0, 0, 1) EXCEPT !.finite = FALSE]}
=============================================================================
