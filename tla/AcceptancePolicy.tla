-------------------------- MODULE AcceptancePolicy --------------------------
(***************************************************************************)
(* How much of one draft a partial translation accepts:                    *)
(* src/src/alignatt4llm/mt/gemma_vllm_backend.py, translate, and           *)
(* src/src/alignatt4llm/mt/base.py, AlignAttDecoderPolicy, for targets     *)
(* written with spaces.                                                    *)
(*                                                                         *)
(* The engine's draft and the attention reconstructed for it are external: *)
(* a token is chosen when the walk reads it, with the source position its  *)
(* heads agree on and the source mass they give it.  The draft only ever   *)
(* loses a suffix, so what remains of it is a number of tokens.            *)
(***************************************************************************)
EXTENDS Integers, Sequences, FiniteSets, FiniteSetsExt

CONSTANTS
  Configs,    \* the runtime configurations: records of policy knobs
  Requests,   \* is_partial and the source map, without its tokens' positions
  Tokens,     \* what a draft token may be
  MaxDraft,   \* bound: draft tokens with captured attention
  MaxUnseen   \* bound: draft tokens the observer has no row for

\* No source position.
NoPos == -1

Actions == {"stop", "trim_target_unit", "trim_unrecovered"}
UnitVariants ==
  {"unit_mass", "unit_mass_source_bearing", "unit_argmax", "unit_consensus", "unit_conf"}

\* One knob per translation_alignatt_* option, whose name it shortens.
ConfigType ==
  [policy : {"alignatt", "cut_last_target_units", "cut_last_x"}, cutoff_units : Nat,
   variant : {"token"} \cup UnitVariants,
   border_margin : Nat, frontier_min_inaccessible : Nat,
   frontier_action : {"stop", "trim_unrecovered"},
   argmax_gate : BOOLEAN, argmax_min_mass : Nat, argmax_margin : Nat, argmax_patience : Nat,
   max_regression : Int, regression_action : Actions, regression_patience : Nat,
   regression_min_mass : Nat, regression_min_inaccessible : Nat, recent_tokens : Nat,
   median_recent : BOOLEAN, frontier_reached : BOOLEAN, activation_slack : Nat,
   source_bearing_min : Nat, lookback : BOOLEAN, lookback_units : Nat,
   lookback_min_mass : Nat, lookback_min_position : Nat, hold_back : Nat,
   defer_punctuation : BOOLEAN, punctuation_min_mass : Nat, min_emit : Nat,
   min_source_units : Nat, cap_units : BOOLEAN, min_accepted_mass : BOOLEAN]

\* mapped: there is a source map; accessible: accessible_source_token_count; units:
\* accessible_unit_count; final: is_final.
RequestType ==
  [partial : BOOLEAN, mapped : BOOLEAN, final : BOOLEAN, accessible : Nat, units : Nat]

\* starts: opens a stability unit; pos: aligned_source_local_position; acc, inacc: mass
\* on accessible and on inaccessible source; finite: no NaN or infinity in the row; weak:
\* fails an optional mass or head gate; ends: the text up to it ends a sentence.
TokenType ==
  [starts : BOOLEAN, pos : Nat \cup {NoPos}, acc : Nat, inacc : Nat,
   finite : BOOLEAN, weak : BOOLEAN, ends : BOOLEAN]

ASSUME AcceptancePolicyAssumption ==
  /\ Configs \subseteq ConfigType /\ Requests \subseteq RequestType
  /\ Tokens \subseteq TokenType /\ MaxDraft \in Nat /\ MaxUnseen \in Nat
  /\ \A q \in Requests : q.final => q.mapped

VARIABLES
  cfg,       \* runtime_config
  req,       \* is_partial and source_map
  draft,     \* operating_ids, as far as they were read
  drafted,   \* len(draft_generated_ids), once known
  phase,     \* "walk", "trim", "regress", "cut", "done"
  unsafe,    \* unsafe_target_token_index, from 1; 0: None
  blocked,   \* blocked_source_local_position
  kept,      \* the candidates: len(accepted_candidate_ids), as the regression trim gets it
  trusted,   \* accepted_source_local_positions of the current loop
  argmax_streak, streak,  \* token_argmax_frontier_streak, source_regression_streak
  upto,      \* accepted_end of the regression trim, at last what it leaves
  pending,   \* pending_trim_end of the regression trim; NoPos: None
  accepted   \* len(accepted_generated_token_ids), at the end

vars == <<cfg, req, draft, drafted, phase, unsafe, blocked, kept, trusted,
          argmax_streak, streak, upto, pending, accepted>>

Init ==
  /\ cfg \in Configs /\ req \in Requests
  /\ draft = <<>> /\ drafted = 0 /\ phase = "walk"
  /\ unsafe = 0 /\ blocked = NoPos /\ kept = 0
  /\ trusted = <<>> /\ argmax_streak = 0 /\ streak = 0
  /\ upto = 0 /\ pending = NoPos /\ accepted = 0

-----------------------------------------------------------------------------
\* Stability units of the first n draft tokens.

\* token_starts_stability_unit over a prefix.
Starts(n) == {i \in 1 .. n : i = 1 \/ draft[i].starts}

UnitStart(i) == Max(Starts(i))

\* target_stability_unit_end_token_indices
UnitEnds(n) == {e \in 1 .. n : e = n \/ draft[e + 1].starts}

Unit(e) == UnitStart(e) .. e

\* Mutant: the cap counts tokens.
KeepTokens(n, m) == IF m <= 0 THEN 0 ELSE IF n <= m THEN n ELSE m

\* keep_first_target_stability_units
KeepUnits(n, m) ==
  Max({0} \cup {e \in UnitEnds(n) : Cardinality({x \in UnitEnds(n) : x <= e}) <= m})

\* cut_last_target_stability_units; with m = 1, trim_to_last_stability_unit.
CutUnits(n, m) == IF m <= 0 THEN n ELSE KeepUnits(n, Cardinality(UnitEnds(n)) - m)

-----------------------------------------------------------------------------
\* The gates on one token, and on the evidence of one unit.

Mass(t) == t.acc + t.inacc

\* should_stop_in_loop: the position is beyond the source frontier, unless the mass
\* behind it is below the soft gate.
AtFrontier(t) ==
  /\ t.pos # NoPos /\ t.pos >= req.accessible + cfg.border_margin
  /\ ~(cfg.frontier_min_inaccessible > 0 /\ t.finite
         /\ t.inacc < cfg.frontier_min_inaccessible)

\* should_stop_for_token_argmax_frontier
AtArgmaxFrontier(t) ==
  /\ cfg.argmax_gate /\ t.pos # NoPos /\ t.finite
  /\ Mass(t) >= cfg.argmax_min_mass /\ t.pos >= req.accessible + cfg.argmax_margin

\* _median_position: the lower median.
Median(ps) ==
  CHOOSE v \in {ps[i] : i \in DOMAIN ps} :
    /\ Cardinality({i \in DOMAIN ps : ps[i] < v}) <= (Len(ps) - 1) \div 2
    /\ Cardinality({i \in DOMAIN ps : ps[i] <= v}) > (Len(ps) - 1) \div 2

Recent(ps) == SubSeq(ps, IF Len(ps) > cfg.recent_tokens THEN Len(ps) - cfg.recent_tokens + 1
                         ELSE 1, Len(ps))

\* source_regression_reference_position
Reference(ps) ==
  IF ps = <<>> THEN NoPos
  ELSE IF cfg.recent_tokens > 0 /\ cfg.median_recent THEN Median(Recent(ps))
  ELSE LET seen == IF cfg.recent_tokens > 0 THEN Recent(ps) ELSE ps
       IN  Max({seen[i] : i \in DOMAIN seen})

LastAccessible == IF req.accessible = 0 THEN 0 ELSE req.accessible - 1

\* should_stop_for_source_regression
Regresses(ev, ref) ==
  /\ cfg.max_regression >= 0 /\ ev.pos # NoPos /\ ref # NoPos
  /\ cfg.frontier_reached =>
       ref >= LastAccessible - cfg.max_regression - cfg.activation_slack
  /\ ev.pos < ref - cfg.max_regression
  /\ cfg.regression_min_inaccessible > 0 =>
       ev.finite /\ ev.inacc >= cfg.regression_min_inaccessible
  /\ cfg.regression_min_mass > 0 /\ ev.finite => Mass(ev) >= cfg.regression_min_mass

TokenRegresses(t) == cfg.regression_action = "stop" /\ Regresses(t, Reference(trusted))

-----------------------------------------------------------------------------
\* The walk over the draft.

\* Whether the draft is looked at token by token at all.
Checked == req.partial /\ req.mapped /\ ~req.final /\ cfg.policy = "alignatt"

\* Mutant: a corrupt row does not stop the walk.
TokenStopsFinite(t) ==
  \/ cfg.frontier_action = "stop" /\ AtFrontier(t)
  \/ AtArgmaxFrontier(t) /\ argmax_streak + 1 >= cfg.argmax_patience
  \/ TokenRegresses(t) /\ streak + 1 >= cfg.regression_patience
  \/ t.weak

\* The loop of the variant "token" breaks at t.
TokenStops(t) ==
  \/ cfg.frontier_action = "stop" /\ AtFrontier(t)
  \/ AtArgmaxFrontier(t) /\ argmax_streak + 1 >= cfg.argmax_patience
  \/ TokenRegresses(t) /\ streak + 1 >= cfg.regression_patience
  \/ t.weak \/ ~t.finite

\* A token that is not source bearing is skipped.
Bears(t) == Mass(t) >= cfg.source_bearing_min

\* accept_complete_target_units: the current unit is not safe because of its token t.
UnitTokenStops(t) ==
  \/ ~t.finite
  \/ cfg.variant \in {"unit_argmax", "unit_conf"} /\ AtFrontier(t)
  \/ cfg.variant = "unit_mass_source_bearing" /\ Bears(t)
       /\ (t.pos = NoPos \/ AtFrontier(t) \/ t.weak)
  \/ cfg.variant \in {"unit_mass", "unit_consensus", "unit_conf"} /\ t.weak

Stops(t) == IF cfg.variant = "token" THEN TokenStops(t) ELSE UnitTokenStops(t)

\* The current unit is over and is safe as a whole; only source-bearing units are asked.
UnitPasses ==
  cfg.variant = "unit_mass_source_bearing" /\ draft # <<>>
    => \E i \in Unit(Len(draft)) : Bears(draft[i])

Trusts(t) == t.pos # NoPos /\ ~AtFrontier(t) /\ ~AtArgmaxFrontier(t) /\ ~TokenRegresses(t)

\* A token is read and the walk goes on.
AcceptToken(t) ==
  /\ phase = "walk" /\ Len(draft) < MaxDraft
  /\ Checked => ~Stops(t) /\ (t.starts => UnitPasses)
  /\ draft' = Append(draft, t)
  /\ argmax_streak' = IF Checked /\ AtArgmaxFrontier(t) THEN argmax_streak + 1 ELSE 0
  /\ streak' = IF Checked /\ TokenRegresses(t) THEN streak + 1 ELSE 0
  /\ trusted' = IF Checked /\ Trusts(t) THEN Append(trusted, t.pos) ELSE trusted
  /\ UNCHANGED <<cfg, req, drafted, phase, unsafe, blocked, kept, upto, pending, accepted>>

\* Where the walk stopped and what it accepted before.
Stop(at, k, p) ==
  /\ phase' = "trim" /\ unsafe' = at /\ kept' = k /\ blocked' = p
  /\ UNCHANGED <<cfg, req, drafted, argmax_streak, streak, trusted, upto, pending, accepted>>

\* The variant "token" breaks at a token; a unit variant drops the token's whole unit.
StopAtToken(t) ==
  /\ phase = "walk" /\ Len(draft) < MaxDraft /\ Checked /\ Stops(t)
  /\ t.starts => UnitPasses
  /\ draft' = Append(draft, t)
  /\ \E p \in {t.pos} \cup (IF cfg.variant = "unit_consensus" THEN {u.pos : u \in Tokens} ELSE {}) :
       Stop(Len(draft'),
            IF cfg.variant = "token" \/ t.starts \/ draft = <<>> THEN Len(draft)
            ELSE UnitStart(Len(draft)) - 1, p)

\* A source-bearing unit fails as a whole: none of its tokens bears source, or their
\* mean masses do not pass.
StopAtUnit ==
  /\ phase = "walk" /\ Checked /\ draft # <<>>
  /\ cfg.variant = "unit_mass_source_bearing"
  /\ LET start == UnitStart(Len(draft)) IN Stop(start, start - 1, draft[start].pos)
  /\ UNCHANGED draft

\* The draft, or the rows the observer has of it, is at its end.
DraftEnds ==
  /\ phase = "walk"
  /\ Checked => UnitPasses
  /\ \E unseen \in 0 .. MaxUnseen :
       /\ ~Checked /\ ~req.final => unseen = 0
       /\ drafted' = Len(draft) + unseen
  /\ kept' = Len(draft) /\ phase' = "trim"
  /\ UNCHANGED <<cfg, req, draft, unsafe, blocked, trusted, argmax_streak, streak,
                 upto, pending, accepted>>

-----------------------------------------------------------------------------
\* What finalize_partial leaves of the candidates.

\* The last unit may be incomplete, unless the unsafe token opens the next one.
BoundaryTrim ==
  IF unsafe # 0 /\ draft[unsafe].starts THEN kept ELSE CutUnits(kept, 1)

\* Mutant: the unit that never comes back inside the frontier stays.
FrontierTrimLate(n) ==
  LET inside == {i \in 1 .. n : ~AtFrontier(draft[i])}
  IN  IF cfg.frontier_action = "stop" \/ n = 0 \/ n \in inside THEN n
      ELSE CHOOSE e \in UnitEnds(n) : e >= (IF inside = {} THEN 1 ELSE Max(inside))

\* Mutant: the trim begins one token before the unit.
FrontierTrimFar(n) == IF n = 0 \/ ~AtFrontier(draft[n]) THEN n ELSE UnitStart(n) - 2

\* trim_for_source_frontier_target_units: drops the units from the first token of the
\* last run of tokens beyond the frontier.
FrontierTrim(n) ==
  LET inside == {i \in 1 .. n : ~AtFrontier(draft[i])}
      last == IF inside = {} THEN 0 ELSE Max(inside)
  IN  IF cfg.frontier_action = "stop" \/ last = n THEN n ELSE UnitStart(last + 1) - 1

\* The static cutoff of a draft nothing was aligned for: static_cutoff_acceptance.
StaticCutoff ==
  IF cfg.policy = "cut_last_x"
    THEN IF drafted > cfg.cutoff_units THEN drafted - cfg.cutoff_units ELSE 0
    ELSE CutUnits(drafted, cfg.cutoff_units)

\* A whole draft is accepted.
Flush == drafted

\* A request that is not partial, or whose source is final, accepts the whole draft; a
\* static policy cuts it; without a source map nothing is accepted.
AcceptUnchecked ==
  /\ phase = "trim" /\ ~Checked
  /\ accepted' = IF ~req.partial \/ req.final THEN Flush
                 ELSE IF cfg.policy # "alignatt" THEN StaticCutoff ELSE 0
  /\ phase' = "done"
  /\ UNCHANGED <<cfg, req, draft, drafted, unsafe, blocked, kept, trusted,
                 argmax_streak, streak, upto, pending>>

\* The first part of finalize_partial, up to the regression trim.
TrimBoundary ==
  /\ phase = "trim" /\ Checked
  /\ kept' = FrontierTrim(BoundaryTrim)
  /\ IF cfg.regression_action = "stop" THEN phase' = "cut" /\ upto' = kept'
     ELSE phase' = "regress" /\ UNCHANGED upto
  /\ trusted' = <<>> /\ streak' = 0
  /\ UNCHANGED <<cfg, req, draft, drafted, unsafe, blocked, argmax_streak,
                 pending, accepted>>

NextEnd == Min({e \in UnitEnds(kept) : e > upto})

\* _source_regression_unit_evidence; no row of a candidate is corrupt.
Evidence ==
  LET unit == upto + 1 .. NextEnd
  IN  [pos |-> Max({draft[i].pos : i \in unit}), acc |-> Max({draft[i].acc : i \in unit}),
       inacc |-> Max({draft[i].inacc : i \in unit}), finite |-> TRUE]

\* The positions of the unit's aligned tokens, in order.
UnitPositions ==
  LET aligned == {i \in upto + 1 .. NextEnd : draft[i].pos # NoPos}
      Nth(k) == CHOOSE i \in aligned : Cardinality({j \in aligned : j <= i}) = k
  IN  [k \in 1 .. Cardinality(aligned) |-> draft[Nth(k)].pos]

\* Mutant: only the unit that reached the limit is dropped.
PendingTrimLast == upto

\* Where the suffix begins that a trim would drop now.
PendingTrim == IF pending = NoPos THEN upto ELSE pending

\* trim_for_source_regression_target_units: one unit that does not regress.
UnitAdvances ==
  /\ phase = "regress" /\ upto < kept
  /\ ~Regresses(Evidence, Reference(trusted))
  /\ upto' = NextEnd /\ streak' = 0 /\ pending' = NoPos
  /\ trusted' = trusted \o UnitPositions
  /\ UNCHANGED <<cfg, req, draft, drafted, phase, unsafe, blocked, kept, argmax_streak,
                 accepted>>

\* One unit that does; trim_target_unit stops at the patience limit.
UnitRegresses ==
  /\ phase = "regress" /\ upto < kept
  /\ Regresses(Evidence, Reference(trusted))
  /\ streak' = streak + 1
  /\ IF cfg.regression_action = "trim_target_unit" /\ streak + 1 >= cfg.regression_patience
       THEN upto' = PendingTrim /\ phase' = "cut" /\ UNCHANGED pending
       ELSE upto' = NextEnd /\ pending' = PendingTrim /\ UNCHANGED phase
  /\ UNCHANGED <<cfg, req, draft, drafted, unsafe, blocked, kept, trusted, argmax_streak,
                 accepted>>

\* Mutant: a suffix that never recovered stays.
Unrecovered == kept

\* The suffix that trim_unrecovered drops at the end of the loop.
Recovered ==
  IF cfg.regression_action = "trim_unrecovered" /\ pending # NoPos
     /\ streak >= cfg.regression_patience
    THEN pending ELSE kept

RegressionTrimmed ==
  /\ phase = "regress" /\ upto = kept
  /\ upto' = Recovered /\ phase' = "cut"
  /\ UNCHANGED <<cfg, req, draft, drafted, unsafe, blocked, kept, trusted, argmax_streak,
                 streak, pending, accepted>>

Floor(x) == IF x < 0 THEN 0 ELSE x

\* The positions of the source-bearing tokens of the unit that ends at e.
BearingPositions(e) ==
  {draft[i].pos : i \in {j \in Unit(e) : /\ Mass(draft[j]) >= cfg.lookback_min_mass
                                         /\ draft[j].pos # NoPos}}

\* trim_for_source_lookback_holdback
LookbackTrim(n) ==
  LET near(p) == /\ p >= cfg.lookback_min_position
                 /\ p >= Floor(blocked - cfg.lookback_units)
      hits == {e \in UnitEnds(n) : \E p \in BearingPositions(e) : near(p)}
  IN  IF ~cfg.lookback \/ blocked = NoPos \/ hits = {} THEN n ELSE UnitStart(Min(hits)) - 1

\* trim_low_source_terminal_punctuation: units that end a sentence without source
\* behind them are dropped from the end.
PunctuationTrim(n) ==
  LET low(e) == /\ draft[e].ends
                /\ \A i \in Unit(e) : Mass(draft[i]) < cfg.punctuation_min_mass
      firm == {e \in UnitEnds(n) : ~low(e)}
  IN  IF ~cfg.defer_punctuation THEN n ELSE IF firm = {} THEN 0 ELSE Max(firm)

MinEmit(n) == IF Cardinality(UnitEnds(n)) < cfg.min_emit THEN 0 ELSE n

\* The minimum of accessible source units: a block, or a cap on target units.
SourceContext(n) ==
  IF req.units >= cfg.min_source_units THEN n
  ELSE IF cfg.cap_units THEN KeepUnits(n, req.units) ELSE 0

\* trim_for_accepted_prefix_provenance: the longest prefix of whole units whose mean
\* masses pass.
ProvenanceTrim(n) == IF cfg.min_accepted_mass THEN UnitEnds(n) \cup {0} ELSE {n}

\* The rest of finalize_partial, after the regression trim.
Accept ==
  /\ phase = "cut"
  /\ accepted' \in ProvenanceTrim(SourceContext(MinEmit(PunctuationTrim(
                     CutUnits(LookbackTrim(upto), cfg.hold_back)))))
  /\ phase' = "done"
  /\ UNCHANGED <<cfg, req, draft, drafted, unsafe, blocked, kept, trusted, argmax_streak,
                 streak, upto, pending>>

Done == phase = "done" /\ UNCHANGED vars

Next ==
  \/ \E t \in Tokens : AcceptToken(t) \/ StopAtToken(t)
  \/ StopAtUnit \/ DraftEnds \/ AcceptUnchecked \/ TrimBoundary
  \/ UnitAdvances \/ UnitRegresses \/ RegressionTrimmed \/ Accept \/ Done

Spec == Init /\ [][Next]_vars

-----------------------------------------------------------------------------
TypeOK ==
  /\ cfg \in Configs /\ req \in Requests
  /\ draft \in Seq(Tokens) /\ Len(draft) <= MaxDraft /\ drafted \in Nat
  /\ phase \in {"walk", "trim", "regress", "cut", "done"}
  /\ unsafe \in 0 .. Len(draft) /\ blocked \in Nat \cup {NoPos} /\ kept \in 0 .. Len(draft)
  /\ trusted \in Seq(Nat) /\ argmax_streak \in Nat /\ streak \in Nat
  /\ upto \in 0 .. Len(draft) /\ pending \in Nat \cup {NoPos} /\ accepted \in Nat

\* What a checked partial request shows of its draft.
Shown == IF phase = "done" /\ Checked THEN 1 .. accepted ELSE {}

\* A partial translation never shows part of a word: through every trim of
\* finalize_partial, in whatever order they bite, the token after the accepted prefix
\* opens a unit.
WholeUnits ==
  Shown # {} => accepted < Len(draft) /\ draft[accepted + 1].starts

\* The position is behind the frontier, or the mass beyond it is below the soft gate.
Grounded(t) ==
  t.pos < req.accessible + cfg.border_margin \/ t.inacc < cfg.frontier_min_inaccessible

\* With "trim_unrecovered", a token beyond the frontier is shown only if the draft came
\* back inside after it.
FrontierRecovered ==
  cfg.frontier_action = "trim_unrecovered" /\ cfg.variant = "token"
    => \A i \in Shown : \E j \in i .. Len(draft) : Grounded(draft[j])

\* A token whose captured attention is corrupt is withheld, as the warning of translate
\* promises, whatever the variant.
CorruptWithheld == \A i \in Shown : draft[i].finite

HighestOf(S) == Max({draft[i].pos : i \in S} \cup {NoPos})

\* The plain regression gate: no exemption, the global maximum.
PlainRegression ==
  /\ cfg.max_regression >= 0 /\ ~cfg.frontier_reached /\ cfg.recent_tokens = 0
  /\ cfg.regression_min_inaccessible = 0 /\ cfg.regression_min_mass = 0

\* The unit ends more than max_regression behind what is before it.
Behind(e) ==
  /\ HighestOf(Unit(e)) # NoPos
  /\ HighestOf(Unit(e)) < HighestOf(1 .. UnitStart(e) - 1) - cfg.max_regression

\* The candidate units of one run with the unit that ends at e: all between are behind.
Run(e) ==
  {f \in UnitEnds(kept) : \A g \in UnitEnds(kept) :
     (e <= g /\ g <= f) \/ (f <= g /\ g <= e) => Behind(g)}

\* source_regression_patience_tokens
Patience == IF cfg.regression_patience <= 1 THEN 1 ELSE cfg.regression_patience

\* With "trim_target_unit" a unit that is shown behind the source progression was one of
\* fewer than patience in a row: a longer run is taken back from its first unit, though
\* the loop had let it pass.
MonotoneUnits ==
  PlainRegression /\ cfg.regression_action = "trim_target_unit" /\ Shown # {}
    => \A e \in UnitEnds(accepted) : Behind(e) => Cardinality(Run(e)) < Patience

\* With "trim_unrecovered" a longer run is shown only if a candidate after it caught up.
RegressionRecovered ==
  PlainRegression /\ cfg.regression_action = "trim_unrecovered" /\ Shown # {}
    => \A e \in UnitEnds(accepted) : Behind(e) =>
         \/ Cardinality(Run(e)) < Patience
         \/ \E f \in UnitEnds(kept) : f > e /\ ~Behind(f)
=============================================================================
