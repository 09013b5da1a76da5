--------------------------- MODULE CampaignRoutes ---------------------------
(***************************************************************************)
(* What the controller does with the result of each experiment of the      *)
(* fixed chain.  A result is abstracted to its finding.                    *)
(***************************************************************************)

(* The routes: what a _route_X method does with each finding.              *)

Blocked == {"INTEGRITY_BLOCKED", "ENGINEERING_BLOCKED", "EXPERIMENT_BLOCKED"}

\* The block a route writes, and the stage it reconciles at once.  A
\* blocker is written without the suffix _REQUIRED.
Ask(b) == [phase |-> "ENGINEERING_BLOCKED", ask |-> b, next |-> "none"]
AskNow(b, s) == [Ask(b) EXCEPT !.next = s]
Halt(b) == [Ask(b) EXCEPT !.phase = "INTEGRITY_BLOCKED"]
Resume(s) == [phase |-> "PLANNING_NEXT_ACTION", ask |-> "none", next |-> s]
Quietly(s) == [phase |-> "none", ask |-> "none", next |-> s]

route_calibration_affected_atom_retest_design == [done |-> Quietly("none")]
route_calibration_affected_atom_retest_execution == [done |-> Quietly("none")]
route_post_calibration_retest_research_design ==
  [pilot |-> Quietly("pilot"),
   unsupported |-> Quietly("unsupported_pilot")]
route_validator_integrity_repair_pilot ==
  [rebuild |-> Halt("CONTRACT_MAP_REBUILD"),
   inconclusive |-> Halt("INTEGRITY_AUDIT_INCONCLUSIVE")]
route_contract_map_date_aware_repair ==
  [repaired |-> Halt("FRESH_RETEST_WITH_REPAIRED_MAP")]
route_calibration_affected_atom_retest_v3_design ==
  [preregistered |-> Quietly("v3"),
   incomplete |-> Ask("V3_EXECUTION_SPECIFICATION_INCOMPLETE")]
route_v3_execution ==
  [survivors |-> Ask("V3_SURVIVOR_REPLICATION_DESIGN"),
   zero |-> Ask("V3_ZERO_SURVIVAL_GEOMETRY_PIVOT_DESIGN"),
   insufficient |-> Ask("V3_INSUFFICIENT_EVIDENCE_RESOLUTION_DESIGN"),
   invalid |-> Halt("V3_RETEST_INTEGRITY_RESOLUTION"),
   other |-> Ask("V3_RETEST_OUTCOME_ROUTING")]
route_path_geometry ==
  [survivor |-> Ask("PATH_GEOMETRY_INDEPENDENT_REPLICATION"),
   none |-> Ask("MARKET_ECOLOGY_PIVOT")]
route_metal_energy ==
  [survivor |-> Ask("METAL_ENERGY_INDEPENDENT_REPLICATION"),
   none |-> Ask("MARKET_ECOLOGY_REPRESENTATION_PIVOT")]
route_cross_market == [done |-> Ask("NEW_REPRESENTATION_PIVOT")]
route_volatility == [done |-> Ask("NEW_REPRESENTATION_PIVOT")]
route_foundry_bootstrap ==
  [valid |-> AskNow("EQUITY_OPEN_GAP_REVERSAL_PILOT", "equity_open_gap"),
   invalid |-> Halt("FOUNDRY_BOOTSTRAP_INVALID")]
route_equity_open_gap ==
  [q4 |-> Ask("Q4_FREEZE_PROTOCOL"),
   shadow |-> Ask("SHADOW_CANDIDATE_FAILURE_SURFACE"),
   falsified |-> AskNow("EQUITY_OPEN_GAP_CONTINUATION_PILOT", "continuation"),
   promising |-> Ask("DISTRIBUTIONAL_OPENING_HAZARD_PILOT")]
route_equity_open_gap_continuation ==
  [q4 |-> AskNow("Q4_FREEZE_PROTOCOL", "q4_freeze"),
   shadow |-> Ask("CONTINUATION_FAILURE_SURFACE"),
   none |-> Ask("DISTRIBUTIONAL_OPENING_HAZARD_PILOT")]
route_q4_candidate_freeze ==
  [ready |-> AskNow("DISTRIBUTIONAL_OPENING_HAZARD_PILOT", "opening_hazard"),
   invalid |-> Halt("Q4_FREEZE_INVALID")]
route_opening_direction_hazard ==
  [eligible |-> Ask("DISTINCT_HAZARD_FREEZE_PROTOCOL"),
   none |-> AskNow("CROSS_ECOLOGY_INVARIANT_SEARCH", "cross_ecology")]
route_cross_ecology_opening_acceptance ==
  [shadow |-> Ask("DISTINCT_ECOLOGY_FREEZE_OR_FORWARD_SHADOW"),
   promising |-> Ask("CROSS_ECOLOGY_FAILURE_SURFACE"),
   none |-> AskNow("MULTITIMEFRAME_SESSION_DAILY_INVARIANT", "mtf")]
route_mtf_session_trend_confirmation ==
  [shadow |-> Ask("DISTINCT_MTF_FREEZE_OR_FORWARD_SHADOW"),
   promising |-> Ask("MTF_ABLATION_AND_FAILURE_SURFACE"),
   none |-> AskNow("RELATIVE_VALUE_OR_DEFENSIVE_PORTFOLIO", "rty_ym")]
route_rty_ym_relative_value ==
  [shadow |-> Ask("RELATIVE_VALUE_EXECUTION_OR_FREEZE"),
   promising |-> Ask("RELATIVE_VALUE_FAILURE_SURFACE"),
   none |-> Ask("DEFENSIVE_PORTFOLIO_RISK_ENGINE")]
route_ym_shared_risk_off ==
  [shadow |-> Ask("DEFENSIVE_FORWARD_SHADOW_AND_BASKET"),
   promising |-> Ask("DEFENSIVE_FAILURE_SURFACE"),
   none |-> Ask("INVENTED_METHOD_OR_PORTFOLIO_SEARCH")]
route_qd_economic_tournament ==
  [shadow |-> AskNow("QD_SHADOW_ACTIVATION_AND_YM_STRICT_REPLAY", "ym_strict"),
   promising |-> AskNow("QD_TARGETED_CONFIRMATION_AND_YM_STRICT_REPLAY", "ym_strict"),
   none |-> AskNow("QD_FAILURE_MAP_AND_YM_STRICT_REPLAY", "ym_strict")]
route_ym_strict_promotion ==
  [eligible |-> AskNow("YM_IMMUTABLE_SHADOW_ACTIVATION", "ym_shadow"),
   invalid |-> Ask("YM_SHADOW_HARD_INVALIDATION_RESOLUTION")]
route_ym_shadow_activation == [activated |-> Resume("accelerated")]
route_accelerated_context_tournament == [done |-> Quietly("null_power")]
route_selection_null_power ==
  [calibrated |-> Ask("NEW_MECHANISM_OR_FRESH_CONFIRMATION"),
   fpr_failed |-> AskNow("SELECTION_NULL_POLICY_REPAIR", "policy_repair"),
   underpowered |-> AskNow("SELECTION_NULL_POLICY_REPAIR", "policy_repair")]
route_selection_null_policy_repair ==
  [passed |-> Ask("NEW_SINGLE_PRIMARY_TOURNAMENT"),
   failed |-> AskNow("TIGHTER_SINGLE_PRIMARY_ALPHA_CALIBRATION", "alpha")]
route_single_primary_alpha ==
  [calibrated |-> AskNow("NEW_SINGLE_PRIMARY_TOURNAMENT", "primary_context"),
   failed |-> Ask("NEW_VALIDATION_STATISTIC")]
route_single_primary_context ==
  [shadow |-> Ask("SINGLE_PRIMARY_SHADOW_ACTIVATION"),
   promising |-> Ask("SINGLE_PRIMARY_NEW_ID_CONFIRMATION"),
   no_primary |-> AskNow("COUNTERFACTUAL_HAZARD_PRIMARY", "counterfactual"),
   falsified |-> AskNow("COUNTERFACTUAL_HAZARD_PRIMARY", "counterfactual")]
route_counterfactual_hazard ==
  [shadow |-> Ask("COUNTERFACTUAL_HAZARD_SHADOW_ACTIVATION"),
   promising |-> Ask("COUNTERFACTUAL_HAZARD_NEW_ID_REPLICATION"),
   no_primary |-> AskNow("DISTRIBUTIONAL_BARRIER_HAZARD_PRIMARY", "barrier"),
   falsified |-> AskNow("DISTRIBUTIONAL_BARRIER_HAZARD_PRIMARY", "barrier")]
route_barrier_hazard ==
  [shadow |-> AskNow("BARRIER_HAZARD_SHADOW_ACTIVATION", "barrier_shadow"),
   several |-> AskNow("BARRIER_HAZARD_SHADOW_ACTIVATION", "barrier_shadow"),
   promising |-> Ask("BARRIER_HAZARD_FRESH_ID_REPLICATION"),
   none |-> Ask("ENERGY_METALS_ECOLOGY_SEARCH")]
route_barrier_shadow_activation ==
  [activated |-> Ask("ENERGY_METALS_ECOLOGY_SEARCH")]
route_energy_metals_barrier ==
  [shadow |-> Ask("ENERGY_METALS_SHADOW_ACTIVATION"),
   promising |-> Ask("ENERGY_METALS_FRESH_ID_REPLICATION"),
   none |-> Ask("ENERGY_METALS_SESSION_GEOMETRY")]
route_energy_metals_session_geometry ==
  [shadow |-> Ask("ENERGY_METALS_SESSION_SHADOW_ACTIVATION"),
   promising |-> Ask("ENERGY_METALS_SESSION_GEOMETRY_REPLICATION"),
   none |-> Ask("CROSS_ASSET_DAILY_HORIZON")]
route_session_geometry_micro_repair ==
  [shadow |-> AskNow("SESSION_GEOMETRY_MICRO_SHADOW_ACTIVATION", "micro_shadow"),
   falsified |-> Ask("CROSS_ASSET_DAILY_HORIZON")]
route_session_geometry_micro_shadow ==
  [activated |-> Ask("GC_SESSION_GEOMETRY_FRESH_ID")]
route_gc_session_geometry_fresh ==
  [shadow |-> Ask("GC_SESSION_GEOMETRY_SHADOW_ACTIVATION"),
   falsified |-> Ask("CROSS_ASSET_DAILY_HORIZON")]
route_cross_asset_daily ==
  [shadow |-> AskNow("CROSS_ASSET_DAILY_SHADOW_ACTIVATION", "cross_asset_shadow"),
   several |-> AskNow("CROSS_ASSET_DAILY_SHADOW_ACTIVATION", "cross_asset_shadow"),
   none |-> Ask("DISTRIBUTIONAL_PORTFOLIO_ROLE_PIVOT")]
route_cross_asset_daily_shadow ==
  [activated |-> Ask("PORTFOLIO_BASKET_AND_DISTRIBUTIONAL_SEARCH")]
route_shadow_shared_account_baskets ==
  [three |-> Ask("DISTRIBUTIONAL_SURVIVAL_HAZARD_SEARCH"),
   fewer |-> Ask("SHARED_ACCOUNT_RISK_REMEDIATION")]
route_survival_hazard ==
  [robust |-> Ask("HAZARD_DEFENSIVE_POLICY_CONSTRUCTION"),
   insufficient |-> Ask("CAUSAL_TRANSITION_GRAPH_SEARCH"),
   uncontrolled |-> Ask("CAUSAL_TRANSITION_GRAPH_SEARCH")]
route_meta_failure_allocation == [done |-> Quietly("none")]
route_causal_transition_graph ==
  [shadow |-> Ask("CAUSAL_TRANSITION_GRAPH_SHADOW_ACTIVATION"),
   one |-> Ask("CAUSAL_TRANSITION_MATCHED_NULL_AND_MUTATION"),
   several |-> Ask("CAUSAL_TRANSITION_MATCHED_NULL_AND_MUTATION"),
   none |-> Ask("TARGETED_PROMISING_LINEAGE_MUTATION")]
route_rty_transition_matched_null ==
  [supported |-> Ask("FORWARD_ONLY_TRANSITION_CHILD_SPECIFICATION"),
   none |-> Ask("PORTFOLIO_ROLE_AND_PROMISING_LINEAGE_MUTATION")]
route_promising_lineage_mutation == [done |-> Quietly("finalize")]
route_portfolio_role_research == [done |-> Quietly("finalize")]
route_forward_shadow_feed_audit == [done |-> Quietly("finalize")]
route_post_mutation_successive_halving ==
  [selected |-> AskNow("PROMISING_CHILD_RAW_REPLAY_AND_SHADOW_ADMISSION", "admission"),
   none |-> Ask("ROLE_CONDITIONED_STRUCTURAL_DISCOVERY_EPOCH")]
route_post_mutation_shadow_admission ==
  [one |-> AskNow("POST_MUTATION_CHILD_SHADOW_ACTIVATION", "child"),
   none |-> Ask("ROLE_CONDITIONED_STRUCTURAL_DISCOVERY_EPOCH")]
route_post_mutation_child_shadow_activation ==
  [activated |-> AskNow("ROLE_CONDITIONED_STRUCTURAL_DISCOVERY_EPOCH", "role_epoch")]
route_role_conditioned_structural_epoch ==
  [promising |-> Ask("ROLE_SPECIFIC_ACCOUNT_POLICY_PROMOTION"),
   insufficient |-> AskNow("EQUITY_PRECLOSE_INVENTORY_DISPERSION", "preclose")]
route_equity_preclose_inventory_dispersion ==
  [promising |-> Ask("EQUITY_PRECLOSE_FROZEN_PROMOTION"),
   insufficient |-> AskNow("MARKET_ECOLOGY_PIVOT_OR_FORWARD_DATA", "mini_micro")]
route_mini_micro_participation_divergence ==
  [promising |-> Ask("MINI_MICRO_PARTICIPATION_FROZEN_PROMOTION"),
   insufficient |-> Ask("DISTINCT_MECHANISM_OR_FORWARD_DATA")]

\* Of every experiment, in the order of the table of completed experiments.
Route ==
  [design |-> route_calibration_affected_atom_retest_design,
   execution |-> route_calibration_affected_atom_retest_execution,
   post_design |-> route_post_calibration_retest_research_design,
   pilot |-> route_validator_integrity_repair_pilot,
   contract_map |-> route_contract_map_date_aware_repair,
   v3_design |-> route_calibration_affected_atom_retest_v3_design,
   v3 |-> route_v3_execution, path_geometry |-> route_path_geometry,
   metal_energy |-> route_metal_energy, cross_market |-> route_cross_market,
   volatility |-> route_volatility, foundry |-> route_foundry_bootstrap,
   equity_open_gap |-> route_equity_open_gap,
   continuation |-> route_equity_open_gap_continuation,
   q4_freeze |-> route_q4_candidate_freeze,
   opening_hazard |-> route_opening_direction_hazard,
   cross_ecology |-> route_cross_ecology_opening_acceptance,
   mtf |-> route_mtf_session_trend_confirmation,
   rty_ym |-> route_rty_ym_relative_value,
   ym_risk_off |-> route_ym_shared_risk_off,
   qd |-> route_qd_economic_tournament,
   ym_strict |-> route_ym_strict_promotion,
   ym_shadow |-> route_ym_shadow_activation,
   accelerated |-> route_accelerated_context_tournament,
   null_power |-> route_selection_null_power,
   policy_repair |-> route_selection_null_policy_repair,
   alpha |-> route_single_primary_alpha,
   primary_context |-> route_single_primary_context,
   counterfactual |-> route_counterfactual_hazard,
   barrier |-> route_barrier_hazard,
   barrier_shadow |-> route_barrier_shadow_activation,
   energy_metals |-> route_energy_metals_barrier,
   session_geometry |-> route_energy_metals_session_geometry,
   micro_repair |-> route_session_geometry_micro_repair,
   micro_shadow |-> route_session_geometry_micro_shadow,
   gc_fresh |-> route_gc_session_geometry_fresh,
   cross_asset |-> route_cross_asset_daily,
   cross_asset_shadow |-> route_cross_asset_daily_shadow,
   baskets |-> route_shadow_shared_account_baskets,
   survival |-> route_survival_hazard, meta |-> route_meta_failure_allocation,
   causal |-> route_causal_transition_graph,
   rty_null |-> route_rty_transition_matched_null,
   mutation |-> route_promising_lineage_mutation,
   role_research |-> route_portfolio_role_research,
   feed_audit |-> route_forward_shadow_feed_audit,
   post_meta |-> route_meta_failure_allocation,
   halving |-> route_post_mutation_successive_halving,
   admission |-> route_post_mutation_shadow_admission,
   child |-> route_post_mutation_child_shadow_activation,
   role_epoch |-> route_role_conditioned_structural_epoch,
   preclose |-> route_equity_preclose_inventory_dispersion,
   mini_micro |-> route_mini_micro_participation_divergence]
=============================================================================
