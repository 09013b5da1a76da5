----------------------------- MODULE JobPrograms -----------------------------
(***************************************************************************)
(* The dispatch of run_experiment: the program of each type of experiment. *)
(***************************************************************************)
EXTENDS CalibrationJobs, PilotJobs, TournamentJobs, EngineJobs, TLC

RetestPrograms ==
  [design |-> design_select \o design_preregister,
   execution |-> execution_prepare \o execution_conclude({"done"}),
   post_design |-> post_design, pilot |-> pilot, contract_map |-> contract_map,
   v3_design |-> v3_design_base \o v3_design_preregister,
   v3 |->
     execution_prepare
       \o execution_conclude({"survivors", "zero", "insufficient", "invalid"})]
AuditPrograms ==
  [path_geometry |-> path_geometry, metal_energy |-> metal_energy,
   cross_market |-> cross_market, volatility |-> volatility,
   foundry |-> foundry]
PilotPrograms ==
  [equity_open_gap |-> equity_open_gap_prepare \o equity_open_gap_candidates
                       \o equity_open_gap_conclude,
   continuation |-> continuation_prepare \o continuation_candidates
                    \o continuation_conclude,
   q4_freeze |-> q4_freeze_authorize \o q4_freeze_freeze,
   opening_hazard |-> opening_hazard_prepare \o opening_hazard_candidates
                      \o opening_hazard_conclude,
   cross_ecology |-> cross_ecology_prepare \o cross_ecology_candidates
                     \o cross_ecology_conclude,
   mtf |-> mtf_prepare \o mtf_candidates \o mtf_conclude,
   rty_ym |-> rty_ym_prepare \o rty_ym_candidates \o rty_ym_conclude,
   ym_risk_off |-> ym_risk_off_prepare \o ym_risk_off_evaluate
                   \o ym_risk_off_conclude]
SelectionPrograms ==
  [qd |-> qd_prepare \o qd_select \o qd_confirm \o qd_conclude \o qd_report,
   ym_strict |-> ym_strict_prepare \o ym_strict_replay,
   ym_shadow |-> ym_shadow,
   accelerated |-> accelerated_prepare \o accelerated_select
                   \o accelerated_confirm \o accelerated_conclude,
   null_power |-> null_power,
   policy_repair |-> policy_repair_prepare \o policy_repair_conclude,
   alpha |-> alpha_prepare \o alpha_conclude]
PrimaryPrograms ==
  [primary_context |-> primary_context_prepare \o primary_context_select
                       \o primary_context_confirm \o primary_context_conclude,
   counterfactual |-> counterfactual_prepare \o counterfactual_select
                      \o counterfactual_confirm \o counterfactual_conclude,
   barrier |-> barrier_prepare \o barrier_select \o barrier_confirm
               \o barrier_conclude,
   energy_metals |-> energy_metals_prepare \o energy_metals_select
                     \o energy_metals_confirm \o energy_metals_conclude,
   session_geometry |-> session_geometry_prepare \o session_geometry_select
                        \o session_geometry_confirm
                        \o session_geometry_conclude,
   micro_repair |-> micro_repair_prepare \o micro_repair_confirm
                    \o micro_repair_conclude,
   micro_shadow |-> activation_authorize \o activation_freeze]
DailyPrograms ==
  [gc_fresh |-> gc_fresh_prepare \o gc_fresh_confirm \o gc_fresh_conclude,
   cross_asset |-> cross_asset_prepare \o cross_asset_select
                   \o cross_asset_confirm \o cross_asset_conclude,
   cross_asset_shadow |-> activation_authorize \o activation_freeze,
   baskets |-> baskets_replay \o baskets_conclude,
   survival |-> survival_prepare \o survival_models \o survival_conclude,
   meta |-> meta, post_meta |-> meta,
   causal |-> causal_prepare \o causal_select \o causal_confirm
              \o causal_conclude]
CampaignPrograms ==
  [rty_null |-> rty_null_prepare \o rty_null_match \o rty_null_conclude,
   barrier_shadow |-> activation_authorize \o activation_freeze,
   child |-> activation_authorize \o activation_freeze,
   mutation |-> mutation, role_research |-> role_research,
   feed_audit |-> feed_audit, halving |-> halving,
   admission |-> admission_replay \o admission_decide]
StructuralPrograms ==
  [role_epoch |-> role_epoch_prepare \o role_epoch_conclude,
   preclose |-> preclose_prepare \o preclose_confirm \o preclose_conclude,
   mini_micro |-> mini_micro_prepare \o mini_micro_select
                  \o mini_micro_confirm \o mini_micro_conclude,
   turbo |-> turbo_prepare \o turbo_generate \o turbo_evaluate,
   v5 |-> v5_prepare \o v5_generate \o v5_evaluate \o v5_conclude]
EnginePrograms ==
  [v6 |-> v6_prepare \o v6_generate \o v6_evaluate \o v6_ledgers
          \o v6_conclude,
   promotion |-> promotion_replay \o promotion_freeze,
   conversion |-> conversion_prepare \o conversion_validate
                  \o conversion_freeze,
   bridge |-> bridge]

run_experiment ==
  RetestPrograms @@ AuditPrograms @@ PilotPrograms @@ SelectionPrograms
    @@ PrimaryPrograms @@ DailyPrograms @@ CampaignPrograms
    @@ StructuralPrograms @@ EnginePrograms
=============================================================================
