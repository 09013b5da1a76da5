------------------------------ MODULE Campaign ------------------------------
(***************************************************************************)
(* The research campaign of AutonomousMissionController: which experiment  *)
(* follows which.  A completed experiment is routed once: its result       *)
(* becomes a phase and a blocker that names the follow-up, some routes     *)
(* queue the follow-up themselves, the others leave it to the next start   *)
(* of the controller, and an event records that the result was routed.     *)
(*                                                                         *)
(* Every set_kv and every enqueue commits by itself.  So the controller is *)
(* a process that works off todo, the writes and calls it still has to     *)
(* make: one step does the first of them, a crash forgets the rest.        *)
(*                                                                         *)
(* A result is abstracted to the finding that the routes and the           *)
(* preconditions of the follow-ups tell apart.  Claims, attempts and       *)
(* workers are those of ExperimentQueue and MissionController: here an     *)
(* experiment runs in one step.  The campaign ends where the generations   *)
(* of the discovery engines take over.                                     *)
(***************************************************************************)
EXTENDS Naturals, FiniteSets, SequencesExt, CampaignRoutes

\* The members of the sequence s that are in T, in their order: the n-th is
\* the one with n of them up to its place.
Those(s, T) ==
  LET P == {p \in DOMAIN s : s[p] \in T}
  IN  [n \in 1..Cardinality(P) |->
         s[CHOOSE p \in P : Cardinality({q \in P : q <= p}) = n]]

CONSTANTS
  Workers,     \* config.workers: the width of a parallel batch
  MaxFaults    \* BOUND: crashes, terminal failures and changed files

ASSUME CampaignAssumption == Workers \in Nat \ {0} /\ MaxFaults \in Nat

-----------------------------------------------------------------------------
(* The stages: what a _reconcile_X method asks for.  The blockers that     *)
(* make it required at a start, the priority of its experiment, the        *)
(* findings without which it returns False in silence, and those without   *)
(* which it blocks on a source mismatch.                                   *)

Stage(on, rank, after, frozen) ==
  [on |-> on, rank |-> rank, after |-> after, frozen |-> frozen]
Row(rank) == Stage({}, rank, {}, {})
Pilot(on, rank) == Stage({on}, rank, {}, {})
Follows(on, rank, s, finding) == Stage({on}, rank, {<<s, {finding}>>}, {})
Done(s) == <<s, DOMAIN Route[s]>>

reconcile_contract_map_repair ==
  Follows("CONTRACT_MAP_REBUILD", 1000, "pilot", "rebuild")
reconcile_fresh_v3_retest ==
  Stage({"FRESH_RETEST_WITH_REPAIRED_MAP"}, 1000, {}, {Done("contract_map")})
queue_v3_execution == Stage({}, 990, {<<"v3_design", {"preregistered"}>>}, {})
reconcile_path_geometry_audit ==
  Pilot("V3_INSUFFICIENT_EVIDENCE_RESOLUTION_DESIGN", 1000)
reconcile_metal_energy_pilot == Pilot("MARKET_ECOLOGY_PIVOT", 1000)
reconcile_cross_market_pilot ==
  Pilot("MARKET_ECOLOGY_REPRESENTATION_PIVOT", 1000)
reconcile_volatility_pilot == Pilot("NEW_REPRESENTATION_PIVOT", 1000)
reconcile_foundry_bootstrap == Pilot("NEW_REPRESENTATION_PIVOT", 1100)
reconcile_equity_open_gap_pilot == Pilot("EQUITY_OPEN_GAP_REVERSAL_PILOT", 1090)
reconcile_equity_open_gap_continuation_pilot ==
  Stage({"EQUITY_OPEN_GAP_CONTINUATION_PILOT"}, 1080, {},
        {<<"equity_open_gap", {"falsified"}>>})
reconcile_q4_candidate_freeze ==
  Stage({"Q4_FREEZE_PROTOCOL"}, 1200, {}, {<<"continuation", {"q4"}>>})
reconcile_opening_direction_hazard ==
  Pilot("DISTRIBUTIONAL_OPENING_HAZARD_PILOT", 1070)
reconcile_cross_ecology_opening_acceptance ==
  Pilot("CROSS_ECOLOGY_INVARIANT_SEARCH", 1060)
reconcile_mtf_session_trend_confirmation ==
  Pilot("MULTITIMEFRAME_SESSION_DAILY_INVARIANT", 1050)
reconcile_rty_ym_relative_value ==
  Pilot("RELATIVE_VALUE_OR_DEFENSIVE_PORTFOLIO", 1040)
reconcile_ym_shared_risk_off == Pilot("DEFENSIVE_PORTFOLIO_RISK_ENGINE", 1050)
reconcile_qd_economic_tournament ==
  Pilot("INVENTED_METHOD_OR_PORTFOLIO_SEARCH", 1100)
reconcile_ym_strict_promotion ==
  Stage({"INVENTED_METHOD_OR_PORTFOLIO_SEARCH", "QD_FAILURE_MAP_AND_YM_STRICT_REPLAY",
         "QD_TARGETED_CONFIRMATION_AND_YM_STRICT_REPLAY",
         "QD_SHADOW_ACTIVATION_AND_YM_STRICT_REPLAY"}, 1090, {}, {})
reconcile_ym_shadow_activation ==
  Stage({}, 1080, {Done("ym_strict")}, {<<"ym_strict", {"eligible"}>>})
reconcile_accelerated_context_tournament == Stage({}, 1070, {}, {})
reconcile_selection_null_power == Stage({}, 1060, {}, {})
reconcile_selection_null_policy_repair ==
  Stage({}, 1055, {Done("null_power")}, {<<"null_power", {"fpr_failed"}>>})
reconcile_single_primary_alpha ==
  Stage({}, 1050, {Done("policy_repair")}, {<<"policy_repair", {"failed"}>>})
reconcile_single_primary_context_tournament ==
  Stage({"NEW_SINGLE_PRIMARY_TOURNAMENT"}, 1049, {Done("alpha")}, {<<"alpha",
        {"calibrated"}>>})
reconcile_counterfactual_hazard_primary ==
  Follows("COUNTERFACTUAL_HAZARD_PRIMARY", 1048, "primary_context", "falsified")
reconcile_barrier_hazard_primary ==
  Follows("DISTRIBUTIONAL_BARRIER_HAZARD_PRIMARY", 1047, "counterfactual",
        "no_primary")
reconcile_barrier_shadow_activation ==
  Follows("BARRIER_HAZARD_SHADOW_ACTIVATION", 1100, "barrier", "shadow")
reconcile_energy_metals_barrier_primary ==
  Pilot("ENERGY_METALS_ECOLOGY_SEARCH", 1050)
reconcile_energy_metals_session_geometry ==
  Stage({"ENERGY_METALS_SESSION_GEOMETRY"}, 1052, {Done("energy_metals")}, {})
reconcile_session_geometry_micro_repair ==
  Follows("ENERGY_METALS_SESSION_GEOMETRY_REPLICATION", 1060,
        "session_geometry", "promising")
reconcile_session_geometry_micro_shadow ==
  Follows("SESSION_GEOMETRY_MICRO_SHADOW_ACTIVATION", 1100, "micro_repair",
        "shadow")
reconcile_gc_session_geometry_fresh ==
  Follows("GC_SESSION_GEOMETRY_FRESH_ID", 1050, "micro_shadow", "activated")
reconcile_cross_asset_daily ==
  Follows("CROSS_ASSET_DAILY_HORIZON", 1050, "gc_fresh", "falsified")
reconcile_cross_asset_daily_shadow ==
  Follows("CROSS_ASSET_DAILY_SHADOW_ACTIVATION", 1100, "cross_asset", "shadow")
reconcile_shadow_shared_account_baskets ==
  Stage({"PORTFOLIO_BASKET_AND_DISTRIBUTIONAL_SEARCH"}, 1080,
        {Done("ym_shadow"), Done("barrier_shadow"), Done("micro_shadow"),
        Done("cross_asset_shadow")}, {})
reconcile_survival_hazard ==
  Follows("DISTRIBUTIONAL_SURVIVAL_HAZARD_SEARCH", 1050, "baskets", "three")
reconcile_meta_failure_allocation ==
  Follows("DISTRIBUTIONAL_SURVIVAL_HAZARD_SEARCH", 1030, "baskets", "three")
reconcile_causal_transition_graph ==
  Follows("CAUSAL_TRANSITION_GRAPH_SEARCH", 1050, "survival", "insufficient")
reconcile_rty_transition_matched_null ==
  Follows("CAUSAL_TRANSITION_MATCHED_NULL_AND_MUTATION", 1060, "causal", "one")
reconcile_post_mutation_successive_halving ==
  Stage({}, 1210, {}, {Done("mutation")})
reconcile_post_mutation_shadow_admission ==
  Stage({"PROMISING_CHILD_RAW_REPLAY_AND_SHADOW_ADMISSION"}, 1220,
        {Done("halving")}, {})
reconcile_post_mutation_child_shadow_activation ==
  Follows("POST_MUTATION_CHILD_SHADOW_ACTIVATION", 1230, "admission", "one")
reconcile_role_conditioned_structural_epoch ==
  Stage({"ROLE_CONDITIONED_STRUCTURAL_DISCOVERY_EPOCH"}, 1240,
        {Done("mutation"), Done("halving"), Done("role_research"),
        Done("post_meta"), Done("child")}, {})
reconcile_equity_preclose_inventory_dispersion ==
  Follows("EQUITY_PRECLOSE_INVENTORY_DISPERSION", 1250, "role_epoch",
        "insufficient")
reconcile_mini_micro_participation_divergence ==
  Stage({}, 1240, {<<"preclose", {"insufficient"}>>}, {})

Stages ==
  [design |-> Row(1000), execution |-> Row(950), post_design |-> Row(920),
   pilot |-> Row(900), contract_map |-> reconcile_contract_map_repair,
   v3_design |-> reconcile_fresh_v3_retest, v3 |-> queue_v3_execution,
   path_geometry |-> reconcile_path_geometry_audit,
   metal_energy |-> reconcile_metal_energy_pilot,
   cross_market |-> reconcile_cross_market_pilot,
   volatility |-> reconcile_volatility_pilot,
   foundry |-> reconcile_foundry_bootstrap,
   equity_open_gap |-> reconcile_equity_open_gap_pilot,
   continuation |-> reconcile_equity_open_gap_continuation_pilot,
   q4_freeze |-> reconcile_q4_candidate_freeze,
   opening_hazard |-> reconcile_opening_direction_hazard,
   cross_ecology |-> reconcile_cross_ecology_opening_acceptance,
   mtf |-> reconcile_mtf_session_trend_confirmation,
   rty_ym |-> reconcile_rty_ym_relative_value,
   ym_risk_off |-> reconcile_ym_shared_risk_off,
   qd |-> reconcile_qd_economic_tournament,
   ym_strict |-> reconcile_ym_strict_promotion,
   ym_shadow |-> reconcile_ym_shadow_activation,
   accelerated |-> reconcile_accelerated_context_tournament,
   null_power |-> reconcile_selection_null_power,
   policy_repair |-> reconcile_selection_null_policy_repair,
   alpha |-> reconcile_single_primary_alpha,
   primary_context |-> reconcile_single_primary_context_tournament,
   counterfactual |-> reconcile_counterfactual_hazard_primary,
   barrier |-> reconcile_barrier_hazard_primary,
   barrier_shadow |-> reconcile_barrier_shadow_activation,
   energy_metals |-> reconcile_energy_metals_barrier_primary,
   session_geometry |-> reconcile_energy_metals_session_geometry,
   micro_repair |-> reconcile_session_geometry_micro_repair,
   micro_shadow |-> reconcile_session_geometry_micro_shadow,
   gc_fresh |-> reconcile_gc_session_geometry_fresh,
   cross_asset |-> reconcile_cross_asset_daily,
   cross_asset_shadow |-> reconcile_cross_asset_daily_shadow,
   baskets |-> reconcile_shadow_shared_account_baskets,
   survival |-> reconcile_survival_hazard,
   meta |-> reconcile_meta_failure_allocation,
   causal |-> reconcile_causal_transition_graph,
   rty_null |-> reconcile_rty_transition_matched_null, mutation |-> Row(1200),
   role_research |-> Row(1190), feed_audit |-> Row(1180),
   post_meta |-> Row(1170),
   halving |-> reconcile_post_mutation_successive_halving,
   admission |-> reconcile_post_mutation_shadow_admission,
   child |-> reconcile_post_mutation_child_shadow_activation,
   role_epoch |-> reconcile_role_conditioned_structural_epoch,
   preclose |-> reconcile_equity_preclose_inventory_dispersion,
   mini_micro |-> reconcile_mini_micro_participation_divergence]
Experiments == DOMAIN Route
ParallelSafe == {"survival", "meta", "causal", "rty_null", "mutation", "role_research",
                 "feed_audit", "post_meta", "halving", "admission", "child", "role_epoch"}

\* The three experiments of _reconcile_portfolio_mutation_campaign.
Trio == <<"mutation", "role_research", "feed_audit">>
TrioBlocker == "PORTFOLIO_ROLE_AND_PROMISING_LINEAGE_MUTATION"

\* The reconcile calls of _initialize, in their order.
StartOrder ==
  <<"contract_map", "v3_design", "path_geometry", "metal_energy", "cross_market",
    "volatility", "foundry", "equity_open_gap", "continuation", "q4_freeze",
    "opening_hazard", "cross_ecology", "mtf", "rty_ym", "ym_risk_off", "qd", "ym_strict",
    "primary_context", "counterfactual", "barrier", "barrier_shadow", "energy_metals",
    "session_geometry", "micro_repair", "micro_shadow", "gc_fresh", "cross_asset",
    "cross_asset_shadow", "baskets", "survival", "meta", "causal", "rty_null", "trio",
    "halving", "admission", "child", "role_epoch", "preclose">>

\* The table of _reconcile_completed_experiments.
CompletedOrder ==
  <<"design", "execution", "post_design", "pilot", "contract_map", "v3_design", "v3",
    "path_geometry", "metal_energy", "cross_market", "volatility", "foundry",
    "equity_open_gap", "continuation", "q4_freeze", "opening_hazard", "cross_ecology",
    "mtf", "rty_ym", "ym_risk_off", "qd", "ym_strict", "ym_shadow", "accelerated",
    "null_power", "policy_repair", "alpha", "primary_context", "counterfactual", "barrier",
    "barrier_shadow", "energy_metals", "session_geometry", "micro_repair", "micro_shadow",
    "gc_fresh", "cross_asset", "cross_asset_shadow", "baskets", "survival", "meta",
    "causal", "rty_null", "mutation", "role_research", "feed_audit", "post_meta",
    "halving", "admission", "child", "role_epoch", "preclose", "mini_micro">>

-----------------------------------------------------------------------------
VARIABLES
  up,              \* the controller runs
  phase, blocker,  \* kv: current_phase, current_blocker
  marks,           \* kv: the flags the planner reads
  row,             \* status of each experiment; of a completed one, its finding
  routed,          \* events completed_experiment_reconciled
  todo,            \* what the controller still has to do before it looks again
  saved, queued,   \* locals of _initialize: phase and blocker it met, work it found
  faults,          \* faults so far
  lost             \* history: a follow-up may have been forgotten

kv == <<phase, blocker, marks>>
locals == <<saved, queued>>
vars == <<up, kv, row, routed, todo, locals, faults, lost>>

NoSave == <<"none", "none">>

CampaignInit ==
  /\ up = FALSE
  /\ phase = "PHASE_0_GOVERNANCE" /\ blocker = "none" /\ marks = {}
  /\ row = [s \in Experiments |-> "absent"]
  /\ routed = {} /\ todo = <<>>
  /\ saved = NoSave /\ queued = FALSE
  /\ faults = 0 /\ lost = FALSE

Fault == faults < MaxFaults /\ faults' = faults + 1
NoFault == UNCHANGED faults

Queued == {s \in Experiments : row[s] = "QUEUED"}
Completed(s) == row[s] \in DOMAIN Route[s]
IsBlocked == phase \in Blocked

-----------------------------------------------------------------------------
(* What the calls of the controller make of the state they meet: the       *)
(* writes they go on to do, and whether they report queued work.           *)

Writes(p, b) == << <<"phase", p>>, <<"blocker", b>> >>
Clear == Writes("PLANNING_NEXT_ACTION", "none")

Answer(ok, steps) == [ok |-> ok, steps |-> steps]
Mismatch == Answer(FALSE, Writes("INTEGRITY_BLOCKED", "FROZEN_SOURCE_MISMATCH"))

Meets(needs) == \A n \in needs : row[n[1]] \in n[2]

\* An experiment that exists is left to run; a completed one is reported as
\* queued work, a failed one is not.
Existing(s) ==
  IF row[s] = "QUEUED" THEN Answer(TRUE, Clear) ELSE Answer(Completed(s), <<>>)

\* The frozen sources of a stage are files and hashes: intact or not.
Reconcile(s, intact) ==
  CASE row[s] # "absent" -> Existing(s)
    [] row[s] = "absent" /\ ~Meets(Stages[s].after) -> Answer(FALSE, <<>>)
    [] OTHER ->
         IF Meets(Stages[s].frozen) /\ intact
         THEN Answer(TRUE, << <<"queue", s>> >> \o Clear)
         ELSE IF s \in {"cross_market", "volatility"} THEN Answer(FALSE, <<>>)
         ELSE Mismatch

\* Neither clears the block of a repair that is already there.
ReconcileContractMap(intact) ==
  IF row["contract_map"] # "absent"
  THEN Answer(row["contract_map"] = "QUEUED", <<>>)
  ELSE Reconcile("contract_map", intact)

\* The v3 retest is two experiments: the design, then its execution.
ReconcileV3(intact) ==
  CASE row["v3"] # "absent" -> [Existing("v3") EXCEPT !.ok = (row["v3"] = "QUEUED")]
    [] row["v3"] = "absent" /\ Completed("v3_design") -> Reconcile("v3", TRUE)
    [] OTHER -> Reconcile("v3_design", intact)

ReconcileTrio(intact) ==
  LET has(st) == {s \in ToSet(Trio) : row[s] = st}
      open == Those(Trio, has("absent"))
  IN  CASE has("absent") \cup has("FAILED") = {} -> Answer(TRUE, Clear)
        [] has("absent") \cup has("FAILED") # {} /\ ~intact -> Mismatch
        [] has("FAILED") # {} /\ intact -> Answer(FALSE, <<>>)
        [] OTHER ->
             Answer(TRUE, [i \in 1..Len(open) |-> <<"queue", open[i]>>] \o Clear)

\* _queue_post_retest_pilot takes the pilot's specification as it is.
QueuePilot(supported) ==
  Answer(TRUE, << <<"queue", "pilot">> >> \o
               (IF supported THEN <<>>
                ELSE Writes("ENGINEERING_BLOCKED", "MISSING_EXPERIMENT_HANDLER")))

Unfinished == \E s \in ToSet(Trio) : ~Completed(s)

\* _finalize_portfolio_mutation_campaign_if_ready, called by the three routes.
Finalize(intact) ==
  IF Unfinished
  THEN Answer(TRUE, Writes("RUNNING_PARALLEL_EXPERIMENTS", "none"))
  ELSE Answer(TRUE, << <<"mark", "campaign">> >> \o
                    Writes("TARGETED_RESEARCH_RESUMED", "none") \o
                    (IF row["post_meta"] # "absent" THEN <<>>
                     ELSE IF intact THEN << <<"queue", "post_meta">> >>
                     ELSE Mismatch.steps))

Resolve(s, intact) ==
  CASE s = "contract_map" -> ReconcileContractMap(intact)
    [] s = "v3_design" -> ReconcileV3(intact)
    [] s = "trio" -> ReconcileTrio(intact)
    [] s = "pilot" -> QueuePilot(TRUE)
    [] s = "unsupported_pilot" -> QueuePilot(FALSE)
    [] s = "finalize" -> Finalize(intact)
    [] OTHER -> Reconcile(s, intact)

\* One turn of _reconcile_completed_experiments.  The completion flag comes
\* first, the event of the routing last; the evidence record before it is
\* written once, whatever happens in between.
Routing(s) ==
  LET o == Route[s][row[s]]
  IN  (IF s \in {"design", "execution"} THEN << <<"mark", s>> >> ELSE <<>>) \o
      (IF o.phase = "none" THEN <<>> ELSE Writes(o.phase, o.ask)) \o
      (IF o.next = "none" THEN <<>> ELSE << <<"reconcile", o.next>> >>) \o
      << <<"event", s>> >>

Unrouted(s) == Completed(s) /\ s \notin routed

ReconcileCompleted ==
  LET due == Those(CompletedOrder, {s \in Experiments : Unrouted(s)})
  IN  [i \in 1..Len(due) |-> <<"route", due[i]>>]

\* After a completion, or a start, that blocked nothing.
Settled == IF IsBlocked THEN <<>> ELSE Clear

-----------------------------------------------------------------------------
(* The steps.  Step(d, a) takes the first thing to do; Then(steps) replaces *)
(* it by the steps it stands for.                                          *)

Step(do) == up /\ todo # <<>> /\ Head(todo)[1] = do
Arg == Head(todo)[2]
Then(steps) == todo' = steps \o Tail(todo)

SetPhase ==
  /\ Step("phase") /\ phase' = Arg /\ Then(<<>>)
  /\ lost' = (lost \/ (IsBlocked /\ Arg = "EXPERIMENT_BLOCKED"))
  /\ UNCHANGED <<up, blocker, marks, row, routed, locals, faults>>

SetBlocker ==
  /\ Step("blocker") /\ blocker' = Arg /\ Then(<<>>)
  /\ UNCHANGED <<up, phase, marks, row, routed, locals, faults, lost>>

SetMark ==
  /\ Step("mark") /\ marks' = marks \cup {Arg} /\ Then(<<>>)
  /\ UNCHANGED <<up, phase, blocker, row, routed, locals, faults, lost>>

\* enqueue_experiment leaves a row alone that has the same specification.
Enqueue ==
  /\ Step("queue") /\ Then(<<>>)
  /\ row' = [row EXCEPT ![Arg] = IF @ = "absent" THEN "QUEUED" ELSE @]
  /\ UNCHANGED <<up, kv, routed, locals, faults, lost>>

RouteResult ==
  /\ Step("route") /\ Then(Routing(Arg))
  /\ UNCHANGED <<up, kv, row, routed, locals, faults, lost>>

RecordRouted ==
  /\ Step("event") /\ routed' = routed \cup {Arg} /\ Then(<<>>)
  /\ UNCHANGED <<up, kv, row, locals, faults, lost>>

\* A reconcile call of a route, and one of _initialize, which keeps its answer.
\* A source that is not intact is a fault.
Resolving(d, keep) ==
  /\ Step(d)
  /\ \E intact \in BOOLEAN :
       LET answer == Resolve(Arg, intact)
       IN  /\ Then(answer.steps)
           /\ queued' = (queued \/ (keep /\ answer.ok))
           /\ IF intact THEN NoFault ELSE (Fault /\ answer # Resolve(Arg, TRUE))
  /\ UNCHANGED <<up, kv, row, routed, saved, lost>>
ResolveNow == Resolving("reconcile", FALSE)
ResolveAtStart == Resolving("start", TRUE)

RouteCompleted ==
  /\ Step("completed") /\ Then(ReconcileCompleted)
  /\ UNCHANGED <<up, kv, row, routed, locals, faults, lost>>

Settle ==
  /\ Step("settle") /\ Then(Settled)
  /\ UNCHANGED <<up, kv, row, routed, locals, faults, lost>>

Forget == saved' = NoSave /\ queued' = FALSE

-----------------------------------------------------------------------------
(* The start of the controller.                                            *)

\* The flags of the experiments that exist, as far as the planner reads them.
\* The code sets those too that are set already.
PlanFlag ==
  [design |-> "design_plan", execution |-> "execution_plan", post_design |-> "post_plan"]

PlanFlags ==
  Those(<<"design", "execution", "post_design">>,
        {s \in DOMAIN PlanFlag : row[s] # "absent" /\ PlanFlag[s] \notin marks})

\* MUTANT of StartCalls: the results of a crashed controller are not routed.
StartCallsOnly == << <<"collect", "none">> >>
StartCalls == << <<"completed", "none">>, <<"collect", "none">> >>

Start ==
  /\ ~up /\ up' = TRUE
  /\ saved' = <<phase, blocker>> /\ queued' = FALSE
  /\ phase' = "RECOVERING"
  /\ LET missing == PlanFlags
     IN  todo' = [i \in 1..Len(missing) |-> <<"mark", PlanFlag[missing[i]]>>] \o
                 StartCalls
  /\ UNCHANGED <<blocker, marks, row, routed, faults, lost>>

\* Which blockers of a phase make a stage required.
StartPhase(s) ==
  IF s \in {"contract_map", "v3_design"} THEN "INTEGRITY_BLOCKED"
  ELSE "ENGINEERING_BLOCKED"
Stalls(s) == IF s \in {"role_epoch", "preclose"} THEN {"SCHEDULER_STALLED"} ELSE {}
StartedBy(s) == IF s = "trio" THEN {TrioBlocker} ELSE Stages[s].on

Required(s) ==
  IF s = "halving" THEN "campaign" \in marks /\ row["halving"] = "absent"
  ELSE \/ /\ saved[1] \in {StartPhase(s), "STOPPED_CLEANLY"} \cup Stalls(s)
          /\ saved[2] \in StartedBy(s)
       \/ /\ phase \in {StartPhase(s)} \cup Stalls(s)
          /\ blocker \in StartedBy(s) \ (IF s = "ym_strict" THEN Stages["qd"].on ELSE {})

Collect ==
  /\ Step("collect")
  /\ LET needed == Those(StartOrder, {s \in ToSet(StartOrder) : Required(s)})
     IN  Then([i \in 1..Len(needed) |-> <<"start", needed[i]>>] \o
              << <<"conclude", "none">> >>)
  /\ UNCHANGED <<up, kv, row, routed, locals, faults, lost>>

\* MUTANT of Restore: the block met at the start is not put back.
RestoreNothing == FALSE
Restore == saved[1] \in Blocked /\ ~queued

\* Without queued work the block met at the start is put back, over one
\* that the start itself has made; a block of a controller that was stopped
\* cleanly is not.
Conclude ==
  /\ Step("conclude")
  /\ Then(IF Restore THEN Writes(saved[1], saved[2]) ELSE Settled)
  /\ lost' = \/ lost
             \/ ~queued /\ saved[1] = "STOPPED_CLEANLY" /\ saved[2] # "none"
             \/ Restore /\ IsBlocked /\ blocker # saved[2]
  /\ Forget /\ UNCHANGED <<up, kv, row, routed, faults>>

-----------------------------------------------------------------------------
(* The loop of the controller.                                             *)

Idle == up /\ todo = <<>>
Ready == Idle /\ ~IsBlocked

Heads == {s \in Queued : \A t \in Queued : Stages[s].rank >= Stages[t].rank}
Supported(s) == s = "pilot" => row["post_design"] = "pilot"
InBatch(s) == s \in ParallelSafe /\ Workers > 1

\* _execute_queued_experiment: one experiment, then everything it entails.
RunExperiment ==
  /\ Ready
  /\ \E s \in Heads : \E f \in DOMAIN Route[s] :
       /\ ~InBatch(s) /\ Supported(s)
       /\ row' = [row EXCEPT ![s] = f]
  /\ phase' = "RUNNING_EXPERIMENT"
  /\ todo' = << <<"completed", "none">>, <<"settle", "none">> >>
  /\ Forget /\ UNCHANGED <<up, blocker, marks, routed, faults, lost>>

FailExperiment ==
  /\ Ready /\ Fault
  /\ \E s \in Heads : ~InBatch(s) /\ Supported(s) /\ row' = [row EXCEPT ![s] = "FAILED"]
  /\ phase' = "RUNNING_EXPERIMENT"
  /\ todo' = Writes("EXPERIMENT_BLOCKED", "EXPERIMENT_FAILED")
  /\ Forget /\ UNCHANGED <<up, blocker, marks, routed, lost>>

MissHandler ==
  /\ Ready
  /\ \E s \in Heads : ~Supported(s)
  /\ todo' = Writes("ENGINEERING_BLOCKED", "MISSING_EXPERIMENT_HANDLER")
  /\ Forget /\ UNCHANGED <<up, kv, row, routed, faults, lost>>

\* _execute_queued_experiment_batch: the results are committed one by one,
\* then routed together; a terminal failure of a member blocks at the end,
\* over what the others were routed to.
Batches ==
  LET safe == Queued \cap ParallelSafe
  IN  {B \in SUBSET safe :
         /\ Cardinality(B) = IF Workers < Cardinality(safe) THEN Workers
                             ELSE Cardinality(safe)
         /\ \A s \in B, t \in safe \ B : Stages[s].rank >= Stages[t].rank}

RunBatch ==
  /\ Ready
  /\ \E s \in Heads : InBatch(s)
  /\ \E B \in Batches : \E bad \in {{}} \cup {{s} : s \in B} :
       /\ IF bad = {} THEN NoFault ELSE Fault
       /\ LET members == SetToSeq(B)
          IN  todo' = [i \in 1..Len(members) |->
                         <<IF members[i] \in bad THEN "fail" ELSE "finish",
                           members[i]>>] \o
                      << <<"completed", "none">> >> \o
                      (IF bad = {} THEN << <<"settle", "none">> >>
                       ELSE Writes("EXPERIMENT_BLOCKED", "PARALLEL_EXPERIMENT_FAILED"))
  /\ phase' = "RUNNING_PARALLEL_EXPERIMENTS"
  /\ Forget /\ UNCHANGED <<up, blocker, marks, row, routed, lost>>

FinishMember ==
  /\ Step("finish") /\ Then(<<>>)
  /\ \E f \in DOMAIN Route[Arg] :
       /\ row' = [row EXCEPT ![Arg] = f]
  /\ UNCHANGED <<up, kv, routed, locals, faults, lost>>

FailMember ==
  /\ Step("fail") /\ Then(<<>>)
  /\ row' = [row EXCEPT ![Arg] = "FAILED"]
  /\ UNCHANGED <<up, kv, routed, locals, faults, lost>>

\* The planner, when nothing is queued; with nothing left to plan it stalls.
\* generate_actions: each action needs the flag of the one before.
Plan(needs, done, steps) ==
  /\ Ready /\ Queued = {}
  /\ needs \subseteq marks /\ done \notin marks
  /\ todo' = steps
  /\ Forget /\ UNCHANGED <<up, kv, row, routed, faults, lost>>

RunValidatorCalibration ==
  \E passed \in BOOLEAN :
    Plan({}, "calibrated",
         << <<"phase", "PHASE_2_VALIDATOR_CALIBRATION">>,
            IF passed THEN <<"mark", "calibrated">>
            ELSE <<"blocker", "VALIDATOR_CALIBRATION_FAILED">> >>)
AuditZeroPassResult ==
  Plan({"calibrated"}, "audited",
       << <<"phase", "PHASE_3_REASSESS_OLD_ATOM_BATCH">>, <<"mark", "audited">> >>)
PlanBoundedRetests ==
  Plan({"audited"}, "design_plan",
       << <<"phase", "PHASE_4_AUTONOMOUS_RESEARCH_PLANNING">>, <<"queue", "design">>,
          <<"mark", "design_plan">> >>)
PlanRetestExecution ==
  Plan({"design"}, "execution_plan",
       << <<"queue", "execution">>, <<"mark", "execution_plan">>,
          <<"phase", "PHASE_5_CALIBRATION_AFFECTED_RETEST">> >>)
PlanPostRetestResearch ==
  Plan({"execution"}, "post_plan",
       << <<"queue", "post_design">>, <<"mark", "post_plan">>,
          <<"phase", "PHASE_6_POST_RETEST_RESEARCH_DESIGN">> >>)

NothingToPlan ==
  /\ Ready /\ Queued = {} /\ {"calibrated", "audited", "design_plan"} \subseteq marks
  /\ "design" \in marks => "execution_plan" \in marks
  /\ "execution" \in marks => "post_plan" \in marks
Stall ==
  /\ NothingToPlan /\ <<phase, blocker>> # <<"SCHEDULER_STALLED", "NO_EXECUTABLE_ACTION">>
  /\ todo' = Writes("SCHEDULER_STALLED", "NO_EXECUTABLE_ACTION")
  /\ Forget /\ UNCHANGED <<up, kv, row, routed, faults, lost>>

-----------------------------------------------------------------------------
(* Stops.  A clean one happens at the head of the loop; a crash anywhere.  *)

StopCleanly ==
  /\ Idle /\ up' = FALSE
  /\ phase' = "STOPPED_CLEANLY"
  /\ Forget /\ UNCHANGED <<blocker, marks, row, routed, todo, faults, lost>>

\* Between RECOVERING and the end of the start the block that the start met
\* is only in its memory.
Crash ==
  /\ up /\ up' = FALSE /\ todo' = <<>>
  /\ IF todo = <<>> THEN NoFault ELSE Fault
  /\ lost' = \/ lost \/ saved[2] # "none"
             \/ phase = "RECOVERING" /\ blocker # "none"
  /\ Forget /\ UNCHANGED <<kv, row, routed>>

Work ==
  \/ SetPhase \/ SetBlocker \/ SetMark \/ Enqueue \/ RouteResult \/ RecordRouted
  \/ ResolveNow \/ ResolveAtStart \/ RouteCompleted \/ Settle \/ Collect \/ Conclude
  \/ FinishMember \/ FailMember
Loop ==
  \/ RunExperiment \/ FailExperiment \/ MissHandler \/ RunBatch
  \/ RunValidatorCalibration \/ AuditZeroPassResult \/ PlanBoundedRetests
  \/ PlanRetestExecution \/ PlanPostRetestResearch \/ Stall
CampaignNext == Start \/ Work \/ Loop \/ StopCleanly \/ Crash

CampaignSpec == CampaignInit /\ [][CampaignNext]_vars

-----------------------------------------------------------------------------
Phases ==
  Blocked \cup
  {"PHASE_0_GOVERNANCE", "RECOVERING", "PLANNING_NEXT_ACTION", "STOPPED_CLEANLY",
   "SCHEDULER_STALLED", "RUNNING_EXPERIMENT", "RUNNING_PARALLEL_EXPERIMENTS",
   "TARGETED_RESEARCH_RESUMED", "PHASE_2_VALIDATOR_CALIBRATION",
   "PHASE_3_REASSESS_OLD_ATOM_BATCH", "PHASE_4_AUTONOMOUS_RESEARCH_PLANNING",
   "PHASE_5_CALIBRATION_AFFECTED_RETEST", "PHASE_6_POST_RETEST_RESEARCH_DESIGN"}

\* Types; only results of completed experiments were routed.
CampaignTypeOK ==
  /\ phase \in Phases /\ blocker \notin Phases
  /\ \A s \in Experiments :
       row[s] \in {"absent", "QUEUED", "FAILED"} \cup DOMAIN Route[s]
  /\ \A s \in routed : Completed(s)
  /\ up \/ todo = <<>>
  /\ faults \in 0..MaxFaults

Starters(b) == {t \in ToSet(StartOrder) \ {"halving"} : b \in StartedBy(t)}
AskOf(s) == Route[s][row[s]].ask
Untouched(t) == \A s \in (IF t = "trio" THEN ToSet(Trio) ELSE {t}) : row[s] = "absent"

\* When the controller looks for work, the follow-up of every routed result
\* that some stage would start on exists, or the mission is blocked and so
\* does not run on without it.  The ways to lose a follow-up that are known
\* (a crash within a start, a clean stop in a block that no stage can lift,
\* a failure in the batch of the result) are excepted by lost.
FollowUpIsKept ==
  Idle /\ ~lost =>
    \A s \in routed :
      LET waiting == Starters(Route[s][row[s]].ask)
      IN  waiting # {} /\ (\A t \in waiting : Untouched(t)) => IsBlocked

\* The controller never looks for work, and never stops in good order, with a
\* completed result whose routing is not recorded, however often it was cut
\* off between the commit of a result and the last write of its route.
NothingUnrouted == Idle => \A s \in Experiments : Completed(s) => s \in routed

-----------------------------------------------------------------------------
(* Why NothingUnrouted holds: the parts of an inductive invariant.         *)

Has(T, a) == \E p \in 1..Len(T) : T[p] = a
IsList(s) == Len(s) \in Nat /\ s = [p \in 1..Len(s) |-> s[p]]

\* The steps by which a result comes to be routed, the search for all of them
\* among these.
Ways(s) == {<<"completed", "none">>, <<"route", s>>, <<"event", s>>}
Comes(s) == \E p \in 1..Len(todo) : todo[p] \in Ways(s)
ResultsCome == up => \A s \in Experiments : Unrouted(s) => Comes(s)

\* The results of a batch are committed before they are looked for.
MembersFirst ==
  \A p \in 1..Len(todo) :
    todo[p][1] = "finish" => \E q \in p + 1..Len(todo) : todo[q] = <<"completed", "none">>

CampaignInv ==
  /\ row = [s \in Experiments |-> row[s]]
  /\ IsList(todo)
  /\ up \/ todo = <<>>
  /\ ResultsCome
  /\ MembersFirst
-----------------------------------------------------------------------------
(* Why FollowUpIsKept holds: the parts of an inductive invariant.          *)

(* What exists was asked for, and so is what is on its way.                *)

\* The stage that the routing of a result calls at once.
NextOf(s) == Route[s][row[s]].next

\* A blocker that asks for a stage.
IsAsk(b) == Starters(b) # {}

\* A result that leads to a stage, as its block asks or at once.
Leads(s, n) == Completed(s) /\ (n \in Starters(AskOf(s)) \/ NextOf(s) = n)

\* The stage that starts an experiment: the trio is one.
StageOf(t) == IF t \in ToSet(Trio) THEN "trio" ELSE t

\* Why an experiment may be queued: the findings it needs, and a result that leads to it.
Grounds(t) ==
  /\ Meets(Stages[t].after) /\ Meets(Stages[t].frozen)
  /\ t = "halving" => ~Unfinished
  /\ t # "halving" /\ StageOf(t) \in ToSet(StartOrder) =>
       \E s \in Experiments \ {t} : Leads(s, StageOf(t))

\* A blocker that asks is the one of a result.
Reason(b) == IsAsk(b) => \E s \in Experiments : Completed(s) /\ AskOf(s) = b

\* What closes a list.
Closing == {<<"collect", "none">>, <<"conclude", "none">>, <<"settle", "none">>}

\* What a step of the list rests on.
StepOK(a) ==
  /\ a[1] = "blocker" => Reason(a[2])
  /\ a[1] = "mark" /\ a[2] = "campaign" => ~Unfinished
  /\ a[1] = "queue" => a[2] \in Experiments /\ (row[a[2]] = "absent" => Grounds(a[2]))
  /\ a[1] = "reconcile" =>
       a[2] # "none" /\ \E s \in Experiments : Completed(s) /\ NextOf(s) = a[2]
  /\ a[1] = "start" =>
       /\ a[2] \in ToSet(StartOrder)
       /\ IF a[2] = "halving" THEN ~Unfinished ELSE \E s \in Experiments : Leads(s, a[2])
  /\ a[1] \in {"route", "event"} => a[2] \in Experiments /\ Completed(a[2])
  /\ a[1] \in {"finish", "fail"} => a[2] \in Experiments /\ row[a[2]] = "QUEUED"
  /\ a[1] \in {"collect", "conclude", "settle"} => a \in Closing

\* Every row, blocker, mark and step has its reason.
RowsInv ==
  /\ \A t \in Experiments : row[t] # "absent" => Grounds(t)
  /\ Reason(blocker) /\ Reason(saved[2])
  /\ "campaign" \in marks => ~Unfinished
  /\ \A s \in routed : s \in Experiments /\ Completed(s)
  /\ \A p \in 1..Len(todo) : StepOK(todo[p])

(* How the block that asks is lifted and put back.                         *)

\* The start remembers a block up to its end.
Closes ==
  /\ \A p \in 1..Len(todo) : todo[p] \in Closing => p = Len(todo)
  /\ \/ saved = NoSave
     \/ todo # <<>> /\ todo[Len(todo)] \in Closing \ {<<"settle", "none">>}

\* The phases under which nothing is asked; what a step does with the block; what a plan writes.
Lifted == {"PLANNING_NEXT_ACTION", "RUNNING_PARALLEL_EXPERIMENTS", "TARGETED_RESEARCH_RESUMED"}
Lifting(a) == a[1] = "phase" /\ a[2] \in Lifted
Blocking(a) == a[1] = "phase" /\ a[2] \in Blocked
Asking(a) == a[1] = "blocker" /\ IsAsk(a[2])
Planning(a) == a[1] \in {"phase", "mark", "queue"} \/ (a[1] = "blocker" /\ ~IsAsk(a[2]))

\* A lifted block is cleared at once, one that asks comes with its phase, and one that
\* asks and does not stand is about to be put back, or taken up.
BlockInv ==
  /\ \A p \in 1..Len(todo) :
       Lifting(todo[p]) => p + 1 \in 1..Len(todo) /\ todo[p + 1] = <<"blocker", "none">>
  /\ \A p \in 1..Len(todo) :
       Asking(todo[p]) => (p = 1 /\ IsBlocked) \/ (p = 2 /\ Blocking(todo[1]))
  /\ \A p \in 1..Len(todo) :
       todo[p][1] = "phase" /\ ~Lifting(todo[p]) /\ ~Blocking(todo[p]) =>
         ~IsAsk(blocker) /\ \A q \in 1..Len(todo) : Planning(todo[q])
  /\ up /\ ~IsBlocked /\ IsAsk(blocker) =>
       \E p \in 1..Len(todo) :
         \/ todo[p] \in {<<"blocker", "none">>, <<"collect", "none">>, <<"conclude", "none">>}
         \/ Blocking(todo[p])

(* A batch, and who may ask.                                               *)

\* The steps of a batch.
Member(a) == a[1] \in {"finish", "fail"}
BatchStep(a) ==
  \/ Member(a)
  \/ a \in {<<"completed", "none">>, <<"settle", "none">>, <<"phase", "EXPERIMENT_BLOCKED">>,
            <<"blocker", "PARALLEL_EXPERIMENT_FAILED">>}

\* A batch runs when nothing is asked, its members first and each once.
BatchInv ==
  \A p \in 1..Len(todo) :
    Member(todo[p]) =>
      /\ ~IsAsk(blocker) /\ saved = NoSave /\ ~queued
      /\ \A q \in 1..p : Member(todo[q])
      /\ \A q \in 1..Len(todo) :
           BatchStep(todo[q]) /\ (Member(todo[q]) /\ todo[q][2] = todo[p][2] => p = q)

\* A result whose routing writes nothing, one that may ask, and one not yet routed.
Quiet(r) == \A f \in DOMAIN Route[r] : Route[r][f] = Quietly("none")
MayAsk(r) == \E f \in DOMAIN Route[r] : IsAsk(Route[r][f].ask)
Due(d, x) == \E p \in 1..Len(todo) : todo[p][1] = d /\ todo[p][2] = x
Fresh(r) == Unrouted(r) \/ Due("finish", r)

\* Two results are never on their way when one of them may ask.
OneAsks ==
  \A x, y \in Experiments : x # y /\ Fresh(x) /\ Fresh(y) /\ MayAsk(x) => Quiet(y)

(* A result whose follow-up does not exist yet.                            *)

\* It asks, and no stage that it asks for has been queued.
Open(s) ==
  /\ Completed(s) /\ IsAsk(AskOf(s))
  /\ \A t \in Starters(AskOf(s)) : Untouched(t)

\* The block stands, or the start will put it back; it is about to be written.
Saved == saved[1] \in Blocked \cup {"STOPPED_CLEANLY"} /\ saved[2] # "none"
Held ==
  /\ blocker # "none"
  /\ \/ IsBlocked
     \/ ~up /\ phase = "STOPPED_CLEANLY"
     \/ phase = "RECOVERING" /\ (Saved \/ (todo # <<>> /\ Blocking(todo[1])))
Names(a) == a[1] = "blocker" /\ a[2] # "none"
Written ==
  \/ IsBlocked /\ (blocker # "none" \/ Names(todo[1]))
  \/ Len(todo) >= 2 /\ Blocking(todo[1]) /\ Names(todo[2])

\* The stage it asks for is queued next, or no step takes its block away.
Rescue(s) ==
  todo # <<>> /\ todo[1][1] = "queue" /\ StageOf(todo[1][2]) \in Starters(AskOf(s))
Harmless(s, ask, a) ==
  /\ a[1] = "phase" => a[2] \in Blocked
  /\ a[1] = "blocker" => a[2] # "none" /\ (IsAsk(a[2]) => a[2] = ask)
  /\ a[1] = "route" => a[2] = s \/ Quiet(a[2])
  /\ a[1] \in {"reconcile", "start"} => a[2] \in Starters(ask)

\* What is kept of such a result.
Kept(s) ==
  /\ \A r \in Experiments \ {s} : Fresh(r) => Quiet(r)
  /\ \A b \in {blocker, saved[2]} : IsAsk(b) => b = AskOf(s)
  /\ s \in routed => Held
  /\ Due("event", s) => Written
  /\ Rescue(s) \/ (~queued /\ \A p \in 1..Len(todo) : Harmless(s, AskOf(s), todo[p]))

\* The invariant: the reasons, the order of the list, and every such result kept.
FollowUpInv ==
  /\ CampaignInv
  /\ RowsInv /\ Closes /\ BlockInv /\ BatchInv /\ OneAsks
  /\ ~lost => \A s \in Experiments : Open(s) => Kept(s)
=============================================================================
