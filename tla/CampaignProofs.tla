--------------------------- MODULE CampaignProofs ---------------------------
(***************************************************************************)
(* Safety of Campaign for every width of a batch and any number of faults: *)
(* no result of the fixed chain is left unrouted, and the follow-up of     *)
(* none is forgotten.                                                      *)
(***************************************************************************)
EXTENDS Campaign, SequenceTheorems, FiniteSetTheorems, TLAPS

-----------------------------------------------------------------------------
(* Lists of steps.                                                         *)

\* A list is a sequence of its elements.
LEMMA ListIsSeq ==
  ASSUME NEW s, IsList(s), NEW S, \A p \in 1..Len(s) : s[p] \in S
  PROVE  s \in Seq(S)
BY DEF IsList

\* A sequence is a list.
LEMMA SeqIsList ==
  ASSUME NEW S, NEW s \in Seq(S)
  PROVE  IsList(s)
BY LenProperties DEF IsList

\* Of two lists one after the other.
LEMMA Joined ==
  ASSUME NEW s, NEW t, IsList(s), IsList(t)
  PROVE  /\ IsList(s \o t) /\ Len(s \o t) = Len(s) + Len(t)
         /\ \A p \in 1..Len(s) : (s \o t)[p] = s[p]
         /\ \A p \in Len(s) + 1..Len(s) + Len(t) : (s \o t)[p] = t[p - Len(s)]
<1> DEFINE S == {s[p] : p \in 1..Len(s)} \cup {t[p] : p \in 1..Len(t)}
<1>1. s \in Seq(S) /\ t \in Seq(S)
  BY ListIsSeq
<1> HIDE DEF S
<1>2. s \o t \in Seq(S) /\ Len(s \o t) = Len(s) + Len(t)
      /\ \A i \in 1 .. Len(s) + Len(t) : (s \o t)[i] = IF i <= Len(s) THEN s[i] ELSE t[i - Len(s)]
  BY <1>1, ConcatProperties
<1>3. IsList(s \o t)
  BY <1>2, SeqIsList
<1>4. Len(s) \in Nat /\ Len(t) \in Nat
  BY DEF IsList
<1> QED BY <1>2, <1>3, <1>4

\* A list without its first element.
LEMMA Rest ==
  ASSUME NEW s, IsList(s), s # <<>>
  PROVE  /\ IsList(Tail(s)) /\ Len(Tail(s)) = Len(s) - 1 /\ Len(s) >= 1 /\ Head(s) = s[1]
         /\ \A p \in 1..Len(s) - 1 : Tail(s)[p] = s[p + 1]
<1> DEFINE S == {s[p] : p \in 1..Len(s)}
<1>1. s \in Seq(S)
  BY ListIsSeq
<1> HIDE DEF S
<1>2. /\ Tail(s) \in Seq(S) /\ Len(Tail(s)) = Len(s) - 1
      /\ \A i \in 1 .. Len(Tail(s)) : Tail(s)[i] = s[i + 1]
  BY <1>1, HeadTailProperties
<1>3. IsList(Tail(s))
  BY <1>2, SeqIsList
<1>4. Len(s) \in Nat /\ Len(s) # 0
  BY <1>1, EmptySeq DEF IsList
<1>5. Head(s) = s[1]
  OBVIOUS
<1> QED BY <1>2, <1>3, <1>4, <1>5

\* A first step that gives way to others.
LEMMA Replaced ==
  ASSUME IsList(todo), todo # <<>>, NEW T, IsList(T), Then(T)
  PROVE  /\ IsList(todo') /\ Len(todo') = Len(T) + Len(todo) - 1
         /\ Len(todo) \in Nat /\ Len(todo) >= 1 /\ Head(todo) = todo[1] /\ Len(T) \in Nat
         /\ \A p \in 1..Len(T) : todo'[p] = T[p]
         /\ \A p \in Len(T) + 1..Len(todo') :
              todo'[p] = todo[p - Len(T) + 1] /\ p - Len(T) + 1 \in 2..Len(todo)
         /\ \A q \in 2..Len(todo) :
              q + Len(T) - 1 \in 1..Len(todo') /\ todo'[q + Len(T) - 1] = todo[q]
<1> DEFINE R == Tail(todo)
           N == T \o R
<1>1. /\ IsList(R) /\ Len(R) = Len(todo) - 1 /\ Len(todo) >= 1 /\ Head(todo) = todo[1]
      /\ \A p \in 1..Len(todo) - 1 : R[p] = todo[p + 1]
  BY Rest
<1>2. /\ IsList(N) /\ Len(N) = Len(T) + Len(R)
      /\ \A p \in 1..Len(T) : N[p] = T[p]
      /\ \A p \in Len(T) + 1..Len(T) + Len(R) : N[p] = R[p - Len(T)]
  BY <1>1, Joined
<1>3. todo' = N
  BY DEF Then
<1>4. Len(T) \in Nat /\ Len(todo) \in Nat
  BY DEF IsList
<1> HIDE DEF R, N
<1>5. Len(N) = Len(T) + Len(todo) - 1
  BY <1>1, <1>2, <1>4
<1>6. ASSUME NEW p \in Len(T) + 1..Len(N)
      PROVE  N[p] = todo[p - Len(T) + 1] /\ p - Len(T) + 1 \in 2..Len(todo)
  <2>1. p - Len(T) \in 1..Len(todo) - 1 /\ p \in Len(T) + 1..Len(T) + Len(R)
    BY <1>1, <1>4, <1>5
  <2>2. N[p] = R[p - Len(T)] /\ R[p - Len(T)] = todo[(p - Len(T)) + 1]
    BY <1>1, <1>2, <2>1
  <2> QED BY <1>4, <2>1, <2>2
<1>7. ASSUME NEW q \in 2..Len(todo)
      PROVE  q + Len(T) - 1 \in 1..Len(N) /\ N[q + Len(T) - 1] = todo[q]
  <2> DEFINE p == q + Len(T) - 1
  <2>1. p \in Len(T) + 1..Len(N) /\ p - Len(T) + 1 = q
    BY <1>4, <1>5
  <2> HIDE DEF p
  <2>2. N[p] = todo[q] /\ p \in 1..Len(N)
    BY <1>4, <1>6, <2>1
  <2> QED BY <2>2 DEF p
<1> QED BY <1>1, <1>2, <1>3, <1>4, <1>5, <1>6, <1>7

\* The list without steps.
LEMMA EmptyList == IsList(<<>>) /\ Len(<<>>) = 0
BY DEF IsList

\* A list of one step.
LEMMA OneStep ==
  ASSUME NEW a
  PROVE  IsList(<<a>>) /\ Len(<<a>>) = 1 /\ <<a>>[1] = a
BY DEF IsList

\* A list of two steps.
LEMMA TwoSteps ==
  ASSUME NEW a, NEW b
  PROVE  IsList(<<a, b>>) /\ Len(<<a, b>>) = 2 /\ <<a, b>>[1] = a /\ <<a, b>>[2] = b
BY DEF IsList

\* A step behind a list.
LEMMA LastStep ==
  ASSUME NEW s, IsList(s), NEW a, NEW t, t = <<a>>
  PROVE  Has(s \o t, a)
<1>1. IsList(t) /\ Len(t) = 1 /\ t[1] = a /\ Len(s) \in Nat
  BY OneStep DEF IsList
<1>2. /\ Len(s \o t) = Len(s) + Len(t)
      /\ \A p \in Len(s) + 1..Len(s) + Len(t) : (s \o t)[p] = t[p - Len(s)]
  BY <1>1, Joined
<1> PICK n \in Nat : n = Len(s)
  BY <1>1
<1>3. n + 1 \in n + 1..n + 1 /\ n + 1 \in 1..n + 1 /\ (n + 1) - n = 1
  OBVIOUS
<1> QED BY <1>1, <1>2, <1>3 DEF Has

\* The first of two steps.
LEMMA FirstStep ==
  ASSUME NEW a, NEW b
  PROVE  Has(<<a, b>>, a)
<1>1. Len(<<a, b>>) = 2 /\ <<a, b>>[1] = a /\ 1 \in 1..2
  BY TwoSteps
<1> QED BY <1>1 DEF Has

\* A step of the second list is one of both.
LEMMA HasJoin ==
  ASSUME NEW s, NEW t, IsList(s), IsList(t), NEW a, Has(t, a)
  PROVE  Has(s \o t, a)
<1>1. PICK k \in 1..Len(t) : t[k] = a
  BY DEF Has
<1> PICK n \in Nat, l \in Nat : n = Len(s) /\ l = Len(t)
  BY DEF IsList
<1>2. Len(s \o t) = n + l /\ \A p \in n + 1..n + l : (s \o t)[p] = t[p - n]
  BY Joined
<1>3. n + k \in n + 1..n + l /\ n + k \in 1..n + l /\ (n + k) - n = k
  BY <1>1
<1> QED BY <1>1, <1>2, <1>3 DEF Has

\* What is defined at the places from 1 on is a list.
LEMMA Listed ==
  ASSUME NEW A, NEW n \in Nat, A = [i \in 1..n |-> A[i]]
  PROVE  IsList(A) /\ Len(A) = n
BY DEF IsList

\* The results of a batch are committed before they are looked for.
MembersLead(T) ==
  \A p \in 1..Len(T) :
    T[p][1] = "finish" => \E q \in p + 1..Len(T) : T[q] = <<"completed", "none">>

\* The place of the search and of what stands behind it.
LEMMA Places ==
  ASSUME NEW n \in Nat, NEW l \in Nat
  PROVE  /\ n + 1 \in n + 1..n + 1 /\ (n + 1) - n = 1 /\ n + 1 \in 1..(n + 1) + l
         /\ n + 1 \in 1..n + 1 /\ 1 \in 1..1 /\ n + 1 \in Nat
         /\ \A p \in 1..(n + 1) + l :
              \/ n + 1 \in p + 1..(n + 1) + l
              \/ p = n + 1
              \/ p \in (n + 1) + 1..(n + 1) + l /\ p - (n + 1) \in 1..l
  OBVIOUS

\* So it is if the search stands between the members and what completes nothing.
LEMMA SearchBehind ==
  ASSUME NEW s, IsList(s), NEW t, IsList(t), \A p \in 1..Len(t) : t[p][1] # "finish",
         NEW a, a = <<"completed", "none">>, NEW c, c = <<a>>
  PROVE  /\ IsList((s \o c) \o t) /\ Has((s \o c) \o t, a)
         /\ MembersLead((s \o c) \o t)
<1> PICK S : S = s \o c
  OBVIOUS
<1> PICK T : T = S \o t
  OBVIOUS
<1> PICK n \in Nat : n = Len(s)
  BY DEF IsList
<1> PICK l \in Nat : l = Len(t)
  BY DEF IsList
<1> PICK m : m = n + 1
  OBVIOUS
<1>1. IsList(c) /\ Len(c) = 1 /\ c[1] = a
  BY OneStep
<1>2. IsList(S) /\ Len(S) = n + 1 /\ \A p \in n + 1..n + 1 : S[p] = c[p - n]
  <2>1. /\ IsList(S) /\ Len(S) = Len(s) + Len(c)
        /\ \A p \in Len(s) + 1..Len(s) + Len(c) : S[p] = c[p - Len(s)]
    BY ONLY IsList(s), <1>1, S = s \o c, Joined
  <2>2. Len(s) = n /\ Len(c) = 1
    BY <1>1
  <2> QED BY <2>1, <2>2
<1>3. /\ m \in n + 1..n + 1 /\ m - n = 1 /\ m \in 1..m + l /\ m \in 1..m /\ m \in Nat
      /\ \A p \in 1..m + l :
           m \in p + 1..m + l \/ p = m \/ (p \in m + 1..m + l /\ p - m \in 1..l)
  BY ONLY n \in Nat, l \in Nat, m = n + 1, Places
<1>4. S[m] = a
  <2>1. S[m] = c[m - n]
    BY <1>2, <1>3
  <2> QED BY <1>1, <1>3, <2>1
<1>5. IsList(T) /\ Len(T) = Len(S) + Len(t)
      /\ (\A p \in 1..Len(S) : T[p] = S[p])
      /\ (\A p \in Len(S) + 1..Len(S) + Len(t) : T[p] = t[p - Len(S)])
  BY ONLY IsList(t), T = S \o t, <1>2, Joined
<1>6. Len(S) = m /\ Len(T) = m + l
  BY <1>2, <1>5
<1>7. T[m] = a /\ m \in 1..Len(T)
  BY <1>3, <1>4, <1>5, <1>6
<1>8. a[1] = "completed"
  OBVIOUS
<1>9. ASSUME NEW p \in 1..Len(T), T[p][1] = "finish"
      PROVE  \E q \in p + 1..Len(T) : T[q] = a
  <2>1. p # m
    BY <1>7, <1>8, <1>9
  <2>2. ~(p \in m + 1..m + l /\ p - m \in 1..l)
    <3>1. ASSUME p \in m + 1..m + l, p - m \in 1..l PROVE FALSE
      <4>1. T[p] = t[p - m]
        BY <1>5, <1>6, <3>1
      <4> QED BY <1>9, <3>1, <4>1
    <3> QED BY <3>1
  <2>3. m \in p + 1..Len(T)
    BY <1>3, <1>6, <2>1, <2>2
  <2> QED BY <1>7, <2>3
<1>10. IsList(T) /\ Has(T, a)
  BY <1>5, <1>7 DEF Has
<1>11. MembersLead(T)
  BY <1>9 DEF MembersLead
<1>12. T = (s \o c) \o t
  OBVIOUS
<1> HIDE DEF MembersLead
<1> QED BY <1>10, <1>11, <1>12

-----------------------------------------------------------------------------
(* The members of a sequence that are in a set.                            *)

\* They are a list, and no member is left out.
LEMMA ThoseAre ==
  ASSUME NEW s, NEW n \in Nat, DOMAIN s = 1..n, NEW T
  PROVE  /\ IsList(Those(s, T))
         /\ \A p \in 1..n : s[p] \in T => Has(Those(s, T), s[p])
<1> DEFINE P == {p \in DOMAIN s : s[p] \in T}
           Upto(p) == {q \in P : q <= p}
           Place(k) == CHOOSE p \in P : Cardinality(Upto(p)) = k
           c == Cardinality(P)
<1>1. IsFiniteSet(P) /\ c \in Nat /\ P \subseteq 1..n
  <2>1. P \subseteq 1..n /\ IsFiniteSet(1..n)
    BY FS_Interval
  <2>2. IsFiniteSet(P)
    BY <2>1, FS_Subset
  <2> QED BY <2>1, <2>2, FS_CardinalityType
<1>2. Those(s, T) = [k \in 1..c |-> s[Place(k)]]
  BY DEF Those
<1>3. ASSUME NEW p \in P
      PROVE  IsFiniteSet(Upto(p)) /\ Cardinality(Upto(p)) \in 1..c
  <2>1. Upto(p) \subseteq P /\ p \in Upto(p)
    BY <1>1
  <2>2. IsFiniteSet(Upto(p)) /\ Cardinality(Upto(p)) \in Nat /\ Cardinality(Upto(p)) <= c
    BY <1>1, <2>1, FS_Subset, FS_CardinalityType
  <2>3. Cardinality(Upto(p)) # 0
    BY <2>1, <2>2, FS_EmptySet
  <2> QED BY <1>1, <2>2, <2>3
<1>4. ASSUME NEW p \in P, NEW q \in P, p < q
      PROVE  Cardinality(Upto(p)) < Cardinality(Upto(q))
  <2>1. Upto(p) \subseteq Upto(q) /\ q \in Upto(q) /\ q \notin Upto(p)
    BY <1>1, <1>4
  <2>2. Upto(p) # Upto(q)
    BY <2>1
  <2>3. IsFiniteSet(Upto(p)) /\ IsFiniteSet(Upto(q))
    BY <1>3
  <2>4. Cardinality(Upto(p)) \in Nat /\ Cardinality(Upto(q)) \in Nat
    BY <2>3, FS_CardinalityType
  <2>5. Cardinality(Upto(p)) <= Cardinality(Upto(q)) /\ Cardinality(Upto(p)) # Cardinality(Upto(q))
    BY <2>1, <2>2, <2>3, FS_Subset
  <2> QED BY <2>4, <2>5
<1> HIDE DEF P, Upto, c
<1>5. ASSUME NEW p \in P PROVE Place(Cardinality(Upto(p))) = p
  <2> PICK k : k = Cardinality(Upto(p))
    OBVIOUS
  <2>1. Place(k) \in P /\ Cardinality(Upto(Place(k))) = k
    OBVIOUS
  <2> PICK q : q = Place(k)
    OBVIOUS
  <2>2. ~(q < p) /\ ~(p < q)
    <3>1. Cardinality(Upto(p)) \in Nat
      BY <1>1, <1>3
    <3> QED BY <1>4, <2>1, <3>1
  <2> QED BY <1>1, <2>1, <2>2
<1> HIDE DEF Place
<1>6. /\ Len(Those(s, T)) = c /\ IsList(Those(s, T))
      /\ \A k \in 1..c : Those(s, T)[k] = s[Place(k)]
  BY <1>1, <1>2 DEF IsList
<1>7. ASSUME NEW p \in 1..n, s[p] \in T
      PROVE  Has(Those(s, T), s[p])
  <2>1. p \in P
    BY <1>7 DEF P
  <2> QED BY <1>3, <1>5, <1>6, <2>1 DEF Has
<1> QED BY <1>6, <1>7
-----------------------------------------------------------------------------
(* The tables.                                                             *)

\* No finding of a route is one of the statuses of a row.
Plainly(route) == DOMAIN route \cap {"absent", "QUEUED", "FAILED"} = {}

\* The findings of each experiment are not statuses of a row.
LEMMA FindingsAreNoStatus ==
  ASSUME NEW s \in Experiments
  PROVE  Plainly(Route[s])
<1>1. Plainly(route_calibration_affected_atom_retest_design)
      /\ Plainly(route_calibration_affected_atom_retest_execution)
      /\ Plainly(route_post_calibration_retest_research_design)
      /\ Plainly(route_validator_integrity_repair_pilot)
      /\ Plainly(route_contract_map_date_aware_repair)
      /\ Plainly(route_calibration_affected_atom_retest_v3_design)
      /\ Plainly(route_v3_execution) /\ Plainly(route_path_geometry)
      /\ Plainly(route_metal_energy) /\ Plainly(route_cross_market)
      /\ Plainly(route_volatility) /\ Plainly(route_foundry_bootstrap)
      /\ Plainly(route_equity_open_gap)
  BY DEF Plainly, route_calibration_affected_atom_retest_design,
    route_calibration_affected_atom_retest_execution,
    route_post_calibration_retest_research_design,
    route_validator_integrity_repair_pilot, route_contract_map_date_aware_repair,
    route_calibration_affected_atom_retest_v3_design, route_v3_execution,
    route_path_geometry, route_metal_energy, route_cross_market, route_volatility,
    route_foundry_bootstrap, route_equity_open_gap
<1>2. Plainly(route_equity_open_gap_continuation) /\ Plainly(route_q4_candidate_freeze)
      /\ Plainly(route_opening_direction_hazard)
      /\ Plainly(route_cross_ecology_opening_acceptance)
      /\ Plainly(route_mtf_session_trend_confirmation)
      /\ Plainly(route_rty_ym_relative_value) /\ Plainly(route_ym_shared_risk_off)
      /\ Plainly(route_qd_economic_tournament) /\ Plainly(route_ym_strict_promotion)
      /\ Plainly(route_ym_shadow_activation)
      /\ Plainly(route_accelerated_context_tournament)
      /\ Plainly(route_selection_null_power)
      /\ Plainly(route_selection_null_policy_repair)
  BY DEF Plainly, route_equity_open_gap_continuation, route_q4_candidate_freeze,
    route_opening_direction_hazard, route_cross_ecology_opening_acceptance,
    route_mtf_session_trend_confirmation, route_rty_ym_relative_value,
    route_ym_shared_risk_off, route_qd_economic_tournament,
    route_ym_strict_promotion, route_ym_shadow_activation,
    route_accelerated_context_tournament, route_selection_null_power,
    route_selection_null_policy_repair
<1>3. Plainly(route_single_primary_alpha) /\ Plainly(route_single_primary_context)
      /\ Plainly(route_counterfactual_hazard) /\ Plainly(route_barrier_hazard)
      /\ Plainly(route_barrier_shadow_activation)
      /\ Plainly(route_energy_metals_barrier)
      /\ Plainly(route_energy_metals_session_geometry)
      /\ Plainly(route_session_geometry_micro_repair)
      /\ Plainly(route_session_geometry_micro_shadow)
      /\ Plainly(route_gc_session_geometry_fresh) /\ Plainly(route_cross_asset_daily)
      /\ Plainly(route_cross_asset_daily_shadow)
      /\ Plainly(route_shadow_shared_account_baskets)
  BY DEF Plainly, route_single_primary_alpha, route_single_primary_context,
    route_counterfactual_hazard, route_barrier_hazard,
    route_barrier_shadow_activation, route_energy_metals_barrier,
    route_energy_metals_session_geometry, route_session_geometry_micro_repair,
    route_session_geometry_micro_shadow, route_gc_session_geometry_fresh,
    route_cross_asset_daily, route_cross_asset_daily_shadow,
    route_shadow_shared_account_baskets
<1>4. Plainly(route_survival_hazard) /\ Plainly(route_meta_failure_allocation)
      /\ Plainly(route_causal_transition_graph)
      /\ Plainly(route_rty_transition_matched_null)
      /\ Plainly(route_promising_lineage_mutation)
      /\ Plainly(route_portfolio_role_research)
      /\ Plainly(route_forward_shadow_feed_audit)
      /\ Plainly(route_post_mutation_successive_halving)
      /\ Plainly(route_post_mutation_shadow_admission)
      /\ Plainly(route_post_mutation_child_shadow_activation)
      /\ Plainly(route_role_conditioned_structural_epoch)
      /\ Plainly(route_equity_preclose_inventory_dispersion)
      /\ Plainly(route_mini_micro_participation_divergence)
  BY DEF Plainly, route_survival_hazard, route_meta_failure_allocation,
    route_causal_transition_graph, route_rty_transition_matched_null,
    route_promising_lineage_mutation, route_portfolio_role_research,
    route_forward_shadow_feed_audit, route_post_mutation_successive_halving,
    route_post_mutation_shadow_admission,
    route_post_mutation_child_shadow_activation,
    route_role_conditioned_structural_epoch,
    route_equity_preclose_inventory_dispersion,
    route_mini_micro_participation_divergence
<1>5. Experiments = {"design", "execution", "post_design", "pilot", "contract_map",
        "v3_design", "v3", "path_geometry", "metal_energy", "cross_market",
        "volatility", "foundry", "equity_open_gap", "continuation", "q4_freeze",
        "opening_hazard", "cross_ecology", "mtf", "rty_ym", "ym_risk_off", "qd",
        "ym_strict", "ym_shadow", "accelerated", "null_power", "policy_repair",
        "alpha", "primary_context", "counterfactual", "barrier", "barrier_shadow",
        "energy_metals", "session_geometry", "micro_repair", "micro_shadow",
        "gc_fresh", "cross_asset", "cross_asset_shadow", "baskets", "survival",
        "meta", "causal", "rty_null", "mutation", "role_research", "feed_audit",
        "post_meta", "halving", "admission", "child", "role_epoch", "preclose",
        "mini_micro"}
  BY DEF Experiments, Route
<1>6. Route["design"] = route_calibration_affected_atom_retest_design
      /\ Route["execution"] = route_calibration_affected_atom_retest_execution
      /\ Route["post_design"] = route_post_calibration_retest_research_design
      /\ Route["pilot"] = route_validator_integrity_repair_pilot
      /\ Route["contract_map"] = route_contract_map_date_aware_repair
      /\ Route["v3_design"] = route_calibration_affected_atom_retest_v3_design
      /\ Route["v3"] = route_v3_execution /\ Route["path_geometry"] =
      route_path_geometry /\ Route["metal_energy"] = route_metal_energy
      /\ Route["cross_market"] = route_cross_market /\ Route["volatility"] =
      route_volatility /\ Route["foundry"] = route_foundry_bootstrap
      /\ Route["equity_open_gap"] = route_equity_open_gap /\ Route["continuation"] =
      route_equity_open_gap_continuation
  BY DEF Route
<1>7. Route["q4_freeze"] = route_q4_candidate_freeze /\ Route["opening_hazard"] =
      route_opening_direction_hazard /\ Route["cross_ecology"] =
      route_cross_ecology_opening_acceptance /\ Route["mtf"] =
      route_mtf_session_trend_confirmation /\ Route["rty_ym"] =
      route_rty_ym_relative_value /\ Route["ym_risk_off"] = route_ym_shared_risk_off
      /\ Route["qd"] = route_qd_economic_tournament /\ Route["ym_strict"] =
      route_ym_strict_promotion /\ Route["ym_shadow"] = route_ym_shadow_activation
      /\ Route["accelerated"] = route_accelerated_context_tournament
      /\ Route["null_power"] = route_selection_null_power /\ Route["policy_repair"] =
      route_selection_null_policy_repair /\ Route["alpha"] =
      route_single_primary_alpha /\ Route["primary_context"] =
      route_single_primary_context
  BY DEF Route
<1>8. Route["counterfactual"] = route_counterfactual_hazard /\ Route["barrier"] =
      route_barrier_hazard /\ Route["barrier_shadow"] =
      route_barrier_shadow_activation /\ Route["energy_metals"] =
      route_energy_metals_barrier /\ Route["session_geometry"] =
      route_energy_metals_session_geometry /\ Route["micro_repair"] =
      route_session_geometry_micro_repair /\ Route["micro_shadow"] =
      route_session_geometry_micro_shadow /\ Route["gc_fresh"] =
      route_gc_session_geometry_fresh /\ Route["cross_asset"] =
      route_cross_asset_daily /\ Route["cross_asset_shadow"] =
      route_cross_asset_daily_shadow /\ Route["baskets"] =
      route_shadow_shared_account_baskets /\ Route["survival"] =
      route_survival_hazard /\ Route["meta"] = route_meta_failure_allocation
      /\ Route["causal"] = route_causal_transition_graph
  BY DEF Route
<1>9. Route["rty_null"] = route_rty_transition_matched_null /\ Route["mutation"] =
      route_promising_lineage_mutation /\ Route["role_research"] =
      route_portfolio_role_research /\ Route["feed_audit"] =
      route_forward_shadow_feed_audit /\ Route["post_meta"] =
      route_meta_failure_allocation /\ Route["halving"] =
      route_post_mutation_successive_halving /\ Route["admission"] =
      route_post_mutation_shadow_admission /\ Route["child"] =
      route_post_mutation_child_shadow_activation /\ Route["role_epoch"] =
      route_role_conditioned_structural_epoch /\ Route["preclose"] =
      route_equity_preclose_inventory_dispersion /\ Route["mini_micro"] =
      route_mini_micro_participation_divergence
  BY DEF Route
<1>10. Plainly(Route["design"]) /\ Plainly(Route["execution"])
      /\ Plainly(Route["post_design"]) /\ Plainly(Route["pilot"])
      /\ Plainly(Route["contract_map"]) /\ Plainly(Route["v3_design"])
      /\ Plainly(Route["v3"]) /\ Plainly(Route["path_geometry"])
      /\ Plainly(Route["metal_energy"]) /\ Plainly(Route["cross_market"])
      /\ Plainly(Route["volatility"]) /\ Plainly(Route["foundry"])
      /\ Plainly(Route["equity_open_gap"]) /\ Plainly(Route["continuation"])
  BY <1>1, <1>2, <1>3, <1>4, <1>6
<1>11. Plainly(Route["q4_freeze"]) /\ Plainly(Route["opening_hazard"])
      /\ Plainly(Route["cross_ecology"]) /\ Plainly(Route["mtf"])
      /\ Plainly(Route["rty_ym"]) /\ Plainly(Route["ym_risk_off"])
      /\ Plainly(Route["qd"]) /\ Plainly(Route["ym_strict"])
      /\ Plainly(Route["ym_shadow"]) /\ Plainly(Route["accelerated"])
      /\ Plainly(Route["null_power"]) /\ Plainly(Route["policy_repair"])
      /\ Plainly(Route["alpha"]) /\ Plainly(Route["primary_context"])
  BY <1>1, <1>2, <1>3, <1>4, <1>7
<1>12. Plainly(Route["counterfactual"]) /\ Plainly(Route["barrier"])
      /\ Plainly(Route["barrier_shadow"]) /\ Plainly(Route["energy_metals"])
      /\ Plainly(Route["session_geometry"]) /\ Plainly(Route["micro_repair"])
      /\ Plainly(Route["micro_shadow"]) /\ Plainly(Route["gc_fresh"])
      /\ Plainly(Route["cross_asset"]) /\ Plainly(Route["cross_asset_shadow"])
      /\ Plainly(Route["baskets"]) /\ Plainly(Route["survival"])
      /\ Plainly(Route["meta"]) /\ Plainly(Route["causal"])
  BY <1>1, <1>2, <1>3, <1>4, <1>8
<1>13. Plainly(Route["rty_null"]) /\ Plainly(Route["mutation"])
      /\ Plainly(Route["role_research"]) /\ Plainly(Route["feed_audit"])
      /\ Plainly(Route["post_meta"]) /\ Plainly(Route["halving"])
      /\ Plainly(Route["admission"]) /\ Plainly(Route["child"])
      /\ Plainly(Route["role_epoch"]) /\ Plainly(Route["preclose"])
      /\ Plainly(Route["mini_micro"])
  BY <1>1, <1>2, <1>3, <1>4, <1>9
<1> QED BY <1>5, <1>10, <1>11, <1>12, <1>13
\* The names of the experiments.
LEMMA ExperimentNames ==
  Experiments = {"design", "execution", "post_design", "pilot", "contract_map",
     "v3_design", "v3", "path_geometry", "metal_energy", "cross_market",
     "volatility", "foundry", "equity_open_gap", "continuation", "q4_freeze",
     "opening_hazard", "cross_ecology", "mtf", "rty_ym", "ym_risk_off", "qd",
     "ym_strict", "ym_shadow", "accelerated", "null_power", "policy_repair",
     "alpha", "primary_context", "counterfactual", "barrier", "barrier_shadow",
     "energy_metals", "session_geometry", "micro_repair", "micro_shadow",
     "gc_fresh", "cross_asset", "cross_asset_shadow", "baskets", "survival", "meta",
     "causal", "rty_null", "mutation", "role_research", "feed_audit", "post_meta",
     "halving", "admission", "child", "role_epoch", "preclose", "mini_micro"}
BY DEF Experiments, Route

\* The table of completed experiments has them all.
LEMMA AllInOrder ==
  ASSUME NEW s \in Experiments
  PROVE  \E p \in 1..53 : CompletedOrder[p] = s
<1>1. CompletedOrder[1] = "design" /\ CompletedOrder[2] = "execution" /\ CompletedOrder[3]
      = "post_design" /\ CompletedOrder[4] = "pilot" /\ CompletedOrder[5] =
      "contract_map" /\ CompletedOrder[6] = "v3_design" /\ CompletedOrder[7] = "v3"
      /\ CompletedOrder[8] = "path_geometry" /\ CompletedOrder[9] = "metal_energy"
      /\ CompletedOrder[10] = "cross_market" /\ CompletedOrder[11] = "volatility"
      /\ CompletedOrder[12] = "foundry" /\ CompletedOrder[13] = "equity_open_gap"
      /\ CompletedOrder[14] = "continuation"
  BY DEF CompletedOrder
<1>2. CompletedOrder[15] = "q4_freeze" /\ CompletedOrder[16] = "opening_hazard"
      /\ CompletedOrder[17] = "cross_ecology" /\ CompletedOrder[18] = "mtf"
      /\ CompletedOrder[19] = "rty_ym" /\ CompletedOrder[20] = "ym_risk_off"
      /\ CompletedOrder[21] = "qd" /\ CompletedOrder[22] = "ym_strict"
      /\ CompletedOrder[23] = "ym_shadow" /\ CompletedOrder[24] = "accelerated"
      /\ CompletedOrder[25] = "null_power" /\ CompletedOrder[26] = "policy_repair"
      /\ CompletedOrder[27] = "alpha" /\ CompletedOrder[28] = "primary_context"
  BY DEF CompletedOrder
<1>3. CompletedOrder[29] = "counterfactual" /\ CompletedOrder[30] = "barrier"
      /\ CompletedOrder[31] = "barrier_shadow" /\ CompletedOrder[32] = "energy_metals"
      /\ CompletedOrder[33] = "session_geometry" /\ CompletedOrder[34] =
      "micro_repair" /\ CompletedOrder[35] = "micro_shadow" /\ CompletedOrder[36] =
      "gc_fresh" /\ CompletedOrder[37] = "cross_asset" /\ CompletedOrder[38] =
      "cross_asset_shadow" /\ CompletedOrder[39] = "baskets" /\ CompletedOrder[40] =
      "survival" /\ CompletedOrder[41] = "meta" /\ CompletedOrder[42] = "causal"
  BY DEF CompletedOrder
<1>4. CompletedOrder[43] = "rty_null" /\ CompletedOrder[44] = "mutation"
      /\ CompletedOrder[45] = "role_research" /\ CompletedOrder[46] = "feed_audit"
      /\ CompletedOrder[47] = "post_meta" /\ CompletedOrder[48] = "halving"
      /\ CompletedOrder[49] = "admission" /\ CompletedOrder[50] = "child"
      /\ CompletedOrder[51] = "role_epoch" /\ CompletedOrder[52] = "preclose"
      /\ CompletedOrder[53] = "mini_micro"
  BY DEF CompletedOrder
<1>5. CASE s \in {"design", "execution", "post_design", "pilot", "contract_map",
                "v3_design", "v3", "path_geometry", "metal_energy",
                "cross_market", "volatility", "foundry",
                "equity_open_gap", "continuation"}
  BY <1>1, <1>5
<1>6. CASE s \in {"q4_freeze", "opening_hazard", "cross_ecology", "mtf", "rty_ym",
                "ym_risk_off", "qd", "ym_strict", "ym_shadow",
                "accelerated", "null_power", "policy_repair", "alpha",
                "primary_context"}
  BY <1>2, <1>6
<1>7. CASE s \in {"counterfactual", "barrier", "barrier_shadow", "energy_metals",
                "session_geometry", "micro_repair", "micro_shadow",
                "gc_fresh", "cross_asset", "cross_asset_shadow",
                "baskets", "survival", "meta", "causal"}
  BY <1>3, <1>7
<1>8. CASE s \in {"rty_null", "mutation", "role_research", "feed_audit", "post_meta",
                "halving", "admission", "child", "role_epoch",
                "preclose", "mini_micro"}
  BY <1>4, <1>8
<1> QED BY <1>5, <1>6, <1>7, <1>8, ExperimentNames

-----------------------------------------------------------------------------
(* What the calls of the controller prepend to its list of work.           *)

\* A list that completes nothing.
Plain(T) == IsList(T) /\ \A p \in 1..Len(T) : T[p][1] # "finish"

\* Plain lists, one after the other.
LEMMA PlainJoin ==
  ASSUME NEW s, NEW t, Plain(s), Plain(t)
  PROVE  Plain(s \o t)
<1>1. IsList(s) /\ IsList(t) /\ Len(s) \in Nat /\ Len(t) \in Nat
  BY DEF Plain, IsList
<1>2. ASSUME NEW p \in 1..Len(s \o t) PROVE (s \o t)[p][1] # "finish"
  <2>1. Len(s \o t) = Len(s) + Len(t)
    BY <1>1, Joined
  <2>2. CASE p \in 1..Len(s)
    BY <1>1, <2>2, Joined DEF Plain
  <2>3. CASE p \in Len(s) + 1..Len(s) + Len(t)
    <3>1. p - Len(s) \in 1..Len(t) /\ (s \o t)[p] = t[p - Len(s)]
      BY <1>1, <2>3, Joined
    <3> QED BY <3>1 DEF Plain
  <2> QED BY <1>1, <2>1, <2>2, <2>3
<1> QED BY <1>1, <1>2, Joined DEF Plain

\* Short plain lists.
LEMMA PlainFew ==
  /\ Plain(<<>>)
  /\ \A a : a[1] # "finish" => Plain(<<a>>)
  /\ \A a, b : a[1] # "finish" /\ b[1] # "finish" => Plain(<<a, b>>)
<1>1. Plain(<<>>)
  BY EmptyList DEF Plain
<1>2. ASSUME NEW a, a[1] # "finish" PROVE Plain(<<a>>)
  BY <1>2, OneStep DEF Plain
<1>3. ASSUME NEW a, NEW b, a[1] # "finish", b[1] # "finish" PROVE Plain(<<a, b>>)
  <2>1. IsList(<<a, b>>) /\ Len(<<a, b>>) = 2 /\ <<a, b>>[1] = a /\ <<a, b>>[2] = b
    BY TwoSteps
  <2>2. \A p \in 1..2 : <<a, b>>[p][1] # "finish"
    <3>1. \A p \in 1..2 : p = 1 \/ p = 2
      OBVIOUS
    <3> QED BY <1>3, <2>1, <3>1
  <2> QED BY <2>1, <2>2 DEF Plain
<1> QED BY <1>1, <1>2, <1>3

\* As many steps of one kind.
LEMMA PlainEach ==
  ASSUME NEW n \in Nat, NEW T, T = [p \in 1..n |-> T[p]],
         \A p \in 1..n : T[p][1] # "finish"
  PROVE  Plain(T) /\ Len(T) = n
BY DEF Plain, IsList

\* The writes of a phase and a blocker.
LEMMA PlainWrites ==
  /\ \A b, c : Plain(Writes(b, c))
  /\ Plain(Clear) /\ Plain(Mismatch.steps)
<1>1. ASSUME NEW b, NEW c PROVE Plain(Writes(b, c))
  BY PlainFew DEF Writes
<1> QED BY <1>1 DEF Clear, Mismatch, Answer
\* Every call of a reconcile method.
LEMMA PlainAnswers ==
  ASSUME NEW s, NEW intact \in BOOLEAN
  PROVE  Plain(Resolve(s, intact).steps)
<1> DEFINE Calm(answer) == Plain(answer.steps)
<1>1. ASSUME NEW t PROVE Calm(Existing(t))
  BY PlainFew, PlainWrites DEF Existing, Answer
<1>2. ASSUME NEW t, NEW whole \in BOOLEAN PROVE Calm(Reconcile(t, whole))
  <2>1. Plain(<< <<"queue", t>> >> \o Clear)
    BY PlainFew, PlainJoin, PlainWrites
  <2>2. Calm(Mismatch) /\ Calm(Answer(FALSE, <<>>))
        /\ Calm(Answer(TRUE, << <<"queue", t>> >> \o Clear))
    BY <2>1, PlainFew, PlainWrites DEF Answer
  <2>3. Reconcile(t, whole) \in {Existing(t), Answer(FALSE, <<>>), Mismatch,
                                 Answer(TRUE, << <<"queue", t>> >> \o Clear)}
    BY DEF Reconcile
  <2> QED BY <1>1, <2>2, <2>3
<1>3. Calm(ReconcileContractMap(intact))
  BY <1>2, PlainFew DEF ReconcileContractMap, Answer
<1>4. Calm(ReconcileV3(intact))
  <2>1. Calm([Existing("v3") EXCEPT !.ok = (row["v3"] = "QUEUED")])
    BY <1>1 DEF Existing, Answer
  <2> QED BY <1>2, <2>1 DEF ReconcileV3
<1>5. Calm(ReconcileTrio(intact))
  <2> PICK open : open = Those(Trio, {t \in ToSet(Trio) : row[t] = "absent"})
    OBVIOUS
  <2>1. DOMAIN Trio = 1..3
    BY DEF Trio
  <2>2. IsList(open) /\ Len(open) \in Nat
    <3>1. 3 \in Nat
      OBVIOUS
    <3>2. IsList(open)
      BY <2>1, <3>1, ThoseAre
    <3> QED BY <3>2 DEF IsList
  <2> PICK Q : Q = [i \in 1..Len(open) |-> <<"queue", open[i]>>]
    OBVIOUS
  <2>3. Plain(Q)
    BY <2>2, PlainEach
  <2>4. /\ Calm(Answer(TRUE, Clear)) /\ Calm(Mismatch) /\ Calm(Answer(FALSE, <<>>))
        /\ Calm(Answer(TRUE, Q \o Clear))
    BY <2>3, PlainFew, PlainJoin, PlainWrites DEF Answer
  <2>5. ReconcileTrio(intact) \in {Answer(TRUE, Clear), Mismatch, Answer(FALSE, <<>>),
                                   Answer(TRUE, Q \o Clear)}
    BY DEF ReconcileTrio
  <2> QED BY <2>4, <2>5
<1>6. ASSUME NEW supported \in BOOLEAN PROVE Calm(QueuePilot(supported))
  <2>1. Plain(<< <<"queue", "pilot">> >>)
    BY PlainFew
  <2> QED BY <2>1, PlainFew, PlainJoin, PlainWrites DEF QueuePilot, Answer
<1>7. Calm(Finalize(intact))
  <2> PICK A, B, C, D :
        /\ A = << <<"mark", "campaign">> >> /\ B = Writes("TARGETED_RESEARCH_RESUMED", "none")
        /\ C = << <<"queue", "post_meta">> >> /\ D = A \o B
    OBVIOUS
  <2>1. Plain(A) /\ Plain(B) /\ Plain(C) /\ Plain(D)
    BY PlainFew, PlainJoin, PlainWrites
  <2>2. Plain(D \o <<>>) /\ Plain(D \o C) /\ Plain(D \o Mismatch.steps)
    BY <2>1, PlainFew, PlainJoin, PlainWrites
  <2>3. Plain(Writes("RUNNING_PARALLEL_EXPERIMENTS", "none"))
    BY PlainWrites
  <2>4. Finalize(intact).steps \in {Writes("RUNNING_PARALLEL_EXPERIMENTS", "none"),
                                    D \o <<>>, D \o C, D \o Mismatch.steps}
    BY DEF Finalize, Answer
  <2> QED BY <2>2, <2>3, <2>4
<1> QED BY <1>2, <1>3, <1>4, <1>5, <1>6, <1>7 DEF Resolve

\* A route ends with the record that the result was routed.
LEMMA PlainRouting ==
  ASSUME NEW s
  PROVE  Plain(Routing(s)) /\ Has(Routing(s), <<"event", s>>)
<1> PICK o : o = Route[s][row[s]]
  OBVIOUS
<1> PICK A, B, C, D :
      /\ A = (IF s \in {"design", "execution"} THEN << <<"mark", s>> >> ELSE <<>>)
      /\ B = (IF o.phase = "none" THEN <<>> ELSE Writes(o.phase, o.ask))
      /\ C = (IF o.next = "none" THEN <<>> ELSE << <<"reconcile", o.next>> >>)
      /\ D = << <<"event", s>> >>
  OBVIOUS
<1>1. Plain(A) /\ Plain(B) /\ Plain(C) /\ Plain(D)
  BY PlainFew, PlainWrites
<1> PICK P : P = A \o B
  OBVIOUS
<1> PICK R : R = P \o C
  BY Zenon
<1>2. Plain(P) /\ Plain(R) /\ Plain(R \o D)
  BY Zenon, <1>1, PlainJoin
<1>3. Routing(s) = R \o D
  BY Zenon DEF Routing
<1>4. IsList(R)
  BY Zenon, <1>2 DEF Plain
<1>5. Has(R \o D, <<"event", s>>)
  BY Zenon, <1>4, LastStep
<1> QED BY Zenon, <1>2, <1>3, <1>5

\* The search finds every result that is not routed.
LEMMA PlainCompleted ==
  /\ Plain(ReconcileCompleted)
  /\ \A s \in Experiments : Unrouted(s) => Has(ReconcileCompleted, <<"route", s>>)
<1> PICK U : U = {s \in Experiments : Unrouted(s)}
  OBVIOUS
<1> PICK due : due = Those(CompletedOrder, U)
  OBVIOUS
<1>1. DOMAIN CompletedOrder = 1..53 /\ 53 \in Nat
  BY DEF CompletedOrder
<1>2. IsList(due) /\ \A p \in 1..53 : CompletedOrder[p] \in U => Has(due, CompletedOrder[p])
  BY <1>1, ThoseAre
<1>3. Len(due) \in Nat
  BY <1>2 DEF IsList
<1> PICK T : T = [i \in 1..Len(due) |-> <<"route", due[i]>>]
  OBVIOUS
<1>4. ReconcileCompleted = T
  BY DEF ReconcileCompleted
<1>5. Plain(T) /\ Len(T) = Len(due)
  BY <1>3, PlainEach
<1>6. ASSUME NEW s \in Experiments, Unrouted(s)
      PROVE  Has(T, <<"route", s>>)
  <2>1. PICK p \in 1..53 : CompletedOrder[p] = s
    BY AllInOrder
  <2>2. Has(due, s)
    BY <1>2, <1>6, <2>1
  <2> QED BY <1>5, <2>2 DEF Has
<1> QED BY <1>4, <1>5, <1>6
-----------------------------------------------------------------------------
(* One step of the list gives way to others.                               *)

\* What is behind the first step.
Behind(a) == \E q \in 2..Len(todo) : todo[q] = a

\* A step by which the result s comes to be routed stands behind the first.
Later(s) == \E q \in 2..Len(todo) : todo[q] \in Ways(s)

\* The invariant is kept if each result that is not routed has its step among
\* the new ones or behind the first.
LEMMA WorkKeeps ==
  ASSUME CampaignInv, up, up' = up, todo # <<>>, NEW T, Plain(T), Then(T),
         row' = [s \in Experiments |-> row'[s]],
         \A s \in Experiments : Unrouted(s)' =>
           Later(s) \/ \E a \in Ways(s) : Has(T, a)
  PROVE  CampaignInv'
<1>1. /\ IsList(todo') /\ Len(todo') = Len(T) + Len(todo) - 1
      /\ Len(todo) \in Nat /\ Len(todo) >= 1 /\ Len(T) \in Nat
      /\ \A p \in 1..Len(T) : todo'[p] = T[p]
      /\ \A p \in Len(T) + 1..Len(todo') :
           todo'[p] = todo[p - Len(T) + 1] /\ p - Len(T) + 1 \in 2..Len(todo)
      /\ \A q \in 2..Len(todo) :
           q + Len(T) - 1 \in 1..Len(todo') /\ todo'[q + Len(T) - 1] = todo[q]
  BY Replaced DEF CampaignInv, Plain
<1>2. \A s : Ways(s)' = Ways(s)
  BY DEF Ways
<1>3. ASSUME NEW s \in Experiments, Unrouted(s)' PROVE Comes(s)'
  <2>1. CASE Later(s)
    <3>1. PICK q \in 2..Len(todo) : todo[q] \in Ways(s)
      BY <2>1 DEF Later
    <3>2. q + Len(T) - 1 \in 1..Len(todo') /\ todo'[q + Len(T) - 1] \in Ways(s)
      BY <1>1, <3>1
    <3> QED BY <1>2, <3>2 DEF Comes
  <2>2. CASE \E a \in Ways(s) : Has(T, a)
    <3>1. PICK p \in 1..Len(T) : T[p] \in Ways(s)
      BY <2>2 DEF Has
    <3>2. p \in 1..Len(todo') /\ todo'[p] \in Ways(s)
      BY <1>1, <3>1
    <3> QED BY <1>2, <3>2 DEF Comes
  <2> QED BY <1>3, <2>1, <2>2
<1>4. ASSUME NEW p \in 1..Len(todo'), todo'[p][1] = "finish"
      PROVE  \E q \in p + 1..Len(todo') : todo'[q] = <<"completed", "none">>
  <2>1. p \notin 1..Len(T)
    BY <1>1, <1>4 DEF Plain
  <2> PICK r : r = p - Len(T) + 1
    OBVIOUS
  <2>2. r \in 2..Len(todo) /\ todo[r][1] = "finish"
    BY SMTT(20), <1>1, <1>4, <2>1
  <2> PICK l \in Nat, m \in Nat : l = Len(T) /\ m = Len(todo)
    BY <1>1
  <2>3. r \in 1..m /\ MembersFirst
    BY <2>2 DEF CampaignInv
  <2>4. PICK q \in r + 1..m : todo[q] = <<"completed", "none">>
    BY <2>2, <2>3 DEF MembersFirst
  <2>5. p \in 1..l + m - 1 /\ r = p - l + 1 /\ r >= 2
    BY <1>1, <2>2
  <2>6. q \in 2..m /\ q + l - 1 \in p + 1..l + m - 1
    BY <2>5
  <2>7. Len(todo') = l + m - 1 /\ todo'[q + l - 1] = todo[q]
    BY <1>1, <2>6
  <2> QED BY <2>4, <2>6, <2>7
<1> QED BY <1>1, <1>3, <1>4 DEF CampaignInv, ResultsCome, MembersFirst

\* The ways are steps of three kinds.
LEMMA WaysAre ==
  ASSUME NEW s, NEW a \in Ways(s)
  PROVE  \/ a[1] = "completed" /\ a = <<"completed", "none">>
         \/ a[1] = "route" /\ a[2] = s
         \/ a[1] = "event" /\ a[2] = s
<1>1. a = <<"completed", "none">> \/ a = <<"route", s>> \/ a = <<"event", s>>
  BY DEF Ways
<1>2. \A d : <<d, s>>[1] = d /\ <<d, s>>[2] = s
  OBVIOUS
<1>3. CASE a = <<"completed", "none">>
  BY <1>3
<1>4. CASE a = <<"route", s>>
  BY <1>2, <1>4
<1>5. CASE a = <<"event", s>>
  BY <1>2, <1>5
<1> QED BY <1>1, <1>3, <1>4, <1>5

\* A result that is not routed has its step behind the first one, unless the
\* first is that step.
LEMMA LaterIs ==
  ASSUME CampaignInv, up, todo # <<>>, NEW s \in Experiments, Unrouted(s),
         Head(todo) \notin Ways(s)
  PROVE  Later(s)
<1>1. PICK p \in 1..Len(todo) : todo[p] \in Ways(s)
  BY DEF CampaignInv, ResultsCome, Comes
<1>2. Len(todo) \in Nat /\ Head(todo) = todo[1]
  BY Rest DEF CampaignInv, IsList
<1> QED BY <1>1, <1>2 DEF Later

\* A step that routes nothing and completes nothing.
LEMMA OtherKeeps ==
  ASSUME CampaignInv, up' = up, routed' = routed, NEW d, Step(d),
         d \notin {"completed", "route", "event", "finish"}, NEW T, Plain(T), Then(T),
         row' = [s \in Experiments |-> row'[s]],
         \A s \in Experiments : Completed(s)' => Completed(s)
  PROVE  CampaignInv'
<1>1. up /\ todo # <<>> /\ Head(todo)[1] = d
  BY DEF Step
<1>2. ASSUME NEW s \in Experiments, Unrouted(s)' PROVE Later(s)
  <2>1. Unrouted(s)
    BY <1>2 DEF Unrouted
  <2>2. Head(todo) \notin Ways(s)
    <3> PICK a : a = Head(todo)
      OBVIOUS
    <3>1. a[1] \notin {"completed", "route", "event"}
      BY <1>1
    <3> QED BY <3>1, WaysAre
  <2> QED BY <1>1, <2>1, <2>2, LaterIs
<1> QED BY <1>1, <1>2, WorkKeeps
\* A controller at work sets to something new.
LEMMA AnewKeeps ==
  ASSUME CampaignInv, up', todo = <<>>, NEW T, IsList(T), todo' = T,
         row' = [s \in Experiments |-> row'[s]],
         \A s \in Experiments : Unrouted(s)' => \E a \in Ways(s) : Has(T, a),
         MembersLead(T)
  PROVE  CampaignInv'
<1>1. \A s : Ways(s)' = Ways(s)
  BY DEF Ways
<1>2. ASSUME NEW s \in Experiments, Unrouted(s)' PROVE Comes(s)'
  <2>1. \E p \in 1..Len(T) : T[p] \in Ways(s)
    BY <1>2 DEF Has
  <2> QED BY <1>1, <2>1 DEF Comes
<1> QED BY <1>2 DEF CampaignInv, ResultsCome, MembersFirst, MembersLead

-----------------------------------------------------------------------------
(* Every step keeps the invariant.                                         *)

\* The initial state.
LEMMA InitKeeps ==
  ASSUME CampaignInit
  PROVE  CampaignInv
<1>1. IsList(<<>>) /\ Len(<<>>) = 0
  BY EmptyList
<1>2. row = [s \in Experiments |-> row[s]]
  BY DEF CampaignInit
<1> QED BY <1>1, <1>2 DEF CampaignInit, CampaignInv, ResultsCome, MembersFirst

\* A step that changes nothing of the rows and the routed results.
LEMMA SameRows ==
  ASSUME CampaignInv, row' = row, routed' = routed
  PROVE  /\ row' = [s \in Experiments |-> row'[s]]
         /\ \A s \in Experiments : Completed(s)' <=> Completed(s)
         /\ \A s \in Experiments : Unrouted(s)' <=> Unrouted(s)
BY DEF CampaignInv, Completed, Unrouted

\* The kv writes, the locals and the calls.
LEMMA CallsKeep ==
  ASSUME CampaignInv,
         \/ SetPhase \/ SetBlocker \/ SetMark \/ ResolveNow \/ ResolveAtStart
         \/ Settle \/ Collect \/ Conclude
  PROVE  CampaignInv'
<1> DEFINE Calls(d, T) == /\ Step(d) /\ Then(T) /\ Plain(T)
                          /\ d \notin {"completed", "route", "event", "finish"}
<1>1. PICK d, T : Calls(d, T)
  <2>1. CASE SetPhase \/ SetBlocker \/ SetMark
    BY <2>1, PlainFew DEF SetPhase, SetBlocker, SetMark
  <2>2. ASSUME NEW d, d \in {"reconcile", "start"}, NEW keep, Resolving(d, keep)
        PROVE  \E T : Calls(d, T)
    <3>1. PICK intact \in BOOLEAN : Step(d) /\ Then(Resolve(Arg, intact).steps)
      BY <2>2 DEF Resolving
    <3> PICK T : T = Resolve(Arg, intact).steps
      OBVIOUS
    <3>2. Then(T) /\ Plain(T)
      BY <3>1, PlainAnswers
    <3> QED BY <2>2, <3>1, <3>2
  <2>3. CASE Settle
    BY <2>3, PlainFew, PlainWrites DEF Settle, Settled
  <2>4. CASE Collect
    <3> PICK needed : needed = Those(StartOrder, {s \in ToSet(StartOrder) : Required(s)})
      OBVIOUS
    <3>1. DOMAIN StartOrder = 1..39 /\ 39 \in Nat
      BY DEF StartOrder
    <3>2. IsList(needed)
      BY <3>1, ThoseAre
    <3> PICK A, B : /\ A = [i \in 1..Len(needed) |-> <<"start", needed[i]>>]
                    /\ B = << <<"conclude", "none">> >>
      OBVIOUS
    <3>3. Plain(A)
      BY <3>2, PlainEach DEF IsList
    <3>4. Plain(B)
      BY PlainFew
    <3>5. Plain(A \o B)
      BY <3>3, <3>4, PlainJoin
    <3>6. Step("collect") /\ Then(A \o B)
      BY <2>4 DEF Collect
    <3> PICK d, T : d = "collect" /\ T = A \o B
      OBVIOUS
    <3>7. Calls(d, T)
      BY <3>5, <3>6
    <3> QED BY <3>7
  <2>5. CASE Conclude
    BY <2>5, PlainFew, PlainWrites DEF Conclude, Settled
  <2>6. CASE ResolveNow \/ ResolveAtStart
    <3>1. PICK d \in {"reconcile", "start"}, keep \in BOOLEAN : Resolving(d, keep)
      BY <2>6 DEF ResolveNow, ResolveAtStart
    <3> QED BY <2>2, <3>1
  <2> HIDE DEF Calls
  <2> QED BY <2>1, <2>3, <2>4, <2>5, <2>6
<1>2. up' = up /\ row' = row /\ routed' = routed
  BY DEF SetPhase, SetBlocker, SetMark, ResolveNow, ResolveAtStart, Resolving, Settle,
         Collect, Conclude
<1>3. /\ row' = [s \in Experiments |-> row'[s]]
      /\ \A s \in Experiments : Completed(s)' => Completed(s)
  BY <1>2, SameRows
<1> QED BY <1>1, <1>2, <1>3, OtherKeeps

\* Queueing completes nothing.
LEMMA EnqueueKeeps ==
  ASSUME CampaignInv, Enqueue
  PROVE  CampaignInv'
<1>1. /\ up' = up /\ routed' = routed /\ Step("queue") /\ Then(<<>>) /\ Plain(<<>>)
      /\ row' = [row EXCEPT ![Arg] = IF @ = "absent" THEN "QUEUED" ELSE @]
  BY PlainFew DEF Enqueue
<1>2. row' = [s \in Experiments |-> row'[s]]
  BY <1>1 DEF CampaignInv
<1>3. ASSUME NEW s \in Experiments, Completed(s)' PROVE Completed(s)
  <2>1. row'[s] \in DOMAIN Route[s] /\ row'[s] # "QUEUED"
    BY <1>3, FindingsAreNoStatus DEF Completed, Plainly
  <2>2. row'[s] = row[s]
    BY <1>1, <2>1 DEF CampaignInv
  <2> QED BY <2>1, <2>2 DEF Completed
<1> QED BY <1>1, <1>2, <1>3, OtherKeeps

\* A member that failed is not completed.
LEMMA FailMemberKeeps ==
  ASSUME CampaignInv, FailMember
  PROVE  CampaignInv'
<1>1. /\ up' = up /\ routed' = routed /\ Step("fail") /\ Then(<<>>) /\ Plain(<<>>)
      /\ row' = [row EXCEPT ![Arg] = "FAILED"]
  BY PlainFew DEF FailMember
<1>2. row' = [s \in Experiments |-> row'[s]]
  BY <1>1 DEF CampaignInv
<1>3. ASSUME NEW s \in Experiments, Completed(s)' PROVE Completed(s)
  <2>1. row'[s] \in DOMAIN Route[s] /\ row'[s] # "FAILED"
    BY <1>3, FindingsAreNoStatus DEF Completed, Plainly
  <2>2. row'[s] = row[s]
    BY <1>1, <2>1 DEF CampaignInv
  <2> QED BY <2>1, <2>2 DEF Completed
<1> QED BY <1>1, <1>2, <1>3, OtherKeeps

\* A member that is done has the search for results behind it.
LEMMA FinishMemberKeeps ==
  ASSUME CampaignInv, FinishMember
  PROVE  CampaignInv'
<1>1. /\ up /\ up' = up /\ todo # <<>> /\ Head(todo)[1] = "finish" /\ Then(<<>>)
  BY DEF FinishMember, Step
<1>2. row' = [s \in Experiments |-> row'[s]]
  BY DEF FinishMember, CampaignInv
<1>3. Head(todo) = todo[1] /\ Len(todo) \in Nat /\ 1 \in 1..Len(todo)
  BY <1>1, Rest DEF CampaignInv, IsList
<1>4. \E q \in 2..Len(todo) : todo[q] = <<"completed", "none">>
  <2>1. MembersFirst /\ todo[1][1] = "finish"
    BY <1>1, <1>3 DEF CampaignInv
  <2>2. PICK q \in 1 + 1..Len(todo) : todo[q] = <<"completed", "none">>
    BY <1>3, <2>1 DEF MembersFirst
  <2>3. 1 + 1 = 2
    OBVIOUS
  <2> QED BY <2>2, <2>3
<1>5. \A s : Later(s)
  BY <1>4 DEF Later, Ways
<1> QED BY <1>1, <1>2, <1>5, PlainFew, WorkKeeps
\* The search for results lists every one that is not routed.
LEMMA CompletedKeeps ==
  ASSUME CampaignInv, RouteCompleted
  PROVE  CampaignInv'
<1> PICK T : T = ReconcileCompleted
  OBVIOUS
<1>1. /\ up /\ up' = up /\ todo # <<>> /\ Then(T) /\ Plain(T)
      /\ row' = row /\ routed' = routed
  BY PlainCompleted DEF RouteCompleted, Step
<1>2. /\ row' = [s \in Experiments |-> row'[s]]
      /\ \A s \in Experiments : Unrouted(s)' => Unrouted(s)
  BY <1>1, SameRows
<1>3. ASSUME NEW s \in Experiments, Unrouted(s)' PROVE \E a \in Ways(s) : Has(T, a)
  <2>1. Has(T, <<"route", s>>)
    BY <1>2, <1>3, PlainCompleted
  <2> QED BY <2>1 DEF Ways
<1> QED BY <1>1, <1>2, <1>3, WorkKeeps

\* The route of a result ends with its record.
LEMMA RouteKeeps ==
  ASSUME CampaignInv, RouteResult
  PROVE  CampaignInv'
<1> PICK r : r = Arg
  OBVIOUS
<1> PICK T : T = Routing(r)
  OBVIOUS
<1>1. /\ up /\ up' = up /\ todo # <<>> /\ Then(T) /\ Plain(T) /\ Has(T, <<"event", r>>)
      /\ row' = row /\ routed' = routed /\ Head(todo)[1] = "route" /\ Head(todo)[2] = r
  BY PlainRouting DEF RouteResult, Step, Arg
<1>2. /\ row' = [s \in Experiments |-> row'[s]]
      /\ \A s \in Experiments : Unrouted(s)' => Unrouted(s)
  BY <1>1, SameRows
<1>3. ASSUME NEW s \in Experiments, Unrouted(s)'
      PROVE  Later(s) \/ \E a \in Ways(s) : Has(T, a)
  <2>1. CASE s = r
    BY <1>1, <2>1 DEF Ways
  <2>2. CASE s # r
    <3> PICK a : a = Head(todo)
      OBVIOUS
    <3>1. a[1] = "route" /\ a[2] # s
      BY <1>1, <2>2
    <3>2. Head(todo) \notin Ways(s)
      BY <3>1, WaysAre
    <3> QED BY <1>1, <1>2, <1>3, <3>2, LaterIs
  <2> QED BY <2>1, <2>2
<1> QED BY <1>1, <1>2, <1>3, WorkKeeps

\* What is on record needs no further step.
LEMMA EventKeeps ==
  ASSUME CampaignInv, RecordRouted
  PROVE  CampaignInv'
<1> PICK r : r = Arg
  OBVIOUS
<1>1. /\ up /\ up' = up /\ todo # <<>> /\ Then(<<>>) /\ Plain(<<>>)
      /\ row' = row /\ routed' = routed \cup {r} /\ Head(todo)[1] = "event" /\ Head(todo)[2] = r
  BY PlainFew DEF RecordRouted, Step, Arg
<1>2. row' = [s \in Experiments |-> row'[s]]
  BY <1>1 DEF CampaignInv
<1>3. ASSUME NEW s \in Experiments, Unrouted(s)' PROVE Later(s)
  <2>1. Unrouted(s) /\ s # r
    BY <1>1, <1>3 DEF Unrouted, Completed
  <2> PICK a : a = Head(todo)
    OBVIOUS
  <2>2. a[1] = "event" /\ a[2] # s
    BY <1>1, <2>1
  <2>3. Head(todo) \notin Ways(s)
    BY <2>2, WaysAre
  <2> QED BY <1>1, <2>1, <2>3, LaterIs
<1> QED BY <1>1, <1>2, <1>3, WorkKeeps

\* A controller that looks for work has routed everything.
LEMMA IdleIsRouted ==
  ASSUME CampaignInv
  PROVE  NothingUnrouted
<1>1. ASSUME Idle, NEW s \in Experiments, Completed(s), s \notin routed PROVE FALSE
  <2>1. Comes(s) /\ todo = <<>>
    BY <1>1 DEF CampaignInv, ResultsCome, Unrouted, Idle
  <2> QED BY <2>1, EmptyList DEF Comes
<1> QED BY <1>1 DEF NothingUnrouted

\* What the controller sets to without a new result.
LEMMA QuietKeeps ==
  ASSUME CampaignInv, Idle, up' = up, routed' = routed, NEW T, Plain(T), todo' = T,
         row' = [s \in Experiments |-> row'[s]],
         \A s \in Experiments : Completed(s)' => Completed(s)
  PROVE  CampaignInv'
<1>1. up /\ todo = <<>> /\ IsList(T)
  BY DEF Idle, Plain
<1>2. \A s \in Experiments : ~Unrouted(s)'
  BY IdleIsRouted DEF NothingUnrouted, Unrouted
<1>3. MembersLead(T)
  BY DEF Plain, MembersLead
<1> QED BY <1>1, <1>2, <1>3, AnewKeeps

\* One experiment, done or failed.
LEMMA RunKeeps ==
  ASSUME CampaignInv, RunExperiment \/ FailExperiment \/ MissHandler
  PROVE  CampaignInv'
<1>1. CASE RunExperiment
  <2> PICK T : T = << <<"completed", "none">>, <<"settle", "none">> >>
    OBVIOUS
  <2>1. Idle /\ up' = up /\ todo' = T /\ row' = [s \in Experiments |-> row'[s]]
    BY <1>1 DEF RunExperiment, Ready, CampaignInv
  <2>2. Plain(T) /\ Has(T, <<"completed", "none">>)
    BY PlainFew, FirstStep
  <2>3. \A s : \E a \in Ways(s) : Has(T, a)
    BY <2>2 DEF Ways
  <2> QED BY <2>1, <2>2, <2>3, AnewKeeps DEF Idle, Plain, MembersLead
<1>2. CASE FailExperiment
  <2>1. PICK s : row' = [row EXCEPT ![s] = "FAILED"]
    BY <1>2 DEF FailExperiment
  <2>2. ASSUME NEW t \in Experiments, Completed(t)' PROVE Completed(t)
    <3>1. row'[t] \in DOMAIN Route[t] /\ row'[t] # "FAILED"
      BY <2>2, FindingsAreNoStatus DEF Completed, Plainly
    <3>2. row'[t] = row[t]
      BY <2>1, <3>1 DEF CampaignInv
    <3> QED BY <3>1, <3>2 DEF Completed
  <2>3. row' = [t \in Experiments |-> row'[t]]
    BY <2>1 DEF CampaignInv
  <2>4. /\ Idle /\ up' = up /\ routed' = routed
        /\ todo' = Writes("EXPERIMENT_BLOCKED", "EXPERIMENT_FAILED")
    BY <1>2 DEF FailExperiment, Ready
  <2> QED BY <2>2, <2>3, <2>4, PlainWrites, QuietKeeps
<1>3. CASE MissHandler
  <2>1. /\ Idle /\ up' = up /\ routed' = routed /\ row' = row
        /\ todo' = Writes("ENGINEERING_BLOCKED", "MISSING_EXPERIMENT_HANDLER")
    BY <1>3 DEF MissHandler, Ready, kv
  <2> QED BY <2>1, PlainWrites, QuietKeeps, SameRows
<1> QED BY <1>1, <1>2, <1>3
\* The experiments that may run in a batch are finitely many.
LEMMA SafeAreFew == IsFiniteSet(ParallelSafe)
<1>1. ASSUME NEW S, IsFiniteSet(S), NEW x PROVE IsFiniteSet(S \cup {x})
  BY <1>1, FS_AddElement
<1>2. IsFiniteSet({})
  BY FS_EmptySet
<1> DEFINE S1 == (({} \cup {"survival"}) \cup {"meta"}) \cup {"causal"}
<1> DEFINE S2 == ((S1 \cup {"rty_null"}) \cup {"mutation"}) \cup {"role_research"}
<1> DEFINE S3 == ((S2 \cup {"feed_audit"}) \cup {"post_meta"}) \cup {"halving"}
<1> DEFINE S4 == ((S3 \cup {"admission"}) \cup {"child"}) \cup {"role_epoch"}
<1>3. IsFiniteSet(S1)
  BY <1>1, <1>2
<1>4. IsFiniteSet(S2)
  BY <1>1, <1>3
<1>5. IsFiniteSet(S3)
  BY <1>1, <1>4
<1>6. IsFiniteSet(S4)
  BY <1>1, <1>5
<1>7. S4 = ParallelSafe
  BY DEF ParallelSafe
<1> QED BY <1>6, <1>7

\* A batch: its members first, then the search for their results.
LEMMA BatchKeeps ==
  ASSUME CampaignInv, RunBatch
  PROVE  CampaignInv'
<1>1. PICK B \in Batches : \E bad \in {{}} \cup {{s} : s \in B} :
        LET members == SetToSeq(B)
        IN  todo' = [i \in 1..Len(members) |->
                       <<IF members[i] \in bad THEN "fail" ELSE "finish", members[i]>>] \o
                    << <<"completed", "none">> >> \o
                    (IF bad = {} THEN << <<"settle", "none">> >>
                     ELSE Writes("EXPERIMENT_BLOCKED", "PARALLEL_EXPERIMENT_FAILED"))
  BY DEF RunBatch
<1> PICK members : members = SetToSeq(B)
  OBVIOUS
<1>2. PICK bad : todo' = [i \in 1..Len(members) |->
                            <<IF members[i] \in bad THEN "fail" ELSE "finish", members[i]>>] \o
                         << <<"completed", "none">> >> \o
                         (IF bad = {} THEN << <<"settle", "none">> >>
                          ELSE Writes("EXPERIMENT_BLOCKED", "PARALLEL_EXPERIMENT_FAILED"))
  BY <1>1
<1>3. Len(members) \in Nat
  <2>1. B \subseteq ParallelSafe /\ IsFiniteSet(ParallelSafe)
    <3>1. B \subseteq ParallelSafe
      BY DEF Batches
    <3> QED BY <3>1, SafeAreFew
  <2>2. IsFiniteSet(B)
    BY <2>1, FS_Subset
  <2>3. \E f \in [1..Cardinality(B) -> B] : IsInjective(f)
    <3>1. Cardinality(B) \in Nat /\ ExistsBijection(1..Cardinality(B), B)
      BY <2>2, FS_CardinalityType
    <3>2. PICK f : f \in Bijection(1..Cardinality(B), B)
      BY <3>1 DEF ExistsBijection
    <3> QED BY <3>2 DEF Bijection, Injection, Surjection, IsInjective
  <2>4. members \in [1..Cardinality(B) -> B] /\ Cardinality(B) \in Nat
    BY <2>2, <2>3, FS_CardinalityType DEF SetToSeq
  <2> QED BY <2>4
<1> PICK n \in Nat : n = Len(members)
  BY <1>3
<1> PICK A, C, D :
      /\ A = [i \in 1..n |-> <<IF members[i] \in bad THEN "fail" ELSE "finish", members[i]>>]
      /\ C = << <<"completed", "none">> >>
      /\ D = (IF bad = {} THEN << <<"settle", "none">> >>
              ELSE Writes("EXPERIMENT_BLOCKED", "PARALLEL_EXPERIMENT_FAILED"))
  OBVIOUS
<1>4. IsList(A)
  <2> DEFINE F(i) == <<IF members[i] \in bad THEN "fail" ELSE "finish", members[i]>>
  <2>1. A = [i \in 1..n |-> F(i)]
    OBVIOUS
  <2> HIDE DEF F
  <2>2. A = [i \in 1..n |-> A[i]]
    BY <2>1, Zenon
  <2> QED BY <2>2, Listed
<1>5. Plain(D)
  BY PlainFew, PlainWrites
<1> PICK T : T = (A \o C) \o D
  OBVIOUS
<1>6. IsList(T) /\ Has(T, <<"completed", "none">>) /\ MembersLead(T)
  BY <1>4, <1>5, SearchBehind DEF Plain
<1>7. \A s : \E a \in Ways(s) : Has(T, a)
  BY <1>6 DEF Ways
<1>8. todo' = T
  BY <1>2
<1>9. up' /\ todo = <<>> /\ row' = [s \in Experiments |-> row'[s]]
  BY DEF RunBatch, Ready, Idle, CampaignInv, kv
<1> QED BY <1>6, <1>7, <1>8, <1>9, AnewKeeps

\* The planner, and the stall when there is nothing to plan.
LEMMA PlanKeeps ==
  ASSUME CampaignInv,
         \/ RunValidatorCalibration \/ AuditZeroPassResult \/ PlanBoundedRetests
         \/ PlanRetestExecution \/ PlanPostRetestResearch \/ Stall
  PROVE  CampaignInv'
<1>1. ASSUME NEW needs, NEW done, NEW T, Plan(needs, done, T), Plain(T)
      PROVE  CampaignInv'
  <2>1. Idle /\ up' = up /\ routed' = routed /\ row' = row /\ todo' = T
    BY <1>1 DEF Plan, Ready
  <2> QED BY <1>1, <2>1, QuietKeeps, SameRows
<1>2. CASE RunValidatorCalibration
  <2>1. PICK passed \in BOOLEAN :
          Plan({}, "calibrated",
               << <<"phase", "PHASE_2_VALIDATOR_CALIBRATION">>,
                  IF passed THEN <<"mark", "calibrated">>
                  ELSE <<"blocker", "VALIDATOR_CALIBRATION_FAILED">> >>)
    BY <1>2 DEF RunValidatorCalibration
  <2>2. Plain(<< <<"phase", "PHASE_2_VALIDATOR_CALIBRATION">>,
                 IF passed THEN <<"mark", "calibrated">>
                 ELSE <<"blocker", "VALIDATOR_CALIBRATION_FAILED">> >>)
    BY PlainFew
  <2> QED BY <1>1, <2>1, <2>2
<1>3. CASE AuditZeroPassResult
  BY <1>1, <1>3, PlainFew DEF AuditZeroPassResult
<1>4. ASSUME NEW a, NEW b, NEW c, a[1] # "finish", b[1] # "finish", c[1] # "finish"
      PROVE  Plain(<<a, b, c>>)
  <2> PICK T : T = <<a, b, c>>
    OBVIOUS
  <2>1. IsList(T) /\ Len(T) = 3 /\ T[1] = a /\ T[2] = b /\ T[3] = c
    BY DEF IsList
  <2>2. \A p \in 1..3 : p = 1 \/ p = 2 \/ p = 3
    OBVIOUS
  <2> QED BY <1>4, <2>1, <2>2 DEF Plain
<1>5. CASE PlanBoundedRetests
  BY <1>1, <1>4, <1>5 DEF PlanBoundedRetests
<1>6. CASE PlanRetestExecution
  BY <1>1, <1>4, <1>6 DEF PlanRetestExecution
<1>7. CASE PlanPostRetestResearch
  BY <1>1, <1>4, <1>7 DEF PlanPostRetestResearch
<1>8. CASE Stall
  <2>1. /\ Idle /\ up' = up /\ routed' = routed /\ row' = row
        /\ todo' = Writes("SCHEDULER_STALLED", "NO_EXECUTABLE_ACTION")
    BY <1>8 DEF Stall, NothingToPlan, Ready
  <2> QED BY <2>1, PlainWrites, QuietKeeps, SameRows
<1> QED BY <1>2, <1>3, <1>5, <1>6, <1>7, <1>8

\* A start has the search for results on its list, whatever was cut off.
LEMMA StartKeeps ==
  ASSUME CampaignInv, Start
  PROVE  CampaignInv'
<1> PICK missing : missing = PlanFlags
  OBVIOUS
<1> PICK A : A = [i \in 1..Len(missing) |-> <<"mark", PlanFlag[missing[i]]>>]
  OBVIOUS
<1>1. /\ up' /\ todo = <<>> /\ todo' = A \o StartCalls /\ row' = row /\ routed' = routed
  BY DEF Start, CampaignInv
<1>2. DOMAIN <<"design", "execution", "post_design">> = 1..3 /\ 3 \in Nat
  OBVIOUS
<1>3. IsList(missing)
  BY <1>2, ThoseAre DEF PlanFlags
<1>4. Plain(A)
  BY <1>3, PlainEach DEF IsList
<1>5. Plain(StartCalls) /\ Has(StartCalls, <<"completed", "none">>)
  BY PlainFew, FirstStep DEF StartCalls
<1> PICK T : T = A \o StartCalls
  OBVIOUS
<1>6. Plain(T)
  BY <1>4, <1>5, PlainJoin
<1>7. Has(T, <<"completed", "none">>)
  BY <1>4, <1>5, HasJoin DEF Plain
<1>8. \A s : \E w \in Ways(s) : Has(T, w)
  BY <1>7 DEF Ways
<1>9. row' = [s \in Experiments |-> row'[s]]
  BY <1>1, SameRows
<1> QED BY <1>1, <1>6, <1>8, <1>9, AnewKeeps DEF Plain, MembersLead

\* Stops and crashes: a controller that is down has nothing on its list.
LEMMA StopsKeep ==
  ASSUME CampaignInv, StopCleanly \/ Crash
  PROVE  CampaignInv'
<1>1. ~up' /\ todo' = <<>> /\ row' = row
  BY DEF StopCleanly, Crash, Idle, kv
<1>2. IsList(<<>>) /\ Len(<<>>) = 0
  BY EmptyList
<1>3. ResultsCome' /\ MembersFirst' /\ IsList(todo')
  BY <1>1, <1>2 DEF ResultsCome, MembersFirst
<1> QED BY <1>1, <1>3 DEF CampaignInv

\* The inductive invariant of the campaign: a result that is not routed has
\* its route, its record or the search for it on the controller's list.
THEOREM CampaignInvariance == CampaignSpec => []CampaignInv
<1>1. CampaignInit => CampaignInv
  BY InitKeeps
<1>2. CampaignInv /\ [CampaignNext]_vars => CampaignInv'
  <2> SUFFICES ASSUME CampaignInv, [CampaignNext]_vars PROVE CampaignInv'
    OBVIOUS
  <2>1. CASE Start
    BY <2>1, StartKeeps
  <2>2. CASE Work
    BY <2>2, CallsKeep, EnqueueKeeps, RouteKeeps, EventKeeps, CompletedKeeps,
       FinishMemberKeeps, FailMemberKeeps DEF Work
  <2>3. CASE Loop
    BY <2>3, RunKeeps, BatchKeeps, PlanKeeps DEF Loop
  <2>4. CASE StopCleanly \/ Crash
    BY <2>4, StopsKeep
  <2>5. CASE UNCHANGED vars
    BY <2>5 DEF vars, CampaignInv, ResultsCome, MembersFirst, Unrouted, Completed, Comes, Ways
  <2> QED BY <2>1, <2>2, <2>3, <2>4, <2>5 DEF CampaignNext
<1> QED BY <1>1, <1>2, PTL DEF CampaignSpec

\* The controller never looks for work, and never stops in good order, with a
\* completed result whose routing is not recorded, however often it was cut
\* off between the commit of a result and the last write of its route.
THEOREM NothingIsUnrouted == CampaignSpec => []NothingUnrouted
<1>1. CampaignInv => NothingUnrouted
  BY IdleIsRouted
<1> QED BY <1>1, CampaignInvariance, PTL

-----------------------------------------------------------------------------
(* The tables as facts: what follows which.                                *)

\* What asks for something blocks.
Shaped(o) ==
  \/ o.phase \in {"none", "PLANNING_NEXT_ACTION"} /\ o.ask = "none"
  \/ o.phase \in Blocked

\* What a result asks for and which stage it calls at once.
Says(s, f, ask, next) ==
  Route[s][f].ask = ask /\ Route[s][f].next = next /\ Shaped(Route[s][f])

\* The results that there are.
RouteCase(s, f) ==
  \/ s = "design" /\ f = "done" /\ Says(s, f, "none", "none")
  \/ s = "execution" /\ f = "done" /\ Says(s, f, "none", "none")
  \/ s = "post_design" /\ f = "pilot" /\ Says(s, f, "none", "pilot")
  \/ s = "post_design" /\ f = "unsupported" /\ Says(s, f, "none",
     "unsupported_pilot")
  \/ s = "pilot" /\ f = "rebuild" /\ Says(s, f, "CONTRACT_MAP_REBUILD", "none")
  \/ s = "pilot" /\ f = "inconclusive" /\ Says(s, f, "INTEGRITY_AUDIT_INCONCLUSIVE",
     "none")
  \/ s = "contract_map" /\ f = "repaired" /\ Says(s, f,
     "FRESH_RETEST_WITH_REPAIRED_MAP", "none")
  \/ s = "v3_design" /\ f = "preregistered" /\ Says(s, f, "none", "v3")
  \/ s = "v3_design" /\ f = "incomplete" /\ Says(s, f,
     "V3_EXECUTION_SPECIFICATION_INCOMPLETE", "none")
  \/ s = "v3" /\ f = "other" /\ Says(s, f, "V3_RETEST_OUTCOME_ROUTING", "none")
  \/ s = "v3" /\ f = "survivors" /\ Says(s, f, "V3_SURVIVOR_REPLICATION_DESIGN",
     "none")
  \/ s = "v3" /\ f = "zero" /\ Says(s, f, "V3_ZERO_SURVIVAL_GEOMETRY_PIVOT_DESIGN",
     "none")
  \/ s = "v3" /\ f = "insufficient" /\ Says(s, f,
     "V3_INSUFFICIENT_EVIDENCE_RESOLUTION_DESIGN", "none")
  \/ s = "v3" /\ f = "invalid" /\ Says(s, f, "V3_RETEST_INTEGRITY_RESOLUTION",
     "none")
  \/ s = "path_geometry" /\ f = "survivor" /\ Says(s, f,
     "PATH_GEOMETRY_INDEPENDENT_REPLICATION", "none")
  \/ s = "path_geometry" /\ f = "none" /\ Says(s, f, "MARKET_ECOLOGY_PIVOT", "none")
  \/ s = "metal_energy" /\ f = "survivor" /\ Says(s, f,
     "METAL_ENERGY_INDEPENDENT_REPLICATION", "none")
  \/ s = "metal_energy" /\ f = "none" /\ Says(s, f,
     "MARKET_ECOLOGY_REPRESENTATION_PIVOT", "none")
  \/ s = "cross_market" /\ f = "done" /\ Says(s, f, "NEW_REPRESENTATION_PIVOT",
     "none")
  \/ s = "volatility" /\ f = "done" /\ Says(s, f, "NEW_REPRESENTATION_PIVOT",
     "none")
  \/ s = "foundry" /\ f = "invalid" /\ Says(s, f, "FOUNDRY_BOOTSTRAP_INVALID",
     "none")
  \/ s = "foundry" /\ f = "valid" /\ Says(s, f, "EQUITY_OPEN_GAP_REVERSAL_PILOT",
     "equity_open_gap")
  \/ s = "equity_open_gap" /\ f = "q4" /\ Says(s, f, "Q4_FREEZE_PROTOCOL", "none")
  \/ s = "equity_open_gap" /\ f = "shadow" /\ Says(s, f,
     "SHADOW_CANDIDATE_FAILURE_SURFACE", "none")
  \/ s = "equity_open_gap" /\ f = "falsified" /\ Says(s, f,
     "EQUITY_OPEN_GAP_CONTINUATION_PILOT", "continuation")
  \/ s = "equity_open_gap" /\ f = "promising" /\ Says(s, f,
     "DISTRIBUTIONAL_OPENING_HAZARD_PILOT", "none")
  \/ s = "continuation" /\ f = "none" /\ Says(s, f,
     "DISTRIBUTIONAL_OPENING_HAZARD_PILOT", "none")
  \/ s = "continuation" /\ f = "q4" /\ Says(s, f, "Q4_FREEZE_PROTOCOL", "q4_freeze")
  \/ s = "continuation" /\ f = "shadow" /\ Says(s, f,
     "CONTINUATION_FAILURE_SURFACE", "none")
  \/ s = "q4_freeze" /\ f = "invalid" /\ Says(s, f, "Q4_FREEZE_INVALID", "none")
  \/ s = "q4_freeze" /\ f = "ready" /\ Says(s, f,
     "DISTRIBUTIONAL_OPENING_HAZARD_PILOT", "opening_hazard")
  \/ s = "opening_hazard" /\ f = "none" /\ Says(s, f,
     "CROSS_ECOLOGY_INVARIANT_SEARCH", "cross_ecology")
  \/ s = "opening_hazard" /\ f = "eligible" /\ Says(s, f,
     "DISTINCT_HAZARD_FREEZE_PROTOCOL", "none")
  \/ s = "cross_ecology" /\ f = "none" /\ Says(s, f,
     "MULTITIMEFRAME_SESSION_DAILY_INVARIANT", "mtf")
  \/ s = "cross_ecology" /\ f = "shadow" /\ Says(s, f,
     "DISTINCT_ECOLOGY_FREEZE_OR_FORWARD_SHADOW", "none")
  \/ s = "cross_ecology" /\ f = "promising" /\ Says(s, f,
     "CROSS_ECOLOGY_FAILURE_SURFACE", "none")
  \/ s = "mtf" /\ f = "none" /\ Says(s, f, "RELATIVE_VALUE_OR_DEFENSIVE_PORTFOLIO",
     "rty_ym")
  \/ s = "mtf" /\ f = "shadow" /\ Says(s, f,
     "DISTINCT_MTF_FREEZE_OR_FORWARD_SHADOW", "none")
  \/ s = "mtf" /\ f = "promising" /\ Says(s, f, "MTF_ABLATION_AND_FAILURE_SURFACE",
     "none")
  \/ s = "rty_ym" /\ f = "none" /\ Says(s, f, "DEFENSIVE_PORTFOLIO_RISK_ENGINE",
     "none")
  \/ s = "rty_ym" /\ f = "shadow" /\ Says(s, f,
     "RELATIVE_VALUE_EXECUTION_OR_FREEZE", "none")
  \/ s = "rty_ym" /\ f = "promising" /\ Says(s, f, "RELATIVE_VALUE_FAILURE_SURFACE",
     "none")
  \/ s = "ym_risk_off" /\ f = "none" /\ Says(s, f,
     "INVENTED_METHOD_OR_PORTFOLIO_SEARCH", "none")
  \/ s = "ym_risk_off" /\ f = "shadow" /\ Says(s, f,
     "DEFENSIVE_FORWARD_SHADOW_AND_BASKET", "none")
  \/ s = "ym_risk_off" /\ f = "promising" /\ Says(s, f, "DEFENSIVE_FAILURE_SURFACE",
     "none")
  \/ s = "qd" /\ f = "none" /\ Says(s, f, "QD_FAILURE_MAP_AND_YM_STRICT_REPLAY",
     "ym_strict")
  \/ s = "qd" /\ f = "shadow" /\ Says(s, f,
     "QD_SHADOW_ACTIVATION_AND_YM_STRICT_REPLAY", "ym_strict")
  \/ s = "qd" /\ f = "promising" /\ Says(s, f,
     "QD_TARGETED_CONFIRMATION_AND_YM_STRICT_REPLAY", "ym_strict")
  \/ s = "ym_strict" /\ f = "invalid" /\ Says(s, f,
     "YM_SHADOW_HARD_INVALIDATION_RESOLUTION", "none")
  \/ s = "ym_strict" /\ f = "eligible" /\ Says(s, f,
     "YM_IMMUTABLE_SHADOW_ACTIVATION", "ym_shadow")
  \/ s = "ym_shadow" /\ f = "activated" /\ Says(s, f, "none", "accelerated")
  \/ s = "accelerated" /\ f = "done" /\ Says(s, f, "none", "null_power")
  \/ s = "null_power" /\ f = "calibrated" /\ Says(s, f,
     "NEW_MECHANISM_OR_FRESH_CONFIRMATION", "none")
  \/ s = "null_power" /\ f = "fpr_failed" /\ Says(s, f,
     "SELECTION_NULL_POLICY_REPAIR", "policy_repair")
  \/ s = "null_power" /\ f = "underpowered" /\ Says(s, f,
     "SELECTION_NULL_POLICY_REPAIR", "policy_repair")
  \/ s = "policy_repair" /\ f = "passed" /\ Says(s, f,
     "NEW_SINGLE_PRIMARY_TOURNAMENT", "none")
  \/ s = "policy_repair" /\ f = "failed" /\ Says(s, f,
     "TIGHTER_SINGLE_PRIMARY_ALPHA_CALIBRATION", "alpha")
  \/ s = "alpha" /\ f = "calibrated" /\ Says(s, f, "NEW_SINGLE_PRIMARY_TOURNAMENT",
     "primary_context")
  \/ s = "alpha" /\ f = "failed" /\ Says(s, f, "NEW_VALIDATION_STATISTIC", "none")
  \/ s = "primary_context" /\ f = "shadow" /\ Says(s, f,
     "SINGLE_PRIMARY_SHADOW_ACTIVATION", "none")
  \/ s = "primary_context" /\ f = "falsified" /\ Says(s, f,
     "COUNTERFACTUAL_HAZARD_PRIMARY", "counterfactual")
  \/ s = "primary_context" /\ f = "promising" /\ Says(s, f,
     "SINGLE_PRIMARY_NEW_ID_CONFIRMATION", "none")
  \/ s = "primary_context" /\ f = "no_primary" /\ Says(s, f,
     "COUNTERFACTUAL_HAZARD_PRIMARY", "counterfactual")
  \/ s = "counterfactual" /\ f = "shadow" /\ Says(s, f,
     "COUNTERFACTUAL_HAZARD_SHADOW_ACTIVATION", "none")
  \/ s = "counterfactual" /\ f = "falsified" /\ Says(s, f,
     "DISTRIBUTIONAL_BARRIER_HAZARD_PRIMARY", "barrier")
  \/ s = "counterfactual" /\ f = "promising" /\ Says(s, f,
     "COUNTERFACTUAL_HAZARD_NEW_ID_REPLICATION", "none")
  \/ s = "counterfactual" /\ f = "no_primary" /\ Says(s, f,
     "DISTRIBUTIONAL_BARRIER_HAZARD_PRIMARY", "barrier")
  \/ s = "barrier" /\ f = "none" /\ Says(s, f, "ENERGY_METALS_ECOLOGY_SEARCH",
     "none")
  \/ s = "barrier" /\ f = "shadow" /\ Says(s, f, "BARRIER_HAZARD_SHADOW_ACTIVATION",
     "barrier_shadow")
  \/ s = "barrier" /\ f = "promising" /\ Says(s, f,
     "BARRIER_HAZARD_FRESH_ID_REPLICATION", "none")
  \/ s = "barrier" /\ f = "several" /\ Says(s, f,
     "BARRIER_HAZARD_SHADOW_ACTIVATION", "barrier_shadow")
  \/ s = "barrier_shadow" /\ f = "activated" /\ Says(s, f,
     "ENERGY_METALS_ECOLOGY_SEARCH", "none")
  \/ s = "energy_metals" /\ f = "none" /\ Says(s, f,
     "ENERGY_METALS_SESSION_GEOMETRY", "none")
  \/ s = "energy_metals" /\ f = "shadow" /\ Says(s, f,
     "ENERGY_METALS_SHADOW_ACTIVATION", "none")
  \/ s = "energy_metals" /\ f = "promising" /\ Says(s, f,
     "ENERGY_METALS_FRESH_ID_REPLICATION", "none")
  \/ s = "session_geometry" /\ f = "none" /\ Says(s, f, "CROSS_ASSET_DAILY_HORIZON",
     "none")
  \/ s = "session_geometry" /\ f = "shadow" /\ Says(s, f,
     "ENERGY_METALS_SESSION_SHADOW_ACTIVATION", "none")
  \/ s = "session_geometry" /\ f = "promising" /\ Says(s, f,
     "ENERGY_METALS_SESSION_GEOMETRY_REPLICATION", "none")
  \/ s = "micro_repair" /\ f = "shadow" /\ Says(s, f,
     "SESSION_GEOMETRY_MICRO_SHADOW_ACTIVATION", "micro_shadow")
  \/ s = "micro_repair" /\ f = "falsified" /\ Says(s, f,
     "CROSS_ASSET_DAILY_HORIZON", "none")
  \/ s = "micro_shadow" /\ f = "activated" /\ Says(s, f,
     "GC_SESSION_GEOMETRY_FRESH_ID", "none")
  \/ s = "gc_fresh" /\ f = "shadow" /\ Says(s, f,
     "GC_SESSION_GEOMETRY_SHADOW_ACTIVATION", "none")
  \/ s = "gc_fresh" /\ f = "falsified" /\ Says(s, f, "CROSS_ASSET_DAILY_HORIZON",
     "none")
  \/ s = "cross_asset" /\ f = "none" /\ Says(s, f,
     "DISTRIBUTIONAL_PORTFOLIO_ROLE_PIVOT", "none")
  \/ s = "cross_asset" /\ f = "shadow" /\ Says(s, f,
     "CROSS_ASSET_DAILY_SHADOW_ACTIVATION", "cross_asset_shadow")
  \/ s = "cross_asset" /\ f = "several" /\ Says(s, f,
     "CROSS_ASSET_DAILY_SHADOW_ACTIVATION", "cross_asset_shadow")
  \/ s = "cross_asset_shadow" /\ f = "activated" /\ Says(s, f,
     "PORTFOLIO_BASKET_AND_DISTRIBUTIONAL_SEARCH", "none")
  \/ s = "baskets" /\ f = "three" /\ Says(s, f,
     "DISTRIBUTIONAL_SURVIVAL_HAZARD_SEARCH", "none")
  \/ s = "baskets" /\ f = "fewer" /\ Says(s, f, "SHARED_ACCOUNT_RISK_REMEDIATION",
     "none")
  \/ s = "survival" /\ f = "insufficient" /\ Says(s, f,
     "CAUSAL_TRANSITION_GRAPH_SEARCH", "none")
  \/ s = "survival" /\ f = "robust" /\ Says(s, f,
     "HAZARD_DEFENSIVE_POLICY_CONSTRUCTION", "none")
  \/ s = "survival" /\ f = "uncontrolled" /\ Says(s, f,
     "CAUSAL_TRANSITION_GRAPH_SEARCH", "none")
  \/ s = "meta" /\ f = "done" /\ Says(s, f, "none", "none")
  \/ s = "causal" /\ f = "none" /\ Says(s, f, "TARGETED_PROMISING_LINEAGE_MUTATION",
     "none")
  \/ s = "causal" /\ f = "shadow" /\ Says(s, f,
     "CAUSAL_TRANSITION_GRAPH_SHADOW_ACTIVATION", "none")
  \/ s = "causal" /\ f = "several" /\ Says(s, f,
     "CAUSAL_TRANSITION_MATCHED_NULL_AND_MUTATION", "none")
  \/ s = "causal" /\ f = "one" /\ Says(s, f,
     "CAUSAL_TRANSITION_MATCHED_NULL_AND_MUTATION", "none")
  \/ s = "rty_null" /\ f = "supported" /\ Says(s, f,
     "FORWARD_ONLY_TRANSITION_CHILD_SPECIFICATION", "none")
  \/ s = "rty_null" /\ f = "none" /\ Says(s, f,
     "PORTFOLIO_ROLE_AND_PROMISING_LINEAGE_MUTATION", "none")
  \/ s = "mutation" /\ f = "done" /\ Says(s, f, "none", "finalize")
  \/ s = "role_research" /\ f = "done" /\ Says(s, f, "none", "finalize")
  \/ s = "feed_audit" /\ f = "done" /\ Says(s, f, "none", "finalize")
  \/ s = "post_meta" /\ f = "done" /\ Says(s, f, "none", "none")
  \/ s = "halving" /\ f = "none" /\ Says(s, f,
     "ROLE_CONDITIONED_STRUCTURAL_DISCOVERY_EPOCH", "none")
  \/ s = "halving" /\ f = "selected" /\ Says(s, f,
     "PROMISING_CHILD_RAW_REPLAY_AND_SHADOW_ADMISSION", "admission")
  \/ s = "admission" /\ f = "none" /\ Says(s, f,
     "ROLE_CONDITIONED_STRUCTURAL_DISCOVERY_EPOCH", "none")
  \/ s = "admission" /\ f = "one" /\ Says(s, f,
     "POST_MUTATION_CHILD_SHADOW_ACTIVATION", "child")
  \/ s = "child" /\ f = "activated" /\ Says(s, f,
     "ROLE_CONDITIONED_STRUCTURAL_DISCOVERY_EPOCH", "role_epoch")
  \/ s = "role_epoch" /\ f = "insufficient" /\ Says(s, f,
     "EQUITY_PRECLOSE_INVENTORY_DISPERSION", "preclose")
  \/ s = "role_epoch" /\ f = "promising" /\ Says(s, f,
     "ROLE_SPECIFIC_ACCOUNT_POLICY_PROMOTION", "none")
  \/ s = "preclose" /\ f = "insufficient" /\ Says(s, f,
     "MARKET_ECOLOGY_PIVOT_OR_FORWARD_DATA", "mini_micro")
  \/ s = "preclose" /\ f = "promising" /\ Says(s, f,
     "EQUITY_PRECLOSE_FROZEN_PROMOTION", "none")
  \/ s = "mini_micro" /\ f = "insufficient" /\ Says(s, f,
     "DISTINCT_MECHANISM_OR_FORWARD_DATA", "none")
  \/ s = "mini_micro" /\ f = "promising" /\ Says(s, f,
     "MINI_MICRO_PARTICIPATION_FROZEN_PROMOTION", "none")

\* Every result is one of them.
LEMMA RouteTable ==
  ASSUME NEW s \in Experiments, NEW f \in DOMAIN Route[s]
  PROVE  RouteCase(s, f)
<1>1. /\ Route["design"] = route_calibration_affected_atom_retest_design
      /\ Route["execution"] = route_calibration_affected_atom_retest_execution
      /\ Route["post_design"] = route_post_calibration_retest_research_design
      /\ Route["pilot"] = route_validator_integrity_repair_pilot
      /\ Route["contract_map"] = route_contract_map_date_aware_repair
      /\ Route["v3_design"] = route_calibration_affected_atom_retest_v3_design
      /\ Route["v3"] = route_v3_execution
      /\ Route["path_geometry"] = route_path_geometry
      /\ Route["metal_energy"] = route_metal_energy
      /\ Route["cross_market"] = route_cross_market
      /\ Route["volatility"] = route_volatility
      /\ Route["foundry"] = route_foundry_bootstrap
      /\ Route["equity_open_gap"] = route_equity_open_gap
      /\ Route["continuation"] = route_equity_open_gap_continuation
  BY DEF Route
<1>2. /\ Route["q4_freeze"] = route_q4_candidate_freeze
      /\ Route["opening_hazard"] = route_opening_direction_hazard
      /\ Route["cross_ecology"] = route_cross_ecology_opening_acceptance
      /\ Route["mtf"] = route_mtf_session_trend_confirmation
      /\ Route["rty_ym"] = route_rty_ym_relative_value
      /\ Route["ym_risk_off"] = route_ym_shared_risk_off
      /\ Route["qd"] = route_qd_economic_tournament
      /\ Route["ym_strict"] = route_ym_strict_promotion
      /\ Route["ym_shadow"] = route_ym_shadow_activation
      /\ Route["accelerated"] = route_accelerated_context_tournament
      /\ Route["null_power"] = route_selection_null_power
      /\ Route["policy_repair"] = route_selection_null_policy_repair
      /\ Route["alpha"] = route_single_primary_alpha
      /\ Route["primary_context"] = route_single_primary_context
  BY DEF Route
<1>3. /\ Route["counterfactual"] = route_counterfactual_hazard
      /\ Route["barrier"] = route_barrier_hazard
      /\ Route["barrier_shadow"] = route_barrier_shadow_activation
      /\ Route["energy_metals"] = route_energy_metals_barrier
      /\ Route["session_geometry"] = route_energy_metals_session_geometry
      /\ Route["micro_repair"] = route_session_geometry_micro_repair
      /\ Route["micro_shadow"] = route_session_geometry_micro_shadow
      /\ Route["gc_fresh"] = route_gc_session_geometry_fresh
      /\ Route["cross_asset"] = route_cross_asset_daily
      /\ Route["cross_asset_shadow"] = route_cross_asset_daily_shadow
      /\ Route["baskets"] = route_shadow_shared_account_baskets
      /\ Route["survival"] = route_survival_hazard
      /\ Route["meta"] = route_meta_failure_allocation
      /\ Route["causal"] = route_causal_transition_graph
  BY DEF Route
<1>4. /\ Route["rty_null"] = route_rty_transition_matched_null
      /\ Route["mutation"] = route_promising_lineage_mutation
      /\ Route["role_research"] = route_portfolio_role_research
      /\ Route["feed_audit"] = route_forward_shadow_feed_audit
      /\ Route["post_meta"] = route_meta_failure_allocation
      /\ Route["halving"] = route_post_mutation_successive_halving
      /\ Route["admission"] = route_post_mutation_shadow_admission
      /\ Route["child"] = route_post_mutation_child_shadow_activation
      /\ Route["role_epoch"] = route_role_conditioned_structural_epoch
      /\ Route["preclose"] = route_equity_preclose_inventory_dispersion
      /\ Route["mini_micro"] = route_mini_micro_participation_divergence
  BY DEF Route
<1>5. /\ DOMAIN Route["design"] = {"done"} /\ Says("design", "done", "none", "none")
  BY <1>1 DEF Says, Shaped, Blocked, Ask, AskNow, Halt, Resume, Quietly,
    route_calibration_affected_atom_retest_design
<1>6. /\ DOMAIN Route["execution"] = {"done"}
      /\ Says("execution", "done", "none", "none")
  BY <1>1 DEF Says, Shaped, Blocked, Ask, AskNow, Halt, Resume, Quietly,
    route_calibration_affected_atom_retest_execution
<1>7. /\ DOMAIN Route["post_design"] = {"pilot", "unsupported"}
      /\ Says("post_design", "pilot", "none", "pilot")
      /\ Says("post_design", "unsupported", "none", "unsupported_pilot")
  BY <1>1 DEF Says, Shaped, Blocked, Ask, AskNow, Halt, Resume, Quietly,
    route_post_calibration_retest_research_design
<1>8. /\ DOMAIN Route["pilot"] = {"rebuild", "inconclusive"}
      /\ Says("pilot", "rebuild", "CONTRACT_MAP_REBUILD", "none")
      /\ Says("pilot", "inconclusive", "INTEGRITY_AUDIT_INCONCLUSIVE", "none")
  BY <1>1 DEF Says, Shaped, Blocked, Ask, AskNow, Halt, Resume, Quietly,
    route_validator_integrity_repair_pilot
<1>9. /\ DOMAIN Route["contract_map"] = {"repaired"}
      /\ Says("contract_map", "repaired", "FRESH_RETEST_WITH_REPAIRED_MAP", "none")
  BY <1>1 DEF Says, Shaped, Blocked, Ask, AskNow, Halt, Resume, Quietly,
    route_contract_map_date_aware_repair
<1>10. /\ DOMAIN Route["v3_design"] = {"preregistered", "incomplete"}
       /\ Says("v3_design", "preregistered", "none", "v3")
       /\ Says("v3_design", "incomplete", "V3_EXECUTION_SPECIFICATION_INCOMPLETE",
            "none")
  BY <1>1 DEF Says, Shaped, Blocked, Ask, AskNow, Halt, Resume, Quietly,
    route_calibration_affected_atom_retest_v3_design
<1>11. /\ DOMAIN Route["v3"] = {"other", "survivors", "zero", "insufficient",
            "invalid"}
       /\ Says("v3", "other", "V3_RETEST_OUTCOME_ROUTING", "none")
       /\ Says("v3", "survivors", "V3_SURVIVOR_REPLICATION_DESIGN", "none")
       /\ Says("v3", "zero", "V3_ZERO_SURVIVAL_GEOMETRY_PIVOT_DESIGN", "none")
       /\ Says("v3", "insufficient", "V3_INSUFFICIENT_EVIDENCE_RESOLUTION_DESIGN",
            "none")
       /\ Says("v3", "invalid", "V3_RETEST_INTEGRITY_RESOLUTION", "none")
  BY <1>1 DEF Says, Shaped, Blocked, Ask, AskNow, Halt, Resume, Quietly,
    route_v3_execution
<1>12. /\ DOMAIN Route["path_geometry"] = {"survivor", "none"}
       /\ Says("path_geometry", "survivor", "PATH_GEOMETRY_INDEPENDENT_REPLICATION",
            "none")
       /\ Says("path_geometry", "none", "MARKET_ECOLOGY_PIVOT", "none")
  BY <1>1 DEF Says, Shaped, Blocked, Ask, AskNow, Halt, Resume, Quietly,
    route_path_geometry
<1>13. /\ DOMAIN Route["metal_energy"] = {"survivor", "none"}
       /\ Says("metal_energy", "survivor", "METAL_ENERGY_INDEPENDENT_REPLICATION",
            "none")
       /\ Says("metal_energy", "none", "MARKET_ECOLOGY_REPRESENTATION_PIVOT", "none")
  BY <1>1 DEF Says, Shaped, Blocked, Ask, AskNow, Halt, Resume, Quietly,
    route_metal_energy
<1>14. /\ DOMAIN Route["cross_market"] = {"done"}
       /\ Says("cross_market", "done", "NEW_REPRESENTATION_PIVOT", "none")
  BY <1>1 DEF Says, Shaped, Blocked, Ask, AskNow, Halt, Resume, Quietly,
    route_cross_market
<1>15. /\ DOMAIN Route["volatility"] = {"done"}
       /\ Says("volatility", "done", "NEW_REPRESENTATION_PIVOT", "none")
  BY <1>1 DEF Says, Shaped, Blocked, Ask, AskNow, Halt, Resume, Quietly,
    route_volatility
<1>16. /\ DOMAIN Route["foundry"] = {"invalid", "valid"}
       /\ Says("foundry", "invalid", "FOUNDRY_BOOTSTRAP_INVALID", "none")
       /\ Says("foundry", "valid", "EQUITY_OPEN_GAP_REVERSAL_PILOT", "equity_open_gap")
  BY <1>1 DEF Says, Shaped, Blocked, Ask, AskNow, Halt, Resume, Quietly,
    route_foundry_bootstrap
<1>17. /\ DOMAIN Route["equity_open_gap"] = {"q4", "shadow", "falsified", "promising"}
       /\ Says("equity_open_gap", "q4", "Q4_FREEZE_PROTOCOL", "none")
       /\ Says("equity_open_gap", "shadow", "SHADOW_CANDIDATE_FAILURE_SURFACE", "none")
       /\ Says("equity_open_gap", "falsified", "EQUITY_OPEN_GAP_CONTINUATION_PILOT",
            "continuation")
       /\ Says("equity_open_gap", "promising", "DISTRIBUTIONAL_OPENING_HAZARD_PILOT",
            "none")
  BY <1>1 DEF Says, Shaped, Blocked, Ask, AskNow, Halt, Resume, Quietly,
    route_equity_open_gap
<1>18. /\ DOMAIN Route["continuation"] = {"none", "q4", "shadow"}
       /\ Says("continuation", "none", "DISTRIBUTIONAL_OPENING_HAZARD_PILOT", "none")
       /\ Says("continuation", "q4", "Q4_FREEZE_PROTOCOL", "q4_freeze")
       /\ Says("continuation", "shadow", "CONTINUATION_FAILURE_SURFACE", "none")
  BY <1>1 DEF Says, Shaped, Blocked, Ask, AskNow, Halt, Resume, Quietly,
    route_equity_open_gap_continuation
<1>19. /\ DOMAIN Route["q4_freeze"] = {"invalid", "ready"}
       /\ Says("q4_freeze", "invalid", "Q4_FREEZE_INVALID", "none")
       /\ Says("q4_freeze", "ready", "DISTRIBUTIONAL_OPENING_HAZARD_PILOT",
            "opening_hazard")
  BY <1>2 DEF Says, Shaped, Blocked, Ask, AskNow, Halt, Resume, Quietly,
    route_q4_candidate_freeze
<1>20. /\ DOMAIN Route["opening_hazard"] = {"none", "eligible"}
       /\ Says("opening_hazard", "none", "CROSS_ECOLOGY_INVARIANT_SEARCH",
            "cross_ecology")
       /\ Says("opening_hazard", "eligible", "DISTINCT_HAZARD_FREEZE_PROTOCOL", "none")
  BY <1>2 DEF Says, Shaped, Blocked, Ask, AskNow, Halt, Resume, Quietly,
    route_opening_direction_hazard
<1>21. /\ DOMAIN Route["cross_ecology"] = {"none", "shadow", "promising"}
       /\ Says("cross_ecology", "none", "MULTITIMEFRAME_SESSION_DAILY_INVARIANT",
            "mtf")
       /\ Says("cross_ecology", "shadow", "DISTINCT_ECOLOGY_FREEZE_OR_FORWARD_SHADOW",
            "none")
       /\ Says("cross_ecology", "promising", "CROSS_ECOLOGY_FAILURE_SURFACE", "none")
  BY <1>2 DEF Says, Shaped, Blocked, Ask, AskNow, Halt, Resume, Quietly,
    route_cross_ecology_opening_acceptance
<1>22. /\ DOMAIN Route["mtf"] = {"none", "shadow", "promising"}
       /\ Says("mtf", "none", "RELATIVE_VALUE_OR_DEFENSIVE_PORTFOLIO", "rty_ym")
       /\ Says("mtf", "shadow", "DISTINCT_MTF_FREEZE_OR_FORWARD_SHADOW", "none")
       /\ Says("mtf", "promising", "MTF_ABLATION_AND_FAILURE_SURFACE", "none")
  BY <1>2 DEF Says, Shaped, Blocked, Ask, AskNow, Halt, Resume, Quietly,
    route_mtf_session_trend_confirmation
<1>23. /\ DOMAIN Route["rty_ym"] = {"none", "shadow", "promising"}
       /\ Says("rty_ym", "none", "DEFENSIVE_PORTFOLIO_RISK_ENGINE", "none")
       /\ Says("rty_ym", "shadow", "RELATIVE_VALUE_EXECUTION_OR_FREEZE", "none")
       /\ Says("rty_ym", "promising", "RELATIVE_VALUE_FAILURE_SURFACE", "none")
  BY <1>2 DEF Says, Shaped, Blocked, Ask, AskNow, Halt, Resume, Quietly,
    route_rty_ym_relative_value
<1>24. /\ DOMAIN Route["ym_risk_off"] = {"none", "shadow", "promising"}
       /\ Says("ym_risk_off", "none", "INVENTED_METHOD_OR_PORTFOLIO_SEARCH", "none")
       /\ Says("ym_risk_off", "shadow", "DEFENSIVE_FORWARD_SHADOW_AND_BASKET", "none")
       /\ Says("ym_risk_off", "promising", "DEFENSIVE_FAILURE_SURFACE", "none")
  BY <1>2 DEF Says, Shaped, Blocked, Ask, AskNow, Halt, Resume, Quietly,
    route_ym_shared_risk_off
<1>25. /\ DOMAIN Route["qd"] = {"none", "shadow", "promising"}
       /\ Says("qd", "none", "QD_FAILURE_MAP_AND_YM_STRICT_REPLAY", "ym_strict")
       /\ Says("qd", "shadow", "QD_SHADOW_ACTIVATION_AND_YM_STRICT_REPLAY",
            "ym_strict")
       /\ Says("qd", "promising", "QD_TARGETED_CONFIRMATION_AND_YM_STRICT_REPLAY",
            "ym_strict")
  BY <1>2 DEF Says, Shaped, Blocked, Ask, AskNow, Halt, Resume, Quietly,
    route_qd_economic_tournament
<1>26. /\ DOMAIN Route["ym_strict"] = {"invalid", "eligible"}
       /\ Says("ym_strict", "invalid", "YM_SHADOW_HARD_INVALIDATION_RESOLUTION",
            "none")
       /\ Says("ym_strict", "eligible", "YM_IMMUTABLE_SHADOW_ACTIVATION", "ym_shadow")
  BY <1>2 DEF Says, Shaped, Blocked, Ask, AskNow, Halt, Resume, Quietly,
    route_ym_strict_promotion
<1>27. /\ DOMAIN Route["ym_shadow"] = {"activated"}
       /\ Says("ym_shadow", "activated", "none", "accelerated")
  BY <1>2 DEF Says, Shaped, Blocked, Ask, AskNow, Halt, Resume, Quietly,
    route_ym_shadow_activation
<1>28. /\ DOMAIN Route["accelerated"] = {"done"}
       /\ Says("accelerated", "done", "none", "null_power")
  BY <1>2 DEF Says, Shaped, Blocked, Ask, AskNow, Halt, Resume, Quietly,
    route_accelerated_context_tournament
<1>29. /\ DOMAIN Route["null_power"] = {"calibrated", "fpr_failed", "underpowered"}
       /\ Says("null_power", "calibrated", "NEW_MECHANISM_OR_FRESH_CONFIRMATION",
            "none")
       /\ Says("null_power", "fpr_failed", "SELECTION_NULL_POLICY_REPAIR",
            "policy_repair")
       /\ Says("null_power", "underpowered", "SELECTION_NULL_POLICY_REPAIR",
            "policy_repair")
  BY <1>2 DEF Says, Shaped, Blocked, Ask, AskNow, Halt, Resume, Quietly,
    route_selection_null_power
<1>30. /\ DOMAIN Route["policy_repair"] = {"passed", "failed"}
       /\ Says("policy_repair", "passed", "NEW_SINGLE_PRIMARY_TOURNAMENT", "none")
       /\ Says("policy_repair", "failed", "TIGHTER_SINGLE_PRIMARY_ALPHA_CALIBRATION",
            "alpha")
  BY <1>2 DEF Says, Shaped, Blocked, Ask, AskNow, Halt, Resume, Quietly,
    route_selection_null_policy_repair
<1>31. /\ DOMAIN Route["alpha"] = {"calibrated", "failed"}
       /\ Says("alpha", "calibrated", "NEW_SINGLE_PRIMARY_TOURNAMENT",
            "primary_context")
       /\ Says("alpha", "failed", "NEW_VALIDATION_STATISTIC", "none")
  BY <1>2 DEF Says, Shaped, Blocked, Ask, AskNow, Halt, Resume, Quietly,
    route_single_primary_alpha
<1>32. /\ DOMAIN Route["primary_context"] = {"shadow", "falsified", "promising",
            "no_primary"}
       /\ Says("primary_context", "shadow", "SINGLE_PRIMARY_SHADOW_ACTIVATION", "none")
       /\ Says("primary_context", "falsified", "COUNTERFACTUAL_HAZARD_PRIMARY",
            "counterfactual")
       /\ Says("primary_context", "promising", "SINGLE_PRIMARY_NEW_ID_CONFIRMATION",
            "none")
       /\ Says("primary_context", "no_primary", "COUNTERFACTUAL_HAZARD_PRIMARY",
            "counterfactual")
  BY <1>2 DEF Says, Shaped, Blocked, Ask, AskNow, Halt, Resume, Quietly,
    route_single_primary_context
<1>33. /\ DOMAIN Route["counterfactual"] = {"shadow", "falsified", "promising",
            "no_primary"}
       /\ Says("counterfactual", "shadow", "COUNTERFACTUAL_HAZARD_SHADOW_ACTIVATION",
            "none")
       /\ Says("counterfactual", "falsified", "DISTRIBUTIONAL_BARRIER_HAZARD_PRIMARY",
            "barrier")
       /\ Says("counterfactual", "promising",
            "COUNTERFACTUAL_HAZARD_NEW_ID_REPLICATION", "none")
       /\ Says("counterfactual", "no_primary", "DISTRIBUTIONAL_BARRIER_HAZARD_PRIMARY",
            "barrier")
  BY <1>3 DEF Says, Shaped, Blocked, Ask, AskNow, Halt, Resume, Quietly,
    route_counterfactual_hazard
<1>34. /\ DOMAIN Route["barrier"] = {"none", "shadow", "promising", "several"}
       /\ Says("barrier", "none", "ENERGY_METALS_ECOLOGY_SEARCH", "none")
       /\ Says("barrier", "shadow", "BARRIER_HAZARD_SHADOW_ACTIVATION",
            "barrier_shadow")
       /\ Says("barrier", "promising", "BARRIER_HAZARD_FRESH_ID_REPLICATION", "none")
       /\ Says("barrier", "several", "BARRIER_HAZARD_SHADOW_ACTIVATION",
            "barrier_shadow")
  BY <1>3 DEF Says, Shaped, Blocked, Ask, AskNow, Halt, Resume, Quietly,
    route_barrier_hazard
<1>35. /\ DOMAIN Route["barrier_shadow"] = {"activated"}
       /\ Says("barrier_shadow", "activated", "ENERGY_METALS_ECOLOGY_SEARCH", "none")
  BY <1>3 DEF Says, Shaped, Blocked, Ask, AskNow, Halt, Resume, Quietly,
    route_barrier_shadow_activation
<1>36. /\ DOMAIN Route["energy_metals"] = {"none", "shadow", "promising"}
       /\ Says("energy_metals", "none", "ENERGY_METALS_SESSION_GEOMETRY", "none")
       /\ Says("energy_metals", "shadow", "ENERGY_METALS_SHADOW_ACTIVATION", "none")
       /\ Says("energy_metals", "promising", "ENERGY_METALS_FRESH_ID_REPLICATION",
            "none")
  BY <1>3 DEF Says, Shaped, Blocked, Ask, AskNow, Halt, Resume, Quietly,
    route_energy_metals_barrier
<1>37. /\ DOMAIN Route["session_geometry"] = {"none", "shadow", "promising"}
       /\ Says("session_geometry", "none", "CROSS_ASSET_DAILY_HORIZON", "none")
       /\ Says("session_geometry", "shadow", "ENERGY_METALS_SESSION_SHADOW_ACTIVATION",
            "none")
       /\ Says("session_geometry", "promising",
            "ENERGY_METALS_SESSION_GEOMETRY_REPLICATION", "none")
  BY <1>3 DEF Says, Shaped, Blocked, Ask, AskNow, Halt, Resume, Quietly,
    route_energy_metals_session_geometry
<1>38. /\ DOMAIN Route["micro_repair"] = {"shadow", "falsified"}
       /\ Says("micro_repair", "shadow", "SESSION_GEOMETRY_MICRO_SHADOW_ACTIVATION",
            "micro_shadow")
       /\ Says("micro_repair", "falsified", "CROSS_ASSET_DAILY_HORIZON", "none")
  BY <1>3 DEF Says, Shaped, Blocked, Ask, AskNow, Halt, Resume, Quietly,
    route_session_geometry_micro_repair
<1>39. /\ DOMAIN Route["micro_shadow"] = {"activated"}
       /\ Says("micro_shadow", "activated", "GC_SESSION_GEOMETRY_FRESH_ID", "none")
  BY <1>3 DEF Says, Shaped, Blocked, Ask, AskNow, Halt, Resume, Quietly,
    route_session_geometry_micro_shadow
<1>40. /\ DOMAIN Route["gc_fresh"] = {"shadow", "falsified"}
       /\ Says("gc_fresh", "shadow", "GC_SESSION_GEOMETRY_SHADOW_ACTIVATION", "none")
       /\ Says("gc_fresh", "falsified", "CROSS_ASSET_DAILY_HORIZON", "none")
  BY <1>3 DEF Says, Shaped, Blocked, Ask, AskNow, Halt, Resume, Quietly,
    route_gc_session_geometry_fresh
<1>41. /\ DOMAIN Route["cross_asset"] = {"none", "shadow", "several"}
       /\ Says("cross_asset", "none", "DISTRIBUTIONAL_PORTFOLIO_ROLE_PIVOT", "none")
       /\ Says("cross_asset", "shadow", "CROSS_ASSET_DAILY_SHADOW_ACTIVATION",
            "cross_asset_shadow")
       /\ Says("cross_asset", "several", "CROSS_ASSET_DAILY_SHADOW_ACTIVATION",
            "cross_asset_shadow")
  BY <1>3 DEF Says, Shaped, Blocked, Ask, AskNow, Halt, Resume, Quietly,
    route_cross_asset_daily
<1>42. /\ DOMAIN Route["cross_asset_shadow"] = {"activated"}
       /\ Says("cross_asset_shadow", "activated",
            "PORTFOLIO_BASKET_AND_DISTRIBUTIONAL_SEARCH", "none")
  BY <1>3 DEF Says, Shaped, Blocked, Ask, AskNow, Halt, Resume, Quietly,
    route_cross_asset_daily_shadow
<1>43. /\ DOMAIN Route["baskets"] = {"three", "fewer"}
       /\ Says("baskets", "three", "DISTRIBUTIONAL_SURVIVAL_HAZARD_SEARCH", "none")
       /\ Says("baskets", "fewer", "SHARED_ACCOUNT_RISK_REMEDIATION", "none")
  BY <1>3 DEF Says, Shaped, Blocked, Ask, AskNow, Halt, Resume, Quietly,
    route_shadow_shared_account_baskets
<1>44. /\ DOMAIN Route["survival"] = {"insufficient", "robust", "uncontrolled"}
       /\ Says("survival", "insufficient", "CAUSAL_TRANSITION_GRAPH_SEARCH", "none")
       /\ Says("survival", "robust", "HAZARD_DEFENSIVE_POLICY_CONSTRUCTION", "none")
       /\ Says("survival", "uncontrolled", "CAUSAL_TRANSITION_GRAPH_SEARCH", "none")
  BY <1>3 DEF Says, Shaped, Blocked, Ask, AskNow, Halt, Resume, Quietly,
    route_survival_hazard
<1>45. /\ DOMAIN Route["meta"] = {"done"} /\ Says("meta", "done", "none", "none")
  BY <1>3 DEF Says, Shaped, Blocked, Ask, AskNow, Halt, Resume, Quietly,
    route_meta_failure_allocation
<1>46. /\ DOMAIN Route["causal"] = {"none", "shadow", "several", "one"}
       /\ Says("causal", "none", "TARGETED_PROMISING_LINEAGE_MUTATION", "none")
       /\ Says("causal", "shadow", "CAUSAL_TRANSITION_GRAPH_SHADOW_ACTIVATION", "none")
       /\ Says("causal", "several", "CAUSAL_TRANSITION_MATCHED_NULL_AND_MUTATION",
            "none")
       /\ Says("causal", "one", "CAUSAL_TRANSITION_MATCHED_NULL_AND_MUTATION", "none")
  BY <1>3 DEF Says, Shaped, Blocked, Ask, AskNow, Halt, Resume, Quietly,
    route_causal_transition_graph
<1>47. /\ DOMAIN Route["rty_null"] = {"supported", "none"}
       /\ Says("rty_null", "supported", "FORWARD_ONLY_TRANSITION_CHILD_SPECIFICATION",
            "none")
       /\ Says("rty_null", "none", "PORTFOLIO_ROLE_AND_PROMISING_LINEAGE_MUTATION",
            "none")
  BY <1>4 DEF Says, Shaped, Blocked, Ask, AskNow, Halt, Resume, Quietly,
    route_rty_transition_matched_null
<1>48. /\ DOMAIN Route["mutation"] = {"done"}
       /\ Says("mutation", "done", "none", "finalize")
  BY <1>4 DEF Says, Shaped, Blocked, Ask, AskNow, Halt, Resume, Quietly,
    route_promising_lineage_mutation
<1>49. /\ DOMAIN Route["role_research"] = {"done"}
       /\ Says("role_research", "done", "none", "finalize")
  BY <1>4 DEF Says, Shaped, Blocked, Ask, AskNow, Halt, Resume, Quietly,
    route_portfolio_role_research
<1>50. /\ DOMAIN Route["feed_audit"] = {"done"}
       /\ Says("feed_audit", "done", "none", "finalize")
  BY <1>4 DEF Says, Shaped, Blocked, Ask, AskNow, Halt, Resume, Quietly,
    route_forward_shadow_feed_audit
<1>51. /\ DOMAIN Route["post_meta"] = {"done"}
       /\ Says("post_meta", "done", "none", "none")
  BY <1>4 DEF Says, Shaped, Blocked, Ask, AskNow, Halt, Resume, Quietly,
    route_meta_failure_allocation
<1>52. /\ DOMAIN Route["halving"] = {"none", "selected"}
       /\ Says("halving", "none", "ROLE_CONDITIONED_STRUCTURAL_DISCOVERY_EPOCH",
            "none")
       /\ Says("halving", "selected",
            "PROMISING_CHILD_RAW_REPLAY_AND_SHADOW_ADMISSION", "admission")
  BY <1>4 DEF Says, Shaped, Blocked, Ask, AskNow, Halt, Resume, Quietly,
    route_post_mutation_successive_halving
<1>53. /\ DOMAIN Route["admission"] = {"none", "one"}
       /\ Says("admission", "none", "ROLE_CONDITIONED_STRUCTURAL_DISCOVERY_EPOCH",
            "none")
       /\ Says("admission", "one", "POST_MUTATION_CHILD_SHADOW_ACTIVATION", "child")
  BY <1>4 DEF Says, Shaped, Blocked, Ask, AskNow, Halt, Resume, Quietly,
    route_post_mutation_shadow_admission
<1>54. /\ DOMAIN Route["child"] = {"activated"}
       /\ Says("child", "activated", "ROLE_CONDITIONED_STRUCTURAL_DISCOVERY_EPOCH",
            "role_epoch")
  BY <1>4 DEF Says, Shaped, Blocked, Ask, AskNow, Halt, Resume, Quietly,
    route_post_mutation_child_shadow_activation
<1>55. /\ DOMAIN Route["role_epoch"] = {"insufficient", "promising"}
       /\ Says("role_epoch", "insufficient", "EQUITY_PRECLOSE_INVENTORY_DISPERSION",
            "preclose")
       /\ Says("role_epoch", "promising", "ROLE_SPECIFIC_ACCOUNT_POLICY_PROMOTION",
            "none")
  BY <1>4 DEF Says, Shaped, Blocked, Ask, AskNow, Halt, Resume, Quietly,
    route_role_conditioned_structural_epoch
<1>56. /\ DOMAIN Route["preclose"] = {"insufficient", "promising"}
       /\ Says("preclose", "insufficient", "MARKET_ECOLOGY_PIVOT_OR_FORWARD_DATA",
            "mini_micro")
       /\ Says("preclose", "promising", "EQUITY_PRECLOSE_FROZEN_PROMOTION", "none")
  BY <1>4 DEF Says, Shaped, Blocked, Ask, AskNow, Halt, Resume, Quietly,
    route_equity_preclose_inventory_dispersion
<1>57. /\ DOMAIN Route["mini_micro"] = {"insufficient", "promising"}
       /\ Says("mini_micro", "insufficient", "DISTINCT_MECHANISM_OR_FORWARD_DATA",
            "none")
       /\ Says("mini_micro", "promising", "MINI_MICRO_PARTICIPATION_FROZEN_PROMOTION",
            "none")
  BY <1>4 DEF Says, Shaped, Blocked, Ask, AskNow, Halt, Resume, Quietly,
    route_mini_micro_participation_divergence
<1>58. CASE s \in {"design", "execution", "post_design", "pilot", "contract_map",
      "v3_design", "v3"}
  BY <1>58, <1>5, <1>6, <1>7, <1>8, <1>9, <1>10, <1>11 DEF RouteCase
<1>59. CASE s \in {"path_geometry", "metal_energy", "cross_market", "volatility",
      "foundry", "equity_open_gap", "continuation"}
  BY <1>59, <1>12, <1>13, <1>14, <1>15, <1>16, <1>17, <1>18 DEF RouteCase
<1>60. CASE s \in {"q4_freeze", "opening_hazard", "cross_ecology", "mtf", "rty_ym",
      "ym_risk_off", "qd"}
  BY <1>60, <1>19, <1>20, <1>21, <1>22, <1>23, <1>24, <1>25 DEF RouteCase
<1>61. CASE s \in {"ym_strict", "ym_shadow", "accelerated", "null_power", "policy_repair",
      "alpha", "primary_context"}
  BY <1>61, <1>26, <1>27, <1>28, <1>29, <1>30, <1>31, <1>32 DEF RouteCase
<1>62. CASE s \in {"counterfactual", "barrier", "barrier_shadow", "energy_metals",
      "session_geometry", "micro_repair", "micro_shadow"}
  BY <1>62, <1>33, <1>34, <1>35, <1>36, <1>37, <1>38, <1>39 DEF RouteCase
<1>63. CASE s \in {"gc_fresh", "cross_asset", "cross_asset_shadow", "baskets", "survival",
      "meta", "causal"}
  BY <1>63, <1>40, <1>41, <1>42, <1>43, <1>44, <1>45, <1>46 DEF RouteCase
<1>64. CASE s \in {"rty_null", "mutation", "role_research", "feed_audit", "post_meta",
      "halving", "admission"}
  BY <1>64, <1>47, <1>48, <1>49, <1>50, <1>51, <1>52, <1>53 DEF RouteCase
<1>65. CASE s \in {"child", "role_epoch", "preclose", "mini_micro"}
  BY <1>65, <1>54, <1>55, <1>56, <1>57 DEF RouteCase
<1> HIDE DEF RouteCase
<1> QED BY ExperimentNames, <1>58, <1>59, <1>60, <1>61, <1>62, <1>63, <1>64, <1>65

\* What starts each stage and what it needs.
LEMMA StageTable ==
  /\ Stages["design"].on = {} /\ Stages["design"].after = {}
  /\ Stages["design"].frozen = {} /\ Stages["execution"].on = {}
  /\ Stages["execution"].after = {} /\ Stages["execution"].frozen = {}
  /\ Stages["post_design"].on = {} /\ Stages["post_design"].after = {}
  /\ Stages["post_design"].frozen = {} /\ Stages["pilot"].on = {}
  /\ Stages["pilot"].after = {} /\ Stages["pilot"].frozen = {}
  /\ Stages["contract_map"].on = {"CONTRACT_MAP_REBUILD"}
  /\ Stages["contract_map"].after = {<<"pilot", {"rebuild"}>>}
  /\ Stages["contract_map"].frozen = {}
  /\ Stages["v3_design"].on = {"FRESH_RETEST_WITH_REPAIRED_MAP"}
  /\ Stages["v3_design"].after = {}
  /\ Stages["v3_design"].frozen = {Done("contract_map")} /\ Stages["v3"].on = {}
  /\ Stages["v3"].after = {<<"v3_design", {"preregistered"}>>}
  /\ Stages["v3"].frozen = {}
  /\ Stages["path_geometry"].on = {"V3_INSUFFICIENT_EVIDENCE_RESOLUTION_DESIGN"}
  /\ Stages["path_geometry"].after = {} /\ Stages["path_geometry"].frozen = {}
  /\ Stages["metal_energy"].on = {"MARKET_ECOLOGY_PIVOT"}
  /\ Stages["metal_energy"].after = {} /\ Stages["metal_energy"].frozen = {}
  /\ Stages["cross_market"].on = {"MARKET_ECOLOGY_REPRESENTATION_PIVOT"}
  /\ Stages["cross_market"].after = {} /\ Stages["cross_market"].frozen = {}
  /\ Stages["volatility"].on = {"NEW_REPRESENTATION_PIVOT"}
  /\ Stages["volatility"].after = {} /\ Stages["volatility"].frozen = {}
  /\ Stages["foundry"].on = {"NEW_REPRESENTATION_PIVOT"}
  /\ Stages["foundry"].after = {} /\ Stages["foundry"].frozen = {}
  /\ Stages["equity_open_gap"].on = {"EQUITY_OPEN_GAP_REVERSAL_PILOT"}
  /\ Stages["equity_open_gap"].after = {} /\ Stages["equity_open_gap"].frozen = {}
  /\ Stages["continuation"].on = {"EQUITY_OPEN_GAP_CONTINUATION_PILOT"}
  /\ Stages["continuation"].after = {}
  /\ Stages["continuation"].frozen = {<<"equity_open_gap", {"falsified"}>>}
  /\ Stages["q4_freeze"].on = {"Q4_FREEZE_PROTOCOL"} /\ Stages["q4_freeze"].after = {}
  /\ Stages["q4_freeze"].frozen = {<<"continuation", {"q4"}>>}
  /\ Stages["opening_hazard"].on = {"DISTRIBUTIONAL_OPENING_HAZARD_PILOT"}
  /\ Stages["opening_hazard"].after = {} /\ Stages["opening_hazard"].frozen = {}
  /\ Stages["cross_ecology"].on = {"CROSS_ECOLOGY_INVARIANT_SEARCH"}
  /\ Stages["cross_ecology"].after = {} /\ Stages["cross_ecology"].frozen = {}
  /\ Stages["mtf"].on = {"MULTITIMEFRAME_SESSION_DAILY_INVARIANT"}
  /\ Stages["mtf"].after = {} /\ Stages["mtf"].frozen = {}
  /\ Stages["rty_ym"].on = {"RELATIVE_VALUE_OR_DEFENSIVE_PORTFOLIO"}
  /\ Stages["rty_ym"].after = {} /\ Stages["rty_ym"].frozen = {}
  /\ Stages["ym_risk_off"].on = {"DEFENSIVE_PORTFOLIO_RISK_ENGINE"}
  /\ Stages["ym_risk_off"].after = {} /\ Stages["ym_risk_off"].frozen = {}
  /\ Stages["qd"].on = {"INVENTED_METHOD_OR_PORTFOLIO_SEARCH"}
  /\ Stages["qd"].after = {} /\ Stages["qd"].frozen = {}
  /\ Stages["ym_strict"].on = {"INVENTED_METHOD_OR_PORTFOLIO_SEARCH",
       "QD_FAILURE_MAP_AND_YM_STRICT_REPLAY",
       "QD_SHADOW_ACTIVATION_AND_YM_STRICT_REPLAY",
       "QD_TARGETED_CONFIRMATION_AND_YM_STRICT_REPLAY"}
  /\ Stages["ym_strict"].after = {} /\ Stages["ym_strict"].frozen = {}
  /\ Stages["ym_shadow"].on = {} /\ Stages["ym_shadow"].after = {Done("ym_strict")}
  /\ Stages["ym_shadow"].frozen = {<<"ym_strict", {"eligible"}>>}
  /\ Stages["accelerated"].on = {} /\ Stages["accelerated"].after = {}
  /\ Stages["accelerated"].frozen = {} /\ Stages["null_power"].on = {}
  /\ Stages["null_power"].after = {} /\ Stages["null_power"].frozen = {}
  /\ Stages["policy_repair"].on = {}
  /\ Stages["policy_repair"].after = {Done("null_power")}
  /\ Stages["policy_repair"].frozen = {<<"null_power", {"fpr_failed"}>>}
  /\ Stages["alpha"].on = {} /\ Stages["alpha"].after = {Done("policy_repair")}
  /\ Stages["alpha"].frozen = {<<"policy_repair", {"failed"}>>}
  /\ Stages["primary_context"].on = {"NEW_SINGLE_PRIMARY_TOURNAMENT"}
  /\ Stages["primary_context"].after = {Done("alpha")}
  /\ Stages["primary_context"].frozen = {<<"alpha", {"calibrated"}>>}
  /\ Stages["counterfactual"].on = {"COUNTERFACTUAL_HAZARD_PRIMARY"}
  /\ Stages["counterfactual"].after = {<<"primary_context", {"falsified"}>>}
  /\ Stages["counterfactual"].frozen = {}
  /\ Stages["barrier"].on = {"DISTRIBUTIONAL_BARRIER_HAZARD_PRIMARY"}
  /\ Stages["barrier"].after = {<<"counterfactual", {"no_primary"}>>}
  /\ Stages["barrier"].frozen = {}
  /\ Stages["barrier_shadow"].on = {"BARRIER_HAZARD_SHADOW_ACTIVATION"}
  /\ Stages["barrier_shadow"].after = {<<"barrier", {"shadow"}>>}
  /\ Stages["barrier_shadow"].frozen = {}
  /\ Stages["energy_metals"].on = {"ENERGY_METALS_ECOLOGY_SEARCH"}
  /\ Stages["energy_metals"].after = {} /\ Stages["energy_metals"].frozen = {}
  /\ Stages["session_geometry"].on = {"ENERGY_METALS_SESSION_GEOMETRY"}
  /\ Stages["session_geometry"].after = {Done("energy_metals")}
  /\ Stages["session_geometry"].frozen = {}
  /\ Stages["micro_repair"].on = {"ENERGY_METALS_SESSION_GEOMETRY_REPLICATION"}
  /\ Stages["micro_repair"].after = {<<"session_geometry", {"promising"}>>}
  /\ Stages["micro_repair"].frozen = {}
  /\ Stages["micro_shadow"].on = {"SESSION_GEOMETRY_MICRO_SHADOW_ACTIVATION"}
  /\ Stages["micro_shadow"].after = {<<"micro_repair", {"shadow"}>>}
  /\ Stages["micro_shadow"].frozen = {}
  /\ Stages["gc_fresh"].on = {"GC_SESSION_GEOMETRY_FRESH_ID"}
  /\ Stages["gc_fresh"].after = {<<"micro_shadow", {"activated"}>>}
  /\ Stages["gc_fresh"].frozen = {}
  /\ Stages["cross_asset"].on = {"CROSS_ASSET_DAILY_HORIZON"}
  /\ Stages["cross_asset"].after = {<<"gc_fresh", {"falsified"}>>}
  /\ Stages["cross_asset"].frozen = {}
  /\ Stages["cross_asset_shadow"].on = {"CROSS_ASSET_DAILY_SHADOW_ACTIVATION"}
  /\ Stages["cross_asset_shadow"].after = {<<"cross_asset", {"shadow"}>>}
  /\ Stages["cross_asset_shadow"].frozen = {}
  /\ Stages["baskets"].on = {"PORTFOLIO_BASKET_AND_DISTRIBUTIONAL_SEARCH"}
  /\ Stages["baskets"].after = {Done("barrier_shadow"), Done("cross_asset_shadow"),
       Done("micro_shadow"), Done("ym_shadow")}
  /\ Stages["baskets"].frozen = {}
  /\ Stages["survival"].on = {"DISTRIBUTIONAL_SURVIVAL_HAZARD_SEARCH"}
  /\ Stages["survival"].after = {<<"baskets", {"three"}>>}
  /\ Stages["survival"].frozen = {}
  /\ Stages["meta"].on = {"DISTRIBUTIONAL_SURVIVAL_HAZARD_SEARCH"}
  /\ Stages["meta"].after = {<<"baskets", {"three"}>>} /\ Stages["meta"].frozen = {}
  /\ Stages["causal"].on = {"CAUSAL_TRANSITION_GRAPH_SEARCH"}
  /\ Stages["causal"].after = {<<"survival", {"insufficient"}>>}
  /\ Stages["causal"].frozen = {}
  /\ Stages["rty_null"].on = {"CAUSAL_TRANSITION_MATCHED_NULL_AND_MUTATION"}
  /\ Stages["rty_null"].after = {<<"causal", {"one"}>>}
  /\ Stages["rty_null"].frozen = {} /\ Stages["mutation"].on = {}
  /\ Stages["mutation"].after = {} /\ Stages["mutation"].frozen = {}
  /\ Stages["role_research"].on = {} /\ Stages["role_research"].after = {}
  /\ Stages["role_research"].frozen = {} /\ Stages["feed_audit"].on = {}
  /\ Stages["feed_audit"].after = {} /\ Stages["feed_audit"].frozen = {}
  /\ Stages["post_meta"].on = {} /\ Stages["post_meta"].after = {}
  /\ Stages["post_meta"].frozen = {} /\ Stages["halving"].on = {}
  /\ Stages["halving"].after = {} /\ Stages["halving"].frozen = {Done("mutation")}
  /\ Stages["admission"].on = {"PROMISING_CHILD_RAW_REPLAY_AND_SHADOW_ADMISSION"}
  /\ Stages["admission"].after = {Done("halving")} /\ Stages["admission"].frozen = {}
  /\ Stages["child"].on = {"POST_MUTATION_CHILD_SHADOW_ACTIVATION"}
  /\ Stages["child"].after = {<<"admission", {"one"}>>} /\ Stages["child"].frozen = {}
  /\ Stages["role_epoch"].on = {"ROLE_CONDITIONED_STRUCTURAL_DISCOVERY_EPOCH"}
  /\ Stages["role_epoch"].after = {Done("post_meta"), Done("role_research"),
       Done("halving"), Done("child"), Done("mutation")}
  /\ Stages["role_epoch"].frozen = {}
  /\ Stages["preclose"].on = {"EQUITY_PRECLOSE_INVENTORY_DISPERSION"}
  /\ Stages["preclose"].after = {<<"role_epoch", {"insufficient"}>>}
  /\ Stages["preclose"].frozen = {} /\ Stages["mini_micro"].on = {}
  /\ Stages["mini_micro"].after = {<<"preclose", {"insufficient"}>>}
  /\ Stages["mini_micro"].frozen = {}
<1>1. /\ Stages["design"] = Row(1000) /\ Stages["execution"] = Row(950)
      /\ Stages["post_design"] = Row(920) /\ Stages["pilot"] = Row(900)
      /\ Stages["contract_map"] = reconcile_contract_map_repair
      /\ Stages["v3_design"] = reconcile_fresh_v3_retest
      /\ Stages["v3"] = queue_v3_execution
      /\ Stages["path_geometry"] = reconcile_path_geometry_audit
      /\ Stages["metal_energy"] = reconcile_metal_energy_pilot
      /\ Stages["cross_market"] = reconcile_cross_market_pilot
      /\ Stages["volatility"] = reconcile_volatility_pilot
      /\ Stages["foundry"] = reconcile_foundry_bootstrap
      /\ Stages["equity_open_gap"] = reconcile_equity_open_gap_pilot
      /\ Stages["continuation"] = reconcile_equity_open_gap_continuation_pilot
  BY DEF Stages
<1>2. /\ Stages["q4_freeze"] = reconcile_q4_candidate_freeze
      /\ Stages["opening_hazard"] = reconcile_opening_direction_hazard
      /\ Stages["cross_ecology"] = reconcile_cross_ecology_opening_acceptance
      /\ Stages["mtf"] = reconcile_mtf_session_trend_confirmation
      /\ Stages["rty_ym"] = reconcile_rty_ym_relative_value
      /\ Stages["ym_risk_off"] = reconcile_ym_shared_risk_off
      /\ Stages["qd"] = reconcile_qd_economic_tournament
      /\ Stages["ym_strict"] = reconcile_ym_strict_promotion
      /\ Stages["ym_shadow"] = reconcile_ym_shadow_activation
      /\ Stages["accelerated"] = reconcile_accelerated_context_tournament
      /\ Stages["null_power"] = reconcile_selection_null_power
      /\ Stages["policy_repair"] = reconcile_selection_null_policy_repair
      /\ Stages["alpha"] = reconcile_single_primary_alpha
      /\ Stages["primary_context"] = reconcile_single_primary_context_tournament
  BY DEF Stages
<1>3. /\ Stages["counterfactual"] = reconcile_counterfactual_hazard_primary
      /\ Stages["barrier"] = reconcile_barrier_hazard_primary
      /\ Stages["barrier_shadow"] = reconcile_barrier_shadow_activation
      /\ Stages["energy_metals"] = reconcile_energy_metals_barrier_primary
      /\ Stages["session_geometry"] = reconcile_energy_metals_session_geometry
      /\ Stages["micro_repair"] = reconcile_session_geometry_micro_repair
      /\ Stages["micro_shadow"] = reconcile_session_geometry_micro_shadow
      /\ Stages["gc_fresh"] = reconcile_gc_session_geometry_fresh
      /\ Stages["cross_asset"] = reconcile_cross_asset_daily
      /\ Stages["cross_asset_shadow"] = reconcile_cross_asset_daily_shadow
      /\ Stages["baskets"] = reconcile_shadow_shared_account_baskets
      /\ Stages["survival"] = reconcile_survival_hazard
      /\ Stages["meta"] = reconcile_meta_failure_allocation
      /\ Stages["causal"] = reconcile_causal_transition_graph
  BY DEF Stages
<1>4. /\ Stages["rty_null"] = reconcile_rty_transition_matched_null
      /\ Stages["mutation"] = Row(1200) /\ Stages["role_research"] = Row(1190)
      /\ Stages["feed_audit"] = Row(1180) /\ Stages["post_meta"] = Row(1170)
      /\ Stages["halving"] = reconcile_post_mutation_successive_halving
      /\ Stages["admission"] = reconcile_post_mutation_shadow_admission
      /\ Stages["child"] = reconcile_post_mutation_child_shadow_activation
      /\ Stages["role_epoch"] = reconcile_role_conditioned_structural_epoch
      /\ Stages["preclose"] = reconcile_equity_preclose_inventory_dispersion
      /\ Stages["mini_micro"] = reconcile_mini_micro_participation_divergence
  BY DEF Stages
<1>5. /\ Stages["design"].on = {} /\ Stages["design"].after = {}
      /\ Stages["design"].frozen = {}
  BY <1>1 DEF Stage, Row, Pilot, Follows
<1>6. /\ Stages["execution"].on = {} /\ Stages["execution"].after = {}
      /\ Stages["execution"].frozen = {}
  BY <1>1 DEF Stage, Row, Pilot, Follows
<1>7. /\ Stages["post_design"].on = {} /\ Stages["post_design"].after = {}
      /\ Stages["post_design"].frozen = {}
  BY <1>1 DEF Stage, Row, Pilot, Follows
<1>8. /\ Stages["pilot"].on = {} /\ Stages["pilot"].after = {}
      /\ Stages["pilot"].frozen = {}
  BY <1>1 DEF Stage, Row, Pilot, Follows
<1>9. /\ Stages["contract_map"].on = {"CONTRACT_MAP_REBUILD"}
      /\ Stages["contract_map"].after = {<<"pilot", {"rebuild"}>>}
      /\ Stages["contract_map"].frozen = {}
  BY <1>1 DEF Stage, Row, Pilot, Follows, reconcile_contract_map_repair
<1>10. /\ Stages["v3_design"].on = {"FRESH_RETEST_WITH_REPAIRED_MAP"}
      /\ Stages["v3_design"].after = {}
      /\ Stages["v3_design"].frozen = {Done("contract_map")}
  BY <1>1 DEF Stage, Row, Pilot, Follows, reconcile_fresh_v3_retest
<1>11. /\ Stages["v3"].on = {}
      /\ Stages["v3"].after = {<<"v3_design", {"preregistered"}>>}
      /\ Stages["v3"].frozen = {}
  BY <1>1 DEF Stage, Row, Pilot, Follows, queue_v3_execution
<1>12. /\ Stages["path_geometry"].on = {"V3_INSUFFICIENT_EVIDENCE_RESOLUTION_DESIGN"}
      /\ Stages["path_geometry"].after = {} /\ Stages["path_geometry"].frozen = {}
  BY <1>1 DEF Stage, Row, Pilot, Follows, reconcile_path_geometry_audit
<1>13. /\ Stages["metal_energy"].on = {"MARKET_ECOLOGY_PIVOT"}
      /\ Stages["metal_energy"].after = {} /\ Stages["metal_energy"].frozen = {}
  BY <1>1 DEF Stage, Row, Pilot, Follows, reconcile_metal_energy_pilot
<1>14. /\ Stages["cross_market"].on = {"MARKET_ECOLOGY_REPRESENTATION_PIVOT"}
      /\ Stages["cross_market"].after = {} /\ Stages["cross_market"].frozen = {}
  BY <1>1 DEF Stage, Row, Pilot, Follows, reconcile_cross_market_pilot
<1>15. /\ Stages["volatility"].on = {"NEW_REPRESENTATION_PIVOT"}
      /\ Stages["volatility"].after = {} /\ Stages["volatility"].frozen = {}
  BY <1>1 DEF Stage, Row, Pilot, Follows, reconcile_volatility_pilot
<1>16. /\ Stages["foundry"].on = {"NEW_REPRESENTATION_PIVOT"}
      /\ Stages["foundry"].after = {} /\ Stages["foundry"].frozen = {}
  BY <1>1 DEF Stage, Row, Pilot, Follows, reconcile_foundry_bootstrap
<1>17. /\ Stages["equity_open_gap"].on = {"EQUITY_OPEN_GAP_REVERSAL_PILOT"}
      /\ Stages["equity_open_gap"].after = {} /\ Stages["equity_open_gap"].frozen = {}
  BY <1>1 DEF Stage, Row, Pilot, Follows, reconcile_equity_open_gap_pilot
<1>18. /\ Stages["continuation"].on = {"EQUITY_OPEN_GAP_CONTINUATION_PILOT"}
      /\ Stages["continuation"].after = {}
      /\ Stages["continuation"].frozen = {<<"equity_open_gap", {"falsified"}>>}
  BY <1>1 DEF Stage, Row, Pilot, Follows,
    reconcile_equity_open_gap_continuation_pilot
<1>19. /\ Stages["q4_freeze"].on = {"Q4_FREEZE_PROTOCOL"}
      /\ Stages["q4_freeze"].after = {}
      /\ Stages["q4_freeze"].frozen = {<<"continuation", {"q4"}>>}
  BY <1>2 DEF Stage, Row, Pilot, Follows, reconcile_q4_candidate_freeze
<1>20. /\ Stages["opening_hazard"].on = {"DISTRIBUTIONAL_OPENING_HAZARD_PILOT"}
      /\ Stages["opening_hazard"].after = {} /\ Stages["opening_hazard"].frozen = {}
  BY <1>2 DEF Stage, Row, Pilot, Follows, reconcile_opening_direction_hazard
<1>21. /\ Stages["cross_ecology"].on = {"CROSS_ECOLOGY_INVARIANT_SEARCH"}
      /\ Stages["cross_ecology"].after = {} /\ Stages["cross_ecology"].frozen = {}
  BY <1>2 DEF Stage, Row, Pilot, Follows, reconcile_cross_ecology_opening_acceptance
<1>22. /\ Stages["mtf"].on = {"MULTITIMEFRAME_SESSION_DAILY_INVARIANT"}
      /\ Stages["mtf"].after = {} /\ Stages["mtf"].frozen = {}
  BY <1>2 DEF Stage, Row, Pilot, Follows, reconcile_mtf_session_trend_confirmation
<1>23. /\ Stages["rty_ym"].on = {"RELATIVE_VALUE_OR_DEFENSIVE_PORTFOLIO"}
      /\ Stages["rty_ym"].after = {} /\ Stages["rty_ym"].frozen = {}
  BY <1>2 DEF Stage, Row, Pilot, Follows, reconcile_rty_ym_relative_value
<1>24. /\ Stages["ym_risk_off"].on = {"DEFENSIVE_PORTFOLIO_RISK_ENGINE"}
      /\ Stages["ym_risk_off"].after = {} /\ Stages["ym_risk_off"].frozen = {}
  BY <1>2 DEF Stage, Row, Pilot, Follows, reconcile_ym_shared_risk_off
<1>25. /\ Stages["qd"].on = {"INVENTED_METHOD_OR_PORTFOLIO_SEARCH"}
      /\ Stages["qd"].after = {} /\ Stages["qd"].frozen = {}
  BY <1>2 DEF Stage, Row, Pilot, Follows, reconcile_qd_economic_tournament
<1>26. /\ Stages["ym_strict"].on = {"INVENTED_METHOD_OR_PORTFOLIO_SEARCH",
           "QD_FAILURE_MAP_AND_YM_STRICT_REPLAY",
           "QD_SHADOW_ACTIVATION_AND_YM_STRICT_REPLAY",
           "QD_TARGETED_CONFIRMATION_AND_YM_STRICT_REPLAY"}
      /\ Stages["ym_strict"].after = {} /\ Stages["ym_strict"].frozen = {}
  BY <1>2 DEF Stage, Row, Pilot, Follows, reconcile_ym_strict_promotion
<1>27. /\ Stages["ym_shadow"].on = {} /\ Stages["ym_shadow"].after = {Done("ym_strict")}
      /\ Stages["ym_shadow"].frozen = {<<"ym_strict", {"eligible"}>>}
  BY <1>2 DEF Stage, Row, Pilot, Follows, reconcile_ym_shadow_activation
<1>28. /\ Stages["accelerated"].on = {} /\ Stages["accelerated"].after = {}
      /\ Stages["accelerated"].frozen = {}
  BY <1>2 DEF Stage, Row, Pilot, Follows, reconcile_accelerated_context_tournament
<1>29. /\ Stages["null_power"].on = {} /\ Stages["null_power"].after = {}
      /\ Stages["null_power"].frozen = {}
  BY <1>2 DEF Stage, Row, Pilot, Follows, reconcile_selection_null_power
<1>30. /\ Stages["policy_repair"].on = {}
      /\ Stages["policy_repair"].after = {Done("null_power")}
      /\ Stages["policy_repair"].frozen = {<<"null_power", {"fpr_failed"}>>}
  BY <1>2 DEF Stage, Row, Pilot, Follows, reconcile_selection_null_policy_repair
<1>31. /\ Stages["alpha"].on = {} /\ Stages["alpha"].after = {Done("policy_repair")}
      /\ Stages["alpha"].frozen = {<<"policy_repair", {"failed"}>>}
  BY <1>2 DEF Stage, Row, Pilot, Follows, reconcile_single_primary_alpha
<1>32. /\ Stages["primary_context"].on = {"NEW_SINGLE_PRIMARY_TOURNAMENT"}
      /\ Stages["primary_context"].after = {Done("alpha")}
      /\ Stages["primary_context"].frozen = {<<"alpha", {"calibrated"}>>}
  BY <1>2 DEF Stage, Row, Pilot, Follows,
    reconcile_single_primary_context_tournament
<1>33. /\ Stages["counterfactual"].on = {"COUNTERFACTUAL_HAZARD_PRIMARY"}
      /\ Stages["counterfactual"].after = {<<"primary_context", {"falsified"}>>}
      /\ Stages["counterfactual"].frozen = {}
  BY <1>3 DEF Stage, Row, Pilot, Follows, reconcile_counterfactual_hazard_primary
<1>34. /\ Stages["barrier"].on = {"DISTRIBUTIONAL_BARRIER_HAZARD_PRIMARY"}
      /\ Stages["barrier"].after = {<<"counterfactual", {"no_primary"}>>}
      /\ Stages["barrier"].frozen = {}
  BY <1>3 DEF Stage, Row, Pilot, Follows, reconcile_barrier_hazard_primary
<1>35. /\ Stages["barrier_shadow"].on = {"BARRIER_HAZARD_SHADOW_ACTIVATION"}
      /\ Stages["barrier_shadow"].after = {<<"barrier", {"shadow"}>>}
      /\ Stages["barrier_shadow"].frozen = {}
  BY <1>3 DEF Stage, Row, Pilot, Follows, reconcile_barrier_shadow_activation
<1>36. /\ Stages["energy_metals"].on = {"ENERGY_METALS_ECOLOGY_SEARCH"}
      /\ Stages["energy_metals"].after = {} /\ Stages["energy_metals"].frozen = {}
  BY <1>3 DEF Stage, Row, Pilot, Follows, reconcile_energy_metals_barrier_primary
<1>37. /\ Stages["session_geometry"].on = {"ENERGY_METALS_SESSION_GEOMETRY"}
      /\ Stages["session_geometry"].after = {Done("energy_metals")}
      /\ Stages["session_geometry"].frozen = {}
  BY <1>3 DEF Stage, Row, Pilot, Follows, reconcile_energy_metals_session_geometry
<1>38. /\ Stages["micro_repair"].on = {"ENERGY_METALS_SESSION_GEOMETRY_REPLICATION"}
      /\ Stages["micro_repair"].after = {<<"session_geometry", {"promising"}>>}
      /\ Stages["micro_repair"].frozen = {}
  BY <1>3 DEF Stage, Row, Pilot, Follows, reconcile_session_geometry_micro_repair
<1>39. /\ Stages["micro_shadow"].on = {"SESSION_GEOMETRY_MICRO_SHADOW_ACTIVATION"}
      /\ Stages["micro_shadow"].after = {<<"micro_repair", {"shadow"}>>}
      /\ Stages["micro_shadow"].frozen = {}
  BY <1>3 DEF Stage, Row, Pilot, Follows, reconcile_session_geometry_micro_shadow
<1>40. /\ Stages["gc_fresh"].on = {"GC_SESSION_GEOMETRY_FRESH_ID"}
      /\ Stages["gc_fresh"].after = {<<"micro_shadow", {"activated"}>>}
      /\ Stages["gc_fresh"].frozen = {}
  BY <1>3 DEF Stage, Row, Pilot, Follows, reconcile_gc_session_geometry_fresh
<1>41. /\ Stages["cross_asset"].on = {"CROSS_ASSET_DAILY_HORIZON"}
      /\ Stages["cross_asset"].after = {<<"gc_fresh", {"falsified"}>>}
      /\ Stages["cross_asset"].frozen = {}
  BY <1>3 DEF Stage, Row, Pilot, Follows, reconcile_cross_asset_daily
<1>42. /\ Stages["cross_asset_shadow"].on = {"CROSS_ASSET_DAILY_SHADOW_ACTIVATION"}
      /\ Stages["cross_asset_shadow"].after = {<<"cross_asset", {"shadow"}>>}
      /\ Stages["cross_asset_shadow"].frozen = {}
  BY <1>3 DEF Stage, Row, Pilot, Follows, reconcile_cross_asset_daily_shadow
<1>43. /\ Stages["baskets"].on = {"PORTFOLIO_BASKET_AND_DISTRIBUTIONAL_SEARCH"}
      /\ Stages["baskets"].after = {Done("barrier_shadow"), Done("cross_asset_shadow"),
           Done("micro_shadow"), Done("ym_shadow")}
      /\ Stages["baskets"].frozen = {}
  BY <1>3 DEF Stage, Row, Pilot, Follows, reconcile_shadow_shared_account_baskets
<1>44. /\ Stages["survival"].on = {"DISTRIBUTIONAL_SURVIVAL_HAZARD_SEARCH"}
      /\ Stages["survival"].after = {<<"baskets", {"three"}>>}
      /\ Stages["survival"].frozen = {}
  BY <1>3 DEF Stage, Row, Pilot, Follows, reconcile_survival_hazard
<1>45. /\ Stages["meta"].on = {"DISTRIBUTIONAL_SURVIVAL_HAZARD_SEARCH"}
      /\ Stages["meta"].after = {<<"baskets", {"three"}>>}
      /\ Stages["meta"].frozen = {}
  BY <1>3 DEF Stage, Row, Pilot, Follows, reconcile_meta_failure_allocation
<1>46. /\ Stages["causal"].on = {"CAUSAL_TRANSITION_GRAPH_SEARCH"}
      /\ Stages["causal"].after = {<<"survival", {"insufficient"}>>}
      /\ Stages["causal"].frozen = {}
  BY <1>3 DEF Stage, Row, Pilot, Follows, reconcile_causal_transition_graph
<1>47. /\ Stages["rty_null"].on = {"CAUSAL_TRANSITION_MATCHED_NULL_AND_MUTATION"}
      /\ Stages["rty_null"].after = {<<"causal", {"one"}>>}
      /\ Stages["rty_null"].frozen = {}
  BY <1>4 DEF Stage, Row, Pilot, Follows, reconcile_rty_transition_matched_null
<1>48. /\ Stages["mutation"].on = {} /\ Stages["mutation"].after = {}
      /\ Stages["mutation"].frozen = {}
  BY <1>4 DEF Stage, Row, Pilot, Follows
<1>49. /\ Stages["role_research"].on = {} /\ Stages["role_research"].after = {}
      /\ Stages["role_research"].frozen = {}
  BY <1>4 DEF Stage, Row, Pilot, Follows
<1>50. /\ Stages["feed_audit"].on = {} /\ Stages["feed_audit"].after = {}
      /\ Stages["feed_audit"].frozen = {}
  BY <1>4 DEF Stage, Row, Pilot, Follows
<1>51. /\ Stages["post_meta"].on = {} /\ Stages["post_meta"].after = {}
      /\ Stages["post_meta"].frozen = {}
  BY <1>4 DEF Stage, Row, Pilot, Follows
<1>52. /\ Stages["halving"].on = {} /\ Stages["halving"].after = {}
      /\ Stages["halving"].frozen = {Done("mutation")}
  BY <1>4 DEF Stage, Row, Pilot, Follows, reconcile_post_mutation_successive_halving
<1>53. /\ Stages["admission"].on = {"PROMISING_CHILD_RAW_REPLAY_AND_SHADOW_ADMISSION"}
      /\ Stages["admission"].after = {Done("halving")}
      /\ Stages["admission"].frozen = {}
  BY <1>4 DEF Stage, Row, Pilot, Follows, reconcile_post_mutation_shadow_admission
<1>54. /\ Stages["child"].on = {"POST_MUTATION_CHILD_SHADOW_ACTIVATION"}
      /\ Stages["child"].after = {<<"admission", {"one"}>>}
      /\ Stages["child"].frozen = {}
  BY <1>4 DEF Stage, Row, Pilot, Follows,
    reconcile_post_mutation_child_shadow_activation
<1>55. /\ Stages["role_epoch"].on = {"ROLE_CONDITIONED_STRUCTURAL_DISCOVERY_EPOCH"}
      /\ Stages["role_epoch"].after = {Done("post_meta"), Done("role_research"),
           Done("halving"), Done("child"), Done("mutation")}
      /\ Stages["role_epoch"].frozen = {}
  BY <1>4 DEF Stage, Row, Pilot, Follows,
    reconcile_role_conditioned_structural_epoch
<1>56. /\ Stages["preclose"].on = {"EQUITY_PRECLOSE_INVENTORY_DISPERSION"}
      /\ Stages["preclose"].after = {<<"role_epoch", {"insufficient"}>>}
      /\ Stages["preclose"].frozen = {}
  BY <1>4 DEF Stage, Row, Pilot, Follows,
    reconcile_equity_preclose_inventory_dispersion
<1>57. /\ Stages["mini_micro"].on = {}
      /\ Stages["mini_micro"].after = {<<"preclose", {"insufficient"}>>}
      /\ Stages["mini_micro"].frozen = {}
  BY <1>4 DEF Stage, Row, Pilot, Follows,
    reconcile_mini_micro_participation_divergence
<1> QED BY <1>5, <1>6, <1>7, <1>8, <1>9, <1>10, <1>11, <1>12, <1>13, <1>14, <1>15,
  <1>16, <1>17, <1>18, <1>19, <1>20, <1>21, <1>22, <1>23, <1>24, <1>25, <1>26,
  <1>27, <1>28, <1>29, <1>30, <1>31, <1>32, <1>33, <1>34, <1>35, <1>36, <1>37,
  <1>38, <1>39, <1>40, <1>41, <1>42, <1>43, <1>44, <1>45, <1>46, <1>47, <1>48,
  <1>49, <1>50, <1>51, <1>52, <1>53, <1>54, <1>55, <1>56, <1>57

\* The stages that a start looks at.
LEMMA StartNames ==
  ToSet(StartOrder) = {"contract_map", "v3_design", "path_geometry", "metal_energy", "cross_market",
     "volatility", "foundry", "equity_open_gap", "continuation", "q4_freeze",
     "opening_hazard", "cross_ecology", "mtf", "rty_ym", "ym_risk_off", "qd",
     "ym_strict", "primary_context", "counterfactual", "barrier", "barrier_shadow",
     "energy_metals", "session_geometry", "micro_repair", "micro_shadow",
     "gc_fresh", "cross_asset", "cross_asset_shadow", "baskets", "survival", "meta",
     "causal", "rty_null", "trio", "halving", "admission", "child", "role_epoch",
     "preclose"}
BY DEF ToSet, StartOrder

\* The members of the trio.
LEMMA TrioNames ==
  ToSet(Trio) = {"mutation", "role_research", "feed_audit"}
BY DEF ToSet, Trio

\* A blocker asks for a stage if it is one that starts it.
LEMMA Asks ==
  ASSUME NEW b, NEW t
  PROVE  /\ t \in Starters(b) <=> t \in ToSet(StartOrder) /\ t # "halving" /\ b \in StartedBy(t)
         /\ IsAsk(b) <=> \E u \in ToSet(StartOrder) : u # "halving" /\ b \in StartedBy(u)
BY DEF Starters, IsAsk

\* What starts each stage.
LEMMA StartTable ==
  /\ StartedBy("contract_map") = {"CONTRACT_MAP_REBUILD"}
  /\ StartedBy("v3_design") = {"FRESH_RETEST_WITH_REPAIRED_MAP"}
  /\ StartedBy("path_geometry") = {"V3_INSUFFICIENT_EVIDENCE_RESOLUTION_DESIGN"}
  /\ StartedBy("metal_energy") = {"MARKET_ECOLOGY_PIVOT"}
  /\ StartedBy("cross_market") = {"MARKET_ECOLOGY_REPRESENTATION_PIVOT"}
  /\ StartedBy("volatility") = {"NEW_REPRESENTATION_PIVOT"}
  /\ StartedBy("foundry") = {"NEW_REPRESENTATION_PIVOT"}
  /\ StartedBy("equity_open_gap") = {"EQUITY_OPEN_GAP_REVERSAL_PILOT"}
  /\ StartedBy("continuation") = {"EQUITY_OPEN_GAP_CONTINUATION_PILOT"}
  /\ StartedBy("q4_freeze") = {"Q4_FREEZE_PROTOCOL"}
  /\ StartedBy("opening_hazard") = {"DISTRIBUTIONAL_OPENING_HAZARD_PILOT"}
  /\ StartedBy("cross_ecology") = {"CROSS_ECOLOGY_INVARIANT_SEARCH"}
  /\ StartedBy("mtf") = {"MULTITIMEFRAME_SESSION_DAILY_INVARIANT"}
  /\ StartedBy("rty_ym") = {"RELATIVE_VALUE_OR_DEFENSIVE_PORTFOLIO"}
  /\ StartedBy("ym_risk_off") = {"DEFENSIVE_PORTFOLIO_RISK_ENGINE"}
  /\ StartedBy("qd") = {"INVENTED_METHOD_OR_PORTFOLIO_SEARCH"}
  /\ StartedBy("ym_strict") = {"INVENTED_METHOD_OR_PORTFOLIO_SEARCH",
       "QD_FAILURE_MAP_AND_YM_STRICT_REPLAY",
       "QD_SHADOW_ACTIVATION_AND_YM_STRICT_REPLAY",
       "QD_TARGETED_CONFIRMATION_AND_YM_STRICT_REPLAY"}
  /\ StartedBy("primary_context") = {"NEW_SINGLE_PRIMARY_TOURNAMENT"}
  /\ StartedBy("counterfactual") = {"COUNTERFACTUAL_HAZARD_PRIMARY"}
  /\ StartedBy("barrier") = {"DISTRIBUTIONAL_BARRIER_HAZARD_PRIMARY"}
  /\ StartedBy("barrier_shadow") = {"BARRIER_HAZARD_SHADOW_ACTIVATION"}
  /\ StartedBy("energy_metals") = {"ENERGY_METALS_ECOLOGY_SEARCH"}
  /\ StartedBy("session_geometry") = {"ENERGY_METALS_SESSION_GEOMETRY"}
  /\ StartedBy("micro_repair") = {"ENERGY_METALS_SESSION_GEOMETRY_REPLICATION"}
  /\ StartedBy("micro_shadow") = {"SESSION_GEOMETRY_MICRO_SHADOW_ACTIVATION"}
  /\ StartedBy("gc_fresh") = {"GC_SESSION_GEOMETRY_FRESH_ID"}
  /\ StartedBy("cross_asset") = {"CROSS_ASSET_DAILY_HORIZON"}
  /\ StartedBy("cross_asset_shadow") = {"CROSS_ASSET_DAILY_SHADOW_ACTIVATION"}
  /\ StartedBy("baskets") = {"PORTFOLIO_BASKET_AND_DISTRIBUTIONAL_SEARCH"}
  /\ StartedBy("survival") = {"DISTRIBUTIONAL_SURVIVAL_HAZARD_SEARCH"}
  /\ StartedBy("meta") = {"DISTRIBUTIONAL_SURVIVAL_HAZARD_SEARCH"}
  /\ StartedBy("causal") = {"CAUSAL_TRANSITION_GRAPH_SEARCH"}
  /\ StartedBy("rty_null") = {"CAUSAL_TRANSITION_MATCHED_NULL_AND_MUTATION"}
  /\ StartedBy("trio") = {"PORTFOLIO_ROLE_AND_PROMISING_LINEAGE_MUTATION"}
  /\ StartedBy("admission") = {"PROMISING_CHILD_RAW_REPLAY_AND_SHADOW_ADMISSION"}
  /\ StartedBy("child") = {"POST_MUTATION_CHILD_SHADOW_ACTIVATION"}
  /\ StartedBy("role_epoch") = {"ROLE_CONDITIONED_STRUCTURAL_DISCOVERY_EPOCH"}
  /\ StartedBy("preclose") = {"EQUITY_PRECLOSE_INVENTORY_DISPERSION"}
BY StageTable DEF StartedBy, TrioBlocker

\* Which results lead to the stages that no finding of another stage guards.
LEMMA LedBy ==
  ASSUME NEW s \in Experiments
  PROVE
    /\ Leads(s, "contract_map") => (s = "pilot" /\ row[s] \in {"rebuild"})
    /\ Leads(s, "v3_design") => (s = "contract_map" /\ row[s] \in {"repaired"})
    /\ Leads(s, "path_geometry") => (s = "v3" /\ row[s] \in {"insufficient"})
    /\ Leads(s, "metal_energy") => (s = "path_geometry" /\ row[s] \in {"none"})
    /\ Leads(s, "cross_market") => (s = "metal_energy" /\ row[s] \in {"none"})
    /\ Leads(s, "volatility") => (s = "cross_market" /\ row[s] \in {"done"}) \/ (s =
         "volatility" /\ row[s] \in {"done"})
    /\ Leads(s, "foundry") => (s = "cross_market" /\ row[s] \in {"done"}) \/ (s =
         "volatility" /\ row[s] \in {"done"})
    /\ Leads(s, "equity_open_gap") => (s = "foundry" /\ row[s] \in {"valid"})
    /\ Leads(s, "continuation") => (s = "equity_open_gap" /\ row[s] \in
         {"falsified"})
    /\ Leads(s, "q4_freeze") => (s = "equity_open_gap" /\ row[s] \in {"q4"}) \/ (s =
         "continuation" /\ row[s] \in {"q4"})
    /\ Leads(s, "opening_hazard") => (s = "equity_open_gap" /\ row[s] \in
         {"promising"}) \/ (s = "continuation" /\ row[s] \in {"none"}) \/ (s =
         "q4_freeze" /\ row[s] \in {"ready"})
    /\ Leads(s, "cross_ecology") => (s = "opening_hazard" /\ row[s] \in {"none"})
    /\ Leads(s, "mtf") => (s = "cross_ecology" /\ row[s] \in {"none"})
    /\ Leads(s, "rty_ym") => (s = "mtf" /\ row[s] \in {"none"})
    /\ Leads(s, "ym_risk_off") => (s = "rty_ym" /\ row[s] \in {"none"})
    /\ Leads(s, "qd") => (s = "ym_risk_off" /\ row[s] \in {"none"})
    /\ Leads(s, "ym_strict") => (s = "ym_risk_off" /\ row[s] \in {"none"}) \/ (s =
         "qd" /\ row[s] \in {"none", "shadow", "promising"})
    /\ Leads(s, "primary_context") => (s = "policy_repair" /\ row[s] \in {"passed"})
         \/ (s = "alpha" /\ row[s] \in {"calibrated"})
    /\ Leads(s, "counterfactual") => (s = "primary_context" /\ row[s] \in
         {"falsified", "no_primary"})
    /\ Leads(s, "barrier") => (s = "counterfactual" /\ row[s] \in {"falsified",
         "no_primary"})
    /\ Leads(s, "barrier_shadow") => (s = "barrier" /\ row[s] \in {"shadow",
         "several"})
    /\ Leads(s, "energy_metals") => (s = "barrier" /\ row[s] \in {"none"}) \/ (s =
         "barrier_shadow" /\ row[s] \in {"activated"})
    /\ Leads(s, "session_geometry") => (s = "energy_metals" /\ row[s] \in {"none"})
    /\ Leads(s, "micro_repair") => (s = "session_geometry" /\ row[s] \in
         {"promising"})
    /\ Leads(s, "micro_shadow") => (s = "micro_repair" /\ row[s] \in {"shadow"})
    /\ Leads(s, "gc_fresh") => (s = "micro_shadow" /\ row[s] \in {"activated"})
    /\ Leads(s, "cross_asset") => (s = "session_geometry" /\ row[s] \in {"none"}) \/
         (s = "micro_repair" /\ row[s] \in {"falsified"}) \/ (s = "gc_fresh" /\
         row[s] \in {"falsified"})
    /\ Leads(s, "cross_asset_shadow") => (s = "cross_asset" /\ row[s] \in {"shadow",
         "several"})
    /\ Leads(s, "baskets") => (s = "cross_asset_shadow" /\ row[s] \in {"activated"})
    /\ Leads(s, "survival") => (s = "baskets" /\ row[s] \in {"three"})
    /\ Leads(s, "meta") => (s = "baskets" /\ row[s] \in {"three"})
    /\ Leads(s, "causal") => (s = "survival" /\ row[s] \in {"insufficient",
         "uncontrolled"})
    /\ Leads(s, "rty_null") => (s = "causal" /\ row[s] \in {"several", "one"})
    /\ Leads(s, "trio") => (s = "rty_null" /\ row[s] \in {"none"})
    /\ Leads(s, "admission") => (s = "halving" /\ row[s] \in {"selected"})
    /\ Leads(s, "child") => (s = "admission" /\ row[s] \in {"one"})
    /\ Leads(s, "role_epoch") => (s = "halving" /\ row[s] \in {"none"}) \/ (s =
         "admission" /\ row[s] \in {"none"}) \/ (s = "child" /\ row[s] \in
         {"activated"})
    /\ Leads(s, "preclose") => (s = "role_epoch" /\ row[s] \in {"insufficient"})
<1>1. ASSUME NEW n, Leads(s, n)
      PROVE  /\ row[s] \in DOMAIN Route[s]
             /\ Route[s][row[s]].ask \in StartedBy(n) \/ Route[s][row[s]].next = n
  <2>1. /\ row[s] \in DOMAIN Route[s]
        /\ n \in Starters(Route[s][row[s]].ask) \/ Route[s][row[s]].next = n
    BY <1>1 DEF Leads, Completed, AskOf, NextOf
  <2> QED BY <2>1, Asks
<1>2. CASE row[s] \notin DOMAIN Route[s]
  BY <1>1, <1>2
<1>3. CASE row[s] \in DOMAIN Route[s]
  <2> PICK f \in DOMAIN Route[s] : f = row[s]
    BY <1>3
  <2> PICK a, x : a = Route[s][f].ask /\ x = Route[s][f].next
    OBVIOUS
  <2>0. \A n : Leads(s, n) => a \in StartedBy(n) \/ x = n
    BY <1>1
  <2>1. RouteCase(s, f) /\ \A ask, next : Says(s, f, ask, next) => ask = a /\ next = x
    BY RouteTable DEF Says
  <2>2. /\ Leads(s, "contract_map") => (s = "pilot" /\ row[s] \in {"rebuild"})
        /\ Leads(s, "v3_design") => (s = "contract_map" /\ row[s] \in {"repaired"})
        /\ Leads(s, "path_geometry") => (s = "v3" /\ row[s] \in {"insufficient"})
        /\ Leads(s, "metal_energy") => (s = "path_geometry" /\ row[s] \in {"none"})
        /\ Leads(s, "cross_market") => (s = "metal_energy" /\ row[s] \in {"none"})
        /\ Leads(s, "volatility") => (s = "cross_market" /\ row[s] \in {"done"}) \/ (s
           = "volatility" /\ row[s] \in {"done"})
        /\ Leads(s, "foundry") => (s = "cross_market" /\ row[s] \in {"done"}) \/ (s =
           "volatility" /\ row[s] \in {"done"})
        /\ Leads(s, "equity_open_gap") => (s = "foundry" /\ row[s] \in {"valid"})
    BY SMTT(20), <2>0, <2>1, StartTable DEF RouteCase
  <2>3. /\ Leads(s, "continuation") => (s = "equity_open_gap" /\ row[s] \in
           {"falsified"})
        /\ Leads(s, "q4_freeze") => (s = "equity_open_gap" /\ row[s] \in {"q4"}) \/ (s
           = "continuation" /\ row[s] \in {"q4"})
        /\ Leads(s, "opening_hazard") => (s = "equity_open_gap" /\ row[s] \in
           {"promising"}) \/ (s = "continuation" /\ row[s] \in {"none"}) \/ (s =
           "q4_freeze" /\ row[s] \in {"ready"})
        /\ Leads(s, "cross_ecology") => (s = "opening_hazard" /\ row[s] \in {"none"})
        /\ Leads(s, "mtf") => (s = "cross_ecology" /\ row[s] \in {"none"})
        /\ Leads(s, "rty_ym") => (s = "mtf" /\ row[s] \in {"none"})
        /\ Leads(s, "ym_risk_off") => (s = "rty_ym" /\ row[s] \in {"none"})
        /\ Leads(s, "qd") => (s = "ym_risk_off" /\ row[s] \in {"none"})
    BY SMTT(20), <2>0, <2>1, StartTable DEF RouteCase
  <2>4. /\ Leads(s, "ym_strict") => (s = "ym_risk_off" /\ row[s] \in {"none"}) \/ (s =
           "qd" /\ row[s] \in {"none", "shadow", "promising"})
        /\ Leads(s, "primary_context") => (s = "policy_repair" /\ row[s] \in
           {"passed"}) \/ (s = "alpha" /\ row[s] \in {"calibrated"})
        /\ Leads(s, "counterfactual") => (s = "primary_context" /\ row[s] \in
           {"falsified", "no_primary"})
        /\ Leads(s, "barrier") => (s = "counterfactual" /\ row[s] \in {"falsified",
           "no_primary"})
        /\ Leads(s, "barrier_shadow") => (s = "barrier" /\ row[s] \in {"shadow",
           "several"})
        /\ Leads(s, "energy_metals") => (s = "barrier" /\ row[s] \in {"none"}) \/ (s =
           "barrier_shadow" /\ row[s] \in {"activated"})
        /\ Leads(s, "session_geometry") => (s = "energy_metals" /\ row[s] \in
           {"none"})
        /\ Leads(s, "micro_repair") => (s = "session_geometry" /\ row[s] \in
           {"promising"})
    BY SMTT(20), <2>0, <2>1, StartTable DEF RouteCase
  <2>5. /\ Leads(s, "micro_shadow") => (s = "micro_repair" /\ row[s] \in {"shadow"})
        /\ Leads(s, "gc_fresh") => (s = "micro_shadow" /\ row[s] \in {"activated"})
        /\ Leads(s, "cross_asset") => (s = "session_geometry" /\ row[s] \in {"none"})
           \/ (s = "micro_repair" /\ row[s] \in {"falsified"}) \/ (s = "gc_fresh" /\
           row[s] \in {"falsified"})
        /\ Leads(s, "cross_asset_shadow") => (s = "cross_asset" /\ row[s] \in
           {"shadow", "several"})
        /\ Leads(s, "baskets") => (s = "cross_asset_shadow" /\ row[s] \in
           {"activated"})
        /\ Leads(s, "survival") => (s = "baskets" /\ row[s] \in {"three"})
        /\ Leads(s, "meta") => (s = "baskets" /\ row[s] \in {"three"})
        /\ Leads(s, "causal") => (s = "survival" /\ row[s] \in {"insufficient",
           "uncontrolled"})
    BY SMTT(20), <2>0, <2>1, StartTable DEF RouteCase
  <2>6. /\ Leads(s, "rty_null") => (s = "causal" /\ row[s] \in {"several", "one"})
        /\ Leads(s, "trio") => (s = "rty_null" /\ row[s] \in {"none"})
        /\ Leads(s, "admission") => (s = "halving" /\ row[s] \in {"selected"})
        /\ Leads(s, "child") => (s = "admission" /\ row[s] \in {"one"})
        /\ Leads(s, "role_epoch") => (s = "halving" /\ row[s] \in {"none"}) \/ (s =
           "admission" /\ row[s] \in {"none"}) \/ (s = "child" /\ row[s] \in
           {"activated"})
        /\ Leads(s, "preclose") => (s = "role_epoch" /\ row[s] \in {"insufficient"})
    BY SMTT(20), <2>0, <2>1, StartTable DEF RouteCase
  <2> QED BY <2>2, <2>3, <2>4, <2>5, <2>6
<1> QED BY <1>2, <1>3

\* What a stage needs of one experiment.
LEMMA MeetsOne ==
  ASSUME NEW N, Meets(N), NEW x, NEW F, <<x, F>> \in N
  PROVE  row[x] \in F
BY DEF Meets

\* The rows that exist are behind one another.
LEMMA Chain ==
  ASSUME \A t \in Experiments : row[t] # "absent" => Grounds(t)
  PROVE
    /\ row["contract_map"] # "absent" => row["pilot"] = "rebuild"
    /\ row["v3_design"] # "absent" => row["contract_map"] = "repaired"
    /\ row["v3"] # "absent" => row["v3_design"] = "preregistered"
    /\ row["path_geometry"] # "absent" => row["v3"] = "insufficient"
    /\ row["metal_energy"] # "absent" => row["path_geometry"] = "none"
    /\ row["cross_market"] # "absent" => row["metal_energy"] = "none"
    /\ row["volatility"] # "absent" => row["cross_market"] = "done"
    /\ row["foundry"] # "absent" => (row["cross_market"] = "done" \/
         row["volatility"] = "done")
    /\ row["equity_open_gap"] # "absent" => row["foundry"] = "valid"
    /\ row["continuation"] # "absent" => row["equity_open_gap"] = "falsified"
    /\ row["q4_freeze"] # "absent" => row["continuation"] = "q4"
    /\ row["opening_hazard"] # "absent" => (row["equity_open_gap"] = "promising" \/
         row["continuation"] = "none" \/ row["q4_freeze"] = "ready")
    /\ row["cross_ecology"] # "absent" => row["opening_hazard"] = "none"
    /\ row["mtf"] # "absent" => row["cross_ecology"] = "none"
    /\ row["rty_ym"] # "absent" => row["mtf"] = "none"
    /\ row["ym_risk_off"] # "absent" => row["rty_ym"] = "none"
    /\ row["qd"] # "absent" => row["ym_risk_off"] = "none"
    /\ row["ym_strict"] # "absent" => (row["ym_risk_off"] = "none" \/ row["qd"] \in
         {"none", "shadow", "promising"})
    /\ row["ym_shadow"] # "absent" => row["ym_strict"] = "eligible"
    /\ row["alpha"] # "absent" => row["policy_repair"] = "failed"
    /\ row["primary_context"] # "absent" => row["alpha"] = "calibrated"
    /\ row["counterfactual"] # "absent" => row["primary_context"] = "falsified"
    /\ row["barrier"] # "absent" => row["counterfactual"] = "no_primary"
    /\ row["barrier_shadow"] # "absent" => row["barrier"] = "shadow"
    /\ row["energy_metals"] # "absent" => (row["barrier"] = "none" \/
         row["barrier_shadow"] = "activated")
    /\ row["session_geometry"] # "absent" => row["energy_metals"] # "absent"
    /\ row["micro_repair"] # "absent" => row["session_geometry"] = "promising"
    /\ row["micro_shadow"] # "absent" => row["micro_repair"] = "shadow"
    /\ row["gc_fresh"] # "absent" => row["micro_shadow"] = "activated"
    /\ row["cross_asset"] # "absent" => row["gc_fresh"] = "falsified"
    /\ row["cross_asset_shadow"] # "absent" => row["cross_asset"] = "shadow"
    /\ row["baskets"] # "absent" => row["cross_asset_shadow"] = "activated" /\
         row["micro_shadow"] = "activated" /\ row["ym_shadow"] = "activated" /\
         row["barrier_shadow"] = "activated"
    /\ row["survival"] # "absent" => row["baskets"] = "three"
    /\ row["causal"] # "absent" => row["survival"] = "insufficient"
    /\ row["rty_null"] # "absent" => row["causal"] = "one"
    /\ row["mutation"] # "absent" => row["rty_null"] = "none"
    /\ row["role_research"] # "absent" => row["rty_null"] = "none"
    /\ row["feed_audit"] # "absent" => row["rty_null"] = "none"
    /\ row["halving"] # "absent" => ~Unfinished
    /\ row["admission"] # "absent" => row["halving"] = "selected"
    /\ row["child"] # "absent" => row["admission"] = "one"
    /\ row["role_epoch"] # "absent" => row["child"] = "activated"
    /\ row["preclose"] # "absent" => row["role_epoch"] = "insufficient"
<1>0. ASSUME NEW t \in Experiments, row[t] # "absent", NEW x, NEW F,
             <<x, F>> \in Stages[t].after \/ <<x, F>> \in Stages[t].frozen
      PROVE  row[x] \in F
  BY <1>0, MeetsOne DEF Grounds
<1>T1. /\ <<"pilot", {"rebuild"}>> \in Stages["contract_map"].after
       /\ <<"contract_map", DOMAIN Route["contract_map"]>> \in Stages["v3_design"].frozen
       /\ <<"v3_design", {"preregistered"}>> \in Stages["v3"].after
       /\ <<"equity_open_gap", {"falsified"}>> \in Stages["continuation"].frozen
       /\ <<"continuation", {"q4"}>> \in Stages["q4_freeze"].frozen
       /\ <<"ym_strict", {"eligible"}>> \in Stages["ym_shadow"].frozen
       /\ <<"policy_repair", {"failed"}>> \in Stages["alpha"].frozen
  BY StageTable DEF Done
<1>T2. /\ <<"alpha", {"calibrated"}>> \in Stages["primary_context"].frozen
       /\ <<"primary_context", {"falsified"}>> \in Stages["counterfactual"].after
       /\ <<"counterfactual", {"no_primary"}>> \in Stages["barrier"].after
       /\ <<"barrier", {"shadow"}>> \in Stages["barrier_shadow"].after
       /\ <<"energy_metals", DOMAIN Route["energy_metals"]>> \in Stages["session_geometry"].after
       /\ <<"session_geometry", {"promising"}>> \in Stages["micro_repair"].after
       /\ <<"micro_repair", {"shadow"}>> \in Stages["micro_shadow"].after
  BY StageTable DEF Done
<1>T3. /\ <<"micro_shadow", {"activated"}>> \in Stages["gc_fresh"].after
       /\ <<"gc_fresh", {"falsified"}>> \in Stages["cross_asset"].after
       /\ <<"cross_asset", {"shadow"}>> \in Stages["cross_asset_shadow"].after
       /\ <<"cross_asset_shadow", DOMAIN Route["cross_asset_shadow"]>> \in Stages["baskets"].after
       /\ <<"micro_shadow", DOMAIN Route["micro_shadow"]>> \in Stages["baskets"].after
       /\ <<"ym_shadow", DOMAIN Route["ym_shadow"]>> \in Stages["baskets"].after
       /\ <<"barrier_shadow", DOMAIN Route["barrier_shadow"]>> \in Stages["baskets"].after
  BY StageTable DEF Done
<1>T4. /\ <<"baskets", {"three"}>> \in Stages["survival"].after
       /\ <<"survival", {"insufficient"}>> \in Stages["causal"].after
       /\ <<"causal", {"one"}>> \in Stages["rty_null"].after
       /\ <<"admission", {"one"}>> \in Stages["child"].after
       /\ <<"child", DOMAIN Route["child"]>> \in Stages["role_epoch"].after
       /\ <<"role_epoch", {"insufficient"}>> \in Stages["preclose"].after
  BY StageTable DEF Done
<1>L. \A t \in {"path_geometry", "metal_energy", "cross_market", "volatility",
                "foundry", "equity_open_gap", "opening_hazard", "cross_ecology", "mtf",
                "rty_ym", "ym_risk_off", "qd", "ym_strict", "energy_metals",
                "admission"} :
        row[t] # "absent" => \E s \in Experiments \ {t} : Leads(s, t)
  BY StartNames, TrioNames, ExperimentNames DEF Grounds, StageOf
<1>M. \A t \in {"mutation", "role_research", "feed_audit"} :
        row[t] # "absent" => \E s \in Experiments \ {t} : Leads(s, "trio")
  BY StartNames, TrioNames, ExperimentNames DEF Grounds, StageOf
<1>1. ASSUME row["contract_map"] # "absent"
      PROVE  row["pilot"] = "rebuild"
  BY <1>0, <1>1, <1>T1, ExperimentNames
<1>2. ASSUME row["v3_design"] # "absent"
      PROVE  row["contract_map"] = "repaired"
  <2>1. "v3_design" \in Experiments
    BY ExperimentNames
  <2>3. row["contract_map"] \in DOMAIN Route["contract_map"]
    BY <1>0, <1>2, <2>1, <1>T1
  <2>4. DOMAIN Route["contract_map"] \subseteq {"repaired"}
    BY ExperimentNames, RouteTable DEF RouteCase
  <2> QED BY <2>3, <2>4
<1>3. ASSUME row["v3"] # "absent"
      PROVE  row["v3_design"] = "preregistered"
  BY <1>0, <1>3, <1>T1, ExperimentNames
<1>4. ASSUME row["path_geometry"] # "absent"
      PROVE  row["v3"] = "insufficient"
  <2> PICK s \in Experiments \ {"path_geometry"} : Leads(s, "path_geometry")
    BY <1>L, <1>4
  <2> QED BY LedBy
<1>5. ASSUME row["metal_energy"] # "absent"
      PROVE  row["path_geometry"] = "none"
  <2> PICK s \in Experiments \ {"metal_energy"} : Leads(s, "metal_energy")
    BY <1>L, <1>5
  <2> QED BY LedBy
<1>6. ASSUME row["cross_market"] # "absent"
      PROVE  row["metal_energy"] = "none"
  <2> PICK s \in Experiments \ {"cross_market"} : Leads(s, "cross_market")
    BY <1>L, <1>6
  <2> QED BY LedBy
<1>7. ASSUME row["volatility"] # "absent"
      PROVE  row["cross_market"] = "done"
  <2> PICK s \in Experiments \ {"volatility"} : Leads(s, "volatility")
    BY <1>L, <1>7
  <2> QED BY LedBy
<1>8. ASSUME row["foundry"] # "absent"
      PROVE  (row["cross_market"] = "done" \/ row["volatility"] = "done")
  <2> PICK s \in Experiments \ {"foundry"} : Leads(s, "foundry")
    BY <1>L, <1>8
  <2> QED BY LedBy
<1>9. ASSUME row["equity_open_gap"] # "absent"
      PROVE  row["foundry"] = "valid"
  <2> PICK s \in Experiments \ {"equity_open_gap"} : Leads(s, "equity_open_gap")
    BY <1>L, <1>9
  <2> QED BY LedBy
<1>10. ASSUME row["continuation"] # "absent"
      PROVE  row["equity_open_gap"] = "falsified"
  BY <1>0, <1>10, <1>T1, ExperimentNames
<1>11. ASSUME row["q4_freeze"] # "absent"
      PROVE  row["continuation"] = "q4"
  BY <1>0, <1>11, <1>T1, ExperimentNames
<1>12. ASSUME row["opening_hazard"] # "absent"
      PROVE  (row["equity_open_gap"] = "promising" \/ row["continuation"] = "none"
             \/ row["q4_freeze"] = "ready")
  <2> PICK s \in Experiments \ {"opening_hazard"} : Leads(s, "opening_hazard")
    BY <1>L, <1>12
  <2> QED BY LedBy
<1>13. ASSUME row["cross_ecology"] # "absent"
      PROVE  row["opening_hazard"] = "none"
  <2> PICK s \in Experiments \ {"cross_ecology"} : Leads(s, "cross_ecology")
    BY <1>L, <1>13
  <2> QED BY LedBy
<1>14. ASSUME row["mtf"] # "absent"
      PROVE  row["cross_ecology"] = "none"
  <2> PICK s \in Experiments \ {"mtf"} : Leads(s, "mtf")
    BY <1>L, <1>14
  <2> QED BY LedBy
<1>15. ASSUME row["rty_ym"] # "absent"
      PROVE  row["mtf"] = "none"
  <2> PICK s \in Experiments \ {"rty_ym"} : Leads(s, "rty_ym")
    BY <1>L, <1>15
  <2> QED BY LedBy
<1>16. ASSUME row["ym_risk_off"] # "absent"
      PROVE  row["rty_ym"] = "none"
  <2> PICK s \in Experiments \ {"ym_risk_off"} : Leads(s, "ym_risk_off")
    BY <1>L, <1>16
  <2> QED BY LedBy
<1>17. ASSUME row["qd"] # "absent"
      PROVE  row["ym_risk_off"] = "none"
  <2> PICK s \in Experiments \ {"qd"} : Leads(s, "qd")
    BY <1>L, <1>17
  <2> QED BY LedBy
<1>18. ASSUME row["ym_strict"] # "absent"
      PROVE  (row["ym_risk_off"] = "none" \/ row["qd"] \in {"none", "shadow",
             "promising"})
  <2> PICK s \in Experiments \ {"ym_strict"} : Leads(s, "ym_strict")
    BY <1>L, <1>18
  <2> QED BY LedBy
<1>19. ASSUME row["ym_shadow"] # "absent"
      PROVE  row["ym_strict"] = "eligible"
  BY <1>0, <1>19, <1>T1, ExperimentNames
<1>20. ASSUME row["alpha"] # "absent"
      PROVE  row["policy_repair"] = "failed"
  BY <1>0, <1>20, <1>T1, ExperimentNames
<1>21. ASSUME row["primary_context"] # "absent"
      PROVE  row["alpha"] = "calibrated"
  BY <1>0, <1>21, <1>T2, ExperimentNames
<1>22. ASSUME row["counterfactual"] # "absent"
      PROVE  row["primary_context"] = "falsified"
  BY <1>0, <1>22, <1>T2, ExperimentNames
<1>23. ASSUME row["barrier"] # "absent"
      PROVE  row["counterfactual"] = "no_primary"
  BY <1>0, <1>23, <1>T2, ExperimentNames
<1>24. ASSUME row["barrier_shadow"] # "absent"
      PROVE  row["barrier"] = "shadow"
  BY <1>0, <1>24, <1>T2, ExperimentNames
<1>25. ASSUME row["energy_metals"] # "absent"
      PROVE  (row["barrier"] = "none" \/ row["barrier_shadow"] = "activated")
  <2> PICK s \in Experiments \ {"energy_metals"} : Leads(s, "energy_metals")
    BY <1>L, <1>25
  <2> QED BY LedBy
<1>26. ASSUME row["session_geometry"] # "absent"
      PROVE  row["energy_metals"] # "absent"
  <2>1. "session_geometry" \in Experiments
    BY ExperimentNames
  <2>3. row["energy_metals"] \in DOMAIN Route["energy_metals"]
    BY <1>0, <1>26, <2>1, <1>T2
  <2>4. Plainly(Route["energy_metals"])
    BY ExperimentNames, FindingsAreNoStatus
  <2> QED BY <2>3, <2>4 DEF Plainly
<1>27. ASSUME row["micro_repair"] # "absent"
      PROVE  row["session_geometry"] = "promising"
  BY <1>0, <1>27, <1>T2, ExperimentNames
<1>28. ASSUME row["micro_shadow"] # "absent"
      PROVE  row["micro_repair"] = "shadow"
  BY <1>0, <1>28, <1>T2, ExperimentNames
<1>29. ASSUME row["gc_fresh"] # "absent"
      PROVE  row["micro_shadow"] = "activated"
  BY <1>0, <1>29, <1>T3, ExperimentNames
<1>30. ASSUME row["cross_asset"] # "absent"
      PROVE  row["gc_fresh"] = "falsified"
  BY <1>0, <1>30, <1>T3, ExperimentNames
<1>31. ASSUME row["cross_asset_shadow"] # "absent"
      PROVE  row["cross_asset"] = "shadow"
  BY <1>0, <1>31, <1>T3, ExperimentNames
<1>32. ASSUME row["baskets"] # "absent"
      PROVE  row["cross_asset_shadow"] = "activated" /\ row["micro_shadow"] =
             "activated" /\ row["ym_shadow"] = "activated" /\ row["barrier_shadow"]
             = "activated"
  <2>1. "baskets" \in Experiments
    BY ExperimentNames
  <2>3. row["cross_asset_shadow"] \in DOMAIN Route["cross_asset_shadow"]
    BY <1>0, <1>32, <2>1, <1>T3
  <2>4. DOMAIN Route["cross_asset_shadow"] \subseteq {"activated"}
    BY ExperimentNames, RouteTable DEF RouteCase
  <2>5. row["micro_shadow"] \in DOMAIN Route["micro_shadow"]
    BY <1>0, <1>32, <2>1, <1>T3
  <2>6. DOMAIN Route["micro_shadow"] \subseteq {"activated"}
    BY ExperimentNames, RouteTable DEF RouteCase
  <2>7. row["ym_shadow"] \in DOMAIN Route["ym_shadow"]
    BY <1>0, <1>32, <2>1, <1>T3
  <2>8. DOMAIN Route["ym_shadow"] \subseteq {"activated"}
    BY ExperimentNames, RouteTable DEF RouteCase
  <2>9. row["barrier_shadow"] \in DOMAIN Route["barrier_shadow"]
    BY <1>0, <1>32, <2>1, <1>T3
  <2>10. DOMAIN Route["barrier_shadow"] \subseteq {"activated"}
    BY ExperimentNames, RouteTable DEF RouteCase
  <2> QED BY <2>3, <2>4, <2>5, <2>6, <2>7, <2>8, <2>9, <2>10
<1>33. ASSUME row["survival"] # "absent"
      PROVE  row["baskets"] = "three"
  BY <1>0, <1>33, <1>T4, ExperimentNames
<1>34. ASSUME row["causal"] # "absent"
      PROVE  row["survival"] = "insufficient"
  BY <1>0, <1>34, <1>T4, ExperimentNames
<1>35. ASSUME row["rty_null"] # "absent"
      PROVE  row["causal"] = "one"
  BY <1>0, <1>35, <1>T4, ExperimentNames
<1>36. ASSUME row["mutation"] # "absent"
      PROVE  row["rty_null"] = "none"
  <2> PICK s \in Experiments \ {"mutation"} : Leads(s, "trio")
    BY <1>M, <1>36
  <2> QED BY LedBy
<1>37. ASSUME row["role_research"] # "absent"
      PROVE  row["rty_null"] = "none"
  <2> PICK s \in Experiments \ {"role_research"} : Leads(s, "trio")
    BY <1>M, <1>37
  <2> QED BY LedBy
<1>38. ASSUME row["feed_audit"] # "absent"
      PROVE  row["rty_null"] = "none"
  <2> PICK s \in Experiments \ {"feed_audit"} : Leads(s, "trio")
    BY <1>M, <1>38
  <2> QED BY LedBy
<1>39. ASSUME row["halving"] # "absent"
      PROVE  ~Unfinished
  <2>1. "halving" \in Experiments
    BY ExperimentNames
  <2> QED BY <1>39, <2>1 DEF Grounds
<1>40. ASSUME row["admission"] # "absent"
      PROVE  row["halving"] = "selected"
  <2> PICK s \in Experiments \ {"admission"} : Leads(s, "admission")
    BY <1>L, <1>40
  <2> QED BY LedBy
<1>41. ASSUME row["child"] # "absent"
      PROVE  row["admission"] = "one"
  BY <1>0, <1>41, <1>T4, ExperimentNames
<1>42. ASSUME row["role_epoch"] # "absent"
      PROVE  row["child"] = "activated"
  <2>1. "role_epoch" \in Experiments
    BY ExperimentNames
  <2>3. row["child"] \in DOMAIN Route["child"]
    BY <1>0, <1>42, <2>1, <1>T4
  <2>4. DOMAIN Route["child"] \subseteq {"activated"}
    BY ExperimentNames, RouteTable DEF RouteCase
  <2> QED BY <2>3, <2>4
<1>43. ASSUME row["preclose"] # "absent"
      PROVE  row["role_epoch"] = "insufficient"
  BY <1>0, <1>43, <1>T4, ExperimentNames
<1> QED BY <1>1, <1>2, <1>3, <1>4, <1>5, <1>6, <1>7, <1>8, <1>9, <1>10, <1>11,
  <1>12, <1>13, <1>14, <1>15, <1>16, <1>17, <1>18, <1>19, <1>20, <1>21, <1>22,
  <1>23, <1>24, <1>25, <1>26, <1>27, <1>28, <1>29, <1>30, <1>31, <1>32, <1>33,
  <1>34, <1>35, <1>36, <1>37, <1>38, <1>39, <1>40, <1>41, <1>42, <1>43

-----------------------------------------------------------------------------
(* The line of experiments that leads to the portfolio mutation.           *)

\* What "none" asks for.
LEMMA NoneIsNoAsk == ~IsAsk("none") /\ Starters("none") = {}
<1>1. ASSUME NEW u \in ToSet(StartOrder), u # "halving" PROVE "none" \notin StartedBy(u)
  BY <1>1, StartNames, StartTable
<1>2. ~IsAsk("none")
  BY <1>1, Asks
<1> QED BY <1>2 DEF IsAsk

\* When the trio is done, its line is complete.
LEMMA Line ==
  ASSUME \A t \in Experiments : row[t] # "absent" => Grounds(t), ~Unfinished
  PROVE  /\ row["rty_null"] = "none" /\ row["causal"] = "one" /\ row["survival"] = "insufficient"
         /\ row["baskets"] = "three" /\ row["cross_asset_shadow"] = "activated"
         /\ row["cross_asset"] = "shadow" /\ row["gc_fresh"] = "falsified"
         /\ row["micro_shadow"] = "activated" /\ row["micro_repair"] = "shadow"
         /\ row["session_geometry"] = "promising" /\ row["energy_metals"] # "absent"
         /\ row["barrier_shadow"] = "activated" /\ row["barrier"] = "shadow"
         /\ row["counterfactual"] = "no_primary" /\ row["primary_context"] = "falsified"
         /\ row["ym_shadow"] = "activated" /\ row["ym_strict"] = "eligible"
         /\ row["ym_risk_off"] = "none" /\ row["rty_ym"] = "none" /\ row["mtf"] = "none"
         /\ row["cross_ecology"] = "none" /\ row["opening_hazard"] = "none"
         /\ row["alpha"] = "calibrated" /\ row["policy_repair"] = "failed"
         /\ \A t \in ToSet(Trio) : row[t] # "absent" /\ row[t] # "QUEUED"
<1>1. ASSUME NEW t \in ToSet(Trio) PROVE row[t] # "absent" /\ row[t] # "QUEUED"
  <2>1. t \in Experiments
    BY TrioNames, ExperimentNames
  <2> QED BY <2>1, FindingsAreNoStatus DEF Unfinished, Completed, Plainly
<1>2. row["mutation"] # "absent"
  BY <1>1, TrioNames
<1> QED BY <1>1, <1>2, Chain

\* The beginning of the line.
LEMMA LineBegins ==
  ASSUME \A t \in Experiments : row[t] # "absent" => Grounds(t), row["opening_hazard"] # "absent"
  PROVE  /\ row["equity_open_gap"] # "absent" /\ row["foundry"] = "valid"
         /\ row["cross_market"] = "done" /\ row["metal_energy"] = "none"
         /\ row["path_geometry"] = "none" /\ row["v3"] = "insufficient"
         /\ row["v3_design"] = "preregistered" /\ row["contract_map"] = "repaired"
         /\ row["pilot"] = "rebuild"
         /\ row["equity_open_gap"] = "falsified" => row["continuation"] # "absent"
         /\ row["equity_open_gap"] = "q4" => row["q4_freeze"] # "absent"
         /\ row["continuation"] = "q4" => row["q4_freeze"] # "absent"
BY Chain

\* Then no result waits for its follow-up.
LEMMA NoneOpen ==
  ASSUME \A t \in Experiments : row[t] # "absent" => Grounds(t), ~Unfinished,
         row["halving"] = "absent", NEW s \in Experiments, Open(s)
  PROVE  FALSE
<1>1. PICK t \in Starters(AskOf(s)) : TRUE
  BY DEF Open, IsAsk
<1>2. t \in ToSet(StartOrder) /\ t # "halving" /\ Leads(s, t)
  BY <1>1, Asks DEF Open, Leads
<1>3. \A u \in Starters(AskOf(s)) : u # "trio" => row[u] = "absent"
  BY DEF Open, Untouched
<1>4. ~(t = "trio")
  <2>1. "mutation" \in ToSet(Trio)
    BY TrioNames
  <2> QED BY <1>1, <2>1, Line DEF Open, Untouched
<1>5. row[t] = "absent"
  BY <1>1, <1>3, <1>4
<1>6. AskOf(s) \in StartedBy(t)
  BY <1>1, Asks
<1>7. row["halving"] # "selected"
  OBVIOUS
<1>8. t \notin {"contract_map", "v3_design", "path_geometry", "metal_energy",
               "cross_market", "foundry", "equity_open_gap", "opening_hazard",
               "cross_ecology", "mtf", "rty_ym", "ym_risk_off", "ym_strict"}
  BY <1>5, Line, LineBegins
<1>9. t \notin {"primary_context", "counterfactual", "barrier", "barrier_shadow",
               "energy_metals", "session_geometry", "micro_repair", "micro_shadow",
               "gc_fresh", "cross_asset", "cross_asset_shadow", "baskets", "survival",
               "causal", "rty_null"}
  BY <1>5, Line, Chain
<1>10. t \in {"volatility", "continuation", "q4_freeze", "qd", "meta", "admission",
             "child", "role_epoch", "preclose"}
  BY <1>2, <1>4, <1>8, <1>9, StartNames
<1>11. CASE t = "volatility"
  <2>1. "foundry" \in Starters(AskOf(s))
    <3>1. StartedBy("volatility") = {"NEW_REPRESENTATION_PIVOT"}
          /\ StartedBy("foundry") = {"NEW_REPRESENTATION_PIVOT"}
      BY StartTable
    <3>2. "foundry" \in ToSet(StartOrder)
      BY StartNames
    <3> QED BY <1>6, <1>11, <3>1, <3>2, Asks
  <2>2. row["foundry"] # "absent"
    BY Line, LineBegins
  <2> QED BY <1>3, <2>1, <2>2
<1>12. CASE t = "qd"
  <2>1. "ym_strict" \in Starters(AskOf(s))
    <3>1. StartedBy("qd") = {"INVENTED_METHOD_OR_PORTFOLIO_SEARCH"}
          /\ "INVENTED_METHOD_OR_PORTFOLIO_SEARCH" \in StartedBy("ym_strict")
      BY StartTable
    <3>2. "ym_strict" \in ToSet(StartOrder)
      BY StartNames
    <3> QED BY <1>6, <1>12, <3>1, <3>2, Asks
  <2> QED BY <1>3, <2>1, Line
<1>13. CASE t = "meta"
  <2>1. "survival" \in Starters(AskOf(s))
    <3>1. StartedBy("survival") = {"DISTRIBUTIONAL_SURVIVAL_HAZARD_SEARCH"}
          /\ StartedBy("meta") = {"DISTRIBUTIONAL_SURVIVAL_HAZARD_SEARCH"}
      BY StartTable
    <3>2. "survival" \in ToSet(StartOrder)
      BY StartNames
    <3> QED BY <1>6, <1>13, <3>1, <3>2, Asks
  <2> QED BY <1>3, <2>1, Line
<1>14. CASE t \in {"continuation", "q4_freeze"}
  <2>1. \/ t = "continuation" /\ row["equity_open_gap"] = "falsified"
        \/ t = "q4_freeze" /\ (row["equity_open_gap"] = "q4" \/ row["continuation"] = "q4")
    BY <1>2, <1>14, LedBy
  <2> QED BY <1>5, <1>14, <2>1, Line, LineBegins
<1>15. CASE t \in {"admission", "child", "role_epoch", "preclose"}
  <2>1. \/ row["halving"] \in {"selected", "none"} \/ row["admission"] \in {"one", "none"}
        \/ row["child"] = "activated" \/ row["role_epoch"] = "insufficient"
    BY <1>2, <1>15, LedBy
  <2> QED BY <2>1, Chain
<1> QED BY <1>10, <1>11, <1>12, <1>13, <1>14, <1>15

\* Which experiments of a batch may ask for more.
LEMMA AskersOfBatch ==
  /\ \A r \in {"meta", "post_meta"} : Quiet(r)
  /\ \A r \in {"meta", "post_meta", "mutation", "role_research", "feed_audit"} : ~MayAsk(r)
<1>1. Route["meta"] = route_meta_failure_allocation
      /\ Route["post_meta"] = route_meta_failure_allocation
      /\ Route["mutation"] = route_promising_lineage_mutation
      /\ Route["role_research"] = route_portfolio_role_research
      /\ Route["feed_audit"] = route_forward_shadow_feed_audit
  BY DEF Route
<1>2. \A f \in DOMAIN route_meta_failure_allocation :
        route_meta_failure_allocation[f] = Quietly("none")
  BY DEF route_meta_failure_allocation
<1>3. \A r \in {"meta", "post_meta", "mutation", "role_research", "feed_audit"} :
        \A f \in DOMAIN Route[r] : Route[r][f].ask = "none"
  <2>1. \A f \in DOMAIN route_meta_failure_allocation :
          route_meta_failure_allocation[f].ask = "none"
    BY <1>2 DEF Quietly
  <2>2. \A f \in DOMAIN route_promising_lineage_mutation :
          route_promising_lineage_mutation[f].ask = "none"
    BY DEF Quietly, route_promising_lineage_mutation
  <2>3. \A f \in DOMAIN route_portfolio_role_research :
          route_portfolio_role_research[f].ask = "none"
    BY DEF Quietly, route_portfolio_role_research
  <2>4. \A f \in DOMAIN route_forward_shadow_feed_audit :
          route_forward_shadow_feed_audit[f].ask = "none"
    BY DEF Quietly, route_forward_shadow_feed_audit
  <2> QED BY <1>1, <2>1, <2>2, <2>3, <2>4
<1> QED BY <1>1, <1>2, <1>3, NoneIsNoAsk DEF Quiet, MayAsk

\* Of two experiments that are queued at once for a batch, one that may ask is
\* alone with what has nothing to say.
LEMMA OneQueuedAsks ==
  ASSUME \A t \in Experiments : row[t] # "absent" => Grounds(t),
         NEW x \in ParallelSafe, NEW y \in ParallelSafe, x # y,
         row[x] = "QUEUED", row[y] = "QUEUED", MayAsk(x)
  PROVE  Quiet(y)
<1>1. x \in {"survival", "causal", "rty_null", "halving", "admission", "child", "role_epoch"}
  BY AskersOfBatch DEF ParallelSafe
<1>2. CASE y \in {"meta", "post_meta"}
  BY <1>2, AskersOfBatch
<1>3. CASE y \notin {"meta", "post_meta"}
  <2>1. y \in {"survival", "causal", "rty_null", "mutation", "role_research", "feed_audit",
               "halving", "admission", "child", "role_epoch"}
    BY <1>3 DEF ParallelSafe
  <2>2. ~Unfinished => \A t \in ToSet(Trio) : row[t] # "absent" /\ row[t] # "QUEUED"
    BY Line
  <2>3. ~(row["halving"] # "absent" /\ y \in {"mutation", "role_research", "feed_audit"})
    BY <2>2, TrioNames, Chain
  <2>4. row["halving"] # "absent" => row["rty_null"] = "none"
    BY Line, Chain
  <2> QED BY <1>1, <2>1, <2>3, <2>4, Chain
<1> QED BY <1>2, <1>3

\* What the routes do.
LEMMA RouteShape ==
  ASSUME NEW s \in Experiments, NEW f \in DOMAIN Route[s], NEW o, o = Route[s][f]
  PROVE  /\ (o.phase \in {"none", "PLANNING_NEXT_ACTION"} /\ o.ask = "none") \/ o.phase \in Blocked
         /\ s \in {"design", "execution"} => o.phase = "none"
         /\ o.next \in Experiments \cup {"unsupported_pilot", "finalize", "none"}
         /\ o.next # "halving"
<1>1. RouteCase(s, f)
  BY RouteTable
<1>2. Shaped(o)
  BY <1>1 DEF RouteCase, Says
<1>3. o.next \in Experiments \cup {"unsupported_pilot", "finalize", "none"} /\ o.next # "halving"
  BY <1>1, ExperimentNames DEF RouteCase, Says
<1>4. ASSUME s \in {"design", "execution"} PROVE o.phase = "none"
  BY <1>4 DEF Route, route_calibration_affected_atom_retest_design,
    route_calibration_affected_atom_retest_execution, Quietly
<1> QED BY <1>2, <1>3, <1>4 DEF Shaped

\* The blockers of the controller itself ask for nothing.
LEMMA NoAsks ==
  ASSUME NEW b \in {"none", "FROZEN_SOURCE_MISMATCH", "MISSING_EXPERIMENT_HANDLER",
                    "EXPERIMENT_FAILED", "PARALLEL_EXPERIMENT_FAILED",
                    "VALIDATOR_CALIBRATION_FAILED", "NO_EXECUTABLE_ACTION"}
  PROVE  ~IsAsk(b)
<1>1. ASSUME NEW u \in ToSet(StartOrder), u # "halving" PROVE b \notin StartedBy(u)
  BY <1>1, StartNames, StartTable
<1> QED BY <1>1, Asks

\* A stage needs findings.
Findings(N) == \A n \in N : n[1] \in Experiments /\ "absent" \notin n[2] /\ "QUEUED" \notin n[2]

\* Of one experiment.
LEMMA OneFinding ==
  ASSUME NEW x \in Experiments, NEW F, "absent" \notin F, "QUEUED" \notin F
  PROVE  Findings({<<x, F>>})
<1> PICK n : n = <<x, F>>
  OBVIOUS
<1>1. n[1] = x /\ n[2] = F
  OBVIOUS
<1> QED BY <1>1 DEF Findings

\* Any of its findings.
LEMMA AnyFinding ==
  ASSUME NEW x \in Experiments
  PROVE  Findings({Done(x)})
BY FindingsAreNoStatus, OneFinding DEF Done, Plainly

\* Each stage needs findings.
LEMMA NeedsAreFindings ==
  ASSUME NEW t \in Experiments
  PROVE  Findings(Stages[t].after) /\ Findings(Stages[t].frozen)
<1>E. {"admission", "alpha", "barrier", "barrier_shadow", "baskets", "causal", "child",
       "continuation", "contract_map", "counterfactual", "cross_asset",
       "cross_asset_shadow", "energy_metals", "equity_open_gap", "gc_fresh", "halving",
       "micro_repair", "micro_shadow", "mutation", "null_power", "pilot", "policy_repair",
       "post_meta", "preclose", "primary_context", "role_epoch", "role_research",
       "session_geometry", "survival", "v3_design", "ym_shadow", "ym_strict"} \subseteq
       Experiments
  BY ExperimentNames
<1>0. Findings({})
  BY DEF Findings
<1>1. CASE t \in {"design", "execution", "post_design", "pilot", "path_geometry", "metal_energy"}
  <2>1. /\ Stages["design"].after = {} /\ Stages["design"].frozen = {}
        /\ Stages["execution"].after = {} /\ Stages["execution"].frozen = {}
        /\ Stages["post_design"].after = {} /\ Stages["post_design"].frozen = {}
        /\ Stages["pilot"].after = {} /\ Stages["pilot"].frozen = {}
        /\ Stages["path_geometry"].after = {} /\ Stages["path_geometry"].frozen = {}
        /\ Stages["metal_energy"].after = {} /\ Stages["metal_energy"].frozen = {}
    BY StageTable
  <2> QED BY <1>0, <1>1, <2>1
<1>2. CASE t \in {"cross_market", "volatility", "foundry", "equity_open_gap", "opening_hazard",
      "cross_ecology"}
  <2>1. /\ Stages["cross_market"].after = {} /\ Stages["cross_market"].frozen = {}
        /\ Stages["volatility"].after = {} /\ Stages["volatility"].frozen = {}
        /\ Stages["foundry"].after = {} /\ Stages["foundry"].frozen = {}
        /\ Stages["equity_open_gap"].after = {}
        /\ Stages["equity_open_gap"].frozen = {} /\ Stages["opening_hazard"].after = {}
        /\ Stages["opening_hazard"].frozen = {} /\ Stages["cross_ecology"].after = {}
        /\ Stages["cross_ecology"].frozen = {}
    BY StageTable
  <2> QED BY <1>0, <1>2, <2>1
<1>3. CASE t \in {"mtf", "rty_ym", "ym_risk_off", "qd", "ym_strict", "accelerated"}
  <2>1. /\ Stages["mtf"].after = {} /\ Stages["mtf"].frozen = {}
        /\ Stages["rty_ym"].after = {} /\ Stages["rty_ym"].frozen = {}
        /\ Stages["ym_risk_off"].after = {} /\ Stages["ym_risk_off"].frozen = {}
        /\ Stages["qd"].after = {} /\ Stages["qd"].frozen = {}
        /\ Stages["ym_strict"].after = {} /\ Stages["ym_strict"].frozen = {}
        /\ Stages["accelerated"].after = {} /\ Stages["accelerated"].frozen = {}
    BY StageTable
  <2> QED BY <1>0, <1>3, <2>1
<1>4. CASE t \in {"null_power", "energy_metals", "mutation", "role_research", "feed_audit",
      "post_meta"}
  <2>1. /\ Stages["null_power"].after = {} /\ Stages["null_power"].frozen = {}
        /\ Stages["energy_metals"].after = {} /\ Stages["energy_metals"].frozen = {}
        /\ Stages["mutation"].after = {} /\ Stages["mutation"].frozen = {}
        /\ Stages["role_research"].after = {} /\ Stages["role_research"].frozen = {}
        /\ Stages["feed_audit"].after = {} /\ Stages["feed_audit"].frozen = {}
        /\ Stages["post_meta"].after = {} /\ Stages["post_meta"].frozen = {}
    BY StageTable
  <2> QED BY <1>0, <1>4, <2>1
<1>T1. /\ Stages["contract_map"].after = {<<"pilot", {"rebuild"}>>}
       /\ Stages["contract_map"].frozen = {}
       /\ Stages["v3_design"].after = {}
       /\ Stages["v3_design"].frozen = {Done("contract_map")}
       /\ Stages["v3"].after = {<<"v3_design", {"preregistered"}>>}
       /\ Stages["v3"].frozen = {}
       /\ Stages["continuation"].after = {}
       /\ Stages["continuation"].frozen = {<<"equity_open_gap", {"falsified"}>>}
       /\ Stages["q4_freeze"].after = {}
       /\ Stages["q4_freeze"].frozen = {<<"continuation", {"q4"}>>}
       /\ Stages["ym_shadow"].after = {Done("ym_strict")}
       /\ Stages["ym_shadow"].frozen = {<<"ym_strict", {"eligible"}>>}
       /\ Stages["policy_repair"].after = {Done("null_power")}
       /\ Stages["policy_repair"].frozen = {<<"null_power", {"fpr_failed"}>>}
  BY StageTable
<1>T2. /\ Stages["alpha"].after = {Done("policy_repair")}
       /\ Stages["alpha"].frozen = {<<"policy_repair", {"failed"}>>}
       /\ Stages["primary_context"].after = {Done("alpha")}
       /\ Stages["primary_context"].frozen = {<<"alpha", {"calibrated"}>>}
       /\ Stages["counterfactual"].after = {<<"primary_context", {"falsified"}>>}
       /\ Stages["counterfactual"].frozen = {}
       /\ Stages["barrier"].after = {<<"counterfactual", {"no_primary"}>>}
       /\ Stages["barrier"].frozen = {}
       /\ Stages["barrier_shadow"].after = {<<"barrier", {"shadow"}>>}
       /\ Stages["barrier_shadow"].frozen = {}
       /\ Stages["session_geometry"].after = {Done("energy_metals")}
       /\ Stages["session_geometry"].frozen = {}
       /\ Stages["micro_repair"].after = {<<"session_geometry", {"promising"}>>}
       /\ Stages["micro_repair"].frozen = {}
  BY StageTable
<1>T3. /\ Stages["micro_shadow"].after = {<<"micro_repair", {"shadow"}>>}
       /\ Stages["micro_shadow"].frozen = {}
       /\ Stages["gc_fresh"].after = {<<"micro_shadow", {"activated"}>>}
       /\ Stages["gc_fresh"].frozen = {}
       /\ Stages["cross_asset"].after = {<<"gc_fresh", {"falsified"}>>}
       /\ Stages["cross_asset"].frozen = {}
       /\ Stages["cross_asset_shadow"].after = {<<"cross_asset", {"shadow"}>>}
       /\ Stages["cross_asset_shadow"].frozen = {}
       /\ Stages["baskets"].after = {Done("barrier_shadow"), Done("cross_asset_shadow"),
            Done("micro_shadow"), Done("ym_shadow")}
       /\ Stages["baskets"].frozen = {}
       /\ Stages["survival"].after = {<<"baskets", {"three"}>>}
       /\ Stages["survival"].frozen = {}
       /\ Stages["meta"].after = {<<"baskets", {"three"}>>}
       /\ Stages["meta"].frozen = {}
  BY StageTable
<1>T4. /\ Stages["causal"].after = {<<"survival", {"insufficient"}>>}
       /\ Stages["causal"].frozen = {}
       /\ Stages["rty_null"].after = {<<"causal", {"one"}>>}
       /\ Stages["rty_null"].frozen = {}
       /\ Stages["halving"].after = {}
       /\ Stages["halving"].frozen = {Done("mutation")}
       /\ Stages["admission"].after = {Done("halving")}
       /\ Stages["admission"].frozen = {}
       /\ Stages["child"].after = {<<"admission", {"one"}>>}
       /\ Stages["child"].frozen = {}
       /\ Stages["role_epoch"].after = {Done("child"), Done("halving"), Done("mutation"),
            Done("post_meta"), Done("role_research")}
       /\ Stages["role_epoch"].frozen = {}
       /\ Stages["preclose"].after = {<<"role_epoch", {"insufficient"}>>}
       /\ Stages["preclose"].frozen = {}
  BY StageTable
<1>T5. /\ Stages["mini_micro"].after = {<<"preclose", {"insufficient"}>>}
       /\ Stages["mini_micro"].frozen = {}
  BY StageTable
<1>5. CASE t = "contract_map"
  <2>1. Findings({<<"pilot", {"rebuild"}>>})
    BY <1>E, OneFinding
  <2> QED BY <1>0, <1>5, <1>T1, <2>1
<1>6. CASE t = "v3_design"
  <2>1. Findings({Done("contract_map")})
    BY <1>E, AnyFinding
  <2> QED BY <1>0, <1>6, <1>T1, <2>1
<1>7. CASE t = "v3"
  <2>1. Findings({<<"v3_design", {"preregistered"}>>})
    BY <1>E, OneFinding
  <2> QED BY <1>0, <1>7, <1>T1, <2>1
<1>8. CASE t = "continuation"
  <2>1. Findings({<<"equity_open_gap", {"falsified"}>>})
    BY <1>E, OneFinding
  <2> QED BY <1>0, <1>8, <1>T1, <2>1
<1>9. CASE t = "q4_freeze"
  <2>1. Findings({<<"continuation", {"q4"}>>})
    BY <1>E, OneFinding
  <2> QED BY <1>0, <1>9, <1>T1, <2>1
<1>10. CASE t = "ym_shadow"
  <2>1. Findings({Done("ym_strict")})
    BY <1>E, AnyFinding
  <2>2. Findings({<<"ym_strict", {"eligible"}>>})
    BY <1>E, OneFinding
  <2> QED BY <1>0, <1>10, <1>T1, <2>1, <2>2
<1>11. CASE t = "policy_repair"
  <2>1. Findings({Done("null_power")})
    BY <1>E, AnyFinding
  <2>2. Findings({<<"null_power", {"fpr_failed"}>>})
    BY <1>E, OneFinding
  <2> QED BY <1>0, <1>11, <1>T1, <2>1, <2>2
<1>12. CASE t = "alpha"
  <2>1. Findings({Done("policy_repair")})
    BY <1>E, AnyFinding
  <2>2. Findings({<<"policy_repair", {"failed"}>>})
    BY <1>E, OneFinding
  <2> QED BY <1>0, <1>12, <1>T2, <2>1, <2>2
<1>13. CASE t = "primary_context"
  <2>1. Findings({Done("alpha")})
    BY <1>E, AnyFinding
  <2>2. Findings({<<"alpha", {"calibrated"}>>})
    BY <1>E, OneFinding
  <2> QED BY <1>0, <1>13, <1>T2, <2>1, <2>2
<1>14. CASE t = "counterfactual"
  <2>1. Findings({<<"primary_context", {"falsified"}>>})
    BY <1>E, OneFinding
  <2> QED BY <1>0, <1>14, <1>T2, <2>1
<1>15. CASE t = "barrier"
  <2>1. Findings({<<"counterfactual", {"no_primary"}>>})
    BY <1>E, OneFinding
  <2> QED BY <1>0, <1>15, <1>T2, <2>1
<1>16. CASE t = "barrier_shadow"
  <2>1. Findings({<<"barrier", {"shadow"}>>})
    BY <1>E, OneFinding
  <2> QED BY <1>0, <1>16, <1>T2, <2>1
<1>17. CASE t = "session_geometry"
  <2>1. Findings({Done("energy_metals")})
    BY <1>E, AnyFinding
  <2> QED BY <1>0, <1>17, <1>T2, <2>1
<1>18. CASE t = "micro_repair"
  <2>1. Findings({<<"session_geometry", {"promising"}>>})
    BY <1>E, OneFinding
  <2> QED BY <1>0, <1>18, <1>T2, <2>1
<1>19. CASE t = "micro_shadow"
  <2>1. Findings({<<"micro_repair", {"shadow"}>>})
    BY <1>E, OneFinding
  <2> QED BY <1>0, <1>19, <1>T3, <2>1
<1>20. CASE t = "gc_fresh"
  <2>1. Findings({<<"micro_shadow", {"activated"}>>})
    BY <1>E, OneFinding
  <2> QED BY <1>0, <1>20, <1>T3, <2>1
<1>21. CASE t = "cross_asset"
  <2>1. Findings({<<"gc_fresh", {"falsified"}>>})
    BY <1>E, OneFinding
  <2> QED BY <1>0, <1>21, <1>T3, <2>1
<1>22. CASE t = "cross_asset_shadow"
  <2>1. Findings({<<"cross_asset", {"shadow"}>>})
    BY <1>E, OneFinding
  <2> QED BY <1>0, <1>22, <1>T3, <2>1
<1>23. CASE t = "baskets"
  <2>1. Findings({Done("barrier_shadow")})
    BY <1>E, AnyFinding
  <2>2. Findings({Done("cross_asset_shadow")})
    BY <1>E, AnyFinding
  <2>3. Findings({Done("micro_shadow")})
    BY <1>E, AnyFinding
  <2>4. Findings({Done("ym_shadow")})
    BY <1>E, AnyFinding
  <2> QED BY <1>0, <1>23, <1>T3, <2>1, <2>2, <2>3, <2>4 DEF Findings
<1>24. CASE t = "survival"
  <2>1. Findings({<<"baskets", {"three"}>>})
    BY <1>E, OneFinding
  <2> QED BY <1>0, <1>24, <1>T3, <2>1
<1>25. CASE t = "meta"
  <2>1. Findings({<<"baskets", {"three"}>>})
    BY <1>E, OneFinding
  <2> QED BY <1>0, <1>25, <1>T3, <2>1
<1>26. CASE t = "causal"
  <2>1. Findings({<<"survival", {"insufficient"}>>})
    BY <1>E, OneFinding
  <2> QED BY <1>0, <1>26, <1>T4, <2>1
<1>27. CASE t = "rty_null"
  <2>1. Findings({<<"causal", {"one"}>>})
    BY <1>E, OneFinding
  <2> QED BY <1>0, <1>27, <1>T4, <2>1
<1>28. CASE t = "halving"
  <2>1. Findings({Done("mutation")})
    BY <1>E, AnyFinding
  <2> QED BY <1>0, <1>28, <1>T4, <2>1
<1>29. CASE t = "admission"
  <2>1. Findings({Done("halving")})
    BY <1>E, AnyFinding
  <2> QED BY <1>0, <1>29, <1>T4, <2>1
<1>30. CASE t = "child"
  <2>1. Findings({<<"admission", {"one"}>>})
    BY <1>E, OneFinding
  <2> QED BY <1>0, <1>30, <1>T4, <2>1
<1>31. CASE t = "role_epoch"
  <2>1. Findings({Done("child")})
    BY <1>E, AnyFinding
  <2>2. Findings({Done("halving")})
    BY <1>E, AnyFinding
  <2>3. Findings({Done("mutation")})
    BY <1>E, AnyFinding
  <2>4. Findings({Done("post_meta")})
    BY <1>E, AnyFinding
  <2>5. Findings({Done("role_research")})
    BY <1>E, AnyFinding
  <2> QED BY <1>0, <1>31, <1>T4, <2>1, <2>2, <2>3, <2>4, <2>5 DEF Findings
<1>32. CASE t = "preclose"
  <2>1. Findings({<<"role_epoch", {"insufficient"}>>})
    BY <1>E, OneFinding
  <2> QED BY <1>0, <1>32, <1>T4, <2>1
<1>33. CASE t = "mini_micro"
  <2>1. Findings({<<"preclose", {"insufficient"}>>})
    BY <1>E, OneFinding
  <2> QED BY <1>0, <1>33, <1>T5, <2>1
<1> QED BY ExperimentNames, <1>1, <1>2, <1>3, <1>4, <1>5, <1>6, <1>7, <1>8, <1>9,
  <1>10, <1>11, <1>12, <1>13, <1>14, <1>15, <1>16, <1>17, <1>18, <1>19, <1>20,
  <1>21, <1>22, <1>23, <1>24, <1>25, <1>26, <1>27, <1>28, <1>29, <1>30, <1>31,
  <1>32, <1>33

\* A blocker asks for what the same route calls at once.
LEMMA NextIsAsked ==
  ASSUME NEW s \in Experiments, NEW f \in DOMAIN Route[s], NEW o, o = Route[s][f],
         IsAsk(o.ask), o.next # "none"
  PROVE  o.next \in Starters(o.ask)
<1>1. RouteCase(s, f)
  BY RouteTable
<1>2. PICK u \in ToSet(StartOrder) : u # "halving" /\ o.ask \in StartedBy(u)
  BY Asks
<1>3. o.next \in ToSet(StartOrder) /\ o.next # "halving" /\ o.ask \in StartedBy(o.next)
  BY SMTT(20), <1>1, <1>2, StartNames, StartTable DEF RouteCase, Says
<1> QED BY <1>3, Asks

\* No route calls a member of the trio.
LEMMA NextIsNoMember ==
  ASSUME NEW s \in Experiments, NEW f \in DOMAIN Route[s]
  PROVE  Route[s][f].next \notin ToSet(Trio)
BY RouteTable, TrioNames DEF RouteCase, Says

\* The members of a sequence that are in a set, and no others.
LEMMA ThoseOnly ==
  ASSUME NEW s, NEW n \in Nat, DOMAIN s = 1..n, NEW T, NEW k \in 1..Len(Those(s, T))
  PROVE  Those(s, T)[k] \in T /\ \E p \in 1..n : Those(s, T)[k] = s[p]
<1> DEFINE P == {p \in DOMAIN s : s[p] \in T}
           Upto(p) == {q \in P : q <= p}
           Place(i) == CHOOSE p \in P : Cardinality(Upto(p)) = i
           c == Cardinality(P)
           h == [p \in P |-> Cardinality(Upto(p))]
<1>1. IsFiniteSet(P) /\ c \in Nat /\ P \subseteq 1..n
  <2>1. P \subseteq 1..n /\ IsFiniteSet(1..n)
    BY FS_Interval
  <2>2. IsFiniteSet(P)
    BY <2>1, FS_Subset
  <2> QED BY <2>1, <2>2, FS_CardinalityType
<1>2. Those(s, T) = [i \in 1..c |-> s[Place(i)]]
  BY DEF Those
<1>3. ASSUME NEW p \in P
      PROVE  IsFiniteSet(Upto(p)) /\ h[p] = Cardinality(Upto(p)) /\ h[p] \in 1..c
  <2>1. Upto(p) \subseteq P /\ p \in Upto(p)
    BY <1>1
  <2>2. IsFiniteSet(Upto(p)) /\ Cardinality(Upto(p)) \in Nat /\ Cardinality(Upto(p)) <= c
    BY <1>1, <2>1, FS_Subset, FS_CardinalityType
  <2>3. Cardinality(Upto(p)) # 0
    BY <2>1, <2>2, FS_EmptySet
  <2> QED BY <1>1, <2>2, <2>3
<1>4. ASSUME NEW p \in P, NEW q \in P, p < q
      PROVE  h[p] # h[q]
  <2>1. Upto(p) \subseteq Upto(q) /\ q \in Upto(q) /\ q \notin Upto(p)
    BY <1>1, <1>4
  <2>2. Upto(p) # Upto(q)
    BY <2>1
  <2>3. IsFiniteSet(Upto(p)) /\ IsFiniteSet(Upto(q))
    BY <1>3
  <2> QED BY <2>1, <2>2, <2>3, FS_Subset
<1>5. h \in [P -> 1..c]
  BY <1>3
<1> HIDE DEF P, Upto, c, h, Place
<1>6. \A p, q \in P : h[p] = h[q] => p = q
  <2> SUFFICES ASSUME NEW p \in P, NEW q \in P, h[p] = h[q], p # q PROVE FALSE
    OBVIOUS
  <2>1. p \in Int /\ q \in Int
    BY <1>1
  <2>2. p < q \/ q < p
    BY <2>1
  <2> QED BY <1>4, <2>2
<1>7. Len(Those(s, T)) = c
  BY <1>1, <1>2
<1>8. \E p \in P : h[p] = k
  <2> SUFFICES ASSUME \A p \in P : h[p] # k PROVE FALSE
    OBVIOUS
  <2> PICK R : R = 1..c \ {k}
    OBVIOUS
  <2>1. IsFiniteSet(1..c) /\ Cardinality(1..c) = c
    BY <1>1, FS_Interval
  <2>2. IsFiniteSet(R) /\ Cardinality(R) = c - 1
    BY <1>7, <2>1, FS_RemoveElement
  <2>3. h \in [P -> R]
    BY <1>5
  <2>4. Cardinality(R) < Cardinality(P)
    BY <1>1, <2>2 DEF c
  <2>5. \E x, y \in P : x # y /\ h[x] = h[y]
    BY <1>1, <2>2, <2>3, <2>4, FS_PigeonHole
  <2> QED BY <1>6, <2>5
<1>9. Place(k) \in P
  <2>1. PICK p \in P : Cardinality(Upto(p)) = k
    BY <1>3, <1>8
  <2> QED BY <2>1 DEF Place
<1> QED BY <1>1, <1>2, <1>7, <1>9 DEF P

-----------------------------------------------------------------------------
(* Experiments come into being and are completed; they never go back.      *)

\* Rows never go back.
Grown ==
  \A x \in Experiments :
    /\ row[x] \notin {"absent", "QUEUED"} => row'[x] = row[x]
    /\ row'[x] = "absent" => row[x] = "absent"

\* What is completed stays so.
LEMMA GrownCompleted ==
  ASSUME Grown, NEW s \in Experiments, Completed(s)
  PROVE  /\ row'[s] = row[s] /\ row[s] \in DOMAIN Route[s]
         /\ row[s] \notin {"absent", "QUEUED", "FAILED"}
         /\ Completed(s)' /\ AskOf(s)' = AskOf(s) /\ NextOf(s)' = NextOf(s)
<1>1. row[s] \in DOMAIN Route[s] /\ row[s] \notin {"absent", "QUEUED", "FAILED"}
  BY FindingsAreNoStatus DEF Completed, Plainly
<1>2. row'[s] = row[s]
  BY <1>1 DEF Grown
<1> QED BY <1>1, <1>2 DEF Completed, AskOf, NextOf

\* So what leads to a stage leads there.
LEMMA GrownLeads ==
  ASSUME Grown, NEW s \in Experiments, NEW n, Leads(s, n)
  PROVE  Leads(s, n)'
<1>1. Completed(s)
  BY DEF Leads
<1>2. /\ Completed(s)' /\ row'[s] = row[s] /\ AskOf(s)' = AskOf(s) /\ NextOf(s)' = NextOf(s)
  BY <1>1, GrownCompleted
<1>3. Starters(AskOf(s))' = Starters(AskOf(s))
  BY <1>2 DEF Starters, AskOf
<1> QED BY <1>2, <1>3 DEF Leads

\* What is met stays so.
LEMMA GrownMeets ==
  ASSUME Grown, NEW N, Findings(N), Meets(N)
  PROVE  Meets(N)'
<1>1. ASSUME NEW n \in N PROVE row'[n[1]] \in n[2]
  BY DEF Grown, Findings, Meets
<1> QED BY <1>1 DEF Meets

\* The trio stays done.
LEMMA GrownTrio ==
  ASSUME Grown, ~Unfinished
  PROVE  ~Unfinished'
<1>1. ASSUME NEW s \in ToSet(Trio) PROVE Completed(s)'
  BY GrownCompleted, TrioNames, ExperimentNames DEF Unfinished
<1> QED BY <1>1 DEF Unfinished

\* What a stage was asked for by stays.
LEMMA GrownGrounds ==
  ASSUME Grown, NEW t \in Experiments, Grounds(t)
  PROVE  Grounds(t)'
<1>1. Meets(Stages[t].after)' /\ Meets(Stages[t].frozen)'
  BY GrownMeets, NeedsAreFindings DEF Grounds
<1>2. t = "halving" => ~Unfinished'
  BY GrownTrio DEF Grounds
<1>3. ASSUME t # "halving", StageOf(t) \in ToSet(StartOrder)
      PROVE  \E s \in Experiments \ {t} : Leads(s, StageOf(t))'
  BY <1>3, GrownLeads DEF Grounds
<1> QED BY <1>1, <1>2, <1>3 DEF Grounds

\* And so does the reason of a block.
LEMMA GrownReason ==
  ASSUME Grown, NEW b, Reason(b)
  PROVE  Reason(b)'
BY GrownCompleted DEF Reason

\* A step that was in order is so still, but for the members of a batch.
LEMMA GrownStep ==
  ASSUME Grown, NEW a, StepOK(a), Member(a) => row'[a[2]] = row[a[2]]
  PROVE  StepOK(a)'
<1>1. a[1] = "blocker" => Reason(a[2])'
  BY GrownReason DEF StepOK
<1>2. a[1] = "mark" /\ a[2] = "campaign" => ~Unfinished'
  BY GrownTrio DEF StepOK
<1>3. a[1] = "queue" => a[2] \in Experiments /\ (row'[a[2]] = "absent" => Grounds(a[2])')
  BY GrownGrounds DEF StepOK, Grown
<1>4. a[1] = "reconcile" =>
        a[2] # "none" /\ \E s \in Experiments : Completed(s)' /\ NextOf(s)' = a[2]
  BY GrownCompleted DEF StepOK
<1>5. a[1] = "start" =>
        /\ a[2] \in ToSet(StartOrder)
        /\ IF a[2] = "halving" THEN ~Unfinished' ELSE \E s \in Experiments : Leads(s, a[2])'
  BY GrownTrio, GrownLeads DEF StepOK
<1>6. a[1] \in {"route", "event"} => a[2] \in Experiments /\ Completed(a[2])'
  BY GrownCompleted DEF StepOK
<1>7. a[1] \in {"finish", "fail"} => a[2] \in Experiments /\ row'[a[2]] = "QUEUED"
  BY DEF StepOK, Member
<1>8. a[1] \in {"collect", "conclude", "settle"} => a \in Closing
  BY DEF StepOK
<1> QED BY <1>1, <1>2, <1>3, <1>4, <1>5, <1>6, <1>7, <1>8 DEF StepOK, Closing

\* The rows, the blocks and the list of a step that lets the rows grow.
LEMMA RowsKept ==
  ASSUME RowsInv, Grown,
         \A t \in Experiments : row[t] = "absent" => row'[t] = "absent" \/ Grounds(t),
         Reason(blocker'), Reason(saved'[2]),
         "campaign" \in marks' => ~Unfinished,
         \A s \in routed' : s \in routed \/ (s \in Experiments /\ Completed(s)),
         \A p \in 1..Len(todo') :
           /\ StepOK(todo'[p])
           /\ Member(todo'[p]) => row'[todo'[p][2]] = row[todo'[p][2]]
  PROVE  RowsInv'
<1>1. ASSUME NEW t \in Experiments, row'[t] # "absent" PROVE Grounds(t)'
  BY <1>1, GrownGrounds DEF RowsInv
<1>2. Reason(blocker)' /\ Reason(saved[2])'
  BY GrownReason DEF Reason
<1>3. "campaign" \in marks' => ~Unfinished'
  BY GrownTrio
<1>4. \A s \in routed' : s \in Experiments /\ Completed(s)'
  BY GrownCompleted DEF RowsInv
<1>5. ASSUME NEW p \in 1..Len(todo') PROVE StepOK(todo[p])'
  <2> PICK a : a = todo'[p]
    OBVIOUS
  <2>1. StepOK(a)'
    BY GrownStep
  <2> QED BY <2>1 DEF StepOK
<1> QED BY <1>1, <1>2, <1>3, <1>4, <1>5 DEF RowsInv

\* A result whose follow-up does not exist had none before.
LEMMA OpenBefore ==
  ASSUME Grown, NEW s \in Experiments, Completed(s), Open(s)'
  PROVE  Open(s) /\ AskOf(s)' = AskOf(s) /\ Starters(AskOf(s))' = Starters(AskOf(s))
<1>1. AskOf(s)' = AskOf(s)
  BY GrownCompleted
<1>2. Starters(AskOf(s))' = Starters(AskOf(s)) /\ IsAsk(AskOf(s))' = IsAsk(AskOf(s))
  BY <1>1 DEF Starters, IsAsk
<1>3. ASSUME NEW t \in Starters(AskOf(s)) PROVE Untouched(t)
  <2>1. Untouched(t)'
    BY <1>2, <1>3 DEF Open
  <2>2. t = "trio" \/ t \in Experiments
    BY <1>3, Asks, StartNames, ExperimentNames
  <2>3. \A u \in (IF t = "trio" THEN ToSet(Trio) ELSE {t}) : u \in Experiments
    BY <2>2, TrioNames, ExperimentNames
  <2> QED BY <2>1, <2>3 DEF Untouched, Grown
<1> QED BY <1>1, <1>2, <1>3 DEF Open

-----------------------------------------------------------------------------
(* What the calls put on the list is in order.                             *)

\* Steps that neither close a list nor complete anything.
Inner(a) == a[1] \notin {"finish", "fail", "collect", "conclude", "settle"}

\* A list whose steps are in order: what lifts a block clears the blocker
\* next, and what asks stands behind its phase.
SaneAt(T, p) ==
  /\ StepOK(T[p]) /\ Inner(T[p])
  /\ Lifting(T[p]) => p + 1 \in 1..Len(T) /\ T[p + 1] = <<"blocker", "none">>
  /\ T[p][1] = "phase" => Lifting(T[p]) \/ Blocking(T[p])
  /\ Asking(T[p]) => p = 2 /\ Blocking(T[1])

\* A list that is in order.
Sane(T) == IsList(T) /\ \A p \in 1..Len(T) : SaneAt(T, p)

\* A list no step of which writes a block that asks.
Mute(T) == \A p \in 1..Len(T) : ~Asking(T[p])

\* The places of two lists, one behind the other.
LEMMA TwoParts ==
  ASSUME NEW m \in Nat, NEW n \in Nat, NEW p \in 1..m + n
  PROVE  /\ p \in 1..m \/ (p \in m + 1..m + n /\ p - m \in 1..n)
         /\ p \in 1..m => p + 1 \in 1..m \/ p = m
         /\ p - m + 1 = (p + 1) - m
         /\ p - m + 1 \in 1..n => p + 1 \in m + 1..m + n /\ p + 1 \in 1..m + n
         /\ \A q \in 1..m : q \in 1..m + n
  OBVIOUS

\* Sane lists, one behind the other.
LEMMA SaneJoin ==
  ASSUME NEW s, NEW t, Sane(s), Sane(t), Mute(t)
  PROVE  Sane(s \o t) /\ (Mute(s) => Mute(s \o t))
<1> PICK T : T = s \o t
  OBVIOUS
<1> PICK m \in Nat, n \in Nat : m = Len(s) /\ n = Len(t)
  BY DEF Sane, IsList
<1>1. /\ IsList(T) /\ Len(T) = m + n
      /\ \A p \in 1..m : T[p] = s[p]
      /\ \A p \in m + 1..m + n : T[p] = t[p - m]
  BY Joined DEF Sane
<1>2. ASSUME NEW p \in 1..m + n
      PROVE  SaneAt(T, p) /\ (Mute(s) => ~Asking(T[p]))
  <2>1. CASE p \in 1..m
    <3>1. T[p] = s[p] /\ SaneAt(s, p)
      BY <1>1, <2>1 DEF Sane
    <3>2. ASSUME Lifting(T[p]) PROVE p + 1 \in 1..Len(T) /\ T[p + 1] = <<"blocker", "none">>
      <4>1. p + 1 \in 1..m /\ s[p + 1] = <<"blocker", "none">>
        BY <3>1, <3>2 DEF SaneAt
      <4> QED BY <1>1, <4>1
    <3>3. ASSUME Asking(T[p]) PROVE p = 2 /\ Blocking(T[1])
      <4>1. p = 2 /\ Blocking(s[1])
        BY <3>1, <3>3 DEF SaneAt
      <4>2. 1 \in 1..m
        BY <2>1, <4>1
      <4> QED BY <1>1, <4>1, <4>2
    <3>4. Mute(s) => ~Asking(T[p])
      BY <2>1, <3>1 DEF Mute
    <3> QED BY <3>1, <3>2, <3>3, <3>4 DEF SaneAt
  <2>2. CASE p \in m + 1..m + n
    <3> PICK q : q = p - m
      OBVIOUS
    <3>1. q \in 1..n /\ T[p] = t[q] /\ SaneAt(t, q) /\ ~Asking(t[q])
      BY <1>1, <2>2 DEF Sane, Mute
    <3>2. ASSUME Lifting(T[p]) PROVE p + 1 \in 1..Len(T) /\ T[p + 1] = <<"blocker", "none">>
      <4>1. q + 1 \in 1..n /\ t[q + 1] = <<"blocker", "none">>
        BY <3>1, <3>2 DEF SaneAt
      <4>2. p + 1 \in m + 1..m + n /\ p + 1 \in 1..m + n /\ (p + 1) - m = q + 1
        BY <4>1, TwoParts
      <4> QED BY <1>1, <4>1, <4>2
    <3> QED BY <3>1, <3>2 DEF SaneAt
  <2> QED BY <2>1, <2>2
<1> QED BY <1>1, <1>2 DEF Sane, Mute

\* The list without steps.
LEMMA SaneEmpty == Sane(<<>>) /\ Mute(<<>>)
BY EmptyList DEF Sane, Mute

\* As many steps of one kind, no write of a phase or a blocker among them.
LEMMA SaneEach ==
  ASSUME NEW n \in Nat, NEW T, T = [p \in 1..n |-> T[p]],
         \A p \in 1..n : StepOK(T[p]) /\ Inner(T[p]) /\ T[p][1] \notin {"phase", "blocker"}
  PROVE  Sane(T) /\ Mute(T) /\ Len(T) = n
<1>1. IsList(T) /\ Len(T) = n
  BY Listed
<1> QED BY <1>1 DEF Sane, SaneAt, Mute, Lifting, Asking

\* One step.
LEMMA SaneOne ==
  ASSUME NEW a, StepOK(a), Inner(a), a[1] \notin {"phase", "blocker"}
  PROVE  Sane(<<a>>) /\ Mute(<<a>>)
BY OneStep DEF Sane, SaneAt, Mute, Lifting, Asking

\* The steps in order, kind by kind.
LEMMA StepsOK ==
  /\ \A p : StepOK(<<"phase", p>>)
  /\ \A b : Reason(b) => StepOK(<<"blocker", b>>)
  /\ \A m : m # "campaign" \/ ~Unfinished => StepOK(<<"mark", m>>)
  /\ \A u \in Experiments : row[u] # "absent" \/ Grounds(u) => StepOK(<<"queue", u>>)
  /\ \A s \in Experiments : \A n : Completed(s) /\ NextOf(s) = n /\ n # "none" =>
       StepOK(<<"reconcile", n>>)
  /\ \A n \in ToSet(StartOrder) :
       (IF n = "halving" THEN ~Unfinished ELSE \E s \in Experiments : Leads(s, n)) =>
         StepOK(<<"start", n>>)
  /\ \A s \in Experiments : Completed(s) =>
       StepOK(<<"route", s>>) /\ StepOK(<<"event", s>>)
  /\ \A d \in {"completed", "collect", "conclude", "settle"} : StepOK(<<d, "none">>)
  /\ \A s \in Experiments : row[s] = "QUEUED" =>
       StepOK(<<"finish", s>>) /\ StepOK(<<"fail", s>>)
BY DEF StepOK, Closing

\* The writes of a phase and its blocker.
LEMMA SaneWrites ==
  ASSUME NEW p, NEW b, Reason(b), p \in Blocked \/ (p \in Lifted /\ b = "none")
  PROVE  Sane(Writes(p, b)) /\ (~IsAsk(b) => Mute(Writes(p, b)))
<1> PICK T, x, y : T = <<x, y>> /\ x = <<"phase", p>> /\ y = <<"blocker", b>>
  OBVIOUS
<1>1. Writes(p, b) = T
  BY DEF Writes
<1>2. IsList(T) /\ Len(T) = 2 /\ T[1] = x /\ T[2] = y
  BY TwoSteps
<1>3. x[1] = "phase" /\ x[2] = p /\ y[1] = "blocker" /\ y[2] = b
  OBVIOUS
<1>4. StepOK(x) /\ StepOK(y) /\ Inner(x) /\ Inner(y)
  BY <1>3, StepsOK DEF Inner
<1>5. SaneAt(T, 1) /\ ~Asking(x)
  <2>1. Lifting(x) \/ Blocking(x)
    BY <1>3 DEF Lifting, Blocking
  <2>2. Lifting(x) => p \in Lifted
    BY <1>3 DEF Lifting
  <2>3. p \in Lifted => b = "none"
    BY DEF Lifted, Blocked
  <2>4. ~Asking(x)
    BY <1>3 DEF Asking
  <2>5. 1 + 1 \in 1..2 /\ 1 + 1 = 2
    OBVIOUS
  <2> QED BY <1>2, <1>4, <2>1, <2>2, <2>3, <2>4, <2>5 DEF SaneAt
<1>6. SaneAt(T, 2) /\ (~IsAsk(b) => ~Asking(y))
  <2>1. ~Lifting(y) /\ y[1] # "phase"
    BY <1>3 DEF Lifting
  <2>2. Asking(y) => IsAsk(b)
    BY <1>3 DEF Asking
  <2>3. IsAsk(b) => Blocking(x)
    BY <1>3, NoneIsNoAsk DEF Blocking
  <2> QED BY <1>2, <1>4, <2>1, <2>2, <2>3 DEF SaneAt
<1>7. \A k \in 1..2 : k = 1 \/ k = 2
  OBVIOUS
<1> QED BY <1>1, <1>2, <1>5, <1>6, <1>7 DEF Sane, Mute

\* What asks for nothing has a reason.
LEMMA NoReason ==
  ASSUME NEW b, ~IsAsk(b)
  PROVE  Reason(b)
BY DEF Reason

\* The writes of the calls.
LEMMA SaneBlocks ==
  /\ Sane(Clear) /\ Mute(Clear)
  /\ Sane(Mismatch.steps) /\ Mute(Mismatch.steps)
  /\ \A p \in Lifted : Sane(Writes(p, "none")) /\ Mute(Writes(p, "none"))
  /\ \A b \in {"FROZEN_SOURCE_MISMATCH", "MISSING_EXPERIMENT_HANDLER", "EXPERIMENT_FAILED",
               "PARALLEL_EXPERIMENT_FAILED"} :
       \A p \in Blocked : Sane(Writes(p, b)) /\ Mute(Writes(p, b))
<1>1. ASSUME NEW p \in Lifted PROVE Sane(Writes(p, "none")) /\ Mute(Writes(p, "none"))
  BY NoneIsNoAsk, NoReason, SaneWrites
<1>2. ASSUME NEW b \in {"FROZEN_SOURCE_MISMATCH", "MISSING_EXPERIMENT_HANDLER",
                        "EXPERIMENT_FAILED", "PARALLEL_EXPERIMENT_FAILED"}, NEW p \in Blocked
      PROVE  Sane(Writes(p, b)) /\ Mute(Writes(p, b))
  <2>1. ~IsAsk(b)
    BY NoAsks
  <2> QED BY <2>1, NoReason, SaneWrites
<1>3. Mismatch.steps = Writes("INTEGRITY_BLOCKED", "FROZEN_SOURCE_MISMATCH")
      /\ "INTEGRITY_BLOCKED" \in Blocked
  BY DEF Mismatch, Answer, Blocked
<1>4. Clear = Writes("PLANNING_NEXT_ACTION", "none") /\ "PLANNING_NEXT_ACTION" \in Lifted
  BY DEF Clear, Lifted
<1> QED BY <1>1, <1>2, <1>3, <1>4

\* A stage that something leads to.
Called(n) ==
  \/ n # "none" /\ \E s \in Experiments : Leads(s, n)
  \/ n = "halving" /\ ~Unfinished

\* The stages that are called.
LEMMA CalledStages ==
  ASSUME NEW n, Called(n)
  PROVE  /\ n \in Experiments \cup {"trio", "unsupported_pilot", "finalize"}
         /\ n \notin ToSet(Trio)
         /\ n = "halving" => ~Unfinished
         /\ n # "halving" => \E s \in Experiments : Leads(s, n)
<1>1. ASSUME NEW s \in Experiments, Leads(s, n), n # "none"
      PROVE  /\ n \in Experiments \cup {"trio", "unsupported_pilot", "finalize"}
             /\ n \notin ToSet(Trio) /\ n # "halving"
  <2>1. CASE n \in Starters(AskOf(s))
    <3>1. n \in ToSet(StartOrder) /\ n # "halving"
      BY <2>1, Asks
    <3> QED BY <3>1, StartNames, TrioNames, ExperimentNames
  <2>2. CASE NextOf(s) = n
    <3>1. row[s] \in DOMAIN Route[s] /\ Route[s][row[s]].next = n
      BY <1>1, <2>2 DEF Leads, Completed, NextOf
    <3> QED BY <1>1, <3>1, RouteShape, NextIsNoMember
  <2> QED BY <1>1, <2>1, <2>2 DEF Leads
<1>2. "halving" \in Experiments /\ "halving" \notin ToSet(Trio)
  BY ExperimentNames, TrioNames
<1> QED BY <1>1, <1>2 DEF Called

\* What a list in order calls.
LEMMA CallsAreCalled ==
  ASSUME NEW a, StepOK(a), a[1] \in {"reconcile", "start"}
  PROVE  Called(a[2])
<1>1. CASE a[1] = "reconcile"
  BY <1>1 DEF StepOK, Called, Leads
<1>2. CASE a[1] = "start"
  <2>1. a[2] \in ToSet(StartOrder) /\ a[2] # "none"
    BY <1>2, StartNames DEF StepOK
  <2> QED BY <1>2, <2>1 DEF StepOK, Called
<1> QED BY <1>1, <1>2

\* An experiment that is called, and that has what it needs, has its grounds.
LEMMA GroundsOf ==
  ASSUME NEW u \in Experiments, row[u] = "absent", Meets(Stages[u].after),
         Meets(Stages[u].frozen),
         StageOf(u) \in ToSet(StartOrder) => Called(StageOf(u))
  PROVE  Grounds(u)
<1>1. ASSUME NEW s \in Experiments, Completed(s) PROVE s # u
  BY <1>1, FindingsAreNoStatus DEF Completed, Plainly
<1>2. StageOf(u) = "halving" <=> u = "halving"
  BY TrioNames DEF StageOf
<1>3. CASE u = "halving"
  <2>1. StageOf(u) = "halving" /\ "halving" \in ToSet(StartOrder)
    BY <1>2, <1>3, StartNames
  <2>2. ~Unfinished
    BY <2>1, CalledStages
  <2> QED BY <1>3, <2>2 DEF Grounds
<1>4. CASE u # "halving"
  <2>1. ASSUME StageOf(u) \in ToSet(StartOrder)
        PROVE  \E s \in Experiments \ {u} : Leads(s, StageOf(u))
    <3>1. \E s \in Experiments : Leads(s, StageOf(u))
      BY <1>2, <1>4, <2>1, CalledStages
    <3> QED BY <1>1, <3>1 DEF Leads
  <2> QED BY <1>4, <2>1 DEF Grounds
<1> QED BY <1>3, <1>4

\* Nothing is needed of some.
LEMMA NoNeeds ==
  \A u \in {"design", "execution", "post_design", "pilot", "mutation", "role_research",
            "feed_audit", "post_meta"} : Meets(Stages[u].after) /\ Meets(Stages[u].frozen)
<1>1. Meets({})
  BY DEF Meets
<1>2. /\ Stages["design"].after = {} /\ Stages["design"].frozen = {}
      /\ Stages["execution"].after = {} /\ Stages["execution"].frozen = {}
      /\ Stages["post_design"].after = {} /\ Stages["post_design"].frozen = {}
      /\ Stages["pilot"].after = {} /\ Stages["pilot"].frozen = {}
      /\ Stages["mutation"].after = {} /\ Stages["mutation"].frozen = {}
      /\ Stages["role_research"].after = {} /\ Stages["role_research"].frozen = {}
      /\ Stages["feed_audit"].after = {} /\ Stages["feed_audit"].frozen = {}
      /\ Stages["post_meta"].after = {} /\ Stages["post_meta"].frozen = {}
  BY StageTable
<1> QED BY <1>1, <1>2

\* One experiment put on the queue.
LEMMA SaneQueue ==
  ASSUME NEW u \in Experiments, row[u] # "absent" \/ Grounds(u)
  PROVE  Sane(<< <<"queue", u>> >>) /\ Mute(<< <<"queue", u>> >>)
<1> PICK a : a = <<"queue", u>>
  OBVIOUS
<1>1. a[1] = "queue" /\ StepOK(a)
  BY StepsOK
<1>2. Inner(a)
  BY <1>1 DEF Inner
<1> QED BY <1>1, <1>2, SaneOne

\* Every answer of a stage that is called.
LEMMA SaneAnswers ==
  ASSUME NEW n, Called(n), NEW intact \in BOOLEAN
  PROVE  Sane(Resolve(n, intact).steps) /\ Mute(Resolve(n, intact).steps)
<1> DEFINE Calm(answer) == Sane(answer.steps) /\ Mute(answer.steps)
<1>0. /\ Calm(Answer(FALSE, <<>>)) /\ Calm(Answer(TRUE, <<>>)) /\ Calm(Answer(TRUE, Clear))
      /\ Calm(Mismatch)
  BY SaneEmpty, SaneBlocks DEF Answer
<1>1. ASSUME NEW t PROVE Calm(Existing(t))
  BY SaneEmpty, SaneBlocks DEF Existing, Answer
<1>2. ASSUME NEW t \in Experiments, NEW whole \in BOOLEAN,
             StageOf(t) \in ToSet(StartOrder) => Called(StageOf(t))
      PROVE  Calm(Reconcile(t, whole))
  <2> PICK Q : Q = << <<"queue", t>> >>
    OBVIOUS
  <2>1. CASE row[t] # "absent"
    BY <1>1, <2>1 DEF Reconcile
  <2>2. CASE row[t] = "absent" /\ ~Meets(Stages[t].after)
    BY <1>0, <2>2 DEF Reconcile
  <2>3. CASE row[t] = "absent" /\ Meets(Stages[t].after) /\ Meets(Stages[t].frozen) /\ whole
    <3>1. Grounds(t)
      BY <1>2, <2>3, GroundsOf
    <3>2. Sane(Q \o Clear) /\ Mute(Q \o Clear)
      BY <3>1, SaneQueue, SaneBlocks, SaneJoin
    <3>3. Reconcile(t, whole) = Answer(TRUE, Q \o Clear)
      BY <2>3 DEF Reconcile
    <3> QED BY <3>2, <3>3 DEF Answer
  <2>4. CASE row[t] = "absent" /\ Meets(Stages[t].after) /\ ~(Meets(Stages[t].frozen) /\ whole)
    BY <1>0, <2>4 DEF Reconcile
  <2> QED BY <2>1, <2>2, <2>3, <2>4
<1>3. CASE n = "contract_map"
  <2>1. "contract_map" \in Experiments /\ StageOf("contract_map") = "contract_map"
    BY ExperimentNames, TrioNames DEF StageOf
  <2>2. Calm(Reconcile("contract_map", intact))
    BY <1>2, <1>3, <2>1
  <2>3. Calm(Answer(row["contract_map"] = "QUEUED", <<>>))
    BY SaneEmpty DEF Answer
  <2> QED BY <1>3, <2>2, <2>3 DEF Resolve, ReconcileContractMap
<1>4. CASE n = "v3_design"
  <2>1. /\ "v3_design" \in Experiments /\ StageOf("v3_design") = "v3_design"
        /\ "v3" \in Experiments /\ StageOf("v3") \notin ToSet(StartOrder)
    BY ExperimentNames, TrioNames, StartNames DEF StageOf
  <2>2. Calm(Reconcile("v3_design", intact)) /\ Calm(Reconcile("v3", TRUE))
    BY <1>2, <1>4, <2>1
  <2>3. Calm([Existing("v3") EXCEPT !.ok = (row["v3"] = "QUEUED")])
    BY <1>1 DEF Existing, Answer
  <2> QED BY <1>4, <2>2, <2>3 DEF Resolve, ReconcileV3
<1>5. CASE n = "trio"
  <2> PICK A : A = {t \in ToSet(Trio) : row[t] = "absent"}
    OBVIOUS
  <2> PICK open : open = Those(Trio, A)
    OBVIOUS
  <2>1. DOMAIN Trio = 1..3 /\ 3 \in Nat
    BY DEF Trio
  <2>2. IsList(open) /\ Len(open) \in Nat /\ \A k \in 1..Len(open) : open[k] \in A
    <3>1. IsList(open)
      BY <2>1, ThoseAre
    <3> QED BY <2>1, <3>1, ThoseOnly DEF IsList
  <2> PICK Q : Q = [i \in 1..Len(open) |-> <<"queue", open[i]>>]
    OBVIOUS
  <2>3. ASSUME NEW u \in A
        PROVE  u \in Experiments /\ Grounds(u)
    <3>1. u \in Experiments /\ StageOf(u) = "trio" /\ row[u] = "absent"
      BY TrioNames, ExperimentNames DEF StageOf
    <3>2. Meets(Stages[u].after) /\ Meets(Stages[u].frozen)
      BY TrioNames, NoNeeds
    <3> QED BY <1>5, <3>1, <3>2, GroundsOf
  <2>4. ASSUME NEW k \in 1..Len(open)
        PROVE  StepOK(Q[k]) /\ Inner(Q[k]) /\ Q[k][1] \notin {"phase", "blocker"}
    <3> PICK u : u = open[k]
      OBVIOUS
    <3>1. Q[k] = <<"queue", u>> /\ u \in A
      BY <2>2
    <3>2. StepOK(<<"queue", u>>)
      BY <2>3, <3>1, StepsOK
    <3> QED BY <3>1, <3>2 DEF Inner
  <2>5. Sane(Q) /\ Mute(Q)
    BY <2>2, <2>4, SaneEach
  <2>6. Calm(Answer(TRUE, Q \o Clear))
    BY <2>5, SaneBlocks, SaneJoin DEF Answer
  <2>7. ReconcileTrio(intact) \in {Answer(TRUE, Clear), Mismatch, Answer(FALSE, <<>>),
                                   Answer(TRUE, Q \o Clear)}
    BY DEF ReconcileTrio
  <2>8. Resolve(n, intact) = ReconcileTrio(intact)
    BY <1>5 DEF Resolve
  <2> QED BY <1>0, <2>6, <2>7, <2>8
<1>6. CASE n \in {"pilot", "unsupported_pilot"}
  <2>1. "pilot" \in Experiments /\ StageOf("pilot") \notin ToSet(StartOrder)
    BY ExperimentNames, TrioNames, StartNames DEF StageOf
  <2>2. row["pilot"] # "absent" \/ Grounds("pilot")
    BY <2>1, NoNeeds, GroundsOf
  <2> PICK Q : Q = << <<"queue", "pilot">> >>
    OBVIOUS
  <2>3. Sane(Q) /\ Mute(Q)
    BY <2>1, <2>2, SaneQueue
  <2> PICK M : M = Writes("ENGINEERING_BLOCKED", "MISSING_EXPERIMENT_HANDLER")
    OBVIOUS
  <2>4. Sane(M) /\ Mute(M)
    BY SaneBlocks DEF Blocked
  <2>5. Calm(Answer(TRUE, Q \o <<>>)) /\ Calm(Answer(TRUE, Q \o M))
    BY <2>3, <2>4, SaneEmpty, SaneJoin DEF Answer
  <2>6. Resolve(n, intact) \in {Answer(TRUE, Q \o <<>>), Answer(TRUE, Q \o M)}
    BY <1>6 DEF Resolve, QueuePilot
  <2> QED BY <2>5, <2>6
<1>7. CASE n = "finalize"
  <2> PICK A, B, C, D :
        /\ A = << <<"mark", "campaign">> >> /\ B = Writes("TARGETED_RESEARCH_RESUMED", "none")
        /\ C = << <<"queue", "post_meta">> >> /\ D = A \o B
    OBVIOUS
  <2>1. CASE Unfinished
    <3>1. Calm(Answer(TRUE, Writes("RUNNING_PARALLEL_EXPERIMENTS", "none")))
      BY SaneBlocks DEF Lifted, Answer
    <3> QED BY <1>7, <2>1, <3>1 DEF Resolve, Finalize
  <2>2. CASE ~Unfinished
    <3>1. Sane(A) /\ Mute(A)
      <4> PICK a : a = <<"mark", "campaign">>
        OBVIOUS
      <4>1. a[1] = "mark" /\ StepOK(a)
        BY <2>2, StepsOK
      <4>2. Inner(a)
        BY <4>1 DEF Inner
      <4> QED BY <4>1, <4>2, SaneOne
    <3>2. Sane(B) /\ Mute(B)
      BY SaneBlocks DEF Lifted
    <3>3. Sane(D) /\ Mute(D)
      BY <3>1, <3>2, SaneJoin
    <3>4. Sane(C) /\ Mute(C)
      <4>1. "post_meta" \in Experiments /\ StageOf("post_meta") \notin ToSet(StartOrder)
        BY ExperimentNames, TrioNames, StartNames DEF StageOf
      <4>2. row["post_meta"] # "absent" \/ Grounds("post_meta")
        BY <4>1, NoNeeds, GroundsOf
      <4> QED BY <4>1, <4>2, SaneQueue
    <3>5. /\ Calm(Answer(TRUE, D \o <<>>)) /\ Calm(Answer(TRUE, D \o C))
          /\ Calm(Answer(TRUE, D \o Mismatch.steps))
      BY <3>3, <3>4, SaneEmpty, SaneBlocks, SaneJoin DEF Answer
    <3>6. Finalize(intact) \in {Answer(TRUE, D \o <<>>), Answer(TRUE, D \o C),
                                Answer(TRUE, D \o Mismatch.steps)}
      BY <2>2 DEF Finalize
    <3>7. Resolve(n, intact) = Finalize(intact)
      BY <1>7 DEF Resolve
    <3> QED BY <3>5, <3>6, <3>7
  <2> QED BY <2>1, <2>2
<1>8. CASE n \notin {"contract_map", "v3_design", "trio", "pilot", "unsupported_pilot", "finalize"}
  <2>1. n \in Experiments /\ StageOf(n) = n
    BY <1>8, CalledStages DEF StageOf
  <2>2. Calm(Reconcile(n, intact))
    BY <1>2, <2>1
  <2> QED BY <1>8, <2>2 DEF Resolve
<1> QED BY <1>3, <1>4, <1>5, <1>6, <1>7, <1>8

\* Nothing in front of a list.
LEMMA NothingBefore ==
  ASSUME NEW s, IsList(s)
  PROVE  <<>> \o s = s
<1> DEFINE S == {s[p] : p \in 1..Len(s)}
<1>1. s \in Seq(S)
  BY ListIsSeq
<1> HIDE DEF S
<1> QED BY <1>1, ConcatEmptySeq

\* The parts of a route: its flag, its block, its call and its record.
PartsOf(s, o, A, B, C, D) ==
  /\ Routing(s) = ((A \o B) \o C) \o D
  /\ A = (IF s \in {"design", "execution"} THEN << <<"mark", s>> >> ELSE <<>>)
  /\ B = (IF o.phase = "none" THEN <<>> ELSE Writes(o.phase, o.ask))
  /\ C = (IF o.next = "none" THEN <<>> ELSE << <<"reconcile", o.next>> >>)
  /\ D = << <<"event", s>> >>
  /\ Sane(A) /\ Mute(A) /\ Sane(B) /\ Sane(C) /\ Mute(C) /\ Sane(D) /\ Mute(D)
  /\ o.phase = "none" => A \o B = A
  /\ o.phase # "none" => A \o B = B

\* Every route has its parts.
LEMMA RoutingParts ==
  ASSUME NEW s \in Experiments, Completed(s), NEW o, o = Route[s][row[s]]
  PROVE  \E A, B, C, D : PartsOf(s, o, A, B, C, D)
<1> PICK A, B, C, D :
      /\ A = (IF s \in {"design", "execution"} THEN << <<"mark", s>> >> ELSE <<>>)
      /\ B = (IF o.phase = "none" THEN <<>> ELSE Writes(o.phase, o.ask))
      /\ C = (IF o.next = "none" THEN <<>> ELSE << <<"reconcile", o.next>> >>)
      /\ D = << <<"event", s>> >>
  OBVIOUS
<1>0. row[s] \in DOMAIN Route[s] /\ AskOf(s) = o.ask /\ NextOf(s) = o.next
  BY DEF Completed, AskOf, NextOf
<1>1. Sane(A) /\ Mute(A)
  <2>1. CASE s \in {"design", "execution"}
    <3> PICK a : a = <<"mark", s>>
      OBVIOUS
    <3>1. a[1] = "mark" /\ s # "campaign" /\ A = <<a>>
      BY <2>1
    <3>2. StepOK(a) /\ Inner(a)
      BY <3>1, StepsOK DEF Inner
    <3> QED BY <3>1, <3>2, SaneOne
  <2>2. CASE s \notin {"design", "execution"}
    BY <2>2, SaneEmpty
  <2> QED BY <2>1, <2>2
<1>2. Sane(B)
  <2>1. CASE o.phase = "none"
    BY <2>1, SaneEmpty
  <2>2. CASE o.phase # "none"
    <3>1. o.phase \in Blocked \/ (o.phase \in Lifted /\ o.ask = "none")
      BY <1>0, <2>2, RouteShape DEF Lifted
    <3>2. Reason(o.ask)
      BY <1>0 DEF Reason
    <3> QED BY <2>2, <3>1, <3>2, SaneWrites
  <2> QED BY <2>1, <2>2
<1>3. Sane(C) /\ Mute(C)
  <2>1. CASE o.next = "none"
    BY <2>1, SaneEmpty
  <2>2. CASE o.next # "none"
    <3> PICK a : a = <<"reconcile", o.next>>
      OBVIOUS
    <3>1. a[1] = "reconcile" /\ C = <<a>>
      BY <2>2
    <3>2. StepOK(a) /\ Inner(a)
      BY <1>0, <2>2, <3>1, StepsOK DEF Inner
    <3> QED BY <3>1, <3>2, SaneOne
  <2> QED BY <2>1, <2>2
<1>4. Sane(D) /\ Mute(D)
  <2> PICK a : a = <<"event", s>>
    OBVIOUS
  <2>1. a[1] = "event" /\ D = <<a>>
    OBVIOUS
  <2>2. StepOK(a) /\ Inner(a)
    BY <2>1, StepsOK DEF Inner
  <2> QED BY <2>1, <2>2, SaneOne
<1>5. o.phase = "none" => A \o B = A
  <2>1. CASE s \in {"design", "execution"}
    <3> PICK a : a = <<"mark", s>>
      OBVIOUS
    <3>1. <<a>> \o <<>> = <<a>>
      OBVIOUS
    <3> QED BY <1>1, <2>1, <3>1
  <2>2. CASE s \notin {"design", "execution"}
    <3>1. <<>> \o <<>> = <<>>
      OBVIOUS
    <3> QED BY <1>1, <2>2, <3>1
  <2> QED BY <2>1, <2>2
<1>6. o.phase # "none" => A \o B = B
  <2>1. ASSUME o.phase # "none" PROVE A = <<>>
    BY <1>0, <2>1, RouteShape
  <2>2. IsList(B)
    BY <1>2 DEF Sane
  <2> QED BY Zenon, <2>1, <2>2, NothingBefore
<1>7. Routing(s) = ((A \o B) \o C) \o D
  BY DEF Routing
<1>8. PartsOf(s, o, A, B, C, D)
  BY Zenon, <1>1, <1>2, <1>3, <1>4, <1>5, <1>6, <1>7 DEF PartsOf
<1> QED BY <1>8

\* A route.
LEMMA SaneRouting ==
  ASSUME NEW s \in Experiments, Completed(s)
  PROVE  Sane(Routing(s))
<1> PICK o : o = Route[s][row[s]]
  OBVIOUS
<1>1. PICK A, B, C, D : PartsOf(s, o, A, B, C, D)
  BY RoutingParts
<1> PICK P : P = A \o B
  OBVIOUS
<1> PICK R : R = P \o C
  OBVIOUS
<1>2. Sane(P) /\ Sane(C) /\ Mute(C) /\ Sane(D) /\ Mute(D)
  BY Zenon, <1>1 DEF PartsOf
<1>3. Sane(R)
  BY <1>2, SaneJoin
<1>4. Routing(s) = R \o D
  BY Zenon, <1>1 DEF PartsOf
<1> QED BY <1>2, <1>3, <1>4, SaneJoin

\* The search for results.
LEMMA SaneCompleted ==
  /\ Sane(ReconcileCompleted) /\ Mute(ReconcileCompleted)
  /\ \A p \in 1..Len(ReconcileCompleted) :
       \E s \in Experiments : Unrouted(s) /\ ReconcileCompleted[p] = <<"route", s>>
<1> PICK U : U = {s \in Experiments : Unrouted(s)}
  OBVIOUS
<1> PICK due : due = Those(CompletedOrder, U)
  OBVIOUS
<1>1. DOMAIN CompletedOrder = 1..53 /\ 53 \in Nat
  BY DEF CompletedOrder
<1>2. IsList(due) /\ Len(due) \in Nat /\ \A k \in 1..Len(due) : due[k] \in U
  <2>1. IsList(due)
    BY <1>1, ThoseAre
  <2> QED BY <1>1, <2>1, ThoseOnly DEF IsList
<1> PICK T : T = [i \in 1..Len(due) |-> <<"route", due[i]>>]
  OBVIOUS
<1>3. ReconcileCompleted = T
  BY DEF ReconcileCompleted
<1>4. ASSUME NEW k \in 1..Len(due)
      PROVE  /\ StepOK(T[k]) /\ Inner(T[k]) /\ T[k][1] \notin {"phase", "blocker"}
             /\ \E s \in Experiments : Unrouted(s) /\ T[k] = <<"route", s>>
  <2> PICK s : s = due[k]
    OBVIOUS
  <2>1. T[k] = <<"route", s>> /\ s \in Experiments /\ Unrouted(s)
    BY <1>2
  <2>2. StepOK(<<"route", s>>)
    BY <2>1, StepsOK DEF Unrouted
  <2> QED BY <2>1, <2>2 DEF Inner
<1>5. Sane(T) /\ Mute(T) /\ Len(T) = Len(due)
  BY <1>2, <1>4, SaneEach
<1> QED BY ZenonT(30), <1>3, <1>4, <1>5

\* What is done after a completion.
LEMMA SaneSettled == Sane(Settled) /\ Mute(Settled)
BY SaneEmpty, SaneBlocks DEF Settled

\* What is done at the end of a start.
LEMMA SaneConclusion ==
  ASSUME RowsInv, NEW T, T = IF Restore THEN Writes(saved[1], saved[2]) ELSE Settled
  PROVE  Sane(T)
<1>1. CASE Restore
  <2>1. saved[1] \in Blocked /\ Reason(saved[2])
    BY <1>1 DEF Restore, RowsInv
  <2> QED BY <1>1, <2>1, SaneWrites
<1>2. CASE ~Restore
  BY <1>2, SaneSettled
<1> QED BY <1>1, <1>2

\* What a start resolves.
LEMMA SaneStarts ==
  ASSUME RowsInv, NEW needed, needed = Those(StartOrder, {s \in ToSet(StartOrder) : Required(s)}),
         NEW A, A = [i \in 1..Len(needed) |-> <<"start", needed[i]>>]
  PROVE  /\ Sane(A) /\ Mute(A)
         /\ \A p \in 1..Len(A) :
              A[p][1] = "start" /\ A[p][2] \in ToSet(StartOrder) /\ Required(A[p][2])
<1>1. DOMAIN StartOrder = 1..39 /\ 39 \in Nat
  BY DEF StartOrder
<1>2. /\ IsList(needed) /\ Len(needed) \in Nat
      /\ \A k \in 1..Len(needed) : needed[k] \in ToSet(StartOrder) /\ Required(needed[k])
  <2>1. IsList(needed)
    BY <1>1, ThoseAre
  <2>2. \A k \in 1..Len(needed) : needed[k] \in {s \in ToSet(StartOrder) : Required(s)}
    BY <1>1, ThoseOnly
  <2> QED BY <2>1, <2>2 DEF IsList
<1>3. ASSUME NEW n \in ToSet(StartOrder), Required(n)
      PROVE  StepOK(<<"start", n>>)
  <2>1. CASE n = "halving"
    BY <1>3, <2>1, StepsOK DEF Required, RowsInv
  <2>2. CASE n # "halving"
    <3>1. PICK b \in {blocker, saved[2]} : b \in StartedBy(n)
      BY <1>3, <2>2 DEF Required
    <3>2. n \in Starters(b) /\ IsAsk(b) /\ Reason(b)
      BY <2>2, <3>1, Asks DEF RowsInv
    <3>3. PICK s \in Experiments : Completed(s) /\ AskOf(s) = b
      BY <3>2 DEF Reason
    <3>4. Leads(s, n)
      BY <3>2, <3>3 DEF Leads
    <3> QED BY <2>2, <3>4, StepsOK
  <2> QED BY <2>1, <2>2
<1>4. ASSUME NEW k \in 1..Len(needed)
      PROVE  /\ StepOK(A[k]) /\ Inner(A[k]) /\ A[k][1] \notin {"phase", "blocker"}
             /\ A[k][1] = "start" /\ A[k][2] \in ToSet(StartOrder) /\ Required(A[k][2])
  <2> PICK n : n = needed[k]
    OBVIOUS
  <2>1. A[k] = <<"start", n>> /\ n \in ToSet(StartOrder) /\ Required(n)
    BY <1>2
  <2>2. StepOK(<<"start", n>>)
    BY <1>3, <2>1
  <2> QED BY <2>1, <2>2 DEF Inner
<1>5. Sane(A) /\ Mute(A) /\ Len(A) = Len(needed)
  BY <1>2, <1>4, SaneEach
<1> QED BY <1>4, <1>5

-----------------------------------------------------------------------------
(* One step of the list keeps it in order.                                 *)

\* A list without its first step.
LEMMA Shifted ==
  ASSUME IsList(todo), todo # <<>>, Then(<<>>)
  PROVE  /\ IsList(todo') /\ Len(todo') \in Nat /\ Len(todo) = Len(todo') + 1
         /\ Head(todo) = todo[1] /\ 1 \in 1..Len(todo)
         /\ \A p \in 1..Len(todo') :
              todo'[p] = todo[p + 1] /\ p + 1 \in 1..Len(todo) /\ p + 1 \in 2..Len(todo)
         /\ todo' = <<>> <=> Len(todo) = 1
<1> PICK T : T = <<>>
  OBVIOUS
<1>1. IsList(T) /\ Len(T) = 0 /\ Then(T)
  BY EmptyList
<1>2. /\ IsList(todo') /\ Len(todo') = Len(T) + Len(todo) - 1
      /\ Len(todo) \in Nat /\ Len(todo) >= 1 /\ Head(todo) = todo[1]
      /\ \A p \in Len(T) + 1..Len(todo') :
              todo'[p] = todo[p - Len(T) + 1] /\ p - Len(T) + 1 \in 2..Len(todo)
  BY SMTT(20), <1>1, Replaced
<1>3. Len(todo) = Len(todo') + 1 /\ Len(todo') \in Nat
  BY <1>1, <1>2
<1> PICK n \in Nat : n = Len(todo')
  BY <1>3
<1>4. ASSUME NEW p \in 1..n
      PROVE  todo'[p] = todo[p + 1] /\ p + 1 \in 1..n + 1 /\ p + 1 \in 2..n + 1
  <2>1. p \in 0 + 1..n /\ p - 0 + 1 = p + 1
    OBVIOUS
  <2> QED BY <1>1, <1>2, <1>3, <2>1
<1>5. todo' = <<>> <=> n = 0
  <2>1. n = 0 => todo' = <<>>
    BY <1>2 DEF IsList
  <2> QED BY <2>1, EmptyList
<1>6. 1 \in 1..n + 1 /\ (n = 0 <=> n + 1 = 1)
  OBVIOUS
<1> QED BY <1>2, <1>3, <1>4, <1>5, <1>6

\* Where the steps of the new list come from.
LEMMA Came ==
  ASSUME IsList(todo), todo # <<>>, NEW T, IsList(T), Then(T), NEW p \in 1..Len(todo')
  PROVE  \/ p \in 1..Len(T) /\ todo'[p] = T[p]
         \/ \E q \in 2..Len(todo) :
              p = q + Len(T) - 1 /\ todo'[p] = todo[q] /\ q \in 1..Len(todo)
<1>1. /\ Len(todo') = Len(T) + Len(todo) - 1 /\ Len(todo) \in Nat /\ Len(todo) >= 1
      /\ Len(T) \in Nat
      /\ \A i \in 1..Len(T) : todo'[i] = T[i]
      /\ \A i \in Len(T) + 1..Len(todo') :
           todo'[i] = todo[i - Len(T) + 1] /\ i - Len(T) + 1 \in 2..Len(todo)
  BY Replaced
<1>2. CASE p \in 1..Len(T)
  BY <1>1, <1>2
<1>3. CASE p \notin 1..Len(T)
  <2>1. p \in Len(T) + 1..Len(todo')
    BY <1>1, <1>3
  <2> PICK q : q = p - Len(T) + 1
    OBVIOUS
  <2>2. todo'[p] = todo[q] /\ q \in 2..Len(todo)
    BY <1>1, <2>1
  <2>3. p = q + Len(T) - 1 /\ q \in 1..Len(todo)
    BY <1>1, <2>1, <2>2
  <2> QED BY <2>2, <2>3
<1> QED BY <1>2, <1>3

\* The next state of the parts of the invariant.
LEMMA ClosesNext ==
  ASSUME \A p \in 1..Len(todo') : todo'[p] \in Closing => p = Len(todo'),
         \/ saved' = NoSave
         \/ todo' # <<>> /\ todo'[Len(todo')] \in Closing \ {<<"settle", "none">>}
  PROVE  Closes'
BY DEF Closes, Closing, NoSave

\* Of the blocks.
LEMMA BlockNext ==
  ASSUME \A p \in 1..Len(todo') :
           Lifting(todo'[p]) => p + 1 \in 1..Len(todo') /\ todo'[p + 1] = <<"blocker", "none">>,
         \A p \in 1..Len(todo') :
           Asking(todo'[p]) => (p = 1 /\ phase' \in Blocked) \/ (p = 2 /\ Blocking(todo'[1])),
         \A p \in 1..Len(todo') :
           todo'[p][1] = "phase" /\ ~Lifting(todo'[p]) /\ ~Blocking(todo'[p]) =>
             ~IsAsk(blocker') /\ \A q \in 1..Len(todo') : Planning(todo'[q]),
         up' /\ phase' \notin Blocked /\ IsAsk(blocker') =>
           \E p \in 1..Len(todo') :
             \/ todo'[p] = <<"blocker", "none">> \/ todo'[p] = <<"collect", "none">>
             \/ todo'[p] = <<"conclude", "none">> \/ Blocking(todo'[p])
  PROVE  BlockInv'
BY DEF BlockInv, Lifting, Asking, Blocking, Planning, IsAsk, Starters, IsBlocked

\* Of a batch.
LEMMA BatchNext ==
  ASSUME \A p \in 1..Len(todo') :
           Member(todo'[p]) =>
             /\ ~IsAsk(blocker') /\ saved' = NoSave /\ ~queued'
             /\ \A q \in 1..p : Member(todo'[q])
             /\ \A q \in 1..Len(todo') :
                  BatchStep(todo'[q])
                  /\ (Member(todo'[q]) /\ todo'[q][2] = todo'[p][2] => p = q)
  PROVE  BatchInv'
BY DEF BatchInv, Member, BatchStep, IsAsk, Starters, NoSave

\* One step of the list, but for the one that collects what is required: what
\* it makes of the phase, the blocker and the memory of the start.
Turn(d, T) ==
  /\ up /\ up' = up /\ todo # <<>> /\ Head(todo)[1] = d /\ d # "collect"
  /\ Sane(T) /\ Then(T)
  /\ IF d = "phase" THEN phase' = Head(todo)[2] ELSE phase' = phase
  /\ IF d = "blocker" THEN blocker' = Head(todo)[2] ELSE blocker' = blocker
  /\ d \in {"phase", "blocker", "mark", "queue", "finish", "fail"} => T = <<>>
  /\ IF d = "conclude" THEN saved' = NoSave ELSE saved' = saved
  /\ d \in {"finish", "fail"} => queued' = queued
  /\ d = "conclude" /\ phase \notin Blocked =>
       \E p \in 1..Len(T) : T[p] = <<"blocker", "none">> \/ Blocking(T[p])

\* It leaves the closing step at the end.
LEMMA TurnCloses ==
  ASSUME CampaignInv, Closes, NEW d, NEW T, Turn(d, T)
  PROVE  Closes'
<1>1. /\ IsList(todo') /\ Len(todo') = Len(T) + Len(todo) - 1
      /\ Len(todo) \in Nat /\ Len(todo) >= 1 /\ Head(todo) = todo[1] /\ Len(T) \in Nat
      /\ \A p \in 1..Len(T) : todo'[p] = T[p]
      /\ \A q \in 2..Len(todo) :
           q + Len(T) - 1 \in 1..Len(todo') /\ todo'[q + Len(T) - 1] = todo[q]
  BY Replaced DEF Turn, Sane, CampaignInv
<1>2. ASSUME NEW p \in 1..Len(todo'), todo'[p] \in Closing PROVE p = Len(todo')
  <2>1. p \notin 1..Len(T)
    <3>1. ASSUME p \in 1..Len(T) PROVE FALSE
      <4>1. Inner(T[p]) /\ T[p] \in Closing
        BY <1>1, <1>2, <3>1 DEF Turn, Sane, SaneAt
      <4> PICK a : a = T[p]
        OBVIOUS
      <4>2. a[1] \in {"collect", "conclude", "settle"}
        BY <4>1 DEF Closing
      <4> QED BY <4>1, <4>2 DEF Inner
    <3> QED BY <3>1
  <2>2. PICK q \in 2..Len(todo) : p = q + Len(T) - 1 /\ todo'[p] = todo[q] /\ q \in 1..Len(todo)
    BY <2>1, Came DEF Turn, Sane, CampaignInv
  <2>3. q = Len(todo)
    BY <1>2, <2>2 DEF Closes
  <2> QED BY <1>1, <2>2, <2>3
<1>3. CASE d = "conclude" \/ saved = NoSave
  <2>1. saved' = NoSave
    BY <1>3 DEF Turn
  <2> QED BY <1>2, <2>1, ClosesNext
<1>4. CASE d # "conclude" /\ saved # NoSave
  <2> PICK l \in Nat, m \in Nat : l = Len(todo) /\ m = Len(T)
    BY <1>1
  <2>1. todo[l] \in Closing \ {<<"settle", "none">>}
    BY <1>4 DEF Closes
  <2>2. l # 1
    <3> PICK a : a = todo[l]
      OBVIOUS
    <3>1. a[1] \in {"collect", "conclude"}
      BY <2>1 DEF Closing
    <3> QED BY <1>1, <1>4, <3>1 DEF Turn
  <2>3. l \in 2..l
    BY <1>1, <2>2
  <2>4. Len(todo') = l + m - 1 /\ Len(todo') \in 1..Len(todo') /\ todo'[Len(todo')] = todo[l]
    BY <1>1, <2>3
  <2>5. todo' # <<>>
    BY <2>4, EmptyList
  <2> QED BY <1>2, <2>1, <2>4, <2>5, ClosesNext
<1> QED BY <1>3, <1>4

\* It keeps the members of a batch in front.
LEMMA TurnBatch ==
  ASSUME CampaignInv, BatchInv, NEW d, NEW T, Turn(d, T)
  PROVE  BatchInv'
<1>0. IsList(todo) /\ IsList(T) /\ todo # <<>> /\ Then(T)
  BY DEF Turn, Sane, CampaignInv
<1>1. ASSUME NEW p \in 1..Len(todo'), Member(todo'[p])
      PROVE  /\ d \in {"finish", "fail"} /\ T = <<>> /\ Head(todo) = todo[1]
             /\ ~IsAsk(blocker) /\ saved = NoSave /\ ~queued
  <2>1. p \notin 1..Len(T)
    <3>1. ASSUME p \in 1..Len(T) PROVE FALSE
      <4>1. Inner(T[p]) /\ Member(T[p])
        BY <1>0, <1>1, <3>1, Replaced DEF Turn, Sane, SaneAt
      <4> QED BY <4>1 DEF Inner, Member
    <3> QED BY <3>1
  <2>2. PICK q \in 2..Len(todo) : todo'[p] = todo[q] /\ q \in 1..Len(todo)
    BY <1>0, <2>1, Came
  <2>3. /\ ~IsAsk(blocker) /\ saved = NoSave /\ ~queued
        /\ \A r \in 1..q : Member(todo[r])
    BY <1>1, <2>2 DEF BatchInv
  <2>4. 1 \in 1..q /\ Head(todo) = todo[1]
    BY <1>0, Rest
  <2> QED BY <2>3, <2>4 DEF Turn, Member
<1>2. ASSUME NEW p \in 1..Len(todo'), Member(todo'[p])
      PROVE  /\ ~IsAsk(blocker') /\ saved' = NoSave /\ ~queued'
             /\ \A q \in 1..p : Member(todo'[q])
             /\ \A q \in 1..Len(todo') :
                  BatchStep(todo'[q])
                  /\ (Member(todo'[q]) /\ todo'[q][2] = todo'[p][2] => p = q)
  <2>1. /\ d \in {"finish", "fail"} /\ T = <<>>
        /\ ~IsAsk(blocker) /\ saved = NoSave /\ ~queued
    BY <1>1, <1>2
  <2>2. blocker' = blocker /\ saved' = saved /\ queued' = queued
    BY <2>1 DEF Turn
  <2>3. Then(<<>>)
    BY <1>0, <2>1
  <2>4. /\ Len(todo') \in Nat /\ Len(todo) = Len(todo') + 1
        /\ \A q \in 1..Len(todo') :
             todo'[q] = todo[q + 1] /\ q + 1 \in 1..Len(todo)
    BY <1>0, <2>3, Shifted
  <2>5. /\ \A r \in 1..p + 1 : Member(todo[r])
        /\ \A r \in 1..Len(todo) :
             BatchStep(todo[r])
             /\ (Member(todo[r]) /\ todo[r][2] = todo[p + 1][2] => p + 1 = r)
    BY <1>2, <2>4 DEF BatchInv
  <2>6. ASSUME NEW q \in 1..p PROVE Member(todo'[q])
    <3>1. q \in 1..Len(todo') /\ q + 1 \in 1..p + 1
      BY <2>4
    <3> QED BY <2>4, <2>5, <3>1
  <2>7. ASSUME NEW q \in 1..Len(todo')
        PROVE  /\ BatchStep(todo'[q])
               /\ Member(todo'[q]) /\ todo'[q][2] = todo'[p][2] => p = q
    <3>1. todo'[q] = todo[q + 1] /\ q + 1 \in 1..Len(todo) /\ todo'[p] = todo[p + 1]
      BY <2>4
    <3>2. p + 1 = q + 1 => p = q
      OBVIOUS
    <3> QED BY <2>5, <3>1, <3>2
  <2> QED BY <2>1, <2>2, <2>6, <2>7
<1> QED BY <1>2, BatchNext

\* It lifts, puts back and writes the blocks in order.
LEMMA TurnBlock ==
  ASSUME CampaignInv, BlockInv, NEW d, NEW T, Turn(d, T)
  PROVE  BlockInv'
<1>0. IsList(todo) /\ IsList(T) /\ todo # <<>> /\ Then(T) /\ \A p \in 1..Len(T) : SaneAt(T, p)
  BY DEF Turn, Sane, CampaignInv
<1>1. /\ Len(todo') = Len(T) + Len(todo) - 1
      /\ Len(todo) \in Nat /\ Len(todo) >= 1 /\ Head(todo) = todo[1] /\ Len(T) \in Nat
      /\ \A p \in 1..Len(T) : todo'[p] = T[p]
      /\ \A q \in 2..Len(todo) :
           q + Len(T) - 1 \in 1..Len(todo') /\ todo'[q + Len(T) - 1] = todo[q]
  BY <1>0, Replaced
<1> PICK l \in Nat, m \in Nat : l = Len(todo) /\ m = Len(T)
  BY <1>1
<1>2. 1 \in 1..l /\ Len(todo') = m + l - 1
  BY <1>1
<1>3. ASSUME NEW p \in 1..Len(todo'), Lifting(todo'[p])
      PROVE  p + 1 \in 1..Len(todo') /\ todo'[p + 1] = <<"blocker", "none">>
  <2>1. CASE p \in 1..m
    <3>1. p + 1 \in 1..m /\ T[p + 1] = <<"blocker", "none">>
      BY <1>0, <1>1, <1>3, <2>1 DEF SaneAt
    <3>2. p + 1 \in 1..Len(todo')
      BY <1>2, <3>1
    <3> QED BY <1>1, <3>1, <3>2
  <2>2. ASSUME NEW q \in 2..l, p = q + m - 1, todo'[p] = todo[q], q \in 1..l
        PROVE  p + 1 \in 1..Len(todo') /\ todo'[p + 1] = <<"blocker", "none">>
    <3>1. q + 1 \in 1..l /\ todo[q + 1] = <<"blocker", "none">>
      BY <1>3, <2>2 DEF BlockInv
    <3> PICK r : r = q + 1
      OBVIOUS
    <3>2. r \in 2..l /\ r + m - 1 = p + 1
      BY <2>2, <3>1
    <3> QED BY <1>1, <3>1, <3>2
  <2> QED BY <1>0, <2>1, <2>2, Came
<1>4. ASSUME NEW p \in 1..Len(todo'), Asking(todo'[p])
      PROVE  (p = 1 /\ phase' \in Blocked) \/ (p = 2 /\ Blocking(todo'[1]))
  <2>1. CASE p \in 1..m
    <3>1. p = 2 /\ Blocking(T[1])
      BY <1>0, <1>1, <1>4, <2>1 DEF SaneAt
    <3>2. 1 \in 1..m
      BY <2>1, <3>1
    <3> QED BY <1>1, <3>1, <3>2
  <2>2. ASSUME NEW q \in 2..l, p = q + m - 1, todo'[p] = todo[q], q \in 1..l
        PROVE  p = 1 /\ phase' \in Blocked
    <3>1. (q = 1 /\ IsBlocked) \/ (q = 2 /\ Blocking(todo[1]))
      BY <1>4, <2>2 DEF BlockInv
    <3>2. q = 2 /\ Blocking(todo[1])
      BY <3>1
    <3>3. d = "phase" /\ phase' \in Blocked /\ T = <<>>
      BY <1>1, <3>2 DEF Turn, Blocking
    <3>4. m = 0
      BY <3>3, EmptyList
    <3> QED BY <2>2, <3>2, <3>3, <3>4
  <2> QED BY <1>0, <2>1, <2>2, Came
<1>5. ASSUME NEW p \in 1..Len(todo'), todo'[p][1] = "phase", ~Lifting(todo'[p]),
             ~Blocking(todo'[p])
      PROVE  ~IsAsk(blocker') /\ \A q \in 1..Len(todo') : Planning(todo'[q])
  <2>1. p \notin 1..m
    BY <1>0, <1>1, <1>5 DEF SaneAt
  <2>2. PICK q \in 1..l : todo'[p] = todo[q]
    BY <1>0, <2>1, Came
  <2>3. ~IsAsk(blocker) /\ \A r \in 1..l : Planning(todo[r])
    BY <1>5, <2>2 DEF BlockInv
  <2>4. Planning(todo[1])
    BY <1>2, <2>3
  <2>5. d \in {"phase", "mark", "queue", "blocker"} /\ Then(<<>>)
    BY <1>1, <2>4 DEF Planning, Turn
  <2>6. ~IsAsk(blocker')
    BY <1>1, <2>3, <2>4 DEF Planning, Turn
  <2>7. \A r \in 1..Len(todo') : todo'[r] = todo[r + 1] /\ r + 1 \in 1..Len(todo)
    BY <1>0, <2>5, Shifted
  <2> QED BY <2>3, <2>6, <2>7
<1>6. ASSUME up', phase' \notin Blocked, IsAsk(blocker')
      PROVE  \E p \in 1..Len(todo') :
               \/ todo'[p] = <<"blocker", "none">> \/ todo'[p] = <<"collect", "none">>
               \/ todo'[p] = <<"conclude", "none">> \/ Blocking(todo'[p])
  <2> DEFINE Sign(a) == \/ a = <<"blocker", "none">> \/ a = <<"collect", "none">>
                        \/ a = <<"conclude", "none">> \/ Blocking(a)
  <2>1. CASE d = "phase"
    <3>1. ~Blocking(todo[1]) /\ todo[1][1] = "phase" /\ IsAsk(blocker)
      BY <1>1, <1>6, <2>1 DEF Turn, Blocking
    <3>2. Lifting(todo[1])
      BY <1>2, <3>1 DEF BlockInv
    <3>3. 1 + 1 \in 1..l /\ todo[1 + 1] = <<"blocker", "none">>
      BY <1>2, <3>2 DEF BlockInv
    <3>4. 2 \in 2..l /\ m = 0 /\ 2 + m - 1 = 1
      <4>1. T = <<>>
        BY <2>1 DEF Turn
      <4> QED BY <3>3, <4>1, EmptyList
    <3>5. 1 \in 1..Len(todo') /\ todo'[1] = todo[2]
      BY <1>1, <3>4
    <3> QED BY <3>3, <3>5
  <2>2. CASE d = "blocker"
    <3>1. Asking(todo[1]) /\ phase' = phase
      BY <1>1, <1>6, <2>2 DEF Turn, Asking
    <3>2. IsBlocked
      BY <1>2, <3>1 DEF BlockInv
    <3> QED BY <1>6, <3>1, <3>2 DEF IsBlocked
  <2>3. CASE d \notin {"phase", "blocker"}
    <3>1. phase' = phase /\ blocker' = blocker
      BY <2>3 DEF Turn
    <3>2. PICK p \in 1..l : Sign(todo[p])
      <4>1. up /\ ~IsBlocked /\ IsAsk(blocker)
        BY <1>6, <3>1 DEF Turn, IsBlocked
      <4> QED BY <4>1 DEF BlockInv
    <3>3. CASE p = 1
      <4> PICK a : a = todo[1]
        OBVIOUS
      <4>1. a[1] = d /\ Sign(a) /\ d # "collect"
        BY <1>1, <3>2, <3>3 DEF Turn
      <4>2. d = "conclude"
        <5>1. a # <<"blocker", "none">> /\ a # <<"collect", "none">>
          BY <2>3, <4>1
        <5>2. ~Blocking(a)
          BY <2>3, <4>1 DEF Blocking
        <5> QED BY <4>1, <5>1, <5>2
      <4>3. PICK r \in 1..m : T[r] = <<"blocker", "none">> \/ Blocking(T[r])
        BY <1>6, <3>1, <4>2 DEF Turn
      <4>4. r \in 1..Len(todo') /\ todo'[r] = T[r]
        BY <1>1, <1>2
      <4> QED BY <4>3, <4>4
    <3>4. CASE p # 1
      <4>1. p \in 2..l
        BY <3>4
      <4>2. p + m - 1 \in 1..Len(todo') /\ todo'[p + m - 1] = todo[p]
        BY <1>1, <4>1
      <4> QED BY <3>2, <4>2
    <3> QED BY <3>3, <3>4
  <2> QED BY <2>1, <2>2, <2>3
<1> QED BY <1>3, <1>4, <1>5, <1>6, BlockNext

\* What is kept without a look at the results that wait.
GroundInv == CampaignInv /\ RowsInv /\ Closes /\ BlockInv /\ BatchInv

\* The first step is in order.
LEMMA FirstOK ==
  ASSUME CampaignInv, RowsInv, todo # <<>>
  PROVE  StepOK(Head(todo)) /\ Head(todo) = todo[1] /\ 1 \in 1..Len(todo)
<1>1. Len(todo) >= 1 /\ Len(todo) \in Nat /\ Head(todo) = todo[1]
  BY Rest DEF CampaignInv, IsList
<1> QED BY <1>1 DEF RowsInv

\* A turn of the list keeps all of it.
LEMMA TurnKeeps ==
  ASSUME GroundInv, CampaignInv', NEW d, NEW T, Turn(d, T), Grown,
         \A t \in Experiments : row[t] = "absent" => row'[t] = "absent" \/ Grounds(t),
         "campaign" \in marks' => ~Unfinished,
         \A s \in routed' : s \in routed \/ (s \in Experiments /\ Completed(s)),
         \A q \in 2..Len(todo) :
           Member(todo[q]) => row'[todo[q][2]] = row[todo[q][2]]
  PROVE  GroundInv'
<1>0. /\ IsList(todo) /\ IsList(T) /\ todo # <<>> /\ Then(T)
      /\ \A p \in 1..Len(T) : SaneAt(T, p)
  BY DEF Turn, Sane, GroundInv, CampaignInv
<1>1. Reason(blocker') /\ Reason(saved'[2])
  <2>1. CASE d = "blocker"
    <3>1. StepOK(Head(todo)) /\ Head(todo)[1] = "blocker" /\ blocker' = Head(todo)[2]
      BY <1>0, <2>1, FirstOK DEF GroundInv, Turn
    <3>2. saved' = saved
      BY <2>1 DEF Turn
    <3> QED BY <3>1, <3>2 DEF StepOK, GroundInv, RowsInv
  <2>2. CASE d # "blocker"
    <3>1. blocker' = blocker /\ saved' \in {saved, NoSave}
      BY <2>2 DEF Turn
    <3>2. Reason(NoSave[2])
      BY NoneIsNoAsk, NoReason DEF NoSave
    <3> QED BY <3>1, <3>2 DEF GroundInv, RowsInv
  <2> QED BY <2>1, <2>2
<1>2. ASSUME NEW p \in 1..Len(todo')
      PROVE  /\ StepOK(todo'[p])
             /\ Member(todo'[p]) => row'[todo'[p][2]] = row[todo'[p][2]]
  <2>1. CASE p \in 1..Len(T) /\ todo'[p] = T[p]
    BY <1>0, <2>1 DEF SaneAt, Inner, Member
  <2>2. ASSUME NEW q \in 2..Len(todo), todo'[p] = todo[q], q \in 1..Len(todo)
        PROVE  /\ StepOK(todo'[p])
               /\ Member(todo'[p]) => row'[todo'[p][2]] = row[todo'[p][2]]
    BY <2>2 DEF GroundInv, RowsInv
  <2> QED BY <1>0, <2>1, <2>2, Came
<1>3. RowsInv'
  BY <1>1, <1>2, RowsKept DEF GroundInv
<1> QED BY <1>3, TurnCloses, TurnBlock, TurnBatch DEF GroundInv

\* Rows that do not change grow.
LEMMA SameGrow ==
  ASSUME row' = row
  PROVE  Grown
BY DEF Grown

\* The turns that write a phase, a blocker or a flag, queue an experiment or
\* record a route.
LEMMA WriteTurns ==
  /\ SetPhase => Turn("phase", <<>>)
  /\ SetBlocker => Turn("blocker", <<>>)
  /\ SetMark => Turn("mark", <<>>)
  /\ Enqueue => Turn("queue", <<>>)
  /\ RecordRouted => Turn("event", <<>>)
  /\ FinishMember => Turn("finish", <<>>)
  /\ FailMember => Turn("fail", <<>>)
<1>1. SetPhase => Turn("phase", <<>>)
  BY SaneEmpty DEF SetPhase, Step, Arg, Turn, locals
<1>2. SetBlocker => Turn("blocker", <<>>)
  BY SaneEmpty DEF SetBlocker, Step, Arg, Turn, locals
<1>3. SetMark => Turn("mark", <<>>)
  BY SaneEmpty DEF SetMark, Step, Arg, Turn, locals
<1>4. Enqueue => Turn("queue", <<>>)
  BY SaneEmpty DEF Enqueue, Step, Arg, Turn, locals, kv
<1>5. RecordRouted => Turn("event", <<>>)
  BY SaneEmpty DEF RecordRouted, Step, Arg, Turn, locals, kv
<1>6. FinishMember => Turn("finish", <<>>)
  BY SaneEmpty DEF FinishMember, Step, Arg, Turn, locals, kv
<1>7. FailMember => Turn("fail", <<>>)
  BY SaneEmpty DEF FailMember, Step, Arg, Turn, locals, kv
<1> QED BY <1>1, <1>2, <1>3, <1>4, <1>5, <1>6, <1>7

\* The turn that routes a result.
LEMMA RouteTurn ==
  ASSUME GroundInv, RouteResult
  PROVE  /\ Arg \in Experiments /\ Completed(Arg) /\ Turn("route", Routing(Arg))
         /\ row' = row /\ routed' = routed /\ marks' = marks /\ queued' = queued /\ lost' = lost
<1>1. Head(todo)[1] = "route" /\ todo # <<>> /\ Then(Routing(Arg)) /\ Arg = Head(todo)[2]
  BY DEF RouteResult, Step, Arg
<1>2. Arg \in Experiments /\ Completed(Arg)
  BY <1>1, FirstOK DEF StepOK, GroundInv
<1>3. Sane(Routing(Arg))
  BY <1>2, SaneRouting
<1> QED BY <1>1, <1>2, <1>3 DEF RouteResult, Step, Turn, locals, kv

\* The turns of the reconcile calls.
LEMMA ResolveTurn ==
  ASSUME GroundInv, ResolveNow \/ ResolveAtStart
  PROVE  \E d \in {"reconcile", "start"}, intact \in BOOLEAN :
           /\ Called(Arg) /\ Head(todo) = todo[1] /\ 1 \in 1..Len(todo)
           /\ Turn(d, Resolve(Arg, intact).steps) /\ Mute(Resolve(Arg, intact).steps)
           /\ (queued' => queued \/ Resolve(Arg, intact).ok)
           /\ row' = row /\ routed' = routed /\ marks' = marks /\ lost' = lost
<1>1. PICK d \in {"reconcile", "start"}, keep \in BOOLEAN : Resolving(d, keep)
  BY DEF ResolveNow, ResolveAtStart
<1>2. PICK intact \in BOOLEAN :
        /\ Then(Resolve(Arg, intact).steps)
        /\ queued' = (queued \/ (keep /\ Resolve(Arg, intact).ok))
  BY <1>1 DEF Resolving
<1>3. /\ up /\ todo # <<>> /\ Head(todo)[1] = d /\ Arg = Head(todo)[2]
      /\ up' = up /\ row' = row /\ routed' = routed /\ marks' = marks /\ lost' = lost
      /\ saved' = saved /\ phase' = phase /\ blocker' = blocker
  BY <1>1 DEF Resolving, Step, Arg, kv
<1>4. Called(Arg) /\ Head(todo) = todo[1] /\ 1 \in 1..Len(todo)
  BY <1>3, FirstOK, CallsAreCalled DEF GroundInv
<1>5. Sane(Resolve(Arg, intact).steps) /\ Mute(Resolve(Arg, intact).steps)
  BY <1>4, SaneAnswers
<1>6. Turn(d, Resolve(Arg, intact).steps)
  BY <1>2, <1>3, <1>5 DEF Turn
<1> QED BY <1>2, <1>3, <1>4, <1>5, <1>6

\* The turns that search for results, and that settle.
LEMMA SearchTurns ==
  /\ RouteCompleted => Turn("completed", ReconcileCompleted)
  /\ Settle => Turn("settle", Settled)
<1>1. RouteCompleted => Turn("completed", ReconcileCompleted)
  BY SaneCompleted DEF RouteCompleted, Step, Turn, locals, kv
<1>2. Settle => Turn("settle", Settled)
  BY SaneSettled DEF Settle, Step, Turn, locals, kv
<1> QED BY <1>1, <1>2

\* The turn that ends a start.
LEMMA ConcludeTurn ==
  ASSUME GroundInv, Conclude
  PROVE  Turn("conclude", IF Restore THEN Writes(saved[1], saved[2]) ELSE Settled)
<1> PICK T : T = IF Restore THEN Writes(saved[1], saved[2]) ELSE Settled
  OBVIOUS
<1>1. Sane(T) /\ Then(T)
  BY SaneConclusion DEF GroundInv, Conclude
<1>2. ASSUME phase \notin Blocked
      PROVE  \E p \in 1..Len(T) : T[p] = <<"blocker", "none">> \/ Blocking(T[p])
  <2>1. CASE Restore
    <3> PICK x, y : x = <<"phase", saved[1]>> /\ y = <<"blocker", saved[2]>>
      OBVIOUS
    <3>1. T = <<x, y>>
      BY <2>1 DEF Writes
    <3>2. Len(T) = 2 /\ T[1] = x /\ 1 \in 1..2
      BY <3>1, TwoSteps
    <3>3. Blocking(x)
      BY <2>1 DEF Blocking, Restore
    <3> QED BY <3>2, <3>3
  <2>2. CASE ~Restore
    <3> PICK x, y : x = <<"phase", "PLANNING_NEXT_ACTION">> /\ y = <<"blocker", "none">>
      OBVIOUS
    <3>1. T = <<x, y>>
      BY <1>2, <2>2 DEF Settled, Clear, Writes, IsBlocked
    <3>2. Len(T) = 2 /\ T[2] = y /\ 2 \in 1..2
      BY <3>1, TwoSteps
    <3> QED BY <3>2
  <2> QED BY <2>1, <2>2
<1>3. /\ up /\ up' = up /\ todo # <<>> /\ Head(todo)[1] = "conclude"
      /\ phase' = phase /\ blocker' = blocker /\ saved' = NoSave
  BY DEF Conclude, Step, Forget, kv
<1> QED BY <1>1, <1>2, <1>3 DEF Turn

-----------------------------------------------------------------------------
(* A new list is in order.                                                 *)

\* A list to begin with, no members and no block that asks in it.
Planned(T) == \A p \in 1..Len(T) : Planning(T[p])

\* The step at p of a new list is in order.
FitAt(T, p) ==
  /\ StepOK(T[p]) /\ ~Member(T[p]) /\ ~Asking(T[p])
  /\ T[p] \in Closing => p = Len(T)
  /\ Lifting(T[p]) => p + 1 \in 1..Len(T) /\ T[p + 1] = <<"blocker", "none">>
  /\ T[p][1] = "phase" => Lifting(T[p]) \/ Blocking(T[p]) \/ Planned(T)

\* A new list that is in order.
Fit(T) == \A p \in 1..Len(T) : FitAt(T, p)

\* The work that the controller sets to keeps all of it.
LEMMA FitKeeps ==
  ASSUME RowsInv, CampaignInv', Grown, NEW T, Fit(T), todo' = T,
         \A t \in Experiments : row[t] = "absent" => row'[t] = "absent" \/ Grounds(t),
         blocker' = blocker, saved' = NoSave \/ saved'[2] \in {blocker, saved[2]},
         marks' = marks, routed' = routed,
         \/ saved' = NoSave
         \/ T # <<>> /\ T[Len(T)] \in Closing \ {<<"settle", "none">>},
         T = <<>> \/ ~Planned(T) \/ ~IsAsk(blocker),
         up' /\ phase' \notin Blocked /\ IsAsk(blocker) =>
           \E p \in 1..Len(T) :
             T[p] \in {<<"blocker", "none">>, <<"collect", "none">>, <<"conclude", "none">>}
  PROVE  GroundInv'
<1>1. Reason(blocker') /\ Reason(saved'[2])
  <2>1. Reason(NoSave[2])
    BY NoneIsNoAsk, NoReason DEF NoSave
  <2> QED BY <2>1 DEF RowsInv
<1>2. RowsInv'
  <2>1. \A p \in 1..Len(todo') : StepOK(todo'[p]) /\ ~Member(todo'[p])
    BY DEF Fit, FitAt
  <2>2. "campaign" \in marks' => ~Unfinished
    BY DEF RowsInv
  <2> QED BY <1>1, <2>1, <2>2, RowsKept
<1>3. Closes'
  BY ClosesNext DEF Fit, FitAt
<1>4. BlockInv'
  <2>1. \A p \in 1..Len(todo') :
          Lifting(todo'[p]) => p + 1 \in 1..Len(todo') /\ todo'[p + 1] = <<"blocker", "none">>
    BY DEF Fit, FitAt
  <2>2. \A p \in 1..Len(todo') :
          Asking(todo'[p]) => (p = 1 /\ phase' \in Blocked) \/ (p = 2 /\ Blocking(todo'[1]))
    BY DEF Fit, FitAt
  <2>3. \A p \in 1..Len(todo') :
          todo'[p][1] = "phase" /\ ~Lifting(todo'[p]) /\ ~Blocking(todo'[p]) =>
            ~IsAsk(blocker') /\ \A q \in 1..Len(todo') : Planning(todo'[q])
    BY EmptyList DEF Fit, FitAt, Planned
  <2>4. up' /\ phase' \notin Blocked /\ IsAsk(blocker') =>
          \E p \in 1..Len(todo') :
            \/ todo'[p] = <<"blocker", "none">> \/ todo'[p] = <<"collect", "none">>
            \/ todo'[p] = <<"conclude", "none">> \/ Blocking(todo'[p])
    OBVIOUS
  <2> QED BY <2>1, <2>2, <2>3, <2>4, BlockNext
<1>5. BatchInv'
  BY BatchNext DEF Fit, FitAt
<1> QED BY <1>2, <1>3, <1>4, <1>5 DEF GroundInv

\* A list in order fits.
LEMMA SaneFits ==
  ASSUME NEW T, Sane(T), Mute(T)
  PROVE  Fit(T)
<1>1. ASSUME NEW p \in 1..Len(T) PROVE FitAt(T, p)
  <2>1. SaneAt(T, p) /\ ~Asking(T[p])
    BY DEF Sane, Mute
  <2> PICK a : a = T[p]
    OBVIOUS
  <2>2. Inner(a)
    BY <2>1 DEF SaneAt
  <2>3. ~Member(a) /\ a \notin Closing
    BY <2>2 DEF Inner, Member, Closing
  <2> QED BY <2>1, <2>3 DEF SaneAt, FitAt
<1> QED BY <1>1 DEF Fit

\* A list with a closing step at its end.
Closed(T, A, c) ==
  /\ IsList(T) /\ Fit(T) /\ T # <<>> /\ T[Len(T)] = c /\ Len(T) \in 1..Len(T)
  /\ ~Planned(T)
  /\ \A p \in 1..Len(A) : T[p] = A[p]
  /\ \A p \in 1..Len(T) : p = Len(T) \/ p \in 1..Len(A)

\* It fits as well.
LEMMA ClosedFits ==
  ASSUME NEW A, Sane(A), Mute(A), NEW c \in Closing, NEW T, IsList(T), Len(T) = Len(A) + 1,
         \A p \in 1..Len(A) : T[p] = A[p], T[Len(T)] = c
  PROVE  Closed(T, A, c)
<1> PICK m \in Nat : m = Len(A)
  BY DEF Sane, IsList
<1>2. Len(T) = m + 1 /\ \A p \in 1..m : T[p] = A[p]
  OBVIOUS
<1>3. m + 1 \in 1..m + 1 /\ \A p \in 1..m + 1 : p = m + 1 \/ p \in 1..m
  OBVIOUS
<1>4. T[m + 1] = c
  BY <1>2
<1>5. /\ StepOK(c) /\ ~Member(c) /\ ~Asking(c) /\ ~Lifting(c) /\ c[1] # "phase" /\ ~Planning(c)
  <2>1. StepOK(c)
    BY StepsOK DEF Closing
  <2>2. c[1] \in {"collect", "conclude", "settle"}
    BY DEF Closing
  <2> QED BY <2>1, <2>2 DEF Member, Asking, Lifting, Planning
<1>6. ASSUME NEW p \in 1..m PROVE FitAt(T, p)
  <2> PICK a : a = A[p]
    OBVIOUS
  <2>1. SaneAt(A, p) /\ ~Asking(a) /\ T[p] = a
    BY <1>2 DEF Sane, Mute
  <2>2. StepOK(a) /\ Inner(a) /\ (a[1] = "phase" => Lifting(a) \/ Blocking(a))
    BY <2>1 DEF SaneAt
  <2>3. ~Member(a) /\ a \notin Closing
    BY <2>2 DEF Inner, Member, Closing
  <2>4. ASSUME Lifting(a) PROVE p + 1 \in 1..Len(T) /\ T[p + 1] = <<"blocker", "none">>
    <3>1. p + 1 \in 1..m /\ A[p + 1] = <<"blocker", "none">>
      BY <2>1, <2>4 DEF SaneAt
    <3>2. p + 1 \in 1..m + 1
      BY <3>1
    <3> QED BY <1>2, <3>1, <3>2
  <2> QED BY <2>1, <2>2, <2>3, <2>4 DEF FitAt
<1>7. FitAt(T, m + 1)
  BY <1>2, <1>4, <1>5 DEF FitAt
<1>8. Fit(T)
  BY <1>2, <1>3, <1>6, <1>7 DEF Fit
<1>9. ~Planned(T)
  BY <1>2, <1>3, <1>4, <1>5 DEF Planned
<1>10. T # <<>>
  BY <1>2, <1>3, EmptyList
<1> QED BY <1>2, <1>3, <1>4, <1>8, <1>9, <1>10 DEF Closed

\* No member of a batch stands behind another step.
LEMMA NoMemberBehind ==
  ASSUME GroundInv, todo # <<>>, Head(todo)[1] \notin {"finish", "fail"}
  PROVE  \A q \in 1..Len(todo) : ~Member(todo[q])
<1>1. Head(todo) = todo[1] /\ 1 \in 1..Len(todo) /\ ~Member(todo[1])
  BY FirstOK DEF GroundInv, Member
<1>2. ASSUME NEW q \in 1..Len(todo), Member(todo[q]) PROVE FALSE
  <2>1. \A r \in 1..q : Member(todo[r])
    BY <1>2 DEF GroundInv, BatchInv
  <2>2. 1 \in 1..q
    OBVIOUS
  <2> QED BY <1>1, <2>1, <2>2
<1> QED BY <1>2

\* A turn that leaves the rows alone.
LEMMA QuietTurnKeeps ==
  ASSUME GroundInv, CampaignInv', NEW d, NEW T, Turn(d, T), row' = row,
         "campaign" \in marks' => ~Unfinished,
         \A s \in routed' : s \in routed \/ (s \in Experiments /\ Completed(s))
  PROVE  GroundInv'
BY SameGrow, TurnKeeps

\* The writes of the controller.
LEMMA WritesGround ==
  ASSUME GroundInv, SetPhase \/ SetBlocker \/ SetMark
  PROVE  GroundInv'
<1>1. CampaignInv'
  BY CallsKeep DEF GroundInv
<1>2. row' = row /\ routed' = routed
  BY DEF SetPhase, SetBlocker, SetMark
<1>3. "campaign" \in marks' => ~Unfinished
  <2>1. CASE SetPhase \/ SetBlocker
    BY <2>1 DEF SetPhase, SetBlocker, GroundInv, RowsInv
  <2>2. CASE SetMark
    <3>1. StepOK(Head(todo)) /\ Head(todo)[1] = "mark" /\ marks' = marks \cup {Head(todo)[2]}
      BY <2>2, FirstOK DEF SetMark, Step, Arg, GroundInv
    <3> QED BY <3>1 DEF StepOK, GroundInv, RowsInv
  <2> QED BY <2>1, <2>2
<1> QED BY <1>1, <1>2, <1>3, WriteTurns, QuietTurnKeeps

\* An experiment is queued on its grounds.
LEMMA EnqueueGround ==
  ASSUME GroundInv, Enqueue
  PROVE  /\ GroundInv' /\ Grown /\ Arg \in Experiments
         /\ row'[Arg] # "absent"
<1>1. /\ Head(todo)[1] = "queue" /\ todo # <<>> /\ Arg = Head(todo)[2]
      /\ row' = [row EXCEPT ![Arg] = IF @ = "absent" THEN "QUEUED" ELSE @]
      /\ routed' = routed /\ marks' = marks
  BY DEF Enqueue, Step, Arg, kv
<1>2. Arg \in Experiments /\ (row[Arg] = "absent" => Grounds(Arg))
  BY <1>1, FirstOK DEF StepOK, GroundInv
<1>3. row = [s \in Experiments |-> row[s]]
  BY DEF GroundInv, CampaignInv
<1>4. Grown /\ row'[Arg] # "absent"
  BY <1>1, <1>2, <1>3 DEF Grown
<1>5. \A t \in Experiments : row[t] = "absent" => row'[t] = "absent" \/ Grounds(t)
  BY <1>1, <1>2, <1>3
<1>6. \A q \in 2..Len(todo) : ~Member(todo[q])
  BY <1>1, NoMemberBehind
<1>7. CampaignInv' /\ Turn("queue", <<>>)
  BY EnqueueKeeps, WriteTurns DEF GroundInv
<1> QED BY <1>1, <1>2, <1>4, <1>5, <1>6, <1>7, TurnKeeps DEF GroundInv, RowsInv

\* Routes and their records.
LEMMA RouteGround ==
  ASSUME GroundInv, RouteResult \/ RecordRouted \/ RouteCompleted \/ Settle
  PROVE  GroundInv'
<1>1. CampaignInv'
  BY RouteKeeps, EventKeeps, CompletedKeeps, CallsKeep DEF GroundInv
<1>2. "campaign" \in marks => ~Unfinished
  BY DEF GroundInv, RowsInv
<1>3. CASE RouteResult
  BY <1>1, <1>2, <1>3, RouteTurn, QuietTurnKeeps
<1>4. CASE RecordRouted
  <2>1. /\ row' = row /\ marks' = marks /\ routed' = routed \cup {Arg} /\ todo # <<>>
        /\ Head(todo)[1] = "event" /\ Arg = Head(todo)[2]
    BY <1>4 DEF RecordRouted, Step, Arg, kv
  <2>2. Arg \in Experiments /\ Completed(Arg)
    BY <2>1, FirstOK DEF StepOK, GroundInv
  <2> QED BY <1>1, <1>2, <1>4, <2>1, <2>2, WriteTurns, QuietTurnKeeps
<1>5. CASE RouteCompleted
  <2>1. row' = row /\ marks' = marks /\ routed' = routed
    BY <1>5 DEF RouteCompleted, kv
  <2> QED BY <1>1, <1>2, <1>5, <2>1, SearchTurns, QuietTurnKeeps
<1>6. CASE Settle
  <2>1. row' = row /\ marks' = marks /\ routed' = routed
    BY <1>6 DEF Settle, kv
  <2> QED BY <1>1, <1>2, <1>6, <2>1, SearchTurns, QuietTurnKeeps
<1> QED BY <1>3, <1>4, <1>5, <1>6

\* The reconcile calls, and the end of a start.
LEMMA CallsGround ==
  ASSUME GroundInv, ResolveNow \/ ResolveAtStart \/ Conclude
  PROVE  GroundInv'
<1>1. CampaignInv'
  BY CallsKeep DEF GroundInv
<1>2. "campaign" \in marks => ~Unfinished
  BY DEF GroundInv, RowsInv
<1>3. CASE ResolveNow \/ ResolveAtStart
  <2>1. PICK d \in {"reconcile", "start"}, intact \in BOOLEAN :
          /\ Turn(d, Resolve(Arg, intact).steps)
          /\ row' = row /\ routed' = routed /\ marks' = marks
    BY <1>3, ResolveTurn
  <2> QED BY <1>1, <1>2, <2>1, QuietTurnKeeps
<1>4. CASE Conclude
  <2>1. row' = row /\ marks' = marks /\ routed' = routed
    BY <1>4 DEF Conclude, kv
  <2> QED BY <1>1, <1>2, <1>4, <2>1, ConcludeTurn, QuietTurnKeeps
<1> QED BY <1>3, <1>4

\* The members of a batch.
LEMMA MemberGround ==
  ASSUME GroundInv, FinishMember \/ FailMember
  PROVE  /\ GroundInv' /\ Grown /\ Arg \in Experiments /\ row[Arg] = "QUEUED"
         /\ Head(todo) = todo[1] /\ 1 \in 1..Len(todo) /\ Member(todo[1])
         /\ Arg = todo[1][2]
         /\ \A x \in Experiments : x # Arg => row'[x] = row[x]
<1>1. /\ Head(todo)[1] \in {"finish", "fail"} /\ todo # <<>> /\ Arg = Head(todo)[2]
      /\ routed' = routed /\ marks' = marks
  BY DEF FinishMember, FailMember, Step, Arg, kv
<1>2. PICK f : row' = [row EXCEPT ![Arg] = f] /\ f # "absent"
  <2>1. CASE FinishMember
    <3>1. PICK f \in DOMAIN Route[Arg] : row' = [row EXCEPT ![Arg] = f]
      BY <2>1 DEF FinishMember
    <3>2. Arg \in Experiments
      BY <1>1, FirstOK DEF StepOK, GroundInv
    <3>3. f # "absent"
      BY <3>1, <3>2, FindingsAreNoStatus DEF Plainly
    <3> QED BY <3>1, <3>3
  <2>2. CASE FailMember
    <3> PICK f : f = "FAILED"
      OBVIOUS
    <3>1. row' = [row EXCEPT ![Arg] = f] /\ f # "absent"
      BY <2>2 DEF FailMember
    <3> QED BY <3>1
  <2> QED BY <2>1, <2>2
<1>3. /\ Arg \in Experiments /\ row[Arg] = "QUEUED"
      /\ Head(todo) = todo[1] /\ 1 \in 1..Len(todo) /\ Member(todo[1])
  BY <1>1, FirstOK DEF StepOK, GroundInv, Member
<1>4. row = [s \in Experiments |-> row[s]]
  BY DEF GroundInv, CampaignInv
<1>5. Grown /\ \A x \in Experiments : x # Arg => row'[x] = row[x]
  BY <1>2, <1>3, <1>4 DEF Grown
<1>6. ASSUME NEW q \in 2..Len(todo), Member(todo[q])
      PROVE  row'[todo[q][2]] = row[todo[q][2]]
  <2>1. q \in 1..Len(todo) /\ q # 1
    BY <1>3
  <2>2. todo[q][2] # todo[1][2]
    BY <1>3, <1>6, <2>1 DEF GroundInv, BatchInv
  <2>3. todo[q][2] \in Experiments
    BY <1>6, <2>1 DEF GroundInv, RowsInv, StepOK, Member
  <2> QED BY <1>1, <1>3, <1>5, <2>2, <2>3
<1>7. CampaignInv' /\ \E d : Turn(d, <<>>)
  BY FinishMemberKeeps, FailMemberKeeps, WriteTurns DEF GroundInv
<1>8. \A t \in Experiments : row[t] = "absent" => row'[t] = "absent" \/ Grounds(t)
  BY <1>3, <1>5
<1>9. GroundInv'
  BY <1>1, <1>5, <1>6, <1>7, <1>8, TurnKeeps DEF GroundInv, RowsInv
<1> QED BY <1>1, <1>3, <1>5, <1>9

\* A step that closes a list is alone.
LEMMA ClosingAlone ==
  ASSUME GroundInv, todo # <<>>, Head(todo)[1] \in {"collect", "conclude", "settle"}
  PROVE  /\ Len(todo) = 1 /\ Head(todo) = todo[1] /\ todo[1] \in Closing
         /\ Tail(todo) = <<>> /\ 1 \in 1..Len(todo)
<1>1. StepOK(Head(todo)) /\ Head(todo) = todo[1] /\ 1 \in 1..Len(todo)
  BY FirstOK DEF GroundInv
<1>2. todo[1] \in Closing
  BY <1>1 DEF StepOK
<1>3. Len(todo) = 1
  BY <1>1, <1>2 DEF GroundInv, Closes
<1>4. IsList(Tail(todo)) /\ Len(Tail(todo)) = 0
  BY <1>3, Rest DEF GroundInv, CampaignInv
<1>5. Tail(todo) = <<>>
  <2> PICK S : S = Tail(todo)
    OBVIOUS
  <2>1. Len(S) = 0 /\ S = [p \in 1..0 |-> S[p]]
    BY <1>4 DEF IsList
  <2> QED BY <2>1
<1> QED BY <1>1, <1>2, <1>3, <1>5

\* Nothing behind a list.
LEMMA NothingBehind ==
  ASSUME NEW s, IsList(s)
  PROVE  s \o <<>> = s
<1> DEFINE S == {s[p] : p \in 1..Len(s)}
<1>1. s \in Seq(S)
  BY ListIsSeq
<1> HIDE DEF S
<1> QED BY <1>1, ConcatEmptySeq

\* A controller that looks for work has no block that asks.
LEMMA ReadyAsksNothing ==
  ASSUME GroundInv, Ready
  PROVE  ~IsAsk(blocker) /\ up /\ todo = <<>> /\ ~IsBlocked
<1>1. up /\ todo = <<>> /\ ~IsBlocked
  BY DEF Ready, Idle
<1>2. ~\E p \in 1..Len(todo) : TRUE
  BY <1>1, EmptyList
<1> QED BY <1>1, <1>2 DEF GroundInv, BlockInv

\* So what it sets to keeps the invariant.
LEMMA ReadyKeeps ==
  ASSUME GroundInv, Ready, CampaignInv', Grown, NEW T, Fit(T), todo' = T, saved' = NoSave,
         \A t \in Experiments : row[t] = "absent" => row'[t] = "absent" \/ Grounds(t),
         blocker' = blocker, marks' = marks, routed' = routed
  PROVE  GroundInv'
<1>1. ~IsAsk(blocker) /\ RowsInv
  BY ReadyAsksNothing DEF GroundInv
<1>2. up' /\ phase' \notin Blocked /\ IsAsk(blocker) =>
        \E p \in 1..Len(T) :
          T[p] \in {<<"blocker", "none">>, <<"collect", "none">>, <<"conclude", "none">>}
  BY <1>1
<1> QED BY <1>1, <1>2, FitKeeps

\* And so does what starts.
LEMMA ClosedKeeps ==
  ASSUME RowsInv, CampaignInv', NEW T, NEW A, NEW c, Closed(T, A, c), todo' = T, row' = row,
         c \in {<<"collect", "none">>, <<"conclude", "none">>},
         blocker' = blocker, saved'[2] \in {blocker, saved[2]}, marks' = marks, routed' = routed
  PROVE  GroundInv'
<1>1. /\ Fit(T) /\ T # <<>> /\ T[Len(T)] = c /\ Len(T) \in 1..Len(T) /\ ~Planned(T)
  BY DEF Closed
<1>2. T[Len(T)] \in Closing \ {<<"settle", "none">>}
  BY <1>1 DEF Closing
<1>3. \A t \in Experiments : row[t] = "absent" => row'[t] = "absent" \/ Grounds(t)
  OBVIOUS
<1>4. \E p \in 1..Len(T) :
        T[p] \in {<<"blocker", "none">>, <<"collect", "none">>, <<"conclude", "none">>}
  BY <1>1
<1> QED BY <1>1, <1>2, <1>3, <1>4, SameGrow, FitKeeps

\* What is required is started.
LEMMA CollectGround ==
  ASSUME GroundInv, Collect
  PROVE  /\ GroundInv' /\ row' = row
         /\ Len(todo) = 1 /\ todo[1] = <<"collect", "none">> /\ 1 \in 1..Len(todo)
         /\ \A p \in 1..Len(todo') :
              \/ todo'[p] = <<"conclude", "none">>
              \/ /\ todo'[p][1] = "start" /\ todo'[p][2] \in ToSet(StartOrder)
                 /\ Required(todo'[p][2])
<1> PICK needed : needed = Those(StartOrder, {s \in ToSet(StartOrder) : Required(s)})
  OBVIOUS
<1> PICK A : A = [i \in 1..Len(needed) |-> <<"start", needed[i]>>]
  OBVIOUS
<1> PICK c : c = <<"conclude", "none">>
  OBVIOUS
<1> PICK C : C = <<c>>
  OBVIOUS
<1> PICK T : T = A \o C
  OBVIOUS
<1>1. /\ todo # <<>> /\ Head(todo)[1] = "collect" /\ up /\ up' = up
      /\ todo' = T \o Tail(todo) /\ row' = row /\ blocker' = blocker /\ marks' = marks
      /\ saved' = saved /\ routed' = routed
  BY DEF Collect, Step, Then, locals, kv
<1>2. /\ Len(todo) = 1 /\ Head(todo) = todo[1] /\ todo[1] \in Closing /\ Tail(todo) = <<>>
      /\ 1 \in 1..Len(todo)
  BY <1>1, ClosingAlone
<1>3. todo[1] = <<"collect", "none">>
  <2> PICK a : a = todo[1]
    OBVIOUS
  <2>1. a[1] = "collect" /\ a \in Closing
    BY <1>1, <1>2
  <2> QED BY <2>1 DEF Closing
<1>4. /\ Sane(A) /\ Mute(A)
      /\ \A p \in 1..Len(A) :
           A[p][1] = "start" /\ A[p][2] \in ToSet(StartOrder) /\ Required(A[p][2])
  BY SaneStarts DEF GroundInv
<1>5. c \in Closing
  BY DEF Closing
<1>6. Closed(T, A, c)
  <2> PICK m \in Nat : m = Len(A)
    BY <1>4 DEF Sane, IsList
  <2>1. IsList(A) /\ IsList(C) /\ Len(C) = 1 /\ C[1] = c
    BY <1>4, OneStep DEF Sane
  <2>2. /\ IsList(T) /\ Len(T) = m + 1
        /\ \A p \in 1..m : T[p] = A[p]
        /\ \A p \in m + 1..m + 1 : T[p] = C[p - m]
    BY <2>1, Joined
  <2>3. m + 1 \in m + 1..m + 1 /\ (m + 1) - m = 1
    OBVIOUS
  <2>4. T[m + 1] = c
    BY <2>1, <2>2, <2>3
  <2>5. /\ IsList(T) /\ Len(T) = Len(A) + 1
        /\ \A p \in 1..Len(A) : T[p] = A[p]
        /\ T[Len(T)] = c
    BY <2>2, <2>4
  <2> QED BY ZenonT(30), <1>4, <1>5, <2>5, ClosedFits
<1>7. IsList(T) /\ \A p \in 1..Len(T) : T[p] = c \/ (p \in 1..Len(A) /\ T[p] = A[p])
  BY <1>6 DEF Closed
<1>8. todo' = T
  BY <1>1, <1>2, <1>7, NothingBehind
<1>9. CampaignInv' /\ RowsInv
  BY CallsKeep DEF GroundInv
<1>10. GroundInv'
  BY <1>1, <1>6, <1>8, <1>9, ClosedKeeps
<1>11. ASSUME NEW p \in 1..Len(todo')
       PROVE  \/ todo'[p] = <<"conclude", "none">>
              \/ /\ todo'[p][1] = "start" /\ todo'[p][2] \in ToSet(StartOrder)
                 /\ Required(todo'[p][2])
  <2> PICK a : a = todo'[p]
    OBVIOUS
  <2>1. a = c \/ (p \in 1..Len(A) /\ a = A[p])
    BY <1>7, <1>8
  <2>2. a = c \/ (a[1] = "start" /\ a[2] \in ToSet(StartOrder) /\ Required(a[2]))
    BY <1>4, <2>1
  <2> QED BY <2>2
<1> QED BY <1>1, <1>2, <1>3, <1>10, <1>11

\* A start.
LEMMA StartGround ==
  ASSUME GroundInv, Start
  PROVE  /\ GroundInv' /\ row' = row
         /\ \A p \in 1..Len(todo') :
              \/ todo'[p] = <<"completed", "none">> \/ todo'[p] = <<"collect", "none">>
              \/ todo'[p][1] = "mark"
<1> PICK missing : missing = PlanFlags
  OBVIOUS
<1> PICK A : A = [i \in 1..Len(missing) |-> <<"mark", PlanFlag[missing[i]]>>]
  OBVIOUS
<1>0. PICK b, c : b = <<"completed", "none">> /\ c = <<"collect", "none">>
  OBVIOUS
<1> PICK B : B = <<b>>
  OBVIOUS
<1> PICK D : D = A \o B
  OBVIOUS
<1> PICK W : W = <<b, c>>
  OBVIOUS
<1> PICK T : T = A \o W
  OBVIOUS
<1>1. /\ todo' = A \o <<b, c>> /\ row' = row /\ routed' = routed /\ up'
      /\ saved' = <<phase, blocker>> /\ blocker' = blocker /\ marks' = marks
  BY <1>0 DEF Start, StartCalls
<1>2. /\ IsList(missing) /\ Len(missing) \in Nat
      /\ \A k \in 1..Len(missing) : missing[k] \in {"design", "execution", "post_design"}
  <2>1. DOMAIN <<"design", "execution", "post_design">> = 1..3 /\ 3 \in Nat
    OBVIOUS
  <2>2. IsList(missing)
    BY <2>1, ThoseAre DEF PlanFlags
  <2> PICK S : S = {s \in DOMAIN PlanFlag : row[s] # "absent" /\ PlanFlag[s] \notin marks}
    OBVIOUS
  <2>3. \A k \in 1..Len(missing) : missing[k] \in S
    BY <2>1, ThoseOnly DEF PlanFlags
  <2>4. S \subseteq {"design", "execution", "post_design"}
    BY DEF PlanFlag
  <2> QED BY <2>2, <2>3, <2>4 DEF IsList
<1>3. ASSUME NEW k \in 1..Len(missing)
      PROVE  /\ StepOK(A[k]) /\ Inner(A[k]) /\ A[k][1] \notin {"phase", "blocker"}
             /\ A[k][1] = "mark"
  <2> PICK m : m = PlanFlag[missing[k]]
    OBVIOUS
  <2>1. A[k] = <<"mark", m>> /\ m # "campaign"
    BY <1>2 DEF PlanFlag
  <2>2. StepOK(<<"mark", m>>)
    BY <2>1, StepsOK
  <2> QED BY <2>1, <2>2 DEF Inner
<1>4. Sane(A) /\ Mute(A) /\ Len(A) = Len(missing)
  BY ZenonT(30), <1>2, <1>3, SaneEach
<1>5. Sane(B) /\ Mute(B) /\ IsList(B) /\ Len(B) = 1 /\ B[1] = b
  <2>1. StepOK(b) /\ Inner(b) /\ b[1] \notin {"phase", "blocker"}
    BY <1>0, StepsOK DEF Inner
  <2> QED BY <2>1, SaneOne, OneStep
<1>6. Sane(D) /\ Mute(D)
  BY <1>4, <1>5, SaneJoin
<1>7. \A p \in 1..Len(D) : D[p] = b \/ D[p][1] = "mark"
  <2> PICK m \in Nat : m = Len(A)
    BY Zenon, <1>2, <1>4
  <2>1. /\ Len(D) = m + 1
        /\ \A p \in 1..m : D[p] = A[p]
        /\ \A p \in m + 1..m + 1 : D[p] = B[p - m]
    BY <1>4, <1>5, Joined DEF Sane
  <2>2. \A p \in 1..m + 1 : p \in 1..m \/ (p \in m + 1..m + 1 /\ p - m = 1)
    OBVIOUS
  <2> QED BY <1>3, <1>4, <1>5, <2>1, <2>2
<1>8. c \in Closing
  BY <1>0 DEF Closing
<1>9. Closed(T, D, c)
  <2> PICK m \in Nat : m = Len(A)
    BY <1>2, <1>4
  <2>1. /\ IsList(A) /\ IsList(B) /\ Len(B) = 1 /\ B[1] = b
        /\ IsList(W) /\ Len(W) = 2 /\ W[1] = b /\ W[2] = c
    BY <1>4, OneStep, TwoSteps DEF Sane
  <2>2. /\ Len(D) = m + 1
        /\ \A p \in 1..m : D[p] = A[p]
        /\ \A p \in m + 1..m + 1 : D[p] = B[p - m]
    BY <2>1, Joined
  <2>3. /\ IsList(T) /\ Len(T) = m + 2
        /\ \A p \in 1..m : T[p] = A[p]
        /\ \A p \in m + 1..m + 2 : T[p] = W[p - m]
    BY <2>1, Joined
  <2>4. /\ m + 1 \in m + 1..m + 1 /\ (m + 1) - m = 1 /\ m + 2 \in m + 1..m + 2
        /\ m + 1 \in m + 1..m + 2 /\ (m + 2) - m = 2 /\ (m + 1) + 1 = m + 2
        /\ \A p \in 1..m + 1 : p = m + 1 \/ p \in 1..m
    OBVIOUS
  <2>5. T[m + 1] = D[m + 1] /\ T[m + 2] = c
    BY <2>1, <2>2, <2>3, <2>4
  <2>6. \A p \in 1..m + 1 : T[p] = D[p]
    BY <2>2, <2>3, <2>4, <2>5
  <2>7. /\ IsList(T) /\ Len(T) = Len(D) + 1
        /\ \A p \in 1..Len(D) : T[p] = D[p]
        /\ T[Len(T)] = c
    BY <2>2, <2>3, <2>4, <2>5, <2>6
  <2> QED BY ZenonT(30), <1>6, <1>8, <2>7, ClosedFits
<1>10. \A p \in 1..Len(T) : T[p] = c \/ (p \in 1..Len(D) /\ T[p] = D[p])
  BY <1>9 DEF Closed
<1>11. todo' = T
  BY <1>1
<1>12. CampaignInv' /\ RowsInv
  BY StartKeeps DEF GroundInv
<1>13. GroundInv'
  <2>1. saved'[2] \in {blocker, saved[2]}
    BY <1>1
  <2>2. row' = row /\ blocker' = blocker /\ marks' = marks /\ routed' = routed
    BY <1>1
  <2> QED BY <1>0, <1>9, <1>11, <1>12, <2>1, <2>2, ClosedKeeps
<1>14. ASSUME NEW p \in 1..Len(todo')
       PROVE  \/ todo'[p] = <<"completed", "none">> \/ todo'[p] = <<"collect", "none">>
              \/ todo'[p][1] = "mark"
  <2> PICK a : a = todo'[p]
    OBVIOUS
  <2>1. a = c \/ a = b \/ a[1] = "mark"
    BY <1>7, <1>10, <1>11
  <2> QED BY <1>0, <2>1
<1>15. row' = row
  BY <1>1
<1> QED BY <1>13, <1>14, <1>15

\* A run of one experiment.
LEMMA RunGround ==
  ASSUME GroundInv, RunExperiment
  PROVE  /\ GroundInv' /\ Grown
         /\ \E s \in Experiments :
              row[s] = "QUEUED" /\ \A x \in Experiments : x # s => row'[x] = row[x]
         /\ \A p \in 1..Len(todo') :
              todo'[p] = <<"completed", "none">> \/ todo'[p] = <<"settle", "none">>
<1>0. PICK b, c : b = <<"completed", "none">> /\ c = <<"settle", "none">>
  OBVIOUS
<1> PICK B : B = <<b>>
  OBVIOUS
<1> PICK T : T = <<b, c>>
  OBVIOUS
<1>1. /\ Ready /\ todo' = T /\ routed' = routed /\ blocker' = blocker /\ marks' = marks
      /\ saved' = NoSave
  BY <1>0 DEF RunExperiment, Forget
<1>2. PICK s \in Heads : \E f \in DOMAIN Route[s] : row' = [row EXCEPT ![s] = f]
  BY DEF RunExperiment
<1>3. s \in Experiments /\ row[s] = "QUEUED"
  BY <1>2 DEF Heads, Queued
<1>4. PICK f : row' = [row EXCEPT ![s] = f] /\ f # "absent"
  BY <1>2, <1>3, FindingsAreNoStatus DEF Plainly
<1>5. row = [x \in Experiments |-> row[x]]
  BY DEF GroundInv, CampaignInv
<1>6. Grown /\ \A x \in Experiments : x # s => row'[x] = row[x]
  BY <1>3, <1>4, <1>5 DEF Grown
<1>7. \A t \in Experiments : row[t] = "absent" => row'[t] = "absent" \/ Grounds(t)
  BY <1>3, <1>6
<1>8. Sane(B) /\ Mute(B) /\ Len(B) = 1 /\ B[1] = b
  <2>1. StepOK(b) /\ Inner(b) /\ b[1] \notin {"phase", "blocker"}
    BY <1>0, StepsOK DEF Inner
  <2> QED BY <2>1, SaneOne, OneStep
<1>9. IsList(T) /\ Len(T) = 2 /\ T[1] = b /\ T[2] = c
  BY TwoSteps
<1>10. Closed(T, B, c)
  <2>1. Len(T) = Len(B) + 1 /\ T[Len(T)] = c /\ \A p \in 1..Len(B) : T[p] = B[p]
    BY <1>8, <1>9
  <2>2. c \in Closing
    BY <1>0 DEF Closing
  <2> QED BY <1>8, <1>9, <2>1, <2>2, ClosedFits
<1>11. Fit(T)
  BY <1>10 DEF Closed
<1>12. GroundInv'
  <2>1. CampaignInv'
    BY RunKeeps DEF GroundInv
  <2> QED BY <1>1, <1>6, <1>7, <1>11, <2>1, ReadyKeeps
<1>13. ASSUME NEW p \in 1..Len(todo')
       PROVE  todo'[p] = <<"completed", "none">> \/ todo'[p] = <<"settle", "none">>
  <2> PICK a : a = todo'[p]
    OBVIOUS
  <2>1. a = b \/ a = c
    BY <1>1, <1>9
  <2> QED BY <1>0, <2>1
<1> QED BY <1>3, <1>6, <1>12, <1>13

\* A terminal failure, and a missing handler.
LEMMA FailGround ==
  ASSUME GroundInv, FailExperiment \/ MissHandler
  PROVE  /\ GroundInv' /\ Grown /\ Ready /\ routed' = routed /\ lost' = lost
         /\ \A s \in Experiments : Completed(s)' => Completed(s)
         /\ \A p \in 1..Len(todo') : ~Member(todo'[p])
<1> PICK b, T :
      /\ b \in {"FROZEN_SOURCE_MISMATCH", "MISSING_EXPERIMENT_HANDLER", "EXPERIMENT_FAILED",
                "PARALLEL_EXPERIMENT_FAILED"}
      /\ \/ FailExperiment /\ T = Writes("EXPERIMENT_BLOCKED", b)
         \/ MissHandler /\ T = Writes("ENGINEERING_BLOCKED", b)
      /\ todo' = T
  BY DEF FailExperiment, MissHandler
<1>1. /\ Ready /\ routed' = routed /\ blocker' = blocker /\ marks' = marks
      /\ saved' = NoSave /\ lost' = lost
  BY DEF FailExperiment, MissHandler, Forget, kv
<1>2. Fit(T)
  BY SaneBlocks, SaneFits DEF Blocked
<1>3. CampaignInv'
  BY RunKeeps DEF GroundInv
<1>4. row = [x \in Experiments |-> row[x]]
  BY DEF GroundInv, CampaignInv
<1>5. /\ Grown
      /\ \A t \in Experiments : row[t] = "absent" => row'[t] = "absent" \/ Grounds(t)
      /\ \A s \in Experiments : Completed(s)' => Completed(s)
  <2>1. CASE FailExperiment
    <3>1. PICK s \in Heads : row' = [row EXCEPT ![s] = "FAILED"]
      BY <2>1 DEF FailExperiment
    <3>2. s \in Experiments /\ row[s] = "QUEUED"
      BY DEF Heads, Queued
    <3>3. "FAILED" \notin DOMAIN Route[s]
      BY <3>2, FindingsAreNoStatus DEF Plainly
    <3>4. \A x \in Experiments : IF x = s THEN row'[x] = "FAILED" ELSE row'[x] = row[x]
      BY <1>4, <3>1
    <3> QED BY <3>2, <3>3, <3>4 DEF Grown, Completed
  <2>2. CASE MissHandler
    <3>1. row' = row
      BY <2>2 DEF MissHandler
    <3> QED BY <3>1, SameGrow DEF Completed
  <2> QED BY <2>1, <2>2
<1>6. \A p \in 1..Len(T) : ~Member(T[p])
  BY <1>2 DEF Fit, FitAt
<1> QED BY <1>1, <1>2, <1>3, <1>5, <1>6, ReadyKeeps

\* What the planner sets to.
LEMMA PlannedFits ==
  ASSUME NEW T, \A p \in 1..Len(T) : StepOK(T[p]) /\ Planning(T[p]) /\ ~Lifting(T[p])
  PROVE  Fit(T)
<1>1. Planned(T)
  BY DEF Planned
<1>2. ASSUME NEW p \in 1..Len(T) PROVE FitAt(T, p)
  <2> PICK a : a = T[p]
    OBVIOUS
  <2>1. StepOK(a) /\ Planning(a) /\ ~Lifting(a)
    OBVIOUS
  <2>2. ~Member(a) /\ ~Asking(a) /\ a \notin Closing
    BY <2>1 DEF Planning, Member, Asking, Closing
  <2> QED BY <1>1, <2>1, <2>2 DEF FitAt
<1> QED BY <1>2 DEF Fit

\* The steps of the planner.
LEMMA PlanningSteps ==
  /\ \A p : p \notin Lifted =>
       StepOK(<<"phase", p>>) /\ Planning(<<"phase", p>>) /\ ~Lifting(<<"phase", p>>)
  /\ \A m : m # "campaign" =>
       StepOK(<<"mark", m>>) /\ Planning(<<"mark", m>>) /\ ~Lifting(<<"mark", m>>)
  /\ \A u \in {"design", "execution", "post_design"} :
       StepOK(<<"queue", u>>) /\ Planning(<<"queue", u>>) /\ ~Lifting(<<"queue", u>>)
  /\ \A b \in {"VALIDATOR_CALIBRATION_FAILED", "NO_EXECUTABLE_ACTION"} :
       StepOK(<<"blocker", b>>) /\ Planning(<<"blocker", b>>) /\ ~Lifting(<<"blocker", b>>)
<1>1. ASSUME NEW p, p \notin Lifted
      PROVE  StepOK(<<"phase", p>>) /\ Planning(<<"phase", p>>) /\ ~Lifting(<<"phase", p>>)
  BY <1>1, StepsOK DEF Planning, Lifting
<1>2. ASSUME NEW m, m # "campaign"
      PROVE  StepOK(<<"mark", m>>) /\ Planning(<<"mark", m>>) /\ ~Lifting(<<"mark", m>>)
  BY <1>2, StepsOK DEF Planning, Lifting
<1>3. ASSUME NEW u \in {"design", "execution", "post_design"}
      PROVE  StepOK(<<"queue", u>>) /\ Planning(<<"queue", u>>) /\ ~Lifting(<<"queue", u>>)
  <2>1. u \in Experiments /\ StageOf(u) = u /\ u \notin ToSet(StartOrder)
    BY ExperimentNames, TrioNames, StartNames DEF StageOf
  <2>2. Meets(Stages[u].after) /\ Meets(Stages[u].frozen)
    BY NoNeeds
  <2>3. row[u] # "absent" \/ Grounds(u)
    BY <2>1, <2>2, GroundsOf
  <2>4. StepOK(<<"queue", u>>)
    BY <2>1, <2>3, StepsOK
  <2> QED BY <2>4 DEF Planning, Lifting
<1>4. ASSUME NEW b \in {"VALIDATOR_CALIBRATION_FAILED", "NO_EXECUTABLE_ACTION"}
      PROVE  StepOK(<<"blocker", b>>) /\ Planning(<<"blocker", b>>) /\ ~Lifting(<<"blocker", b>>)
  <2>1. ~IsAsk(b) /\ Reason(b)
    BY NoAsks, NoReason
  <2>2. StepOK(<<"blocker", b>>)
    BY <2>1, StepsOK
  <2> QED BY <2>1, <2>2 DEF Planning, Lifting
<1> QED BY <1>1, <1>2, <1>3, <1>4

\* The planner.
LEMMA PlanGround ==
  ASSUME GroundInv,
         \/ RunValidatorCalibration \/ AuditZeroPassResult \/ PlanBoundedRetests
         \/ PlanRetestExecution \/ PlanPostRetestResearch \/ Stall
  PROVE  /\ GroundInv' /\ row' = row /\ Ready /\ routed' = routed /\ lost' = lost
         /\ \A p \in 1..Len(todo') : ~Member(todo'[p])
<1> DEFINE Step3(a) == StepOK(a) /\ Planning(a) /\ ~Lifting(a)
           Fits(T) == todo' = T /\ \A p \in 1..Len(T) : Step3(T[p])
           Does == /\ Ready /\ row' = row /\ routed' = routed /\ blocker' = blocker
                   /\ marks' = marks /\ saved' = NoSave /\ lost' = lost
<1>1. ASSUME NEW a, NEW b, Step3(a), Step3(b), todo' = <<a, b>>
      PROVE  \E T : Fits(T)
  <2> PICK T : T = <<a, b>>
    OBVIOUS
  <2>1. Len(T) = 2 /\ T[1] = a /\ T[2] = b
    BY TwoSteps
  <2>2. \A p \in 1..2 : p = 1 \/ p = 2
    OBVIOUS
  <2>3. Fits(T)
    BY <1>1, <2>1, <2>2
  <2> QED BY <2>3
<1>2. ASSUME NEW a, NEW b, NEW c, Step3(a), Step3(b), Step3(c), todo' = <<a, b, c>>
      PROVE  \E T : Fits(T)
  <2> PICK T : T = <<a, b, c>>
    OBVIOUS
  <2>1. Len(T) = 3 /\ T[1] = a /\ T[2] = b /\ T[3] = c
    OBVIOUS
  <2>2. \A p \in 1..3 : p = 1 \/ p = 2 \/ p = 3
    OBVIOUS
  <2>3. Fits(T)
    BY <1>2, <2>1, <2>2
  <2> QED BY <2>3
<1>3. ASSUME RunValidatorCalibration PROVE Does /\ \E T : Fits(T)
  <2>1. PICK b \in {<<"mark", "calibrated">>, <<"blocker", "VALIDATOR_CALIBRATION_FAILED">>} :
          todo' = << <<"phase", "PHASE_2_VALIDATOR_CALIBRATION">>, b>>
    BY <1>3 DEF RunValidatorCalibration, Plan
  <2>2. Step3(b) /\ Step3(<<"phase", "PHASE_2_VALIDATOR_CALIBRATION">>)
    BY PlanningSteps DEF Lifted
  <2>3. Does
    BY <1>3 DEF RunValidatorCalibration, Plan, Forget, kv
  <2> HIDE DEF Step3, Does
  <2> QED BY <1>1, <2>1, <2>2, <2>3
<1>4. ASSUME AuditZeroPassResult PROVE Does /\ \E T : Fits(T)
  <2>1. todo' = << <<"phase", "PHASE_3_REASSESS_OLD_ATOM_BATCH">>, <<"mark", "audited">> >>
    BY <1>4 DEF AuditZeroPassResult, Plan
  <2>2. /\ Step3(<<"phase", "PHASE_3_REASSESS_OLD_ATOM_BATCH">>)
        /\ Step3(<<"mark", "audited">>)
    BY PlanningSteps DEF Lifted
  <2>3. Does
    BY <1>4 DEF AuditZeroPassResult, Plan, Forget, kv
  <2> HIDE DEF Step3, Does
  <2> QED BY <1>1, <2>1, <2>2, <2>3
<1>5. ASSUME PlanBoundedRetests PROVE Does /\ \E T : Fits(T)
  <2>1. todo' = << <<"phase", "PHASE_4_AUTONOMOUS_RESEARCH_PLANNING">>,
             <<"queue", "design">>,
             <<"mark", "design_plan">> >>
    BY <1>5 DEF PlanBoundedRetests, Plan
  <2>2. /\ Step3(<<"phase", "PHASE_4_AUTONOMOUS_RESEARCH_PLANNING">>)
        /\ Step3(<<"queue", "design">>)
        /\ Step3(<<"mark", "design_plan">>)
    BY PlanningSteps DEF Lifted
  <2>3. Does
    BY <1>5 DEF PlanBoundedRetests, Plan, Forget, kv
  <2> HIDE DEF Step3, Does
  <2> QED BY <1>2, <2>1, <2>2, <2>3
<1>6. ASSUME PlanRetestExecution PROVE Does /\ \E T : Fits(T)
  <2>1. todo' = << <<"queue", "execution">>,
             <<"mark", "execution_plan">>,
             <<"phase", "PHASE_5_CALIBRATION_AFFECTED_RETEST">> >>
    BY <1>6 DEF PlanRetestExecution, Plan
  <2>2. /\ Step3(<<"queue", "execution">>)
        /\ Step3(<<"mark", "execution_plan">>)
        /\ Step3(<<"phase", "PHASE_5_CALIBRATION_AFFECTED_RETEST">>)
    BY PlanningSteps DEF Lifted
  <2>3. Does
    BY <1>6 DEF PlanRetestExecution, Plan, Forget, kv
  <2> HIDE DEF Step3, Does
  <2> QED BY <1>2, <2>1, <2>2, <2>3
<1>7. ASSUME PlanPostRetestResearch PROVE Does /\ \E T : Fits(T)
  <2>1. todo' = << <<"queue", "post_design">>,
             <<"mark", "post_plan">>,
             <<"phase", "PHASE_6_POST_RETEST_RESEARCH_DESIGN">> >>
    BY <1>7 DEF PlanPostRetestResearch, Plan
  <2>2. /\ Step3(<<"queue", "post_design">>)
        /\ Step3(<<"mark", "post_plan">>)
        /\ Step3(<<"phase", "PHASE_6_POST_RETEST_RESEARCH_DESIGN">>)
    BY PlanningSteps DEF Lifted
  <2>3. Does
    BY <1>7 DEF PlanPostRetestResearch, Plan, Forget, kv
  <2> HIDE DEF Step3, Does
  <2> QED BY <1>2, <2>1, <2>2, <2>3
<1>8. ASSUME Stall PROVE Does /\ \E T : Fits(T)
  <2>1. todo' = << <<"phase", "SCHEDULER_STALLED">>, <<"blocker", "NO_EXECUTABLE_ACTION">> >>
    BY <1>8 DEF Stall, Writes
  <2>2. /\ Step3(<<"phase", "SCHEDULER_STALLED">>)
        /\ Step3(<<"blocker", "NO_EXECUTABLE_ACTION">>)
    BY PlanningSteps DEF Lifted
  <2>3. Does
    BY <1>8 DEF Stall, NothingToPlan, Forget, kv
  <2> HIDE DEF Step3, Does
  <2> QED BY <1>1, <2>1, <2>2, <2>3
<1>9. Does /\ \E T : Fits(T)
  <2> HIDE DEF Does, Fits
  <2> QED BY <1>3, <1>4, <1>5, <1>6, <1>7, <1>8
<1>10. PICK T : Fits(T)
  BY <1>9
<1>11. Fit(T) /\ todo' = T
  BY <1>10, PlannedFits
<1>12. CampaignInv'
  BY PlanKeeps DEF GroundInv
<1>13. \A t \in Experiments : row[t] = "absent" => row'[t] = "absent" \/ Grounds(t)
  BY <1>9
<1>14. GroundInv'
  BY <1>9, <1>11, <1>12, <1>13, SameGrow, ReadyKeeps
<1>15. \A p \in 1..Len(T) : ~Member(T[p])
  BY <1>11 DEF Fit, FitAt
<1> QED BY <1>9, <1>11, <1>14, <1>15

\* A stop in good order, and a crash.
LEMMA StopGround ==
  ASSUME GroundInv, StopCleanly \/ Crash
  PROVE  GroundInv' /\ row' = row /\ todo' = <<>> /\ saved' = NoSave
<1>1. /\ ~up' /\ todo' = <<>> /\ row' = row /\ saved' = NoSave /\ blocker' = blocker
      /\ marks' = marks /\ routed' = routed
  BY DEF StopCleanly, Crash, Idle, Forget, kv
<1> PICK T : T = <<>>
  OBVIOUS
<1>2. Fit(T)
  BY EmptyList DEF Fit
<1>3. CampaignInv' /\ RowsInv
  BY StopsKeep DEF GroundInv
<1>4. \A t \in Experiments : row[t] = "absent" => row'[t] = "absent" \/ Grounds(t)
  BY <1>1
<1>5. GroundInv'
  BY <1>1, <1>2, <1>3, <1>4, SameGrow, FitKeeps
<1> QED BY <1>1, <1>5

-----------------------------------------------------------------------------
(* The list of a batch.                                                    *)

\* The list of a batch: its n members, each once, the search, and what ends it.
BatchList(T, n) ==
  /\ IsList(T) /\ n \in Nat /\ \A p \in 1..n : p \in 1..Len(T)
  /\ \A p \in 1..n :
       /\ Member(T[p]) /\ T[p][2] \in ParallelSafe /\ row[T[p][2]] = "QUEUED"
       /\ \A q \in 1..n : T[p][2] = T[q][2] => p = q
  /\ \A p \in 1..Len(T) :
       \/ p \in 1..n
       \/ T[p] = <<"completed", "none">>
       \/ T[p] = <<"settle", "none">> /\ p = Len(T)
       \/ T[p] = <<"phase", "EXPERIMENT_BLOCKED">>
       \/ T[p] = <<"blocker", "PARALLEL_EXPERIMENT_FAILED">>

\* The members of a batch, each once.
LEMMA BatchMembers ==
  ASSUME NEW B \in Batches, NEW members, members = SetToSeq(B)
  PROVE  /\ Len(members) \in Nat
         /\ \A p \in 1..Len(members) :
              members[p] \in ParallelSafe /\ row[members[p]] = "QUEUED"
         /\ \A p, q \in 1..Len(members) : members[p] = members[q] => p = q
<1>1. B \subseteq ParallelSafe /\ \A s \in B : row[s] = "QUEUED"
  BY DEF Batches, Queued
<1>2. IsFiniteSet(B)
  BY <1>1, SafeAreFew, FS_Subset
<1>3. \E f \in [1..Cardinality(B) -> B] : IsInjective(f)
  <2>1. Cardinality(B) \in Nat /\ ExistsBijection(1..Cardinality(B), B)
    BY <1>2, FS_CardinalityType
  <2>2. PICK f : f \in Bijection(1..Cardinality(B), B)
    BY <2>1 DEF ExistsBijection
  <2> QED BY <2>2 DEF Bijection, Injection, Surjection, IsInjective
<1>4. members \in [1..Cardinality(B) -> B] /\ IsInjective(members) /\ Cardinality(B) \in Nat
  BY <1>2, <1>3, FS_CardinalityType DEF SetToSeq
<1>5. Len(members) = Cardinality(B) /\ DOMAIN members = 1..Cardinality(B)
  BY <1>4
<1>6. \A p \in 1..Cardinality(B) : members[p] \in B
  BY <1>4
<1>7. \A p, q \in 1..Cardinality(B) : members[p] = members[q] => p = q
  BY <1>4, <1>5 DEF IsInjective
<1> QED BY <1>1, <1>4, <1>5, <1>6, <1>7

\* Of two lists one after the other, by their lengths.
LEMMA JoinedAt ==
  ASSUME NEW s, NEW t, IsList(s), IsList(t),
         NEW n \in Nat, NEW m \in Nat, n = Len(s), m = Len(t)
  PROVE  /\ IsList(s \o t) /\ Len(s \o t) = n + m
         /\ \A p \in 1..n : (s \o t)[p] = s[p]
         /\ \A p \in n + 1..n + m : (s \o t)[p] = t[p - n]
BY Joined

\* Of three lists one after the other.
LEMMA ThreeJoined ==
  ASSUME NEW A, NEW C, NEW D, IsList(A), IsList(C), IsList(D),
         NEW n \in Nat, NEW m \in Nat, NEW d \in Nat, n = Len(A), m = Len(C), d = Len(D),
         NEW k \in Nat, k = n + m
  PROVE  /\ IsList(A \o C \o D) /\ Len(A \o C \o D) = k + d
         /\ \A p \in 1..n : (A \o C \o D)[p] = A[p]
         /\ \A p \in n + 1..k : (A \o C \o D)[p] = C[p - n]
         /\ \A p \in k + 1..k + d : (A \o C \o D)[p] = D[p - k]
<1>T. PICK T : T = A \o C \o D
  OBVIOUS
<1>P. PICK P : P = A \o C
  OBVIOUS
<1>1. /\ IsList(P) /\ Len(P) = n + m
      /\ \A p \in 1..n : P[p] = A[p]
      /\ \A p \in n + 1..n + m : P[p] = C[p - n]
  BY <1>P, Joined
<1>2. T = P \o D
  BY <1>P, <1>T
<1>3. /\ IsList(T) /\ Len(T) = k + d
      /\ \A p \in 1..k : T[p] = P[p]
      /\ \A p \in k + 1..k + d : T[p] = D[p - k]
  <2>1. IsList(P) /\ k = Len(P)
    BY <1>1
  <2>2. /\ IsList(P \o D) /\ Len(P \o D) = k + d
        /\ \A p \in 1..k : (P \o D)[p] = P[p]
        /\ \A p \in k + 1..k + d : (P \o D)[p] = D[p - k]
    BY ONLY <2>1, k \in Nat, d \in Nat, d = Len(D), IsList(D), JoinedAt
  <2> QED BY <1>2, <2>2
<1>4. /\ \A p \in 1..n : p \in 1..k
      /\ \A p \in n + 1..k : p \in 1..k
  OBVIOUS
<1> QED BY <1>T, <1>1, <1>3, <1>4

\* What a batch sets to is such a list.
LEMMA BatchIsList ==
  ASSUME RunBatch
  PROVE  \E n : BatchList(todo', n)
<1>1. PICK B \in Batches : \E bad \in {{}} \cup {{s} : s \in B} :
        LET members == SetToSeq(B)
        IN  todo' = [i \in 1..Len(members) |->
                       <<IF members[i] \in bad THEN "fail" ELSE "finish", members[i]>>] \o
                    << <<"completed", "none">> >> \o
                    (IF bad = {} THEN << <<"settle", "none">> >>
                     ELSE Writes("EXPERIMENT_BLOCKED", "PARALLEL_EXPERIMENT_FAILED"))
  BY DEF RunBatch
<1> PICK members : members = SetToSeq(B)
  OBVIOUS
<1>2. PICK bad : todo' = [i \in 1..Len(members) |->
                            <<IF members[i] \in bad THEN "fail" ELSE "finish", members[i]>>] \o
                         << <<"completed", "none">> >> \o
                         (IF bad = {} THEN << <<"settle", "none">> >>
                          ELSE Writes("EXPERIMENT_BLOCKED", "PARALLEL_EXPERIMENT_FAILED"))
  BY <1>1
<1>3. /\ Len(members) \in Nat
      /\ \A p \in 1..Len(members) :
           members[p] \in ParallelSafe /\ row[members[p]] = "QUEUED"
      /\ \A p, q \in 1..Len(members) : members[p] = members[q] => p = q
  BY BatchMembers
<1> PICK n \in Nat : n = Len(members)
  BY <1>3
<1>4. PICK c, e, x, y :
        /\ c = <<"completed", "none">> /\ e = <<"settle", "none">>
        /\ x = <<"phase", "EXPERIMENT_BLOCKED">>
        /\ y = <<"blocker", "PARALLEL_EXPERIMENT_FAILED">>
  OBVIOUS
<1>5. PICK A : A = [i \in 1..n |-> <<IF members[i] \in bad THEN "fail" ELSE "finish", members[i]>>]
  OBVIOUS
<1>6. PICK C : C = <<c>>
  OBVIOUS
<1>7. PICK D : D = IF bad = {} THEN <<e>> ELSE <<x, y>>
  OBVIOUS
<1>T. PICK T : T = A \o C \o D
  OBVIOUS
<1>8. todo' = T
  BY <1>2, <1>4, <1>5, <1>6, <1>7, <1>T DEF Writes
<1>9. /\ IsList(A) /\ Len(A) = n
      /\ \A p \in 1..n : A[p][1] \in {"finish", "fail"} /\ A[p][2] = members[p]
  <2> DEFINE F(i) == <<IF members[i] \in bad THEN "fail" ELSE "finish", members[i]>>
  <2>1. A = [i \in 1..n |-> F(i)]
    BY <1>5
  <2>2. \A p \in 1..n : A[p][1] \in {"finish", "fail"} /\ A[p][2] = members[p]
    BY <2>1
  <2> HIDE DEF F
  <2>3. A = [i \in 1..n |-> A[i]]
    BY <2>1, Zenon
  <2> QED BY <2>2, <2>3, Listed
<1>10. IsList(C) /\ Len(C) = 1 /\ C[1] = c
  BY <1>6, OneStep
<1>11. /\ IsList(D)
       /\ Len(D) \in Nat
       /\ \A p \in 1..Len(D) : (D[p] = e /\ p = Len(D)) \/ D[p] = x \/ D[p] = y
  <2>1. CASE bad = {}
    <3>1. D = <<e>>
      BY <1>7, <2>1
    <3>2. IsList(D) /\ Len(D) = 1 /\ D[1] = e
      BY <3>1, OneStep
    <3> QED BY <3>2
  <2>2. CASE bad # {}
    <3>1. D = <<x, y>>
      BY <1>7, <2>2
    <3>2. IsList(D) /\ Len(D) = 2 /\ D[1] = x /\ D[2] = y
      BY <3>1, TwoSteps
    <3>3. \A p \in 1..2 : p = 1 \/ p = 2
      OBVIOUS
    <3> QED BY <3>2, <3>3
  <2> QED BY <2>1, <2>2
<1> PICK m \in Nat : m = Len(C)
  BY <1>10
<1> PICK d \in Nat : d = Len(D)
  BY <1>11
<1> PICK k \in Nat : k = n + m
  OBVIOUS
<1>12. /\ IsList(T) /\ Len(T) = k + d
       /\ \A p \in 1..n : T[p] = A[p]
       /\ \A p \in n + 1..k : T[p] = C[p - n]
       /\ \A p \in k + 1..k + d : T[p] = D[p - k]
  <2>1. IsList(A) /\ IsList(C) /\ IsList(D) /\ n = Len(A) /\ m = Len(C) /\ d = Len(D)
    BY <1>9, <1>10, <1>11
  <2> QED BY SMTT(20), <2>1, <1>T, ThreeJoined
<1>m. m = 1
  BY <1>10
<1>13. /\ IsList(T) /\ Len(T) = k + d
       /\ \A p \in 1..n : T[p] = A[p]
       /\ T[k] = C[1]
       /\ \A p \in k + 1..k + d : T[p] = D[p - k]
  <2>1. k \in n + 1..k /\ k - n = 1
    BY <1>m
  <2> QED BY ZenonT(30), <1>12, <2>1
<1>14. /\ \A p \in 1..n : p \in 1..k /\ p \in 1..k + d
       /\ k \in 1..k
       /\ \A p \in 1..k + d : p \in 1..n \/ p = k \/ (p \in k + 1..k + d /\ p - k \in 1..d)
       /\ \A p \in k + 1..k + d : p - k = d => p = k + d
  BY <1>m
<1>15. ASSUME NEW p \in 1..n
       PROVE  /\ Member(T[p]) /\ T[p][2] \in ParallelSafe /\ row[T[p][2]] = "QUEUED"
              /\ \A q \in 1..n : T[p][2] = T[q][2] => p = q
  <2>1. \A q \in 1..n : T[q] = A[q]
    BY <1>13
  <2>2. \A q \in 1..n : T[q][2] = members[q]
    BY <1>9, <2>1
  <2>3. Member(T[p])
    BY <1>9, <2>1 DEF Member
  <2> PICK s : s = members[p]
    OBVIOUS
  <2>4. T[p][2] = s /\ s \in ParallelSafe /\ row[s] = "QUEUED"
    BY <1>3, <2>2
  <2>5. ASSUME NEW q \in 1..n, T[p][2] = T[q][2]
        PROVE  p = q
    <3>1. members[p] = members[q]
      BY <2>2, <2>5
    <3> QED BY <1>3, <3>1
  <2> QED BY <2>3, <2>4, <2>5
<1>16. ASSUME NEW p \in 1..Len(T)
       PROVE  p \in 1..n \/ T[p] = c \/ (T[p] = e /\ p = Len(T)) \/ T[p] = x \/ T[p] = y
  <2>1. CASE p = k
    <3>1. T[p] = c
      BY <1>10, <1>13, <2>1
    <3> QED BY <3>1
  <2>2. CASE p \in k + 1..k + d
    <3>1. p - k \in 1..d
      BY <2>2
    <3>2. T[p] = D[p - k]
      BY <1>13, <2>2
    <3>3. (D[p - k] = e /\ p - k = d) \/ D[p - k] = x \/ D[p - k] = y
      BY <1>11, <3>1
    <3> QED BY <1>13, <1>14, <2>2, <3>2, <3>3
  <2> QED BY <1>13, <1>14, <2>1, <2>2
<1>17. \A p \in 1..n : p \in 1..Len(T)
  BY <1>13, <1>14
<1>18. \A p \in 1..Len(T) :
         \/ p \in 1..n
         \/ T[p] = <<"completed", "none">>
         \/ T[p] = <<"settle", "none">> /\ p = Len(T)
         \/ T[p] = <<"phase", "EXPERIMENT_BLOCKED">>
         \/ T[p] = <<"blocker", "PARALLEL_EXPERIMENT_FAILED">>
  BY <1>4, <1>16
<1>19. BatchList(T, n)
  BY <1>13, <1>15, <1>17, <1>18 DEF BatchList
<1> QED BY <1>8, <1>19

\* The step of a batch that comes at place p of its list.
LEMMA BatchSteps ==
  ASSUME NEW T, NEW n, BatchList(T, n), NEW p \in 1..Len(T), NEW a, a = T[p]
  PROVE  /\ StepOK(a) /\ ~Lifting(a) /\ ~Asking(a) /\ BatchStep(a)
         /\ a[1] = "phase" => Blocking(a)
         /\ a \in Closing => p = Len(T)
         /\ Member(a) <=> p \in 1..n
         /\ Member(a) => a[2] \in ParallelSafe /\ row[a[2]] = "QUEUED"
<1>1. CASE p \in 1..n
  <2>1. Member(a) /\ a[2] \in ParallelSafe /\ row[a[2]] = "QUEUED"
    BY <1>1 DEF BatchList
  <2>2. a[2] \in Experiments
    BY <2>1, ExperimentNames DEF ParallelSafe
  <2>3. a[1] = "finish" \/ a[1] = "fail"
    BY <2>1 DEF Member
  <2>4. StepOK(a)
    BY <2>1, <2>2, <2>3 DEF StepOK
  <2>5. a \notin Closing
    BY <2>3 DEF Closing
  <2>6. ~Lifting(a) /\ ~Asking(a) /\ a[1] # "phase"
    BY <2>3 DEF Lifting, Asking
  <2> QED BY <1>1, <2>1, <2>4, <2>5, <2>6 DEF BatchStep
<1>2. CASE p \notin 1..n
  <2>0. \/ a = <<"completed", "none">>
        \/ a = <<"settle", "none">> /\ p = Len(T)
        \/ a = <<"phase", "EXPERIMENT_BLOCKED">>
        \/ a = <<"blocker", "PARALLEL_EXPERIMENT_FAILED">>
    BY <1>2 DEF BatchList
  <2>1. CASE a = <<"completed", "none">>
    <3>1. a[1] = "completed" /\ StepOK(a)
      BY <2>1, StepsOK
    <3>2. a \notin Closing
      BY <3>1 DEF Closing
    <3>3. BatchStep(a)
      BY <2>1 DEF BatchStep
    <3> QED BY <1>2, <3>1, <3>2, <3>3 DEF Lifting, Asking, Member
  <2>2. CASE a = <<"settle", "none">> /\ p = Len(T)
    <3>1. a[1] = "settle" /\ StepOK(a)
      BY <2>2, StepsOK
    <3>2. BatchStep(a)
      BY <2>2 DEF BatchStep
    <3> QED BY <1>2, <2>2, <3>1, <3>2 DEF Lifting, Asking, Member
  <2>3. CASE a = <<"phase", "EXPERIMENT_BLOCKED">>
    <3>1. a[1] = "phase" /\ a[2] = "EXPERIMENT_BLOCKED" /\ StepOK(a)
      BY <2>3, StepsOK
    <3>2. BatchStep(a)
      BY <2>3 DEF BatchStep
    <3>3. a \notin Closing
      BY <3>1 DEF Closing
    <3>4. Blocking(a) /\ ~Lifting(a)
      BY <3>1 DEF Blocking, Lifting, Blocked, Lifted
    <3> QED BY <1>2, <3>1, <3>2, <3>3, <3>4 DEF Asking, Member
  <2>4. CASE a = <<"blocker", "PARALLEL_EXPERIMENT_FAILED">>
    <3>1. a[1] = "blocker" /\ a[2] = "PARALLEL_EXPERIMENT_FAILED"
      BY <2>4
    <3>2. ~IsAsk("PARALLEL_EXPERIMENT_FAILED")
      BY NoAsks
    <3>3. StepOK(a)
      BY <2>4, <3>2, NoReason, StepsOK
    <3>4. BatchStep(a)
      BY <2>4 DEF BatchStep
    <3>5. a \notin Closing
      BY <3>1 DEF Closing
    <3> QED BY <1>2, <3>1, <3>2, <3>3, <3>4, <3>5 DEF Asking, Member, Lifting
  <2> QED BY <2>0, <2>1, <2>2, <2>3, <2>4
<1> QED BY <1>1, <1>2

\* A run of a batch.
LEMMA BatchGround ==
  ASSUME GroundInv, RunBatch
  PROVE  /\ GroundInv' /\ row' = row /\ routed' = routed /\ lost' = lost /\ Ready
         /\ \A p \in 1..Len(todo') :
              Member(todo'[p]) =>
                todo'[p][2] \in ParallelSafe /\ row[todo'[p][2]] = "QUEUED"
<1> PICK T : T = todo'
  OBVIOUS
<1>1. PICK n : BatchList(T, n)
  BY BatchIsList
<1>2. /\ Ready /\ row' = row /\ routed' = routed /\ lost' = lost /\ blocker' = blocker
      /\ marks' = marks /\ saved' = NoSave /\ queued' = FALSE
      /\ phase' = "RUNNING_PARALLEL_EXPERIMENTS"
  BY DEF RunBatch, Forget
<1>3. ~IsAsk(blocker) /\ RowsInv
  BY <1>2, ReadyAsksNothing DEF GroundInv
<1>4. CampaignInv'
  BY BatchKeeps DEF GroundInv
<1>5. RowsInv'
  <2>1. Grown
    BY <1>2, SameGrow
  <2>2. Reason(blocker') /\ Reason(saved'[2])
    <3>1. saved'[2] = "none"
      BY <1>2 DEF NoSave
    <3> QED BY <1>2, <1>3, <3>1, NoReason, NoneIsNoAsk
  <2>3. \A p \in 1..Len(todo') :
          /\ StepOK(todo'[p])
          /\ Member(todo'[p]) => row'[todo'[p][2]] = row[todo'[p][2]]
    <3> TAKE p \in 1..Len(todo')
    <3>1. StepOK(T[p])
      BY <1>1, BatchSteps
    <3> QED BY <1>2, <3>1
  <2>4. "campaign" \in marks' => ~Unfinished
    BY <1>2, <1>3 DEF RowsInv
  <2> QED BY <1>2, <1>3, <2>1, <2>2, <2>3, <2>4, RowsKept
<1>6. Closes'
  <2>1. \A p \in 1..Len(todo') : todo'[p] \in Closing => p = Len(todo')
    BY <1>1, BatchSteps
  <2> QED BY <1>2, <2>1, ClosesNext
<1>7. \A p \in 1..Len(todo') :
        /\ ~Lifting(todo'[p]) /\ ~Asking(todo'[p])
        /\ todo'[p][1] = "phase" => Blocking(todo'[p])
  BY <1>1, BatchSteps
<1>8. BlockInv'
  <2>1. ~IsAsk(blocker')
    BY <1>2, <1>3
  <2> QED BY <1>7, <2>1, BlockNext
<1>9. \A p \in 1..Len(todo') :
        /\ Member(todo'[p]) <=> p \in 1..n
        /\ BatchStep(todo'[p])
        /\ Member(todo'[p]) => todo'[p][2] \in ParallelSafe /\ row[todo'[p][2]] = "QUEUED"
  BY <1>1, BatchSteps
<1>10. BatchInv'
  <2>1. ASSUME NEW p \in 1..Len(todo'), Member(todo'[p])
        PROVE  /\ ~IsAsk(blocker') /\ saved' = NoSave /\ ~queued'
               /\ \A q \in 1..p : Member(todo'[q])
               /\ \A q \in 1..Len(todo') :
                    BatchStep(todo'[q])
                    /\ (Member(todo'[q]) /\ todo'[q][2] = todo'[p][2] => p = q)
    <3>1. ~IsAsk(blocker') /\ saved' = NoSave /\ ~queued'
      BY <1>2, <1>3
    <3>2. n \in Nat /\ p \in 1..n /\ \A q \in 1..n : q \in 1..Len(todo')
      BY <1>1, <1>9, <2>1 DEF BatchList
    <3>3. \A q \in 1..p : q \in 1..n
      BY <3>2
    <3>4. \A q \in 1..p : Member(todo'[q])
      BY <1>9, <3>2, <3>3
    <3>5. \A q \in 1..n : todo'[p][2] = todo'[q][2] => p = q
      BY <1>1, <3>2 DEF BatchList
    <3>6. \A q \in 1..Len(todo') :
            BatchStep(todo'[q]) /\ (Member(todo'[q]) /\ todo'[q][2] = todo'[p][2] => p = q)
      BY <1>9, <3>5
    <3> QED BY <3>1, <3>4, <3>6
  <2> QED BY <2>1, BatchNext
<1> QED BY <1>2, <1>4, <1>5, <1>6, <1>8, <1>9, <1>10 DEF GroundInv

\* The initial state, and a step that changes nothing.
LEMMA GroundInit ==
  ASSUME CampaignInit
  PROVE  GroundInv /\ OneAsks /\ ~lost /\ \A s \in Experiments : ~Completed(s)
<1>1. /\ row = [s \in Experiments |-> "absent"] /\ routed = {} /\ todo = <<>> /\ marks = {}
      /\ blocker = "none" /\ saved = NoSave /\ lost = FALSE /\ up = FALSE
  BY DEF CampaignInit
<1>2. \A s \in Experiments : row[s] = "absent"
  BY <1>1
<1>3. \A s \in Experiments : ~Completed(s)
  BY <1>2, FindingsAreNoStatus DEF Completed, Plainly
<1>4. CampaignInv
  BY InitKeeps
<1>5. Len(todo) = 0 /\ \A p \in 1..Len(todo) : FALSE
  BY <1>1, EmptyList
<1>6. saved[2] = "none"
  BY <1>1 DEF NoSave
<1>7. RowsInv
  <2>1. Reason(blocker) /\ Reason(saved[2])
    BY <1>1, <1>6, NoReason, NoneIsNoAsk
  <2> QED BY <1>1, <1>2, <1>5, <2>1 DEF RowsInv
<1>8. Closes /\ BlockInv /\ BatchInv
  BY <1>1, <1>5 DEF Closes, BlockInv, BatchInv
<1>9. OneAsks
  BY <1>3, <1>5 DEF OneAsks, Fresh, Unrouted, Due
<1> QED BY <1>1, <1>3, <1>4, <1>7, <1>8, <1>9 DEF GroundInv

-----------------------------------------------------------------------------
(* Who may ask.                                                            *)

\* Nobody new is to ask.
LEMMA OneAsksKept ==
  ASSUME OneAsks, \A x \in Experiments : Fresh(x)' => Fresh(x)
  PROVE  OneAsks'
<1>1. ASSUME NEW x \in Experiments, NEW y \in Experiments, x # y, Fresh(x)', Fresh(y)', MayAsk(x)
      PROVE  Quiet(y)
  BY <1>1 DEF OneAsks
<1> QED BY <1>1 DEF OneAsks

\* A result is fresh after a step if it was, or the step has completed it.
LEMMA FreshBefore ==
  ASSUME \A s \in routed : s \in routed', NEW x \in Experiments, Fresh(x)',
         Completed(x)' => Completed(x) \/ Fresh(x),
         \A p \in 1..Len(todo') :
           todo'[p][1] # "finish"
           \/ \E q \in 1..Len(todo) : todo'[p] = todo[q]
  PROVE  Fresh(x)
<1>1. CASE Unrouted(x)'
  BY <1>1 DEF Unrouted, Fresh
<1>2. CASE Due("finish", x)'
  <2>1. PICK p \in 1..Len(todo') : todo'[p][1] = "finish" /\ todo'[p][2] = x
    BY <1>2 DEF Due
  <2>2. PICK q \in 1..Len(todo) : todo'[p] = todo[q]
    BY <2>1
  <2>3. Due("finish", x)
    BY <2>1, <2>2 DEF Due
  <2> QED BY <2>3 DEF Fresh
<1> QED BY <1>1, <1>2 DEF Fresh

\* One turn of the work, and what it leaves behind.
LEMMA TurnPlaces ==
  ASSUME CampaignInv, NEW d, NEW T, Turn(d, T), NEW p \in 1..Len(todo')
  PROVE  \/ p \in 1..Len(T) /\ todo'[p] = T[p] /\ Inner(T[p])
         \/ \E q \in 2..Len(todo) :
              p = q + Len(T) - 1 /\ todo'[p] = todo[q] /\ q \in 1..Len(todo)
<1>1. /\ IsList(todo) /\ todo # <<>> /\ IsList(T) /\ Then(T)
      /\ \A k \in 1..Len(T) : Inner(T[k])
  BY DEF Turn, Sane, SaneAt, CampaignInv
<1>2. \/ p \in 1..Len(T) /\ todo'[p] = T[p]
      \/ \E q \in 2..Len(todo) :
           p = q + Len(T) - 1 /\ todo'[p] = todo[q] /\ q \in 1..Len(todo)
  BY <1>1, Came
<1> QED BY <1>1, <1>2

\* A turn makes no result but that of a member, which was to come.
LEMMA TurnFresh ==
  ASSUME CampaignInv, NEW d, NEW T, Turn(d, T), \A s \in routed : s \in routed',
         NEW x \in Experiments, Fresh(x)', Completed(x)' => Completed(x) \/ Fresh(x)
  PROVE  Fresh(x)
<1>1. ASSUME NEW p \in 1..Len(todo'), todo'[p][1] = "finish"
      PROVE  \E q \in 1..Len(todo) : todo'[p] = todo[q]
  <2>1. \/ todo'[p] = T[p] /\ Inner(T[p])
        \/ \E q \in 1..Len(todo) : todo'[p] = todo[q]
    BY TurnPlaces
  <2> PICK a : a = todo'[p]
    OBVIOUS
  <2>2. ~Inner(a)
    BY <1>1 DEF Inner
  <2> QED BY <2>1, <2>2
<1> QED BY <1>1, FreshBefore

\* Where nothing blocks and nothing is to do, every routed result has its
\* follow-up.
LEMMA ReadyIsDone ==
  ASSUME FollowUpInv, ~lost, Ready, NEW s \in Experiments, Open(s)
  PROVE  FALSE
<1>1. up /\ todo = <<>> /\ ~IsBlocked
  BY DEF Ready, Idle
<1>2. s \in routed
  BY IdleIsRouted DEF FollowUpInv, NothingUnrouted, Ready, Open
<1>3. Held
  BY <1>2 DEF FollowUpInv, Kept
<1>4. saved = NoSave
  BY <1>1 DEF FollowUpInv, Closes
<1>5. ~Saved
  BY <1>4 DEF Saved, NoSave
<1> QED BY <1>1, <1>3, <1>5 DEF Held

\* A step at the head of the loop that completes nothing.
LEMMA LoopKeeps ==
  ASSUME FollowUpInv, Ready, Grown, routed' = routed, lost' = lost,
         \A s \in Experiments : Completed(s)' => Completed(s),
         \A p \in 1..Len(todo') : ~Member(todo'[p])
  PROVE  OneAsks' /\ (~lost' => \A s \in Experiments : Open(s)' => Kept(s)')
<1>1. CampaignInv
  BY DEF FollowUpInv
<1>2. ASSUME NEW x \in Experiments, Fresh(x)' PROVE FALSE
  <2>1. Unrouted(x)' \/ Due("finish", x)'
    BY <1>2 DEF Fresh
  <2>2. CASE Unrouted(x)'
    BY <1>1, <2>2, IdleIsRouted DEF Unrouted, NothingUnrouted, Ready
  <2>3. CASE Due("finish", x)'
    <3>1. PICK p \in 1..Len(todo') : todo'[p][1] = "finish"
      BY <2>3 DEF Due
    <3> QED BY <3>1 DEF Member
  <2> QED BY <2>1, <2>2, <2>3
<1>3. OneAsks'
  BY <1>2 DEF OneAsks
<1>4. ASSUME ~lost', NEW s \in Experiments, Open(s)' PROVE FALSE
  <2>1. Completed(s)
    BY <1>4 DEF Open
  <2>2. Open(s)
    BY <1>4, <2>1, OpenBefore
  <2> QED BY <1>4, <2>2, ReadyIsDone
<1> QED BY <1>3, <1>4

\* How a follow-up that is missing is kept, spelled out for the next state.
LEMMA KeptNext ==
  ASSUME NEW s \in Experiments, NEW ask, AskOf(s)' = ask,
         \A r \in Experiments \ {s} : Fresh(r)' => Quiet(r),
         IsAsk(blocker') => blocker' = ask, IsAsk(saved'[2]) => saved'[2] = ask,
         s \in routed' => Held', Due("event", s)' => Written',
         Rescue(s)' \/ (~queued' /\ \A p \in 1..Len(todo') : Harmless(s, ask, todo'[p]))
  PROVE  Kept(s)'
BY DEF Kept

\* A run of one experiment: its follow-up is the only one that may be missing.
LEMMA RunFollows ==
  ASSUME FollowUpInv, RunExperiment
  PROVE  FollowUpInv'
<1>1. GroundInv /\ CampaignInv
  BY DEF FollowUpInv, GroundInv
<1>2. /\ Ready /\ routed' = routed /\ lost' = lost /\ blocker' = blocker /\ saved' = NoSave
      /\ queued' = FALSE
  BY DEF RunExperiment, Forget
<1>3. GroundInv' /\ Grown
  BY <1>1, RunGround
<1>4. PICK z \in Experiments :
        row[z] = "QUEUED" /\ \A x \in Experiments : x # z => row'[x] = row[x]
  BY <1>1, RunGround
<1>5. \A p \in 1..Len(todo') :
        todo'[p] = <<"completed", "none">> \/ todo'[p] = <<"settle", "none">>
  BY <1>1, RunGround
<1>6. \A p \in 1..Len(todo') : todo'[p][1] = "completed" \/ todo'[p][1] = "settle"
  <2> TAKE p \in 1..Len(todo')
  <2> PICK a : a = todo'[p]
    OBVIOUS
  <2>1. a = <<"completed", "none">> \/ a = <<"settle", "none">>
    BY <1>5
  <2>2. a[1] = "completed" \/ a[1] = "settle"
    BY <2>1
  <2> QED BY <2>2
<1>7. ASSUME NEW x \in Experiments, x # z PROVE ~Fresh(x)'
  <2>1. ~Unrouted(x)
    BY <1>1, <1>2, IdleIsRouted DEF Unrouted, NothingUnrouted, Ready
  <2>2. ~Unrouted(x)'
    BY <1>2, <1>4, <1>7, <2>1 DEF Unrouted, Completed
  <2>3. ~Due("finish", x)'
    BY <1>6 DEF Due
  <2> QED BY <2>2, <2>3 DEF Fresh
<1>8. OneAsks'
  BY <1>7 DEF OneAsks
<1>9. ASSUME ~lost', NEW s \in Experiments, Open(s)' PROVE Kept(s)'
  <2>1. s = z
    <3>1. CASE s # z
      <4>1. Completed(s)
        BY <1>4, <1>9, <3>1 DEF Open, Completed
      <4>2. Open(s)
        BY <1>3, <1>9, <4>1, OpenBefore
      <4> QED BY <1>2, <1>9, <4>2, ReadyIsDone
    <3> QED BY <3>1
  <2>2. \A r \in Experiments \ {s} : Fresh(r)' => Quiet(r)
    BY <1>7, <2>1
  <2>3. ~IsAsk(blocker') /\ ~IsAsk(saved'[2])
    <3>1. saved'[2] = "none"
      BY <1>2 DEF NoSave
    <3> QED BY <1>1, <1>2, <3>1, ReadyAsksNothing, NoneIsNoAsk
  <2>4. s \notin routed'
    <3>1. ~Completed(z)
      BY <1>4, FindingsAreNoStatus DEF Completed, Plainly
    <3> QED BY <1>1, <1>2, <2>1, <3>1 DEF GroundInv, RowsInv
  <2>5. ~Due("event", s)'
    BY <1>6 DEF Due
  <2> PICK ask : ask = AskOf(s)'
    OBVIOUS
  <2>6. \A p \in 1..Len(todo') : Harmless(s, ask, todo'[p])
    BY <1>6 DEF Harmless
  <2>7. ~queued'
    BY <1>2
  <2> QED BY <2>2, <2>3, <2>4, <2>5, <2>6, <2>7, KeptNext
<1> QED BY <1>3, <1>8, <1>9 DEF FollowUpInv, GroundInv

\* A run of a batch: the results that are to come ask one at a time.
LEMMA BatchFollows ==
  ASSUME FollowUpInv, RunBatch
  PROVE  FollowUpInv'
<1>1. GroundInv /\ CampaignInv
  BY DEF FollowUpInv, GroundInv
<1>2. GroundInv' /\ row' = row /\ routed' = routed /\ lost' = lost /\ Ready
  BY <1>1, BatchGround
<1>3. \A p \in 1..Len(todo') :
        Member(todo'[p]) => todo'[p][2] \in ParallelSafe /\ row[todo'[p][2]] = "QUEUED"
  BY <1>1, BatchGround
<1>4. ASSUME NEW x \in Experiments, Fresh(x)'
      PROVE  x \in ParallelSafe /\ row[x] = "QUEUED"
  <2>1. ~Unrouted(x)'
    BY <1>1, <1>2, IdleIsRouted DEF Unrouted, NothingUnrouted, Ready, Completed
  <2>2. PICK p \in 1..Len(todo') : todo'[p][1] = "finish" /\ todo'[p][2] = x
    BY <1>4, <2>1 DEF Fresh, Due
  <2> QED BY <1>3, <2>2 DEF Member
<1>5. OneAsks'
  <2>1. \A t \in Experiments : row[t] # "absent" => Grounds(t)
    BY <1>1 DEF GroundInv, RowsInv
  <2>2. ASSUME NEW x \in Experiments, NEW y \in Experiments, x # y, Fresh(x)', Fresh(y)',
               MayAsk(x)
        PROVE  Quiet(y)
    <3>1. /\ x \in ParallelSafe /\ row[x] = "QUEUED"
          /\ y \in ParallelSafe /\ row[y] = "QUEUED"
      BY <1>4, <2>2
    <3> QED BY <2>1, <2>2, <3>1, OneQueuedAsks
  <2> QED BY <2>2 DEF OneAsks
<1>6. ASSUME ~lost', NEW s \in Experiments, Open(s)' PROVE Kept(s)'
  <2>1. Completed(s)
    BY <1>2, <1>6 DEF Open, Completed
  <2>2. Open(s)
    BY <1>2, <1>6, <2>1, SameGrow, OpenBefore
  <2> QED BY <1>2, <1>6, <2>2, ReadyIsDone
<1> QED BY <1>2, <1>5, <1>6 DEF FollowUpInv, GroundInv

\* The loop of the controller.
LEMMA LoopFollows ==
  ASSUME FollowUpInv, Loop
  PROVE  FollowUpInv'
<1>1. GroundInv
  BY DEF FollowUpInv, GroundInv
<1>2. CASE RunExperiment
  BY <1>2, RunFollows
<1>3. CASE RunBatch
  BY <1>3, BatchFollows
<1>4. CASE FailExperiment \/ MissHandler
  <2>1. /\ GroundInv' /\ Grown /\ Ready /\ routed' = routed /\ lost' = lost
        /\ \A s \in Experiments : Completed(s)' => Completed(s)
        /\ \A p \in 1..Len(todo') : ~Member(todo'[p])
    BY <1>1, <1>4, FailGround
  <2>2. OneAsks' /\ (~lost' => \A s \in Experiments : Open(s)' => Kept(s)')
    BY <2>1, LoopKeeps
  <2> QED BY <2>1, <2>2 DEF FollowUpInv, GroundInv
<1>5. CASE \/ RunValidatorCalibration \/ AuditZeroPassResult \/ PlanBoundedRetests
           \/ PlanRetestExecution \/ PlanPostRetestResearch \/ Stall
  <2>1. /\ GroundInv' /\ row' = row /\ Ready /\ routed' = routed /\ lost' = lost
        /\ \A p \in 1..Len(todo') : ~Member(todo'[p])
    BY <1>1, <1>5, PlanGround
  <2>2. \A s \in Experiments : Completed(s)' => Completed(s)
    BY <2>1 DEF Completed
  <2>3. OneAsks' /\ (~lost' => \A s \in Experiments : Open(s)' => Kept(s)')
    BY <2>1, <2>2, SameGrow, LoopKeeps
  <2> QED BY <2>1, <2>3 DEF FollowUpInv, GroundInv
<1> QED BY <1>2, <1>3, <1>4, <1>5 DEF Loop

-----------------------------------------------------------------------------
(* What a turn of the work leaves of a result whose follow-up is missing.  *)

\* The first step of the turn, and what becomes of the steps behind it.
LEMMA TurnFirst ==
  ASSUME CampaignInv, NEW d, NEW T, Turn(d, T)
  PROVE  /\ Head(todo) = todo[1] /\ todo[1][1] = d /\ up /\ up' = up /\ todo # <<>>
         /\ 1 \in 1..Len(todo)
         /\ d # "phase" => ~Blocking(todo[1])
         /\ d # "blocker" => ~Names(todo[1])
         /\ d # "queue" => \A s : ~Rescue(s)
<1>1. IsList(todo) /\ todo # <<>> /\ Head(todo)[1] = d /\ up /\ up' = up
  BY DEF Turn, CampaignInv
<1>2. Head(todo) = todo[1] /\ 1 \in 1..Len(todo)
  <2>1. Len(todo) >= 1 /\ Len(todo) \in Nat /\ Head(todo) = todo[1]
    BY <1>1, Rest DEF IsList
  <2> QED BY <2>1
<1> QED BY <1>1, <1>2 DEF Blocking, Names, Rescue

\* Who may still ask.
LEMMA TurnAsks ==
  ASSUME NEW d, NEW T, Turn(d, T), d # "blocker", NEW s \in Experiments, Kept(s),
         \A x \in Experiments : Fresh(x)' => Fresh(x)
  PROVE  /\ \A r \in Experiments \ {s} : Fresh(r)' => Quiet(r)
         /\ IsAsk(blocker') => blocker' = AskOf(s)
         /\ IsAsk(saved'[2]) => saved'[2] = AskOf(s)
<1>1. /\ \A r \in Experiments \ {s} : Fresh(r) => Quiet(r)
      /\ IsAsk(blocker) => blocker = AskOf(s)
      /\ IsAsk(saved[2]) => saved[2] = AskOf(s)
  BY DEF Kept
<1>2. blocker' = blocker /\ (saved' = NoSave \/ saved' = saved)
  BY DEF Turn
<1>3. NoSave[2] = "none" /\ ~IsAsk("none")
  BY NoneIsNoAsk DEF NoSave
<1>4. IsAsk(saved'[2]) => saved'[2] = AskOf(s)
  BY <1>1, <1>2, <1>3
<1> QED BY <1>1, <1>2, <1>4

\* A turn that writes no block leaves the one that is there.
LEMMA TurnHolds ==
  ASSUME CampaignInv, NEW d, NEW T, Turn(d, T), d \notin {"phase", "blocker", "conclude"},
         NEW s, Kept(s)
  PROVE  /\ s \in routed => Held'
         /\ Due("event", s) => Written' /\ IsBlocked /\ blocker # "none"
<1>1. /\ phase' = phase /\ blocker' = blocker /\ saved' = saved /\ up' = up /\ up
  BY DEF Turn
<1>2. ~Blocking(todo[1]) /\ ~Names(todo[1])
  BY TurnFirst
<1>3. ASSUME s \in routed PROVE Held'
  <2>1. Held
    BY <1>3 DEF Kept
  <2>2. blocker # "none" /\ (IsBlocked \/ (phase = "RECOVERING" /\ Saved))
    BY <1>1, <1>2, <2>1 DEF Held
  <2>3. CASE IsBlocked
    BY <1>1, <2>2, <2>3 DEF Held, IsBlocked
  <2>4. CASE phase = "RECOVERING" /\ Saved
    BY <1>1, <2>2, <2>4 DEF Held, Saved
  <2> QED BY <2>2, <2>3, <2>4
<1>4. ASSUME Due("event", s) PROVE Written' /\ IsBlocked /\ blocker # "none"
  <2>1. Written
    BY <1>4 DEF Kept
  <2>2. IsBlocked /\ blocker # "none"
    BY <1>2, <2>1 DEF Written
  <2> QED BY <1>1, <2>2 DEF Written, IsBlocked
<1> QED BY <1>3, <1>4

\* An event that is still to be written after a turn was to be, or is new.
LEMMA TurnDue ==
  ASSUME CampaignInv, NEW d, NEW T, Turn(d, T), NEW s, Due("event", s)',
         \A p \in 1..Len(T) : ~(T[p][1] = "event" /\ T[p][2] = s)
  PROVE  \E q \in 2..Len(todo) : q \in 1..Len(todo) /\ todo[q][1] = "event" /\ todo[q][2] = s
<1>1. PICK p \in 1..Len(todo') : todo'[p][1] = "event" /\ todo'[p][2] = s
  BY DEF Due
<1> PICK a : a = todo'[p]
  OBVIOUS
<1>2. \/ p \in 1..Len(T) /\ a = T[p]
      \/ \E q \in 2..Len(todo) : a = todo[q] /\ q \in 1..Len(todo)
  BY TurnPlaces
<1>3. a[1] = "event" /\ a[2] = s
  BY <1>1
<1> QED BY <1>2, <1>3

\* What is still to be done does no harm.
LEMMA TurnHarmless ==
  ASSUME CampaignInv, NEW d, NEW T, Turn(d, T), NEW s, Kept(s), ~Rescue(s), NEW ask,
         ask = AskOf(s), \A p \in 1..Len(T) : Harmless(s, ask, T[p])
  PROVE  ~queued /\ \A p \in 1..Len(todo') : Harmless(s, ask, todo'[p])
<1>1. ~queued /\ \A p \in 1..Len(todo) : Harmless(s, ask, todo[p])
  BY DEF Kept
<1>2. ASSUME NEW p \in 1..Len(todo') PROVE Harmless(s, ask, todo'[p])
  <2> PICK a : a = todo'[p]
    OBVIOUS
  <2>1. \/ p \in 1..Len(T) /\ a = T[p]
        \/ \E q \in 2..Len(todo) : a = todo[q] /\ q \in 1..Len(todo)
    BY TurnPlaces
  <2>2. Harmless(s, ask, a)
    BY <1>1, <2>1
  <2> QED BY <2>2
<1> QED BY <1>1, <1>2

\* A turn that blocks nothing, lifts no block and calls nobody.
LEMMA TurnKept ==
  ASSUME CampaignInv, NEW d, NEW T, Turn(d, T), d \notin {"phase", "blocker", "conclude"},
         NEW s \in Experiments, Kept(s), ~Rescue(s), AskOf(s)' = AskOf(s),
         \A x \in Experiments : Fresh(x)' => Fresh(x),
         s \in routed' => s \in routed, queued' = queued,
         \A p \in 1..Len(T) :
           Harmless(s, AskOf(s), T[p]) /\ ~(T[p][1] = "event" /\ T[p][2] = s)
  PROVE  Kept(s)'
<1> PICK ask : ask = AskOf(s)
  OBVIOUS
<1>1. /\ \A r \in Experiments \ {s} : Fresh(r)' => Quiet(r)
      /\ IsAsk(blocker') => blocker' = ask
      /\ IsAsk(saved'[2]) => saved'[2] = ask
  BY TurnAsks
<1>2. s \in routed' => Held'
  BY TurnHolds
<1>3. Due("event", s)' => Written'
  <2>1. ASSUME Due("event", s)' PROVE Due("event", s)
    <3>1. \E q \in 2..Len(todo) :
            q \in 1..Len(todo) /\ todo[q][1] = "event" /\ todo[q][2] = s
      BY <2>1, TurnDue
    <3> QED BY <3>1 DEF Due
  <2> QED BY <2>1, TurnHolds
<1>4. ~queued' /\ \A p \in 1..Len(todo') : Harmless(s, ask, todo'[p])
  BY TurnHarmless
<1> QED BY <1>1, <1>2, <1>3, <1>4, KeptNext

\* A step that makes nobody fresh keeps the invariant if it keeps what is kept.
LEMMA WorkFollows ==
  ASSUME FollowUpInv, GroundInv', Grown, lost => lost',
         \A x \in Experiments : Fresh(x)' => Fresh(x),
         \A s \in Experiments : Completed(s)' => Completed(s),
         \A s \in Experiments :
           ~lost' /\ Open(s) /\ Kept(s) /\ Open(s)' /\ AskOf(s)' = AskOf(s) => Kept(s)'
  PROVE  FollowUpInv'
<1>1. OneAsks'
  BY OneAsksKept DEF FollowUpInv
<1>2. ASSUME ~lost', NEW s \in Experiments, Open(s)' PROVE Kept(s)'
  <2>1. Completed(s)
    BY <1>2 DEF Open
  <2>2. Open(s) /\ AskOf(s)' = AskOf(s)
    BY <1>2, <2>1, OpenBefore
  <2>3. Kept(s)
    BY <1>2, <2>2 DEF FollowUpInv
  <2> QED BY <1>2, <2>2, <2>3
<1> QED BY <1>1, <1>2 DEF FollowUpInv, GroundInv

\* A phase that is written is a block, and the block that was there is named.
LEMMA PhaseKept ==
  ASSUME CampaignInv, SetPhase, NEW s \in Experiments, Kept(s), AskOf(s)' = AskOf(s),
         \A x \in Experiments : Fresh(x)' => Fresh(x)
  PROVE  Kept(s)'
<1> PICK ask : ask = AskOf(s)
  OBVIOUS
<1> PICK d, T : d = "phase" /\ T = <<>>
  OBVIOUS
<1>1. Turn(d, T)
  BY WriteTurns
<1>2. /\ Head(todo) = todo[1] /\ todo[1][1] = "phase" /\ up /\ up' = up /\ todo # <<>>
      /\ 1 \in 1..Len(todo) /\ ~Names(todo[1]) /\ ~Rescue(s)
  BY <1>1, TurnFirst
<1>3. /\ phase' = todo[1][2] /\ blocker' = blocker /\ saved' = saved /\ routed' = routed
      /\ Then(<<>>)
  BY <1>2 DEF SetPhase, Arg, locals
<1>4. ~queued /\ \A p \in 1..Len(todo) : Harmless(s, ask, todo[p])
  BY <1>2 DEF Kept
<1>5. phase' \in Blocked
  BY <1>2, <1>3, <1>4 DEF Harmless
<1>6. s \in routed' => Held'
  BY <1>3, <1>5 DEF Kept, Held, IsBlocked
<1>7. Due("event", s)' => Written'
  <2>1. ASSUME Due("event", s)' PROVE Written'
    <3>1. \A p \in 1..Len(T) : ~(T[p][1] = "event" /\ T[p][2] = s)
      BY EmptyList
    <3>2. PICK q \in 2..Len(todo) :
            q \in 1..Len(todo) /\ todo[q][1] = "event" /\ todo[q][2] = s
      BY <1>1, <2>1, <3>1, TurnDue
    <3>3. Due("event", s)
      BY <3>2 DEF Due
    <3>4. Written
      BY <3>3 DEF Kept
    <3>5. CASE IsBlocked /\ blocker # "none"
      BY <1>3, <1>5, <3>5 DEF Written, IsBlocked
    <3>6. CASE Len(todo) >= 2 /\ Names(todo[2])
      <4>1. IsList(todo) /\ Len(todo) \in Nat
        BY DEF CampaignInv, IsList
      <4>2. /\ Len(todo') \in Nat /\ Len(todo) = Len(todo') + 1
            /\ \A p \in 1..Len(todo') : todo'[p] = todo[p + 1]
        BY <1>2, <1>3, <4>1, Shifted
      <4>3. 1 \in 1..Len(todo')
        BY <3>6, <4>2
      <4>4. todo'[1] = todo[2]
        BY <4>2, <4>3
      <4>5. Names(todo'[1])
        BY <3>6, <4>4
      <4> QED BY <1>5, <4>5 DEF Written, IsBlocked, Names
    <3> QED BY <1>2, <3>4, <3>5, <3>6 DEF Written
  <2> QED BY <2>1
<1>8. \A p \in 1..Len(T) : Harmless(s, ask, T[p])
  BY EmptyList
<1>9. ~queued /\ \A p \in 1..Len(todo') : Harmless(s, ask, todo'[p])
  BY <1>1, <1>2, <1>8, TurnHarmless
<1>10. ~queued'
  BY <1>9 DEF SetPhase, locals
<1>11. /\ \A r \in Experiments \ {s} : Fresh(r)' => Quiet(r)
       /\ IsAsk(blocker') => blocker' = ask
       /\ IsAsk(saved'[2]) => saved'[2] = ask
  BY <1>1, TurnAsks
<1> QED BY <1>6, <1>7, <1>9, <1>10, <1>11, KeptNext

\* A blocker that is written is a name, and asks for nothing else.
LEMMA BlockerKept ==
  ASSUME CampaignInv, SetBlocker, NEW s \in Experiments, Kept(s), AskOf(s)' = AskOf(s),
         \A x \in Experiments : Fresh(x)' => Fresh(x)
  PROVE  Kept(s)'
<1> PICK ask : ask = AskOf(s)
  OBVIOUS
<1> PICK d, T : d = "blocker" /\ T = <<>>
  OBVIOUS
<1>1. Turn(d, T)
  BY WriteTurns
<1>2. /\ Head(todo) = todo[1] /\ todo[1][1] = "blocker" /\ up /\ up' = up /\ todo # <<>>
      /\ 1 \in 1..Len(todo) /\ ~Blocking(todo[1]) /\ ~Rescue(s)
  BY <1>1, TurnFirst
<1>3. /\ blocker' = todo[1][2] /\ phase' = phase /\ saved' = saved /\ routed' = routed
  BY <1>2 DEF SetBlocker, Arg, locals
<1>4. ~queued /\ \A p \in 1..Len(todo) : Harmless(s, ask, todo[p])
  BY <1>2 DEF Kept
<1>5. blocker' # "none" /\ (IsAsk(blocker') => blocker' = ask)
  BY <1>2, <1>3, <1>4 DEF Harmless
<1>6. s \in routed' => Held'
  <2>1. ASSUME s \in routed' PROVE Held'
    <3>1. Held
      BY <1>3, <2>1 DEF Kept
    <3>2. IsBlocked \/ (phase = "RECOVERING" /\ Saved)
      BY <1>2, <3>1 DEF Held
    <3>3. IsBlocked => IsBlocked'
      BY <1>3 DEF IsBlocked
    <3>4. Saved => Saved'
      BY <1>3 DEF Saved
    <3> QED BY <1>3, <1>5, <3>2, <3>3, <3>4 DEF Held
  <2> QED BY <2>1
<1>7. Due("event", s)' => Written'
  <2>1. ASSUME Due("event", s)' PROVE Written'
    <3>1. \A p \in 1..Len(T) : ~(T[p][1] = "event" /\ T[p][2] = s)
      BY EmptyList
    <3>2. PICK q \in 2..Len(todo) :
            q \in 1..Len(todo) /\ todo[q][1] = "event" /\ todo[q][2] = s
      BY <1>1, <2>1, <3>1, TurnDue
    <3>3. Written
      BY <3>2 DEF Due, Kept
    <3> QED BY <1>2, <1>3, <1>5, <3>3 DEF Written, IsBlocked
  <2> QED BY <2>1
<1>8. \A p \in 1..Len(T) : Harmless(s, ask, T[p])
  BY EmptyList
<1>9. ~queued /\ \A p \in 1..Len(todo') : Harmless(s, ask, todo'[p])
  BY <1>1, <1>2, <1>8, TurnHarmless
<1>10. ~queued'
  BY <1>9 DEF SetBlocker, locals
<1>11. \A r \in Experiments \ {s} : Fresh(r)' => Quiet(r)
  BY DEF Kept
<1>12. IsAsk(saved'[2]) => saved'[2] = ask
  BY <1>3 DEF Kept
<1> QED BY <1>5, <1>6, <1>7, <1>9, <1>10, <1>11, <1>12, KeptNext

\* A result that is recorded was written into the block before.
LEMMA RecordKept ==
  ASSUME CampaignInv, RecordRouted, NEW s \in Experiments, Kept(s), AskOf(s)' = AskOf(s),
         \A x \in Experiments : Fresh(x)' => Fresh(x)
  PROVE  Kept(s)'
<1> PICK ask : ask = AskOf(s)
  OBVIOUS
<1> PICK d, T : d = "event" /\ T = <<>>
  OBVIOUS
<1>1. Turn(d, T)
  BY WriteTurns
<1>2. Head(todo) = todo[1] /\ todo[1][1] = "event" /\ 1 \in 1..Len(todo) /\ ~Rescue(s)
  BY <1>1, TurnFirst
<1>3. /\ routed' = routed \cup {todo[1][2]} /\ queued' = queued
      /\ phase' = phase /\ blocker' = blocker
  BY <1>2 DEF RecordRouted, Arg, locals, kv
<1>4. s \in routed' => Held'
  <2>1. CASE s \in routed
    BY <1>1, <2>1, TurnHolds
  <2>2. CASE s = todo[1][2]
    <3>1. Due("event", s)
      BY <1>2, <2>2 DEF Due
    <3>2. IsBlocked /\ blocker # "none"
      BY <1>1, <3>1, TurnHolds
    <3> QED BY <1>3, <3>2 DEF Held, IsBlocked
  <2> QED BY <1>3, <2>1, <2>2
<1>5. Due("event", s)' => Written'
  <2>1. ASSUME Due("event", s)' PROVE Due("event", s)
    <3>1. \A p \in 1..Len(T) : ~(T[p][1] = "event" /\ T[p][2] = s)
      BY EmptyList
    <3>2. \E q \in 2..Len(todo) :
            q \in 1..Len(todo) /\ todo[q][1] = "event" /\ todo[q][2] = s
      BY <1>1, <2>1, <3>1, TurnDue
    <3> QED BY <3>2 DEF Due
  <2> QED BY <1>1, <2>1, TurnHolds
<1>6. \A p \in 1..Len(T) : Harmless(s, ask, T[p])
  BY EmptyList
<1>7. ~queued' /\ \A p \in 1..Len(todo') : Harmless(s, ask, todo'[p])
  BY <1>1, <1>2, <1>3, <1>6, TurnHarmless
<1>8. /\ \A r \in Experiments \ {s} : Fresh(r)' => Quiet(r)
      /\ IsAsk(blocker') => blocker' = ask
      /\ IsAsk(saved'[2]) => saved'[2] = ask
  BY <1>1, TurnAsks
<1> QED BY <1>4, <1>5, <1>7, <1>8, KeptNext

-----------------------------------------------------------------------------
(* What every step of the work leaves of such a result.                    *)

\* Neither a flag nor another result touches what is kept.
LEMMA PlainKept ==
  ASSUME CampaignInv, SetMark \/ FinishMember \/ FailMember, NEW s \in Experiments, Kept(s),
         AskOf(s)' = AskOf(s), \A x \in Experiments : Fresh(x)' => Fresh(x)
  PROVE  Kept(s)'
<1> PICK T : T = <<>>
  OBVIOUS
<1>1. PICK d \in {"mark", "finish", "fail"} : Turn(d, T)
  BY WriteTurns
<1>2. ~Rescue(s)
  BY <1>1, TurnFirst
<1>3. routed' = routed /\ queued' = queued
  BY DEF SetMark, FinishMember, FailMember, locals
<1>4. \A p \in 1..Len(T) :
        Harmless(s, AskOf(s), T[p]) /\ ~(T[p][1] = "event" /\ T[p][2] = s)
  BY EmptyList
<1> QED BY <1>1, <1>2, <1>3, <1>4, TurnKept

\* The follow-up comes to exist.
LEMMA EnqueueKept ==
  ASSUME GroundInv, Enqueue, NEW s \in Experiments, Kept(s), Open(s)',
         AskOf(s)' = AskOf(s), \A x \in Experiments : Fresh(x)' => Fresh(x)
  PROVE  Kept(s)'
<1> PICK T : T = <<>>
  OBVIOUS
<1> PICK d : d = "queue"
  OBVIOUS
<1>1. Turn(d, T) /\ CampaignInv
  BY WriteTurns DEF GroundInv
<1> PICK u : u = todo[1][2]
  OBVIOUS
<1>2. u \in Experiments /\ row'[u] # "absent"
  BY <1>1, EnqueueGround, TurnFirst DEF Arg
<1>3. ~Rescue(s)
  <2>1. ASSUME Rescue(s) PROVE FALSE
    <3> PICK t : t = StageOf(u)
      OBVIOUS
    <3>1. t \in Starters(AskOf(s)')
      BY <2>1 DEF Rescue
    <3>2. Untouched(t)'
      BY <3>1 DEF Open
    <3>3. \A x \in (IF t = "trio" THEN ToSet(Trio) ELSE {t}) : row'[x] = "absent"
      BY <3>2 DEF Untouched
    <3>4. "trio" \notin Experiments
      BY ExperimentNames
    <3>5. u \in (IF t = "trio" THEN ToSet(Trio) ELSE {t})
      BY <1>2, <3>4 DEF StageOf
    <3> QED BY <1>2, <3>3, <3>5
  <2> QED BY <2>1
<1>4. routed' = routed /\ queued' = queued
  BY DEF Enqueue, locals
<1>5. \A p \in 1..Len(T) :
        Harmless(s, AskOf(s), T[p]) /\ ~(T[p][1] = "event" /\ T[p][2] = s)
  BY EmptyList
<1>6. d \notin {"phase", "blocker", "conclude"}
  OBVIOUS
<1> QED BY <1>1, <1>3, <1>4, <1>5, <1>6, TurnKept

\* A step of two lists is one of either.
LEMMA JoinedOnly ==
  ASSUME NEW s, NEW t, IsList(s), IsList(t), NEW p \in 1..Len(s \o t)
  PROVE  \/ \E q \in 1..Len(s) : (s \o t)[p] = s[q]
         \/ \E q \in 1..Len(t) : (s \o t)[p] = t[q]
<1> PICK T : T = s \o t
  OBVIOUS
<1> PICK m \in Nat : m = Len(s)
  BY DEF IsList
<1> PICK n \in Nat : n = Len(t)
  BY DEF IsList
<1>1. /\ Len(T) = m + n
      /\ \A q \in 1..m : T[q] = s[q]
      /\ \A q \in m + 1..m + n : T[q] = t[q - m]
  BY Joined
<1>2. p \in 1..m \/ (p \in m + 1..m + n /\ p - m \in 1..n)
  BY <1>1, TwoParts
<1>3. CASE p \in 1..m
  BY <1>1, <1>3
<1>4. CASE p \in m + 1..m + n /\ p - m \in 1..n
  BY <1>1, <1>4
<1> QED BY <1>2, <1>3, <1>4

\* The steps of one routing.
LEMMA RoutingSteps ==
  ASSUME NEW s \in Experiments, Completed(s), NEW o, o = Route[s][row[s]],
         NEW p \in 1..Len(Routing(s)), NEW a, a = Routing(s)[p]
  PROVE  \/ a[1] = "mark"
         \/ a[1] = "phase" /\ a[2] = o.phase /\ o.phase # "none"
         \/ a[1] = "blocker" /\ a[2] = o.ask /\ o.phase # "none"
         \/ a[1] = "reconcile" /\ a[2] = o.next /\ o.next # "none"
         \/ a[1] = "event" /\ a[2] = s
<1>1. PICK A, B, C, D : PartsOf(s, o, A, B, C, D)
  BY RoutingParts
<1>P. PICK P : P = A \o B
  OBVIOUS
<1>Q. PICK Q : Q = P \o C
  OBVIOUS
<1>2. /\ IsList(A) /\ IsList(B) /\ IsList(C) /\ IsList(D)
  BY Zenon, <1>1 DEF PartsOf, Sane
<1>3. IsList(P) /\ IsList(Q)
  BY <1>2, <1>P, <1>Q, Joined
<1>4. Routing(s) = Q \o D
  BY Zenon, <1>1, <1>P, <1>Q DEF PartsOf
<1>5. (\E q \in 1..Len(Q) : a = Q[q]) \/ (\E q \in 1..Len(D) : a = D[q])
  BY <1>2, <1>3, <1>4, JoinedOnly
<1>6. \A q \in 1..Len(Q) :
        (\E k \in 1..Len(P) : Q[q] = P[k]) \/ (\E k \in 1..Len(C) : Q[q] = C[k])
  <2>1. IsList(P) /\ IsList(C)
    BY <1>2, <1>3
  <2>2. ASSUME NEW q \in 1..Len(P \o C)
        PROVE  \/ \E k \in 1..Len(P) : (P \o C)[q] = P[k]
               \/ \E k \in 1..Len(C) : (P \o C)[q] = C[k]
    BY <2>1, JoinedOnly
  <2> QED BY <2>2, <1>Q
<1>7. \A q \in 1..Len(P) :
        (\E k \in 1..Len(A) : P[q] = A[k]) \/ (\E k \in 1..Len(B) : P[q] = B[k])
  BY SMTT(20), <1>2, <1>P, JoinedOnly
<1>8. ASSUME NEW k \in 1..Len(A), a = A[k] PROVE a[1] = "mark"
  <2>1. CASE A = <<>>
    BY <1>8, <2>1, EmptyList
  <2>2. CASE A = << <<"mark", s>> >>
    BY <1>8, <2>2, OneStep
  <2> QED BY Zenon, <1>1, <2>1, <2>2 DEF PartsOf
<1>9. ASSUME NEW k \in 1..Len(B), a = B[k]
      PROVE  \/ a[1] = "phase" /\ a[2] = o.phase /\ o.phase # "none"
             \/ a[1] = "blocker" /\ a[2] = o.ask /\ o.phase # "none"
  <2>1. CASE o.phase = "none"
    <3>1. B = <<>>
      BY Zenon, <1>1, <2>1 DEF PartsOf
    <3> QED BY <1>9, <3>1, EmptyList
  <2>2. CASE o.phase # "none"
    <3>1. B = << <<"phase", o.phase>>, <<"blocker", o.ask>> >>
      BY Zenon, <1>1, <2>2 DEF PartsOf, Writes
    <3>2. Len(B) = 2 /\ B[1] = <<"phase", o.phase>> /\ B[2] = <<"blocker", o.ask>>
      BY <3>1, TwoSteps
    <3>3. a = <<"phase", o.phase>> \/ a = <<"blocker", o.ask>>
      <4>1. \A q \in 1..2 : q = 1 \/ q = 2
        OBVIOUS
      <4> QED BY <1>9, <3>2, <4>1
    <3> QED BY <2>2, <3>3
  <2> QED BY <2>1, <2>2
<1>10. ASSUME NEW k \in 1..Len(C), a = C[k]
       PROVE  a[1] = "reconcile" /\ a[2] = o.next /\ o.next # "none"
  <2>1. CASE o.next = "none"
    <3>1. C = <<>>
      BY Zenon, <1>1, <2>1 DEF PartsOf
    <3> QED BY <1>10, <3>1, EmptyList
  <2>2. CASE o.next # "none"
    <3>1. C = << <<"reconcile", o.next>> >>
      BY Zenon, <1>1, <2>2 DEF PartsOf
    <3> QED BY <1>10, <2>2, <3>1, OneStep
  <2> QED BY <2>1, <2>2
<1>11. ASSUME NEW k \in 1..Len(D), a = D[k] PROVE a[1] = "event" /\ a[2] = s
  <2>1. D = << <<"event", s>> >>
    BY Zenon, <1>1 DEF PartsOf
  <2> QED BY <1>11, <2>1, OneStep
<1>12. CASE \E q \in 1..Len(Q) : a = Q[q]
  <2> PICK q \in 1..Len(Q) : a = Q[q]
    BY <1>12
  <2>1. CASE \E k \in 1..Len(P) : Q[q] = P[k]
    <3> PICK k \in 1..Len(P) : a = P[k]
      BY <2>1
    <3>1. (\E l \in 1..Len(A) : a = A[l]) \/ (\E l \in 1..Len(B) : a = B[l])
      BY <1>7
    <3> QED BY <3>1, <1>8, <1>9
  <2>2. CASE \E k \in 1..Len(C) : Q[q] = C[k]
    BY <2>2, <1>10
  <2> QED BY <2>1, <2>2, <1>6
<1>13. CASE \E q \in 1..Len(D) : a = D[q]
  BY <1>13, <1>11
<1> QED BY <1>5, <1>12, <1>13

\* The routing of a result that blocks begins with the block.
LEMMA RoutingBlocks ==
  ASSUME NEW s \in Experiments, Completed(s), NEW o, o = Route[s][row[s]], o.phase # "none"
  PROVE  /\ Len(Routing(s)) >= 2 /\ Len(Routing(s)) \in Nat /\ IsList(Routing(s))
         /\ Routing(s)[1] = <<"phase", o.phase>> /\ Routing(s)[2] = <<"blocker", o.ask>>
<1>1. PICK A, B, C, D : PartsOf(s, o, A, B, C, D)
  BY RoutingParts
<1>2. /\ IsList(B) /\ IsList(C) /\ IsList(D)
  BY Zenon, <1>1 DEF PartsOf, Sane
<1>3. Len(B) = 2 /\ B[1] = <<"phase", o.phase>> /\ B[2] = <<"blocker", o.ask>>
  <2>1. B = << <<"phase", o.phase>>, <<"blocker", o.ask>> >>
    BY Zenon, <1>1 DEF PartsOf, Writes
  <2> QED BY <2>1, TwoSteps
<1> PICK k \in Nat : k = Len(B)
  BY <1>3
<1> PICK c \in Nat : c = Len(C)
  BY <1>2 DEF IsList
<1> PICK e \in Nat : e = Len(D)
  BY <1>2 DEF IsList
<1> PICK n \in Nat : n = k + c
  OBVIOUS
<1>4. Routing(s) = B \o C \o D
  BY Zenon, <1>1 DEF PartsOf
<1>5. /\ IsList(Routing(s)) /\ Len(Routing(s)) = n + e
      /\ \A p \in 1..k : Routing(s)[p] = B[p]
  BY <1>2, <1>4, ThreeJoined
<1>6. 1 \in 1..k /\ 2 \in 1..k /\ n + e >= 2 /\ n + e \in Nat
  BY <1>3
<1> QED BY <1>3, <1>5, <1>6

\* A result that asks for nothing is routed without a word.
LEMMA QuietRoutes ==
  ASSUME NEW r \in Experiments, Completed(r), Quiet(r), NEW s, s # r, NEW ask,
         NEW p \in 1..Len(Routing(r))
  PROVE  Harmless(s, ask, Routing(r)[p])
         /\ ~(Routing(r)[p][1] = "event" /\ Routing(r)[p][2] = s)
<1> PICK o : o = Route[r][row[r]]
  OBVIOUS
<1> PICK a : a = Routing(r)[p]
  OBVIOUS
<1>1. o = Quietly("none")
  BY DEF Quiet, Completed
<1>2. o.phase = "none" /\ o.next = "none"
  BY <1>1 DEF Quietly
<1>3. a[1] = "mark" \/ (a[1] = "event" /\ a[2] = r)
  BY <1>2, RoutingSteps
<1>4. Harmless(s, ask, a)
  BY <1>3 DEF Harmless
<1> QED BY <1>3, <1>4

\* The routing of the result itself: its block, and at once what it asks for.
LEMMA AskRoutes ==
  ASSUME NEW s \in Experiments, Completed(s), NEW ask, ask = AskOf(s), IsAsk(ask)
  PROVE  /\ \A p \in 1..Len(Routing(s)) : Harmless(s, ask, Routing(s)[p])
         /\ Len(Routing(s)) >= 2 /\ Len(Routing(s)) \in Nat /\ IsList(Routing(s))
         /\ Blocking(Routing(s)[1]) /\ Names(Routing(s)[2])
<1> PICK o : o = Route[s][row[s]]
  OBVIOUS
<1> PICK f \in DOMAIN Route[s] : f = row[s]
  BY DEF Completed
<1>1. o.ask = ask /\ ask # "none"
  BY NoneIsNoAsk DEF AskOf
<1>2. o.phase \in Blocked /\ o.phase # "none"
  <2>1. o.phase \in Blocked
    BY <1>1, RouteShape
  <2> QED BY <2>1 DEF Blocked
<1>3. o.next # "none" => o.next \in Starters(ask)
  BY <1>1, NextIsAsked
<1>4. ASSUME NEW p \in 1..Len(Routing(s)) PROVE Harmless(s, ask, Routing(s)[p])
  <2> PICK a : a = Routing(s)[p]
    OBVIOUS
  <2>1. \/ a[1] = "mark"
        \/ a[1] = "phase" /\ a[2] = o.phase
        \/ a[1] = "blocker" /\ a[2] = ask
        \/ a[1] = "reconcile" /\ a[2] = o.next /\ o.next # "none"
        \/ a[1] = "event" /\ a[2] = s
    BY <1>1, RoutingSteps
  <2>2. Harmless(s, ask, a)
    BY <1>1, <1>2, <1>3, <2>1 DEF Harmless
  <2> QED BY <2>2
<1>5. /\ Len(Routing(s)) >= 2 /\ Len(Routing(s)) \in Nat /\ IsList(Routing(s))
      /\ Routing(s)[1] = <<"phase", o.phase>> /\ Routing(s)[2] = <<"blocker", o.ask>>
  BY <1>2, RoutingBlocks
<1> PICK x : x = Routing(s)[1]
  OBVIOUS
<1> PICK y : y = Routing(s)[2]
  OBVIOUS
<1>6. Blocking(x)
  BY <1>2, <1>5 DEF Blocking
<1>7. Names(y)
  BY <1>1, <1>5 DEF Names
<1> QED BY <1>4, <1>5, <1>6, <1>7

\* The first two steps of what a turn sets to.
LEMMA TwoFirst ==
  ASSUME CampaignInv, NEW d, NEW T, Turn(d, T), Len(T) >= 2, Len(T) \in Nat
  PROVE  Len(todo') >= 2 /\ todo'[1] = T[1] /\ todo'[2] = T[2]
<1>1. IsList(T) /\ IsList(todo) /\ todo # <<>> /\ todo' = T \o Tail(todo)
  BY DEF Turn, Sane, Then, CampaignInv
<1> PICK R : R = Tail(todo)
  OBVIOUS
<1>2. IsList(R) /\ Len(R) \in Nat
  BY <1>1, Rest DEF IsList
<1> PICK m \in Nat : m = Len(T)
  OBVIOUS
<1> PICK n \in Nat : n = Len(R)
  BY <1>2
<1>3. Len(todo') = m + n /\ \A p \in 1..m : todo'[p] = T[p]
  BY <1>1, <1>2, Joined
<1>4. 1 \in 1..m /\ 2 \in 1..m /\ m + n >= 2
  OBVIOUS
<1> QED BY <1>3, <1>4

\* One result is routed.
LEMMA RouteKept ==
  ASSUME GroundInv, RouteResult, NEW s \in Experiments, Open(s), Kept(s),
         AskOf(s)' = AskOf(s), \A x \in Experiments : Fresh(x)' => Fresh(x)
  PROVE  Kept(s)'
<1> PICK ask : ask = AskOf(s)
  OBVIOUS
<1> PICK d, r : d = "route" /\ r = Arg
  OBVIOUS
<1> PICK T : T = Routing(r)
  OBVIOUS
<1>1. /\ r \in Experiments /\ Completed(r) /\ Turn(d, T) /\ CampaignInv
      /\ routed' = routed /\ queued' = queued
  BY RouteTurn DEF GroundInv
<1>2. /\ Head(todo) = todo[1] /\ todo[1][1] = "route" /\ r = todo[1][2] /\ 1 \in 1..Len(todo)
      /\ ~Rescue(s)
  BY <1>1, TurnFirst DEF Arg
<1>3. d \notin {"phase", "blocker", "conclude"}
  OBVIOUS
<1>4. CASE r # s
  <2>1. Harmless(s, ask, todo[1])
    BY <1>2 DEF Kept
  <2>2. Quiet(r)
    BY <1>2, <1>4, <2>1 DEF Harmless
  <2>3. \A p \in 1..Len(T) :
          Harmless(s, AskOf(s), T[p]) /\ ~(T[p][1] = "event" /\ T[p][2] = s)
    BY <1>1, <1>4, <2>2, QuietRoutes
  <2>4. s \in routed' => s \in routed
    BY <1>1
  <2> QED BY <1>1, <1>2, <1>3, <2>3, <2>4, TurnKept
<1>5. CASE r = s
  <2>1. Completed(s) /\ IsAsk(ask)
    BY DEF Open
  <2>2. /\ \A p \in 1..Len(T) : Harmless(s, ask, T[p])
        /\ Len(T) >= 2 /\ Len(T) \in Nat /\ Blocking(T[1]) /\ Names(T[2])
    BY <1>5, <2>1, AskRoutes
  <2>3. Len(todo') >= 2 /\ todo'[1] = T[1] /\ todo'[2] = T[2]
    BY <1>1, <2>2, TwoFirst
  <2>4. Written'
    <3>1. Blocking(todo'[1]) /\ Names(todo'[2])
      BY <2>2, <2>3
    <3> QED BY <2>3, <3>1 DEF Written, Blocking, Names
  <2>5. s \in routed' => Held'
    BY <1>1, <1>3, TurnHolds
  <2>6. ~queued' /\ \A p \in 1..Len(todo') : Harmless(s, ask, todo'[p])
    BY <1>1, <1>2, <2>2, TurnHarmless
  <2>7. /\ \A q \in Experiments \ {s} : Fresh(q)' => Quiet(q)
        /\ IsAsk(blocker') => blocker' = ask
        /\ IsAsk(saved'[2]) => saved'[2] = ask
    BY <1>1, <1>3, TurnAsks
  <2> QED BY <2>4, <2>5, <2>6, <2>7, KeptNext
<1> QED BY <1>4, <1>5

\* The search finds the result itself, and others that are quiet.
LEMMA SearchKept ==
  ASSUME CampaignInv, RouteCompleted, NEW s \in Experiments, Kept(s),
         AskOf(s)' = AskOf(s), \A x \in Experiments : Fresh(x)' => Fresh(x)
  PROVE  Kept(s)'
<1> PICK d : d = "completed"
  OBVIOUS
<1> PICK T : T = ReconcileCompleted
  OBVIOUS
<1>1. Turn(d, T) /\ d \notin {"phase", "blocker", "conclude"}
  BY SearchTurns
<1>2. ~Rescue(s)
  BY <1>1, TurnFirst
<1>3. routed' = routed /\ queued' = queued
  BY DEF RouteCompleted, locals
<1>4. ASSUME NEW p \in 1..Len(T)
      PROVE  Harmless(s, AskOf(s), T[p]) /\ ~(T[p][1] = "event" /\ T[p][2] = s)
  <2>1. PICK r \in Experiments : Unrouted(r) /\ T[p] = <<"route", r>>
    BY SaneCompleted
  <2> PICK a : a = T[p]
    OBVIOUS
  <2>2. a[1] = "route" /\ a[2] = r
    BY <2>1
  <2>3. r = s \/ Quiet(r)
    BY <2>1 DEF Kept, Fresh
  <2>4. Harmless(s, AskOf(s), a)
    BY <2>2, <2>3 DEF Harmless
  <2> QED BY <2>2, <2>4
<1> QED BY <1>1, <1>2, <1>3, <1>4, TurnKept

\* What closes a list is the last that is due, so every result is recorded.
LEMMA AloneIsRouted ==
  ASSUME CampaignInv, up, Len(todo) = 1, todo[1] \in Closing, NEW s \in Experiments, Completed(s)
  PROVE  s \in routed
<1> PICK a : a = todo[1]
  OBVIOUS
<1>1. a[1] \in {"collect", "conclude", "settle"}
  BY DEF Closing
<1>2. a \notin Ways(s)
  BY <1>1 DEF Ways
<1>3. \A p \in 1..Len(todo) : p = 1
  OBVIOUS
<1>4. ~Comes(s)
  BY <1>2, <1>3 DEF Comes
<1> QED BY <1>4 DEF CampaignInv, ResultsCome, Unrouted

\* What keeps a follow-up at the end of a list.
LEMMA AloneHeld ==
  ASSUME GroundInv, NEW d, d \in {"collect", "conclude", "settle"}, todo # <<>>,
         Head(todo)[1] = d, up, NEW s \in Experiments, Completed(s), Kept(s)
  PROVE  /\ Len(todo) = 1 /\ Head(todo) = todo[1] /\ todo[1] \in Closing /\ todo[1][1] = d
         /\ Tail(todo) = <<>> /\ 1 \in 1..Len(todo)
         /\ blocker # "none" /\ ~queued
         /\ \/ IsBlocked
            \/ d # "settle" /\ phase = "RECOVERING" /\ Saved
<1>1. /\ Len(todo) = 1 /\ Head(todo) = todo[1] /\ todo[1] \in Closing /\ Tail(todo) = <<>>
      /\ 1 \in 1..Len(todo)
  BY ClosingAlone
<1>2. s \in routed
  BY <1>1, AloneIsRouted DEF GroundInv
<1> PICK a : a = todo[1]
  OBVIOUS
<1>3. a[1] = d
  BY <1>1
<1>4. ~Blocking(a) /\ ~Rescue(s)
  BY <1>3 DEF Blocking, Rescue
<1>5. ~queued
  BY <1>4 DEF Kept
<1>6. blocker # "none" /\ (IsBlocked \/ (phase = "RECOVERING" /\ Saved))
  BY <1>2, <1>4 DEF Kept, Held
<1>7. d = "settle" => ~Saved
  <2>1. ASSUME d = "settle" PROVE saved = NoSave
    <3>1. a = <<"settle", "none">>
      BY <1>1, <1>3, <2>1 DEF Closing
    <3> QED BY <1>1, <3>1 DEF GroundInv, Closes
  <2> QED BY <2>1 DEF Saved, NoSave
<1> QED BY <1>1, <1>3, <1>5, <1>6, <1>7

\* After a completion nothing lifts the block that a route has made.
LEMMA SettleKept ==
  ASSUME GroundInv, Settle, NEW s \in Experiments, Completed(s), Kept(s),
         AskOf(s)' = AskOf(s), \A x \in Experiments : Fresh(x)' => Fresh(x)
  PROVE  Kept(s)'
<1> PICK d : d = "settle"
  OBVIOUS
<1> PICK T : T = Settled
  OBVIOUS
<1>1. Turn(d, T) /\ CampaignInv /\ d \notin {"phase", "blocker", "conclude"}
  BY SearchTurns DEF GroundInv
<1>2. todo # <<>> /\ Head(todo)[1] = d /\ up
  BY DEF Settle, Step
<1>3. IsBlocked
  BY <1>2, AloneHeld
<1>4. T = <<>>
  BY <1>3 DEF Settled
<1>5. ~Rescue(s)
  BY <1>1, TurnFirst
<1>6. routed' = routed /\ queued' = queued
  BY DEF Settle, locals
<1>7. \A p \in 1..Len(T) :
        Harmless(s, AskOf(s), T[p]) /\ ~(T[p][1] = "event" /\ T[p][2] = s)
  BY <1>4, EmptyList
<1> QED BY <1>1, <1>5, <1>6, <1>7, TurnKept

\* A start calls only the stages that the follow-up waits for.
LEMMA CollectKept ==
  ASSUME GroundInv, Collect, NEW s \in Experiments, Open(s), Kept(s),
         AskOf(s)' = AskOf(s), \A x \in Experiments : Fresh(x)' => Fresh(x)
  PROVE  Kept(s)'
<1> PICK ask : ask = AskOf(s)
  OBVIOUS
<1>1. /\ todo # <<>> /\ Head(todo)[1] = "collect" /\ up /\ up' = up /\ routed' = routed
      /\ phase' = phase /\ blocker' = blocker /\ saved' = saved /\ queued' = queued
  BY DEF Collect, Step, locals, kv
<1>2. blocker # "none" /\ ~queued /\ (IsBlocked \/ (phase = "RECOVERING" /\ Saved))
  BY <1>1, AloneHeld DEF Open
<1>3. Held'
  <2>1. IsBlocked => IsBlocked'
    BY <1>1 DEF IsBlocked
  <2>2. Saved => Saved'
    BY <1>1 DEF Saved
  <2> QED BY <1>1, <1>2, <2>1, <2>2 DEF Held
<1>4. \A b \in {blocker, saved[2]} : IsAsk(b) => b = ask
  BY DEF Kept
<1>5. ASSUME NEW n \in ToSet(StartOrder), Required(n) PROVE n \in Starters(ask)
  <2>1. CASE n = "halving"
    <3>1. "campaign" \in marks /\ row["halving"] = "absent"
      BY <1>5, <2>1 DEF Required
    <3>2. ~Unfinished /\ \A t \in Experiments : row[t] # "absent" => Grounds(t)
      BY <3>1 DEF GroundInv, RowsInv
    <3> QED BY <3>1, <3>2, NoneOpen
  <2>2. CASE n # "halving"
    <3>1. PICK b \in {blocker, saved[2]} : b \in StartedBy(n)
      BY <1>5, <2>2 DEF Required
    <3>2. n \in Starters(b) /\ IsAsk(b)
      BY <2>2, <3>1, Asks
    <3> QED BY <1>4, <3>2
  <2> QED BY <2>1, <2>2
<1>6. ASSUME NEW p \in 1..Len(todo')
      PROVE  Harmless(s, ask, todo'[p]) /\ todo'[p][1] # "event"
  <2> PICK a : a = todo'[p]
    OBVIOUS
  <2>1. \/ a = <<"conclude", "none">>
        \/ a[1] = "start" /\ a[2] \in ToSet(StartOrder) /\ Required(a[2])
    BY CollectGround
  <2>2. a[1] = "conclude" \/ (a[1] = "start" /\ a[2] \in Starters(ask))
    BY <1>5, <2>1
  <2>3. Harmless(s, ask, a)
    BY <2>2 DEF Harmless
  <2> QED BY <2>2, <2>3
<1>7. ~Due("event", s)'
  BY <1>6 DEF Due
<1>8. \A r \in Experiments \ {s} : Fresh(r)' => Quiet(r)
  BY DEF Kept
<1>9. (IsAsk(blocker') => blocker' = ask) /\ (IsAsk(saved'[2]) => saved'[2] = ask)
  BY <1>1, <1>4
<1>10. ~queued'
  BY <1>1, <1>2
<1> QED BY <1>3, <1>6, <1>7, <1>8, <1>9, <1>10, KeptNext

\* The block that the start met is put back.
LEMMA ConcludeKept ==
  ASSUME GroundInv, Conclude, ~lost', NEW s \in Experiments, Open(s), Kept(s),
         AskOf(s)' = AskOf(s), \A x \in Experiments : Fresh(x)' => Fresh(x)
  PROVE  Kept(s)'
<1> PICK ask : ask = AskOf(s)
  OBVIOUS
<1>1. /\ todo # <<>> /\ Head(todo)[1] = "conclude" /\ up /\ up' = up /\ routed' = routed
      /\ phase' = phase /\ blocker' = blocker /\ saved' = NoSave /\ queued' = FALSE
  BY DEF Conclude, Step, Forget, kv
<1>2. /\ blocker # "none" /\ ~queued /\ (IsBlocked \/ (phase = "RECOVERING" /\ Saved))
      /\ Tail(todo) = <<>>
  BY <1>1, AloneHeld DEF Open
<1> PICK T : T = IF Restore THEN Writes(saved[1], saved[2]) ELSE Settled
  OBVIOUS
<1>3. IsList(T) /\ todo' = T
  <2>1. Sane(T) /\ Then(T)
    BY ConcludeTurn DEF Turn
  <2> QED BY <1>2, <2>1, NothingBehind DEF Sane, Then
<1>4. \A b \in {blocker, saved[2]} : IsAsk(b) => b = ask
  BY DEF Kept
<1>5. (IsAsk(blocker') => blocker' = ask) /\ (IsAsk(saved'[2]) => saved'[2] = ask)
  <2>1. NoSave[2] = "none" /\ ~IsAsk("none")
    BY NoneIsNoAsk DEF NoSave
  <2> QED BY <1>1, <1>4, <2>1
<1>6. \A r \in Experiments \ {s} : Fresh(r)' => Quiet(r)
  BY DEF Kept
<1>7. /\ ~(saved[1] = "STOPPED_CLEANLY" /\ saved[2] # "none")
      /\ ~(Restore /\ IsBlocked /\ blocker # saved[2])
  BY <1>2 DEF Conclude
<1>8. CASE Restore
  <2>1. saved[1] \in Blocked /\ saved[2] # "none"
    <3>1. IsBlocked => saved[2] = blocker
      BY <1>7, <1>8
    <3> QED BY <1>2, <1>8, <3>1 DEF Restore, Saved
  <2> PICK x : x = <<"phase", saved[1]>>
    OBVIOUS
  <2> PICK y : y = <<"blocker", saved[2]>>
    OBVIOUS
  <2>2. T = <<x, y>>
    BY <1>8 DEF Writes
  <2>3. Len(T) = 2 /\ T[1] = x /\ T[2] = y
    BY <2>2, TwoSteps
  <2>4. Harmless(s, ask, x) /\ Blocking(x) /\ x[1] # "event"
    BY <2>1 DEF Harmless, Blocking
  <2>5. Harmless(s, ask, y) /\ y[1] # "event"
    BY <1>4, <2>1 DEF Harmless
  <2>6. \A p \in 1..Len(todo') : Harmless(s, ask, todo'[p]) /\ todo'[p][1] # "event"
    <3>1. \A p \in 1..2 : p = 1 \/ p = 2
      OBVIOUS
    <3> QED BY <1>3, <2>3, <2>4, <2>5, <3>1
  <2>7. ~Due("event", s)'
    BY <2>6 DEF Due
  <2>8. Held'
    <3>1. todo' # <<>> /\ Blocking(todo'[1])
      BY <1>3, <2>3, <2>4, EmptyList
    <3> QED BY <1>1, <1>2, <3>1 DEF Held, IsBlocked, Blocking
  <2> QED BY <1>1, <1>5, <1>6, <2>6, <2>7, <2>8, KeptNext
<1>9. CASE ~Restore
  <2>1. IsBlocked
    BY <1>2, <1>7, <1>9 DEF Restore, Saved
  <2>2. todo' = <<>>
    BY <1>3, <1>9, <2>1 DEF Settled
  <2>3. \A p \in 1..Len(todo') : FALSE
    BY <2>2, EmptyList
  <2>4. ~Due("event", s)'
    BY <2>3 DEF Due
  <2>5. Held'
    BY <1>1, <1>2, <2>1 DEF Held, IsBlocked
  <2> QED BY <1>1, <1>5, <1>6, <2>3, <2>4, <2>5, KeptNext
<1> QED BY <1>8, <1>9

-----------------------------------------------------------------------------
(* The answers of the stages that are called.                              *)

\* The answer of the stage n to the block of an open result s: nothing was
\* queued and the block stays, or the follow-up is queued first.
Aids(s, ask, n, ok, T) ==
  /\ IsList(T)
  /\ \A p \in 1..Len(T) : T[p][1] # "event"
  /\ \/ ~ok /\ \A p \in 1..Len(T) : Harmless(s, ask, T[p])
     \/ Len(T) >= 1 /\ T[1][1] = "queue" /\ StageOf(T[1][2]) = n

\* An answer that does nothing, and one that blocks on the sources.
LEMMA AidsNothing ==
  ASSUME NEW s, NEW ask, NEW n
  PROVE  /\ Aids(s, ask, n, FALSE, <<>>)
         /\ Aids(s, ask, n, Mismatch.ok, Mismatch.steps) /\ ~Mismatch.ok
<1>1. Aids(s, ask, n, FALSE, <<>>)
  BY EmptyList DEF Aids
<1> PICK x : x = <<"phase", "INTEGRITY_BLOCKED">>
  OBVIOUS
<1> PICK y : y = <<"blocker", "FROZEN_SOURCE_MISMATCH">>
  OBVIOUS
<1> PICK T : T = <<x, y>>
  OBVIOUS
<1>2. Mismatch.steps = T /\ Mismatch.ok = FALSE
  BY DEF Mismatch, Answer, Writes
<1>3. IsList(T) /\ Len(T) = 2 /\ T[1] = x /\ T[2] = y
  BY TwoSteps
<1>4. x[1] # "event" /\ Harmless(s, ask, x)
  BY DEF Harmless, Blocked
<1>5. y[1] # "event" /\ Harmless(s, ask, y)
  BY NoAsks DEF Harmless
<1>6. \A p \in 1..2 : p = 1 \/ p = 2
  OBVIOUS
<1>7. \A p \in 1..Len(T) : T[p][1] # "event" /\ Harmless(s, ask, T[p])
  BY <1>3, <1>4, <1>5, <1>6
<1> QED BY <1>1, <1>2, <1>3, <1>7 DEF Aids

\* An answer that queues, then lifts the block.
LEMMA AidsQueue ==
  ASSUME NEW s, NEW ask, NEW n, NEW Q, IsList(Q), Len(Q) >= 1, Len(Q) \in Nat,
         \A p \in 1..Len(Q) : Q[p][1] = "queue" /\ StageOf(Q[p][2]) = n
  PROVE  Aids(s, ask, n, TRUE, Q \o Clear)
<1>0. PICK x, y : x = <<"phase", "PLANNING_NEXT_ACTION">> /\ y = <<"blocker", "none">>
  OBVIOUS
<1>1. PICK C : C = Clear
  OBVIOUS
<1>2. /\ IsList(C) /\ Len(C) \in Nat
      /\ \A p \in 1..Len(C) : C[p][1] # "event"
  <2>1. C = <<x, y>>
    BY <1>0, <1>1 DEF Clear, Writes
  <2>2. IsList(C) /\ Len(C) = 2 /\ C[1] = x /\ C[2] = y
    BY <2>1, TwoSteps
  <2>3. \A p \in 1..2 : p = 1 \/ p = 2
    OBVIOUS
  <2> QED BY <1>0, <2>2, <2>3
<1>7. ASSUME NEW p \in 1..Len(Q \o C) PROVE (Q \o C)[p][1] # "event"
  <2>1. \/ \E q \in 1..Len(Q) : (Q \o C)[p] = Q[q]
        \/ \E q \in 1..Len(C) : (Q \o C)[p] = C[q]
    BY <1>2, JoinedOnly
  <2> QED BY <1>2, <2>1
<1> PICK k \in Nat : k = Len(Q)
  OBVIOUS
<1> PICK m \in Nat : m = Len(C)
  BY <1>2
<1>5. /\ IsList(Q \o C) /\ Len(Q \o C) = k + m
      /\ \A p \in 1..k : (Q \o C)[p] = Q[p]
  BY <1>2, JoinedAt
<1>6. 1 \in 1..k /\ k + m >= 1
  OBVIOUS
<1>8. (Q \o C)[1][1] = "queue" /\ StageOf((Q \o C)[1][2]) = n
  BY <1>5, <1>6
<1> QED BY <1>1, <1>5, <1>6, <1>7, <1>8 DEF Aids

\* The stages that a block asks for.
LEMMA AskedStages ==
  ASSUME NEW ask, NEW n \in Starters(ask)
  PROVE  /\ n \in ToSet(StartOrder) /\ n # "halving" /\ n \notin ToSet(Trio)
         /\ n \notin {"pilot", "unsupported_pilot", "finalize"} /\ StageOf(n) = n
         /\ n = "trio" \/ n \in Experiments
<1>1. n \in ToSet(StartOrder) /\ n # "halving"
  BY Asks
<1>2. n \notin ToSet(Trio) /\ n \notin {"pilot", "unsupported_pilot", "finalize"}
  BY <1>1, StartNames, TrioNames
<1>3. n = "trio" \/ n \in Experiments
  BY <1>1, StartNames, ExperimentNames
<1> QED BY <1>1, <1>2, <1>3 DEF StageOf

\* The stage that a block asks for answers it, as long as nothing of the stage
\* exists.
LEMMA StageAids ==
  ASSUME GroundInv, NEW s, NEW ask, NEW n \in Starters(ask), Untouched(n),
         NEW intact \in BOOLEAN
  PROVE  Aids(s, ask, n, Resolve(n, intact).ok, Resolve(n, intact).steps)
<1> DEFINE Good(answer) == Aids(s, ask, n, answer.ok, answer.steps)
<1>0. Good(Answer(FALSE, <<>>)) /\ Good(Mismatch)
  BY AidsNothing DEF Answer
<1>1. /\ n \in ToSet(StartOrder) /\ n # "halving" /\ n \notin ToSet(Trio)
      /\ n \notin {"pilot", "unsupported_pilot", "finalize"} /\ StageOf(n) = n
  BY AskedStages
<1>2. ASSUME n # "trio"
      PROVE  row[n] = "absent" /\ Good(Reconcile(n, intact))
  <2>1. row[n] = "absent"
    BY <1>2 DEF Untouched
  <2> PICK a : a = <<"queue", n>>
    OBVIOUS
  <2> PICK Q : Q = <<a>>
    OBVIOUS
  <2>2. IsList(Q) /\ Len(Q) = 1 /\ Q[1] = a /\ \A p \in 1..1 : p = 1
    BY OneStep
  <2>3. \A p \in 1..Len(Q) : Q[p][1] = "queue" /\ StageOf(Q[p][2]) = n
    BY <1>1, <2>2
  <2>4. Len(Q) >= 1 /\ Len(Q) \in Nat
    BY <2>2
  <2>5. Aids(s, ask, n, TRUE, Q \o Clear)
    BY <2>2, <2>3, <2>4, AidsQueue
  <2>6. Good(Answer(TRUE, Q \o Clear))
    BY <2>5 DEF Answer
  <2>7. Reconcile(n, intact) \in {Answer(FALSE, <<>>), Answer(TRUE, Q \o Clear), Mismatch}
    BY <2>1 DEF Reconcile
  <2> QED BY <1>0, <2>1, <2>6, <2>7
<1>3. CASE n = "contract_map"
  <2>1. Resolve(n, intact) = Reconcile(n, intact)
    BY <1>2, <1>3 DEF Resolve, ReconcileContractMap
  <2> QED BY <1>2, <1>3, <2>1
<1>4. CASE n = "v3_design"
  <2>1. row["v3_design"] = "absent"
    BY <1>2, <1>4
  <2>2. row["v3"] = "absent"
    BY <2>1, Chain DEF GroundInv, RowsInv
  <2>3. ~Completed("v3_design")
    <3>1. "v3_design" \in Experiments
      BY ExperimentNames
    <3> QED BY <2>1, <3>1, FindingsAreNoStatus DEF Completed, Plainly
  <2>4. Resolve(n, intact) = Reconcile(n, intact)
    BY <1>4, <2>2, <2>3 DEF Resolve, ReconcileV3
  <2> QED BY <1>2, <1>4, <2>4
<1>5. CASE n = "trio"
  <2>1. \A t \in ToSet(Trio) : row[t] = "absent"
    BY <1>5 DEF Untouched
  <2> PICK A : A = {t \in ToSet(Trio) : row[t] = "absent"}
    OBVIOUS
  <2> PICK F : F = {t \in ToSet(Trio) : row[t] = "FAILED"}
    OBVIOUS
  <2>2. A = ToSet(Trio) /\ F = {} /\ A \cup F # {}
    BY <2>1, TrioNames
  <2> PICK open : open = Those(Trio, A)
    OBVIOUS
  <2>3. DOMAIN Trio = 1..3 /\ 3 \in Nat /\ Trio[1] = "mutation" /\ 1 \in 1..3
    BY DEF Trio
  <2>4. IsList(open) /\ Len(open) \in Nat /\ \A k \in 1..Len(open) : open[k] \in A
    <3>1. IsList(open)
      BY <2>3, ThoseAre
    <3> QED BY <2>3, <3>1, ThoseOnly DEF IsList
  <2>5. Len(open) >= 1
    <3>1. Trio[1] \in A
      BY <2>2, <2>3, TrioNames
    <3>2. Has(open, Trio[1])
      BY <2>3, <3>1, ThoseAre
    <3>3. PICK p \in 1..Len(open) : TRUE
      BY <3>2 DEF Has
    <3> QED BY <2>4, <3>3
  <2> PICK Q : Q = [i \in 1..Len(open) |-> <<"queue", open[i]>>]
    OBVIOUS
  <2> PICK k \in Nat : k = Len(open)
    BY <2>4
  <2>6. Q = [i \in 1..k |-> Q[i]]
    OBVIOUS
  <2>7. IsList(Q) /\ Len(Q) = k
    BY <2>6, Listed
  <2>8. ASSUME NEW p \in 1..Len(Q) PROVE Q[p][1] = "queue" /\ StageOf(Q[p][2]) = n
    <3> PICK u : u = open[p]
      OBVIOUS
    <3>1. Q[p] = <<"queue", u>> /\ u \in ToSet(Trio)
      BY <2>4, <2>7
    <3> QED BY <1>5, <3>1 DEF StageOf
  <2>9. Aids(s, ask, n, TRUE, Q \o Clear)
    BY <2>5, <2>7, <2>8, AidsQueue
  <2>10. Good(Answer(TRUE, Q \o Clear))
    BY <2>9 DEF Answer
  <2>11. ReconcileTrio(intact) \in {Mismatch, Answer(TRUE, Q \o Clear)}
    BY <2>2 DEF ReconcileTrio
  <2>12. Resolve(n, intact) = ReconcileTrio(intact)
    BY <1>5 DEF Resolve
  <2> QED BY <1>0, <2>10, <2>11, <2>12
<1>6. CASE n \notin {"contract_map", "v3_design", "trio"}
  <2>1. Resolve(n, intact) = Reconcile(n, intact)
    BY <1>1, <1>6 DEF Resolve
  <2> QED BY <1>2, <1>6, <2>1
<1> QED BY <1>3, <1>4, <1>5, <1>6

\* A stage that is called while the follow-up waits answers its block.
LEMMA CallAids ==
  ASSUME GroundInv, ResolveNow \/ ResolveAtStart, NEW s \in Experiments, Open(s), Kept(s),
         NEW ask, ask = AskOf(s)
  PROVE  \E d \in {"reconcile", "start"}, n \in Starters(ask) : \E ok, T :
           /\ Aids(s, ask, n, ok, T) /\ Turn(d, T) /\ (queued' => queued \/ ok)
           /\ ~queued /\ ~Rescue(s) /\ routed' = routed
<1>1. PICK d \in {"reconcile", "start"}, intact \in BOOLEAN :
        /\ Turn(d, Resolve(Arg, intact).steps)
        /\ (queued' => queued \/ Resolve(Arg, intact).ok)
        /\ routed' = routed
  BY ResolveTurn
<1> PICK n : n = Arg
  OBVIOUS
<1>2. /\ CampaignInv /\ d # "queue"
      /\ \A t \in Starters(ask) : Untouched(t)
  BY DEF GroundInv, Open
<1>3. /\ Head(todo) = todo[1] /\ todo[1][1] = d /\ 1 \in 1..Len(todo) /\ ~Rescue(s)
  BY <1>1, <1>2, TurnFirst
<1>4. ~queued /\ Harmless(s, ask, todo[1])
  BY <1>3 DEF Kept
<1>5. n \in Starters(ask)
  BY <1>3, <1>4 DEF Harmless, Arg
<1>6. Aids(s, ask, n, Resolve(n, intact).ok, Resolve(n, intact).steps)
  BY <1>2, <1>5, StageAids
<1> PICK ok : ok = Resolve(n, intact).ok
  OBVIOUS
<1> PICK T : T = Resolve(n, intact).steps
  OBVIOUS
<1> QED BY <1>1, <1>3, <1>4, <1>5, <1>6

\* A call of a stage.
LEMMA ResolveKept ==
  ASSUME GroundInv, ResolveNow \/ ResolveAtStart, NEW s \in Experiments, Open(s), Kept(s),
         AskOf(s)' = AskOf(s), \A x \in Experiments : Fresh(x)' => Fresh(x)
  PROVE  Kept(s)'
<1> PICK ask : ask = AskOf(s)
  OBVIOUS
<1>0. PICK d \in {"reconcile", "start"}, n \in Starters(ask) : \E ok, T :
        /\ Aids(s, ask, n, ok, T) /\ Turn(d, T) /\ (queued' => queued \/ ok)
        /\ ~queued /\ ~Rescue(s) /\ routed' = routed
  BY CallAids
<1>1. PICK ok, T :
        /\ Aids(s, ask, n, ok, T) /\ Turn(d, T) /\ (queued' => queued \/ ok)
        /\ ~queued /\ ~Rescue(s) /\ routed' = routed
  BY <1>0
<1>2. CampaignInv /\ d \notin {"phase", "blocker", "conclude"}
  BY DEF GroundInv
<1>3. /\ \A r \in Experiments \ {s} : Fresh(r)' => Quiet(r)
      /\ IsAsk(blocker') => blocker' = ask
      /\ IsAsk(saved'[2]) => saved'[2] = ask
  BY <1>1, <1>2, TurnAsks
<1>4. s \in routed' => Held'
  BY <1>1, <1>2, TurnHolds
<1>5. Due("event", s)' => Written'
  <2>1. ASSUME Due("event", s)' PROVE Due("event", s)
    <3>1. \A p \in 1..Len(T) : ~(T[p][1] = "event" /\ T[p][2] = s)
      BY <1>1 DEF Aids
    <3>2. \E q \in 2..Len(todo) :
            q \in 1..Len(todo) /\ todo[q][1] = "event" /\ todo[q][2] = s
      BY <1>1, <1>2, <2>1, <3>1, TurnDue
    <3> QED BY <3>2 DEF Due
  <2> QED BY <1>1, <1>2, <2>1, TurnHolds
<1>6. CASE ~ok /\ \A p \in 1..Len(T) : Harmless(s, ask, T[p])
  <2>1. ~queued'
    BY <1>1, <1>6
  <2>2. \A p \in 1..Len(todo') : Harmless(s, ask, todo'[p])
    BY <1>1, <1>2, <1>6, TurnHarmless
  <2> QED BY <1>3, <1>4, <1>5, <2>1, <2>2, KeptNext
<1>7. CASE Len(T) >= 1 /\ T[1][1] = "queue" /\ StageOf(T[1][2]) = n
  <2>1. todo' # <<>> /\ todo'[1] = T[1]
    <3>1. IsList(T) /\ Len(T) \in Nat /\ IsList(todo) /\ todo # <<>> /\ Then(T)
      BY <1>1, <1>2 DEF Turn, Sane, CampaignInv, IsList
    <3>2. /\ Len(todo') = Len(T) + Len(todo) - 1 /\ Len(todo) \in Nat /\ Len(todo) >= 1
          /\ \A p \in 1..Len(T) : todo'[p] = T[p]
      BY <3>1, Replaced
    <3>3. 1 \in 1..Len(T) /\ Len(todo') >= 1
      BY <1>7, <3>1, <3>2
    <3> QED BY <3>2, <3>3, EmptyList
  <2>2. AskOf(s)' = ask
    OBVIOUS
  <2> PICK u : u = todo'[1]
    OBVIOUS
  <2>3. u[1] = "queue" /\ StageOf(u[2]) \in Starters(ask)
    BY <1>1, <1>7, <2>1
  <2>4. Rescue(s)'
    BY <2>1, <2>2, <2>3 DEF Rescue, StageOf, Starters, StartedBy
  <2> QED BY <1>3, <1>4, <1>5, <2>4, KeptNext
<1> QED BY <1>1, <1>6, <1>7 DEF Aids

\* A start remembers the block.
LEMMA StartKept ==
  ASSUME GroundInv, Start, NEW s \in Experiments, Completed(s), Kept(s),
         AskOf(s)' = AskOf(s), \A x \in Experiments : Fresh(x)' => Fresh(x)
  PROVE  Kept(s)'
<1> PICK ask : ask = AskOf(s)
  OBVIOUS
<1>1. /\ ~up /\ up' = TRUE /\ saved' = <<phase, blocker>> /\ queued' = FALSE
      /\ phase' = "RECOVERING" /\ blocker' = blocker /\ routed' = routed
  BY DEF Start
<1>2. todo = <<>> /\ saved = NoSave
  BY <1>1 DEF GroundInv, CampaignInv, Closes
<1>3. \A b \in {blocker, saved[2]} : IsAsk(b) => b = ask
  BY DEF Kept
<1>4. saved'[1] = phase /\ saved'[2] = blocker
  BY <1>1
<1>5. s \in routed' => Held'
  <2>1. ASSUME s \in routed' PROVE Held'
    <3>1. Held
      BY <1>1, <2>1 DEF Kept
    <3>2. ~Saved
      BY <1>2 DEF Saved, NoSave
    <3>3. blocker # "none" /\ (IsBlocked \/ phase = "STOPPED_CLEANLY")
      BY <1>2, <3>1, <3>2 DEF Held
    <3>4. Saved'
      BY <1>4, <3>3 DEF Saved, IsBlocked
    <3> QED BY <1>1, <3>3, <3>4 DEF Held
  <2> QED BY <2>1
<1>6. ASSUME NEW p \in 1..Len(todo')
      PROVE  Harmless(s, ask, todo'[p]) /\ todo'[p][1] # "event"
  <2> PICK a : a = todo'[p]
    OBVIOUS
  <2>1. a = <<"completed", "none">> \/ a = <<"collect", "none">> \/ a[1] = "mark"
    BY StartGround
  <2>2. a[1] \in {"completed", "collect", "mark"}
    BY <2>1
  <2>3. Harmless(s, ask, a)
    BY <2>2 DEF Harmless
  <2> QED BY <2>2, <2>3
<1>7. ~Due("event", s)'
  BY <1>6 DEF Due
<1>8. \A r \in Experiments \ {s} : Fresh(r)' => Quiet(r)
  BY DEF Kept
<1>9. (IsAsk(blocker') => blocker' = ask) /\ (IsAsk(saved'[2]) => saved'[2] = ask)
  BY <1>1, <1>3, <1>4
<1>10. ~queued'
  BY <1>1
<1> QED BY <1>5, <1>6, <1>7, <1>8, <1>9, <1>10, KeptNext

\* A stop in good order keeps the blocker, and so does a crash that is not
\* counted as a loss.
LEMMA StopKept ==
  ASSUME GroundInv, StopCleanly \/ Crash, ~lost', NEW s \in Experiments, Completed(s), Kept(s),
         AskOf(s)' = AskOf(s), \A x \in Experiments : Fresh(x)' => Fresh(x)
  PROVE  Kept(s)'
<1> PICK ask : ask = AskOf(s)
  OBVIOUS
<1>1. /\ up /\ ~up' /\ saved' = NoSave /\ ~queued' /\ todo' = <<>>
      /\ blocker' = blocker /\ routed' = routed
  BY StopGround DEF StopCleanly, Crash, Forget, kv, Idle
<1>2. \A p \in 1..Len(todo') : FALSE
  BY <1>1, EmptyList
<1>3. ~Due("event", s)'
  BY <1>2 DEF Due
<1>4. \A r \in Experiments \ {s} : Fresh(r)' => Quiet(r)
  BY DEF Kept
<1>5. (IsAsk(blocker') => blocker' = ask) /\ (IsAsk(saved'[2]) => saved'[2] = ask)
  <2>1. saved'[2] = "none"
    BY <1>1 DEF NoSave
  <2>2. IsAsk(blocker) => blocker = ask
    BY DEF Kept
  <2> QED BY <1>1, <2>1, <2>2, NoneIsNoAsk
<1>6. ASSUME s \in routed' PROVE Held'
  <2>1. Held /\ blocker' # "none"
    BY <1>1, <1>6 DEF Kept, Held
  <2>2. CASE StopCleanly
    <3>1. phase' = "STOPPED_CLEANLY"
      BY <2>2 DEF StopCleanly
    <3> QED BY <1>1, <2>1, <3>1 DEF Held
  <2>3. CASE Crash
    <3>1. phase' = phase /\ ~(phase = "RECOVERING" /\ blocker # "none")
      BY <2>3 DEF Crash, kv
    <3>2. IsBlocked
      BY <1>1, <2>1, <3>1 DEF Held
    <3> QED BY <2>1, <3>1, <3>2 DEF Held, IsBlocked
  <2> QED BY <2>2, <2>3
<1> QED BY <1>1, <1>2, <1>3, <1>4, <1>5, <1>6, KeptNext

-----------------------------------------------------------------------------
(* The steps of the campaign keep the invariant.                           *)

\* A turn that leaves the experiments alone: no result is fresh that was not.
LEMMA TurnFollows ==
  ASSUME FollowUpInv, GroundInv', NEW d, NEW T, Turn(d, T), row' = row,
         \A r \in routed : r \in routed', lost => lost',
         (\A x \in Experiments : Fresh(x)' => Fresh(x)) =>
           \A s \in Experiments :
             ~lost' /\ Open(s) /\ Kept(s) /\ AskOf(s)' = AskOf(s) => Kept(s)'
  PROVE  FollowUpInv'
<1>1. CampaignInv /\ Grown
  BY SameGrow DEF FollowUpInv
<1>2. \A s \in Experiments : Completed(s)' => Completed(s)
  BY DEF Completed
<1>3. \A x \in Experiments : Fresh(x)' => Fresh(x)
  BY <1>1, <1>2, TurnFresh
<1> QED BY <1>1, <1>2, <1>3, WorkFollows

\* The steps that write a phase, a blocker, a flag or an event.
LEMMA WritesFollow ==
  ASSUME FollowUpInv, SetPhase \/ SetBlocker \/ SetMark \/ RecordRouted
  PROVE  FollowUpInv'
<1>1. GroundInv /\ CampaignInv
  BY DEF FollowUpInv, GroundInv
<1>2. GroundInv'
  BY <1>1, WritesGround, RouteGround
<1>3. CASE SetPhase
  <2>1. Turn("phase", <<>>)
    BY <1>3, WriteTurns
  <2>2. row' = row /\ routed' = routed /\ (lost => lost')
    BY <1>3 DEF SetPhase
  <2>3. ASSUME \A x \in Experiments : Fresh(x)' => Fresh(x), NEW s \in Experiments,
               Kept(s), AskOf(s)' = AskOf(s)
        PROVE  Kept(s)'
    BY <1>1, <1>3, <2>3, PhaseKept
  <2> QED BY <1>2, <2>1, <2>2, <2>3, TurnFollows
<1>4. CASE SetBlocker
  <2>1. Turn("blocker", <<>>)
    BY <1>4, WriteTurns
  <2>2. row' = row /\ routed' = routed /\ lost' = lost
    BY <1>4 DEF SetBlocker
  <2>3. ASSUME \A x \in Experiments : Fresh(x)' => Fresh(x), NEW s \in Experiments,
               Kept(s), AskOf(s)' = AskOf(s)
        PROVE  Kept(s)'
    BY <1>1, <1>4, <2>3, BlockerKept
  <2> QED BY <1>2, <2>1, <2>2, <2>3, TurnFollows
<1>5. CASE SetMark
  <2>1. Turn("mark", <<>>)
    BY <1>5, WriteTurns
  <2>2. row' = row /\ routed' = routed /\ lost' = lost
    BY <1>5 DEF SetMark
  <2>3. ASSUME \A x \in Experiments : Fresh(x)' => Fresh(x), NEW s \in Experiments,
               Kept(s), AskOf(s)' = AskOf(s)
        PROVE  Kept(s)'
    BY <1>1, <1>5, <2>3, PlainKept
  <2> QED BY <1>2, <2>1, <2>2, <2>3, TurnFollows
<1>6. CASE RecordRouted
  <2>1. Turn("event", <<>>)
    BY <1>6, WriteTurns
  <2>2. row' = row /\ (\A r \in routed : r \in routed') /\ lost' = lost
    BY <1>6 DEF RecordRouted
  <2>3. ASSUME \A x \in Experiments : Fresh(x)' => Fresh(x), NEW s \in Experiments,
               Kept(s), AskOf(s)' = AskOf(s)
        PROVE  Kept(s)'
    BY <1>1, <1>6, <2>3, RecordKept
  <2> QED BY <1>2, <2>1, <2>2, <2>3, TurnFollows
<1> QED BY <1>3, <1>4, <1>5, <1>6

\* The steps that route a result, search for results, and settle.
LEMMA RoutesFollow ==
  ASSUME FollowUpInv, RouteResult \/ RouteCompleted \/ Settle
  PROVE  FollowUpInv'
<1>1. GroundInv /\ CampaignInv
  BY DEF FollowUpInv, GroundInv
<1>2. GroundInv'
  BY <1>1, RouteGround
<1>3. CASE RouteResult
  <2> PICK T : T = Routing(Arg)
    OBVIOUS
  <2>1. Turn("route", T)
    BY <1>1, <1>3, RouteTurn
  <2>2. row' = row /\ routed' = routed /\ lost' = lost
    BY <1>3 DEF RouteResult
  <2>3. ASSUME \A x \in Experiments : Fresh(x)' => Fresh(x), NEW s \in Experiments,
               Open(s), Kept(s), AskOf(s)' = AskOf(s)
        PROVE  Kept(s)'
    BY <1>1, <1>3, <2>3, RouteKept
  <2> QED BY <1>2, <2>1, <2>2, <2>3, TurnFollows
<1>4. CASE RouteCompleted
  <2> PICK T : T = ReconcileCompleted
    OBVIOUS
  <2>1. Turn("completed", T)
    BY <1>4, SearchTurns
  <2>2. row' = row /\ routed' = routed /\ lost' = lost
    BY <1>4 DEF RouteCompleted
  <2>3. ASSUME \A x \in Experiments : Fresh(x)' => Fresh(x), NEW s \in Experiments,
               Kept(s), AskOf(s)' = AskOf(s)
        PROVE  Kept(s)'
    BY <1>1, <1>4, <2>3, SearchKept
  <2> QED BY <1>2, <2>1, <2>2, <2>3, TurnFollows
<1>5. CASE Settle
  <2> PICK T : T = Settled
    OBVIOUS
  <2>1. Turn("settle", T)
    BY <1>5, SearchTurns
  <2>2. row' = row /\ routed' = routed /\ lost' = lost
    BY <1>5 DEF Settle
  <2>3. ASSUME \A x \in Experiments : Fresh(x)' => Fresh(x), NEW s \in Experiments,
               Open(s), Kept(s), AskOf(s)' = AskOf(s)
        PROVE  Kept(s)'
    <3>1. Completed(s)
      BY <2>3 DEF Open
    <3> QED BY <1>1, <1>5, <2>3, <3>1, SettleKept
  <2> QED BY <1>2, <2>1, <2>2, <2>3, TurnFollows
<1> QED BY <1>3, <1>4, <1>5

\* The steps that call a stage, and the one that ends a start.
LEMMA CallsFollow ==
  ASSUME FollowUpInv, ResolveNow \/ ResolveAtStart \/ Conclude
  PROVE  FollowUpInv'
<1>1. GroundInv
  BY DEF FollowUpInv, GroundInv
<1>2. GroundInv'
  BY <1>1, CallsGround
<1>3. CASE ResolveNow \/ ResolveAtStart
  <2>1. PICK d, T : Turn(d, T) /\ row' = row /\ routed' = routed /\ lost' = lost
    BY <1>1, <1>3, ResolveTurn
  <2>2. ASSUME \A x \in Experiments : Fresh(x)' => Fresh(x), NEW s \in Experiments,
               Open(s), Kept(s), AskOf(s)' = AskOf(s)
        PROVE  Kept(s)'
    BY <1>1, <1>3, <2>2, ResolveKept
  <2> QED BY <1>2, <2>1, <2>2, TurnFollows
<1>4. CASE Conclude
  <2>1. PICK d, T : Turn(d, T)
    BY <1>1, <1>4, ConcludeTurn
  <2>2. row' = row /\ routed' = routed /\ (lost => lost')
    BY <1>4 DEF Conclude
  <2>3. ASSUME \A x \in Experiments : Fresh(x)' => Fresh(x), NEW s \in Experiments,
               ~lost', Open(s), Kept(s), AskOf(s)' = AskOf(s)
        PROVE  Kept(s)'
    BY <1>1, <1>4, <2>3, ConcludeKept
  <2> QED BY <1>2, <2>1, <2>2, <2>3, TurnFollows
<1> QED BY <1>3, <1>4

\* An experiment is put on the queue.
LEMMA EnqueueFollows ==
  ASSUME FollowUpInv, Enqueue
  PROVE  FollowUpInv'
<1>1. GroundInv /\ CampaignInv
  BY DEF FollowUpInv, GroundInv
<1>2. GroundInv' /\ Grown
  BY <1>1, EnqueueGround
<1>3. Turn("queue", <<>>)
  BY WriteTurns
<1>4. routed' = routed /\ lost' = lost
  BY DEF Enqueue
<1>5. ASSUME NEW s \in Experiments, Completed(s)' PROVE Completed(s)
  <2>1. row' = [row EXCEPT ![Arg] = IF @ = "absent" THEN "QUEUED" ELSE @]
    BY DEF Enqueue
  <2>2. row'[s] = row[s] \/ row'[s] = "QUEUED"
    BY <1>1, <2>1 DEF CampaignInv
  <2>3. "QUEUED" \notin DOMAIN Route[s]
    BY FindingsAreNoStatus DEF Plainly
  <2> QED BY <1>5, <2>2, <2>3 DEF Completed
<1>6. \A x \in Experiments : Fresh(x)' => Fresh(x)
  BY <1>1, <1>3, <1>4, <1>5, TurnFresh
<1>7. ASSUME NEW s \in Experiments, Kept(s), Open(s)', AskOf(s)' = AskOf(s) PROVE Kept(s)'
  BY <1>1, <1>6, <1>7, EnqueueKept
<1> QED BY <1>2, <1>4, <1>5, <1>6, <1>7, WorkFollows

\* A member of a batch fails.
LEMMA FailFollows ==
  ASSUME FollowUpInv, FailMember
  PROVE  FollowUpInv'
<1>1. GroundInv /\ CampaignInv
  BY DEF FollowUpInv, GroundInv
<1>2. /\ GroundInv' /\ Grown /\ Arg \in Experiments
      /\ \A x \in Experiments : x # Arg => row'[x] = row[x]
  BY <1>1, MemberGround
<1>3. Turn("fail", <<>>)
  BY WriteTurns
<1>4. routed' = routed /\ lost' = lost /\ row'[Arg] = "FAILED"
  <2>1. row' = [row EXCEPT ![Arg] = "FAILED"]
    BY DEF FailMember
  <2> QED BY <1>1, <1>2, <2>1 DEF FailMember, CampaignInv
<1>5. ASSUME NEW s \in Experiments, Completed(s)' PROVE Completed(s)
  <2>1. "FAILED" \notin DOMAIN Route[s]
    BY FindingsAreNoStatus DEF Plainly
  <2> QED BY <1>2, <1>4, <1>5, <2>1 DEF Completed
<1>6. \A x \in Experiments : Fresh(x)' => Fresh(x)
  BY <1>1, <1>3, <1>4, <1>5, TurnFresh
<1>7. ASSUME NEW s \in Experiments, Kept(s), AskOf(s)' = AskOf(s) PROVE Kept(s)'
  BY <1>1, <1>6, <1>7, PlainKept
<1> QED BY <1>2, <1>4, <1>5, <1>6, <1>7, WorkFollows

\* A step that leaves the experiments alone and begins a list without members.
LEMMA AnewFollows ==
  ASSUME FollowUpInv, GroundInv', row' = row, routed' = routed, lost => lost',
         \A p \in 1..Len(todo') : todo'[p][1] # "finish",
         (\A x \in Experiments : Fresh(x)' => Fresh(x)) =>
           \A s \in Experiments :
             ~lost' /\ Open(s) /\ Kept(s) /\ AskOf(s)' = AskOf(s) => Kept(s)'
  PROVE  FollowUpInv'
<1>1. Grown
  BY SameGrow
<1>2. \A s \in Experiments : Completed(s)' => Completed(s)
  BY DEF Completed
<1>3. \A x \in Experiments : Fresh(x)' => Fresh(x)
  BY <1>2, FreshBefore
<1> QED BY <1>1, <1>2, <1>3, WorkFollows

\* The start of the controller, the stages it calls, and its stops.
LEMMA StartsFollow ==
  ASSUME FollowUpInv, Start \/ Collect \/ StopCleanly \/ Crash
  PROVE  FollowUpInv'
<1>1. GroundInv
  BY DEF FollowUpInv, GroundInv
<1>2. CASE Start
  <2>1. GroundInv' /\ row' = row
    BY <1>1, <1>2, StartGround
  <2>2. routed' = routed /\ lost' = lost
    BY <1>2 DEF Start
  <2>3. ASSUME NEW p \in 1..Len(todo') PROVE todo'[p][1] # "finish"
    <3> PICK a : a = todo'[p]
      OBVIOUS
    <3>1. a = <<"completed", "none">> \/ a = <<"collect", "none">> \/ a[1] = "mark"
      BY <1>1, <1>2, StartGround
    <3>2. a[1] # "finish"
      BY <3>1
    <3> QED BY <3>2
  <2>4. ASSUME \A x \in Experiments : Fresh(x)' => Fresh(x), NEW s \in Experiments,
               Open(s), Kept(s), AskOf(s)' = AskOf(s)
        PROVE  Kept(s)'
    <3>1. Completed(s)
      BY <2>4 DEF Open
    <3> QED BY <1>1, <1>2, <2>4, <3>1, StartKept
  <2> QED BY <2>1, <2>2, <2>3, <2>4, AnewFollows
<1>3. CASE Collect
  <2>1. GroundInv' /\ row' = row
    BY <1>1, <1>3, CollectGround
  <2>2. routed' = routed /\ lost' = lost
    BY <1>3 DEF Collect
  <2>3. ASSUME NEW p \in 1..Len(todo') PROVE todo'[p][1] # "finish"
    <3> PICK a : a = todo'[p]
      OBVIOUS
    <3>1. a = <<"conclude", "none">> \/ a[1] = "start"
      BY <1>1, <1>3, CollectGround
    <3>2. a[1] # "finish"
      BY <3>1
    <3> QED BY <3>2
  <2>4. ASSUME \A x \in Experiments : Fresh(x)' => Fresh(x), NEW s \in Experiments,
               Open(s), Kept(s), AskOf(s)' = AskOf(s)
        PROVE  Kept(s)'
    BY <1>1, <1>3, <2>4, CollectKept
  <2> QED BY <2>1, <2>2, <2>3, <2>4, AnewFollows
<1>4. CASE StopCleanly \/ Crash
  <2>1. GroundInv' /\ row' = row /\ todo' = <<>>
    BY <1>1, <1>4, StopGround
  <2>2. routed' = routed /\ (lost => lost')
    <3>1. StopCleanly => routed' = routed /\ lost' = lost
      BY DEF StopCleanly
    <3>2. Crash => routed' = routed /\ (lost => lost')
      BY DEF Crash
    <3> QED BY <1>4, <3>1, <3>2
  <2>3. \A p \in 1..Len(todo') : todo'[p][1] # "finish"
    BY <2>1, EmptyList
  <2>4. ASSUME \A x \in Experiments : Fresh(x)' => Fresh(x), NEW s \in Experiments,
               ~lost', Open(s), Kept(s), AskOf(s)' = AskOf(s)
        PROVE  Kept(s)'
    <3>1. Completed(s)
      BY <2>4 DEF Open
    <3> QED BY <1>1, <1>4, <2>4, <3>1, StopKept
  <2> QED BY <2>1, <2>2, <2>3, <2>4, AnewFollows
<1> QED BY <1>2, <1>3, <1>4

\* A step of a batch does no harm, and records nothing.
LEMMA BatchIsHarmless ==
  ASSUME NEW a, BatchStep(a), NEW s, NEW ask
  PROVE  Harmless(s, ask, a) /\ a[1] # "event"
<1>1. CASE a[1] \in {"finish", "fail"}
  BY <1>1 DEF Harmless
<1>2. CASE a = <<"completed", "none">> \/ a = <<"settle", "none">>
  <2>1. a[1] \in {"completed", "settle"}
    BY <1>2
  <2> QED BY <2>1 DEF Harmless
<1>3. CASE a = <<"phase", "EXPERIMENT_BLOCKED">>
  <2>1. a[1] = "phase" /\ a[2] = "EXPERIMENT_BLOCKED"
    BY <1>3
  <2> QED BY <2>1 DEF Harmless, Blocked
<1>4. CASE a = <<"blocker", "PARALLEL_EXPERIMENT_FAILED">>
  <2>1. a[1] = "blocker" /\ a[2] = "PARALLEL_EXPERIMENT_FAILED"
    BY <1>4
  <2> QED BY <2>1, NoAsks DEF Harmless
<1> QED BY <1>1, <1>2, <1>3, <1>4 DEF BatchStep, Member

\* A member of a batch is finished: its result is the one that may ask.
LEMMA FinishFollows ==
  ASSUME FollowUpInv, FinishMember
  PROVE  FollowUpInv'
<1>1. GroundInv /\ CampaignInv /\ BatchInv /\ OneAsks
  BY DEF FollowUpInv, GroundInv
<1> PICK z : z = Arg
  OBVIOUS
<1>2. /\ GroundInv' /\ Grown /\ z \in Experiments /\ row[z] = "QUEUED"
      /\ \A x \in Experiments : x # z => row'[x] = row[x]
      /\ 1 \in 1..Len(todo) /\ Member(todo[1]) /\ z = todo[1][2] /\ Head(todo) = todo[1]
  BY <1>1, MemberGround
<1>3. Turn("finish", <<>>)
  BY WriteTurns
<1>4. /\ routed' = routed /\ lost' = lost /\ blocker' = blocker /\ saved' = saved
      /\ queued' = queued /\ todo[1][1] = "finish"
  BY <1>2 DEF FinishMember, kv, locals, Step
<1>5. row'[z] \in DOMAIN Route[z]
  <2>1. PICK f \in DOMAIN Route[z] : row' = [row EXCEPT ![z] = f]
    BY DEF FinishMember
  <2> QED BY <1>1, <1>2, <2>1 DEF CampaignInv
<1>6. Fresh(z)
  BY <1>2, <1>4 DEF Fresh, Due
<1>7. \A x \in Experiments : Fresh(x)' => Fresh(x)
  <2>1. \A x \in Experiments : Completed(x)' => Completed(x) \/ Fresh(x)
    BY <1>2, <1>6 DEF Completed
  <2> QED BY <1>1, <1>3, <1>4, <2>1, TurnFresh
<1>8. OneAsks'
  BY <1>1, <1>7, OneAsksKept
<1>9. ASSUME ~lost', NEW s \in Experiments, Open(s)', s # z PROVE Kept(s)'
  <2>1. Completed(s)
    BY <1>2, <1>9 DEF Open, Completed
  <2>2. Open(s) /\ AskOf(s)' = AskOf(s)
    BY <1>2, <1>9, <2>1, OpenBefore
  <2>3. Kept(s)
    BY <1>4, <1>9, <2>2 DEF FollowUpInv
  <2> QED BY <1>1, <1>7, <2>2, <2>3, PlainKept
<1>10. ASSUME Open(z)' PROVE Kept(z)'
  <2> PICK ask : ask = AskOf(z)'
    OBVIOUS
  <2>1. MayAsk(z)
    <3> PICK f \in DOMAIN Route[z] : f = row'[z]
      BY <1>5
    <3>1. ask = Route[z][f].ask
      BY DEF AskOf
    <3>2. IsAsk(ask)
      BY <1>10 DEF Open, IsAsk, Starters, StartedBy
    <3> QED BY <3>1, <3>2 DEF MayAsk
  <2>2. \A r \in Experiments \ {z} : Fresh(r)' => Quiet(r)
    BY <1>1, <1>2, <1>6, <1>7, <2>1 DEF OneAsks
  <2>3. ~IsAsk(blocker) /\ saved = NoSave /\ ~queued
    BY <1>1, <1>2 DEF BatchInv
  <2>4. ~IsAsk(blocker') /\ ~IsAsk(saved'[2]) /\ ~queued'
    <3>1. saved'[2] = "none"
      BY <1>4, <2>3 DEF NoSave
    <3> QED BY <1>4, <2>3, <3>1, NoneIsNoAsk
  <2>5. z \notin routed'
    <3>1. ~Completed(z)
      BY <1>2, FindingsAreNoStatus DEF Completed, Plainly
    <3> QED BY <1>1, <1>4, <3>1 DEF GroundInv, RowsInv
  <2>6. \A q \in 1..Len(todo) : BatchStep(todo[q])
    BY <1>1, <1>2 DEF BatchInv
  <2>7. ASSUME NEW p \in 1..Len(todo')
        PROVE  Harmless(z, ask, todo'[p]) /\ todo'[p][1] # "event"
    <3> PICK a : a = todo'[p]
      OBVIOUS
    <3>1. \E q \in 1..Len(todo) : a = todo[q]
      BY <1>1, <1>3, EmptyList, TurnPlaces
    <3>2. BatchStep(a)
      BY <2>6, <3>1
    <3>3. Harmless(z, ask, a) /\ a[1] # "event"
      BY <3>2, BatchIsHarmless
    <3> QED BY <3>3
  <2>8. ~Due("event", z)'
    BY <2>7 DEF Due
  <2> QED BY <1>2, <2>2, <2>4, <2>5, <2>7, <2>8, KeptNext
<1> QED BY <1>2, <1>8, <1>9, <1>10 DEF FollowUpInv, GroundInv

\* Why a follow-up of a routed result is not forgotten: the parts of the
\* inductive invariant hold in every state of the campaign.
THEOREM FollowUpInvariance == CampaignSpec => []FollowUpInv
<1>1. CampaignInit => FollowUpInv
  <2> SUFFICES ASSUME CampaignInit PROVE FollowUpInv
    OBVIOUS
  <2>1. GroundInv /\ OneAsks /\ \A s \in Experiments : ~Completed(s)
    BY GroundInit
  <2> QED BY <2>1 DEF FollowUpInv, GroundInv, Open
<1>2. FollowUpInv /\ [CampaignNext]_vars => FollowUpInv'
  <2> SUFFICES ASSUME FollowUpInv, [CampaignNext]_vars PROVE FollowUpInv'
    OBVIOUS
  <2>1. CASE Start \/ StopCleanly \/ Crash
    BY <2>1, StartsFollow
  <2>2. CASE Work
    BY <2>2, WritesFollow, RoutesFollow, CallsFollow, EnqueueFollows, FailFollows,
       StartsFollow, FinishFollows DEF Work
  <2>3. CASE Loop
    BY <2>3, LoopFollows
  <2>4. CASE UNCHANGED vars
    <3>1. /\ up' = up /\ phase' = phase /\ blocker' = blocker /\ marks' = marks /\ row' = row
          /\ routed' = routed /\ todo' = todo /\ saved' = saved /\ queued' = queued
          /\ lost' = lost
      BY <2>4 DEF vars, kv, locals
    <3>2. GroundInv'
      <4>1. CampaignInv'
        BY <3>1 DEF FollowUpInv, CampaignInv, ResultsCome, Comes, MembersFirst, Unrouted,
           Completed
      <4>2. RowsInv'
        BY <3>1, SameGrow, RowsKept DEF FollowUpInv, RowsInv
      <4>3. Closes'
        BY <3>1 DEF FollowUpInv, Closes
      <4>4. BlockInv'
        BY <3>1 DEF FollowUpInv, BlockInv, IsBlocked
      <4>5. BatchInv'
        BY <3>1 DEF FollowUpInv, BatchInv
      <4> QED BY <4>1, <4>2, <4>3, <4>4, <4>5 DEF GroundInv
    <3>3. \A x \in Experiments : Fresh(x)' => Fresh(x)
      BY <3>1 DEF Fresh, Unrouted, Completed, Due
    <3>4. \A s \in Experiments : Completed(s)' => Completed(s)
      BY <3>1 DEF Completed
    <3>5. ASSUME NEW s \in Experiments, Kept(s) PROVE Kept(s)'
      BY <3>1, <3>5 DEF Kept, Fresh, Unrouted, Completed, Due, AskOf, Held, Saved, IsBlocked,
         Written, Rescue
    <3> QED BY <3>1, <3>2, <3>3, <3>4, <3>5, SameGrow, WorkFollows
  <2> QED BY <2>1, <2>2, <2>3, <2>4 DEF CampaignNext
<1> QED BY <1>1, <1>2, PTL DEF CampaignSpec

\* Whenever the controller looks for work, the follow-up of every routed result
\* that some stage would start on exists, or the mission is blocked.
THEOREM FollowUpsAreKept == CampaignSpec => []FollowUpIsKept
<1>1. FollowUpInv => FollowUpIsKept
  <2> SUFFICES ASSUME FollowUpInv, Idle, ~lost, NEW s \in routed,
                      Starters(AskOf(s)) # {}, \A t \in Starters(AskOf(s)) : Untouched(t)
               PROVE  IsBlocked
    BY DEF FollowUpIsKept, AskOf
  <2>1. s \in Experiments /\ Completed(s)
    BY DEF FollowUpInv, RowsInv
  <2>2. Kept(s)
    BY <2>1 DEF FollowUpInv, Open, IsAsk
  <2>3. up /\ saved = NoSave /\ todo = <<>>
    BY DEF FollowUpInv, Closes, Idle
  <2>4. ~Saved
    BY <2>3 DEF Saved, NoSave
  <2> QED BY <2>2, <2>3, <2>4 DEF Kept, Held
<1> QED BY <1>1, FollowUpInvariance, PTL
=============================================================================
