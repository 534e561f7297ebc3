--------------------------- MODULE RiskAggregator ---------------------------
(***************************************************************************)
(* RiskDataAggregator::aggregate_wallet_risk (scr/risk_engine/providers/   *)
(* aggregator.rs) as pure operators: from what the two providers answered  *)
(* to the profile the policies evaluate, and the plan they make of it.     *)
(*                                                                         *)
(* An answer is a sequence of indicators, or NoAnswer.  Weights are scaled   *)
(* to integers (weight * 10, confidence * 100), the averages are exact     *)
(* fractions, and the score is floored to whole points at the end, which   *)
(* changes no comparison with a whole threshold.  Rounding of f64 is not   *)
(* modelled.                                                               *)
(***************************************************************************)
EXTENDS RiskPolicy, Sequences, Functions

CONSTANTS NoAnswer,          \* an error or a timeout of a provider
          TrmAnswers,        \* what TRM answers about the wallet
          ChainalysisAnswers

Severity == {"critical", "high", "medium", "low", "info"}

ASSUME AnswersAssumption ==
    /\ \A a \in TrmAnswers :
           a = NoAnswer \/ a \in Seq([category : RiskCategory, severity : Severity])
    /\ \A a \in ChainalysisAnswers :
           \/ a = NoAnswer
           \/ a \in [category_scores : Seq([category : STRING, score : 0..100]),
                     is_sanctioned   : BOOLEAN]

Indicator == [category : RiskCategory, score : 0..100, confidence : 0..100]

weight(category) ==
    CASE category = "Sanctions" -> 20
      [] category = "IllicitActivity" -> 18
      [] category = "HighRiskService" -> 15
      [] category = "BehavioralAnomaly" -> 13
      [] category = "CounterpartyRisk" -> 12
      [] category = "ReputationRisk" -> 11
      [] category = "TechnicalRisk" -> 10

(* From<TrmRiskResponse>: TRM reports severities.                          *)
severity_score(severity) ==
    CASE severity = "critical" -> 90
      [] severity = "high" -> 70
      [] severity = "medium" -> 50
      [] severity = "low" -> 30
      [] OTHER -> 10

trm_indicators(response) ==
    [i \in DOMAIN response |->
        [category |-> response[i].category,
         score |-> severity_score(response[i].severity), confidence |-> 85]]

(* Chainalysis reports scores, and whether the address is on a list.  The  *)
(* categories it shares with the enum are the first three; any other name  *)
(* becomes TechnicalRisk.                                                  *)
chainalysis_category(name) ==
    IF name \in {"Sanctions", "IllicitActivity", "HighRiskService"}
    THEN name ELSE "TechnicalRisk"

convert_chainalysis_indicators(screening) ==
    [i \in DOMAIN screening.category_scores |->
        [category |-> chainalysis_category(screening.category_scores[i].category),
         score |-> screening.category_scores[i].score, confidence |-> 90]]
    \o IF screening.is_sanctioned
       THEN <<[category |-> "Sanctions", score |-> 100, confidence |-> 100]>>
       ELSE <<>>

indicators(trm, chainalysis) ==
    (IF trm = NoAnswer THEN <<>> ELSE trm_indicators(trm))
    \o (IF chainalysis = NoAnswer THEN <<>>
        ELSE convert_chainalysis_indicators(chainalysis))

-----------------------------------------------------------------------------
(* A mutant of apply_nonlinear_scaling: the average is not scaled.         *)
Unscaled(sum, total) == sum \div total

(* apply_nonlinear_scaling of the fraction sum/total, in whole points.     *)
apply_nonlinear_scaling(sum, total) ==
    LET scaled == CASE sum > 80 * total -> (3 * sum - 80 * total) \div (2 * total)
                    [] sum > 60 * total /\ sum <= 80 * total ->
                           (13 * sum - 180 * total) \div (10 * total)
                    [] sum <= 60 * total -> sum \div total
    IN  IF scaled > 100 THEN 100 ELSE scaled

calculate_overall_score(ind) ==
    LET w     == [i \in DOMAIN ind |-> weight(ind[i].category) * ind[i].confidence]
        total == SumFunction(w)
        sum   == SumFunction([i \in DOMAIN ind |-> ind[i].score * w[i]])
    IN  IF total = 0 THEN 0 ELSE apply_nonlinear_scaling(sum, total)

aggregate_wallet_risk(trm, chainalysis) ==
    LET ind == indicators(trm, chainalysis)
    IN  [score      |-> calculate_overall_score(ind),
         categories |-> {ind[i].category : i \in DOMAIN ind},
         sources    |-> (IF trm = NoAnswer THEN {} ELSE {"TrmLabs"})
                        \cup (IF chainalysis = NoAnswer THEN {} ELSE {"Chainalysis"})]

-----------------------------------------------------------------------------
VARIABLES trm, chainalysis   \* the answers that are aggregated

(* Any two answers are aggregated; a step is another aggregation of the    *)
(* same wallet, for which one of the providers answers something else.     *)
AggregationInit == trm \in TrmAnswers /\ chainalysis \in ChainalysisAnswers

AggregationNext ==
    \/ trm' \in TrmAnswers /\ UNCHANGED chainalysis
    \/ chainalysis' \in ChainalysisAnswers /\ UNCHANGED trm

AggregationSpec == AggregationInit /\ [][AggregationNext]_<<trm, chainalysis>>

evidence   == indicators(trm, chainalysis)
aggregated == aggregate_wallet_risk(trm, chainalysis)
plan       == {a.type : a \in executable_actions(aggregated)}

-----------------------------------------------------------------------------
(* Unanimous evidence decides, whatever the weights: if every indicator of *)
(* two answering providers is at 87 or more (which the scaling lifts to    *)
(* the critical threshold) and one is about sanctions or illicit activity, *)
(* the attestation is revoked.                                             *)
UnanimousIsRevoked ==
    /\ NoAnswer \notin {trm, chainalysis}
    /\ aggregated.categories \cap {"Sanctions", "IllicitActivity"} # {}
    /\ \A i \in DOMAIN evidence : evidence[i].score >= 87
    => "RevokeAttestation" \in plan

(* One answer alone never revokes, even at a full score.                   *)
RevocationIsCorroborated ==
    "RevokeAttestation" \in plan => NoAnswer \notin {trm, chainalysis}

(* Each action the service executes by itself goes out before it sleeps    *)
(* for another: no notification delays an entry on the chain.              *)
EnforceBeforeSleeping ==
    \A a, b \in executable_actions(aggregated) :
        /\ a.type \in {"FlagAttestation", "RevokeAttestation"}
        /\ b.delay > 0
        => Before(a, b)

(* A revocation is never followed by a weaker status in the same plan.     *)
NoFlagAfterRevoke ==
    ~({"FlagAttestation", "RevokeAttestation"} \subseteq plan)

=============================================================================
