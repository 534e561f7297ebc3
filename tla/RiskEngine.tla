----------------------------- MODULE RiskEngine -----------------------------
(***************************************************************************)
(* The risk engine of the TypeScript SDK (src/engine.ts): six indicators   *)
(* of a wallet are put into brackets, weighted and added up to a score,    *)
(* which the thresholds turn into a level and recommendations.             *)
(*                                                                         *)
(* Weights are hundredths.  Math.round of the quotient is rounding half up *)
(* of the exact quotient: for every combination of the brackets below the  *)
(* double arithmetic of the code gives the same integer.                   *)
(***************************************************************************)
EXTENDS Sequences, FiniteSets, Functions

CONSTANT None

RiskLevels == {"LOW", "MEDIUM", "HIGH", "CRITICAL"}

(* behavioralPatterns is optional in a profile that the caller provides.   *)
Pattern == {"regular-transactions", "defi-interactions", "nft-trading",
            "token-swaps", "staking"}

Profile == [walletAge              : Nat,
            transactionCount       : Nat,
            totalVolume            : Nat,
            averageTransactionSize : Nat,
            highRiskInteractions   : Nat,
            behavioralPatterns     : SUBSET Pattern \cup {None}]

DefaultThresholds == [lowMax |-> 30, mediumMax |-> 60]

(* A mutant of evaluateWalletAge: a comparison the wrong way round.        *)
OldIsRisky(age) ==
    [id |-> "wallet_age", weight |-> 15, riskContribution |-> IF age > 30 THEN 80 ELSE 50]

evaluateWalletAge(age) ==
    [id |-> "wallet_age", weight |-> 15,
     riskContribution |-> CASE age < 30  -> 80
                            [] age \in 30..89   -> 50
                            [] age \in 90..179  -> 30
                            [] age \in 180..364 -> 15
                            [] age >= 365 -> 5]

evaluateTransactionVolume(volume) ==
    [id |-> "transaction_volume", weight |-> 20,
     riskContribution |-> CASE volume > 100000 -> 90
                            [] volume > 50000 /\ volume <= 100000 -> 70
                            [] volume > 10000 /\ volume <= 50000 -> 50
                            [] volume > 1000 /\ volume <= 10000 -> 30
                            [] volume <= 1000 -> 10]

evaluateTransactionCount(count) ==
    [id |-> "transaction_count", weight |-> 15,
     riskContribution |-> CASE count > 10000 -> 80
                            [] count > 5000 /\ count <= 10000 -> 60
                            [] count > 1000 /\ count <= 5000 -> 40
                            [] count > 100 /\ count <= 1000 -> 20
                            [] count <= 100 -> 10]

evaluateHighRiskInteractions(count) ==
    [id |-> "high_risk_interactions", weight |-> 25,
     riskContribution |-> CASE count > 50 -> 100
                            [] count > 20 /\ count <= 50 -> 80
                            [] count > 10 /\ count <= 20 -> 60
                            [] count > 5 /\ count <= 10 -> 40
                            [] count > 0 /\ count <= 5 -> 20
                            [] count = 0 -> 0]

evaluateAverageTransactionSize(avgSize) ==
    [id |-> "average_transaction_size", weight |-> 15,
     riskContribution |-> CASE avgSize > 10000 -> 90
                            [] avgSize > 5000 /\ avgSize <= 10000 -> 70
                            [] avgSize > 1000 /\ avgSize <= 5000 -> 50
                            [] avgSize > 100 /\ avgSize <= 1000 -> 30
                            [] avgSize <= 100 -> 10]

highRiskPatterns   == {"defi-interactions", "token-swaps"}
mediumRiskPatterns == {"nft-trading", "staking"}
lowRiskPatterns    == {"regular-transactions"}

evaluateBehavioralPatterns(patterns) ==
    LET sum == 40 * Cardinality(patterns \cap highRiskPatterns)
             + 20 * Cardinality(patterns \cap mediumRiskPatterns)
             +  5 * Cardinality(patterns \cap lowRiskPatterns)
    IN  [id |-> "behavioral_patterns", weight |-> 10,
         riskContribution |-> IF sum < 100 THEN sum ELSE 100]

calculateRiskFactors(profile) ==
    <<evaluateWalletAge(profile.walletAge),
      evaluateTransactionVolume(profile.totalVolume),
      evaluateTransactionCount(profile.transactionCount),
      evaluateHighRiskInteractions(profile.highRiskInteractions),
      evaluateAverageTransactionSize(profile.averageTransactionSize)>>
    \o IF profile.behavioralPatterns = None
       THEN <<>>
       ELSE <<evaluateBehavioralPatterns(profile.behavioralPatterns)>>

calculateRiskScore(factors) ==
    LET sum    == SumFunction([i \in DOMAIN factors |->
                                  factors[i].riskContribution * factors[i].weight])
        weight == SumFunction([i \in DOMAIN factors |-> factors[i].weight])
    IN  IF weight = 0 THEN 0 ELSE (2 * sum + weight) \div (2 * weight)

determineRiskLevel(thresholds, score) ==
    CASE score <= thresholds.lowMax -> "LOW"
      [] score > thresholds.lowMax /\ score <= thresholds.mediumMax -> "MEDIUM"
      [] score > thresholds.lowMax /\ score > thresholds.mediumMax /\ score <= 85 -> "HIGH"
      [] score > thresholds.lowMax /\ score > thresholds.mediumMax /\ score > 85 -> "CRITICAL"

(* The factors that the recommendations of a level above LOW name.         *)
generateRecommendations(factors, riskLevel) ==
    (IF riskLevel = "LOW"
     THEN {"standard"}
     ELSE {factors[i].id : i \in {j \in DOMAIN factors :
                                     factors[j].riskContribution >= 60}})
    \cup (IF riskLevel = "CRITICAL" THEN {"manual_review", "reject"} ELSE {})
    \cup (IF riskLevel = "HIGH" THEN {"enhanced_due_diligence"} ELSE {})

assessRisk(thresholds, profile) ==
    LET factors   == calculateRiskFactors(profile)
        riskScore == calculateRiskScore(factors)
        riskLevel == determineRiskLevel(thresholds, riskScore)
    IN  [riskScore       |-> riskScore,
         riskLevel       |-> riskLevel,
         recommendations |-> generateRecommendations(factors, riskLevel)]

=============================================================================
