----------------------------- MODULE RiskPolicy -----------------------------
(***************************************************************************)
(* The policy half of the risk engine as pure operators:                   *)
(*   risk_engine/config.rs         risk_level_for_score                    *)
(*   risk_engine/policy/manager.rs the default policies, matches_policy,   *)
(*                                 evaluate_policy, action_priority        *)
(*                                                                         *)
(* Scores are whole points.  An Option of the source is a set of at most   *)
(* one element.  The sorted Vec of recommended actions is a set of actions *)
(* that remember their place (`at`) in the unsorted Vec, together with the *)
(* strict order Before by which sort_by arranges them; the executor takes  *)
(* the Before-least action first.                                          *)
(***************************************************************************)
EXTENDS Integers, FiniteSets

CONSTANTS
    Critical, High, Medium, Low   \* RiskThresholds, read from the environment

ASSUME ThresholdsAssumption == {Critical, High, Medium, Low} \subseteq Nat

RiskLevel == {"Safe", "Low", "Medium", "High", "Critical"}

RiskCategory ==
    {"Sanctions", "IllicitActivity", "HighRiskService", "BehavioralAnomaly",
     "CounterpartyRisk", "ReputationRisk", "TechnicalRisk"}

DataSource == {"TrmLabs", "Chainalysis"}   \* the sources the aggregator can add

ActionType ==
    {"NoAction", "FlagAttestation", "SuspendAttestation", "RevokeAttestation",
     "RequestAdditionalKyc", "EscalateToCompliance", "NotifyUser",
     "NotifyComplianceTeam"}

(* What of a WalletRiskProfile the policies look at.                       *)
Profile == [score : 0..100, categories : SUBSET RiskCategory,
            sources : SUBSET DataSource]

risk_level_for_score(score) ==
    IF score >= Critical THEN "Critical"
    ELSE IF score >= High THEN "High"
    ELSE IF score >= Medium THEN "Medium"
    ELSE IF score >= Low THEN "Low"
    ELSE "Safe"

level(profile) == risk_level_for_score(profile.score)

-----------------------------------------------------------------------------
Minutes == {0, 5, 30, 60, 120, 240}   \* the delays the policies use

PolicyAction ==
    [type : ActionType, delay : Minutes, approval : BOOLEAN, at : 0..9]

Act(type, delay, approval, at) ==
    [type |-> type, delay |-> delay, approval |-> approval, at |-> at]

(* PolicyManager::new.                                                     *)
critical_risk ==
    [level |-> {"Critical"}, min |-> {Critical}, max |-> {},
     categories |-> {"Sanctions", "IllicitActivity"}, age |-> {}, volume |-> {},
     sources |-> {"TrmLabs", "Chainalysis"},
     actions |-> {Act("RevokeAttestation", 0, FALSE, 0),
                  Act("NotifyComplianceTeam", 5, FALSE, 1)}]

high_risk ==
    [level |-> {"High"}, min |-> {High}, max |-> {Critical},
     categories |-> {}, age |-> {}, volume |-> {}, sources |-> {},
     actions |-> {Act("SuspendAttestation", 0, TRUE, 2),
                  Act("RequestAdditionalKyc", 60, FALSE, 3)}]

medium_risk ==
    [level |-> {"Medium"}, min |-> {Medium}, max |-> {High},
     categories |-> {}, age |-> {}, volume |-> {}, sources |-> {},
     actions |-> {Act("FlagAttestation", 0, FALSE, 4),
                  Act("NotifyUser", 120, FALSE, 5)}]

sanctions_exposure ==
    [level |-> {}, min |-> {80}, max |-> {},
     categories |-> {"Sanctions"}, age |-> {}, volume |-> {},
     sources |-> {"TrmLabs", "Chainalysis"},
     actions |-> {Act("EscalateToCompliance", 0, FALSE, 6),
                  Act("SuspendAttestation", 30, TRUE, 7)}]

behavioral_anomaly ==
    [level |-> {}, min |-> {60}, max |-> {},
     categories |-> {"BehavioralAnomaly"}, age |-> {30}, volume |-> {10000},
     sources |-> {},
     actions |-> {Act("FlagAttestation", 0, FALSE, 8),
                  Act("RequestAdditionalKyc", 240, FALSE, 9)}]

default_policies ==
    {critical_risk, high_risk, medium_risk, sanctions_exposure, behavioral_anomaly}

-----------------------------------------------------------------------------
(* A fact about the wallet that a policy requires must be known, and large *)
(* enough.  A mutant: a fact that is not known passes.                     *)
UnknownPasses(required, known) == \A r \in required : \A v \in known : v >= r

meets(required, known) == \A r \in required : \E v \in known : v >= r

(* A mutant: the data sources a policy requires are not looked at.         *)
AnySource(policy, profile) == TRUE

has_sources(policy, profile) == policy.sources \subseteq profile.sources

(* age and volume are the Option arguments of evaluate_policy.             *)
matches_policy(policy, profile, age, volume) ==
    /\ policy.level \subseteq {level(profile)}
    /\ \A m \in policy.min : profile.score >= m
    /\ \A m \in policy.max : profile.score < m
    /\ policy.categories # {} =>
           policy.categories \cap profile.categories # {}
    /\ meets(policy.age, age)
    /\ meets(policy.volume, volume)
    /\ has_sources(policy, profile)

evaluate_policy(policies, profile, age, volume) ==
    UNION {p.actions : p \in {q \in policies :
                                 matches_policy(q, profile, age, volume)}}

action_priority(type) ==
    CASE type = "RevokeAttestation" -> 4
      [] type \in {"SuspendAttestation", "EscalateToCompliance"} -> 3
      [] type \in {"FlagAttestation", "RequestAdditionalKyc"} -> 2
      [] type \in {"NotifyComplianceTeam", "NotifyUser"} -> 1
      [] type = "NoAction" -> 0

(* A mutant of Before: the operands of the comparison are swapped.         *)
LowestFirst(a, b) ==
    LET pa == action_priority(a.type)
        pb == action_priority(b.type)
    IN  pa < pb \/ (pa = pb /\ a.delay < b.delay)

(* The comparator of sort_by: priority descending, then delay ascending;   *)
(* the sort is stable, so the unsorted place decides the rest.             *)
Before(a, b) ==
    LET pa == action_priority(a.type)
        pb == action_priority(b.type)
    IN  \/ pa > pb
        \/ pa = pb /\ a.delay < b.delay
        \/ pa = pb /\ a.delay = b.delay /\ a.at < b.at

(* A mutant of executable_actions: the approval is not waited for.         *)
WithoutApproval(profile) == evaluate_policy(default_policies, profile, {}, {})

(* service.rs calls evaluate_policy with None for age and volume and skips *)
(* every action that requires approval.                                    *)
executable_actions(profile) ==
    {a \in evaluate_policy(default_policies, profile, {}, {}) : ~a.approval}

=============================================================================
