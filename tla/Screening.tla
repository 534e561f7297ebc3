------------------------------ MODULE Screening ------------------------------
(***************************************************************************)
(* Screening of a user by the TypeScript SDK: sdk.ts keeps one risk engine *)
(* and one template registry, copies the engine's score into the user's    *)
(* data and evaluates a template on it.                                    *)
(*                                                                         *)
(* The environment moves the calendar on, lets the wallet's history grow,  *)
(* sets the engine's thresholds and edits the registry.                    *)
(***************************************************************************)
EXTENDS TemplateRegistry

CONSTANTS Users,          \* what callers say of a user, but for the score
          Thresholds,     \* what callers pass to setThresholds
          Volume, Count, HighRisk, AverageSize, WalletAge, Patterns

Engine == INSTANCE RiskEngine

ASSUME UsersAssumption ==
    /\ \A u \in Users :
           /\ DOMAIN u = {"walletAddress", "dateOfBirth", "countryOfResidence",
                          "documentsVerified", "isAccreditedInvestor",
                          "amlCleared", "riskScore"}
           /\ u.dateOfBirth \in {None, Unparsable} \/ u.dateOfBirth \in Int
    /\ Volume \cup Count \cup HighRisk \cup AverageSize \cup WalletAge \subseteq Nat
    /\ \A p \in Patterns : p = None \/ p \subseteq Engine!Pattern

VARIABLES user, profile, riskThresholds,
          assessment      \* the answer of the last assessRisk

allVars == <<templates, today, user, profile, riskThresholds, assessment>>

(* What a caller may hand to assessRisk: each indicator is the caller's,   *)
(* the average size included.  The profile that analyzeWalletHistory makes *)
(* up when the caller hands none, whose average is volume / count, is one  *)
(* of these.                                                               *)
Profiles ==
    [walletAge : WalletAge, transactionCount : Count, totalVolume : Volume,
     averageTransactionSize : AverageSize, highRiskInteractions : HighRisk,
     behavioralPatterns : Patterns]

ScreeningInit ==
    /\ Init
    /\ user \in Users
    /\ riskThresholds = Engine!DefaultThresholds
    /\ profile \in Profiles
    /\ assessment = Engine!assessRisk(riskThresholds, profile)

(* templateData of verifyIdentity: the caller's data and the score.        *)
templateData == [user EXCEPT !.riskScore = assessment.riskScore]

Registry == Next /\ UNCHANGED <<user, profile, riskThresholds, assessment>>

(* An assessment made before keeps its level.                              *)
setThresholds(t) ==
    /\ riskThresholds' = t
    /\ UNCHANGED <<templates, today, user, profile, assessment>>

(* q is at least as risky as p in every indicator.                         *)
NoBetter(p, q) ==
    /\ q.walletAge <= p.walletAge
    /\ q.transactionCount >= p.transactionCount
    /\ q.totalVolume >= p.totalVolume
    /\ q.averageTransactionSize >= p.averageTransactionSize
    /\ q.highRiskInteractions >= p.highRiskInteractions
    /\ (p.behavioralPatterns = None) = (q.behavioralPatterns = None)
    /\ p.behavioralPatterns # None => p.behavioralPatterns \subseteq q.behavioralPatterns

(* The next profile is worse, in one indicator or in several at once: more *)
(* volume in as many transactions, say, also raises their average size.    *)
Worsened(p) == \E q \in Profiles \ {p} : NoBetter(p, q) /\ profile' = q

(* The wallet is assessed again with a worse profile.                      *)
assessRisk ==
    /\ Worsened(profile)
    /\ assessment' = Engine!assessRisk(riskThresholds, profile')
    /\ UNCHANGED <<templates, today, user, riskThresholds>>

ScreeningNext ==
    \/ Registry
    \/ \E t \in Thresholds : setThresholds(t)
    \/ assessRisk

ScreeningSpec == ScreeningInit /\ [][ScreeningNext]_allVars

-----------------------------------------------------------------------------
Verdict(template) == evaluate(template, templateData, today)

(* The age that decides is the number of whole years since the date of     *)
(* birth as the host reads it (registry.ts calculateAge): the month and    *)
(* day correction is neither applied twice nor missed in any month.        *)
AgeIsCompletedYears ==
    user.dateOfBirth \notin {None, Unparsable} =>
        calculateAge(user.dateOfBirth, today) =
            (today - ParseDate(user.dateOfBirth)) \div (Months * Days)

(* A user passes a template, default or custom, exactly when the score is  *)
(* 100: evaluate lets the two outcomes drift apart if any rule fails for   *)
(* free (registry.ts evaluate, 103-120).                                   *)
PassedIsFullScore ==
    \A id \in TemplateId :
        templates[id] # None =>
            (evaluateTemplate(id, templateData).passed
                <=> evaluateTemplate(id, templateData).score = 100)

(* Whom the exchange template admits, the DeFi template's rules but for    *)
(* the country, the basic and the NFT templates admit as well: the lists   *)
(* of the default templates are maintained apart (registry.ts 453-675).    *)
ExchangeIsStrictest ==
    Verdict(EXCHANGE_STANDARD).passed =>
        /\ Verdict(GLOBAL_BASIC).passed
        /\ Verdict(NFT_MARKETPLACE).passed
        /\ Verdict(DEFI_STANDARD).failedRules \subseteq {"country_defi"}

(* A profile that is worse in any of its indicators and better in none     *)
(* never lowers the score (engine.ts 189-383): the brackets of all six are *)
(* in order and the normalisation does not undo them.                      *)
WorseNeverLowers == [][assessment'.riskScore >= assessment.riskScore]_allVars

=============================================================================
