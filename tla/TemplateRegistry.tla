-------------------------- MODULE TemplateRegistry --------------------------
(***************************************************************************)
(* The compliance templates of the TypeScript SDK (src/registry.ts): a     *)
(* registry of rule lists, and the evaluation of a user against one.       *)
(*                                                                         *)
(* A rule is its id, type, config and enabled flag; a config field that is *)
(* absent, zero or empty is the same to the code.  Dates are day numbers   *)
(* of a calendar with Months months of Days days.                          *)
(***************************************************************************)
EXTENDS Sequences, FiniteSets, Functions

CONSTANTS None,
          Unparsable,          \* a date of birth that Date cannot read
          TemplateId,          \* the ids that callers use
          CustomRules,         \* the rule lists of custom templates
          Months, Days,
          WestOfGreenwich,     \* the host's clock is behind UTC
          LastDay              \* bound: the last day of the model

ASSUME CalendarAssumption ==
    /\ Months \in Nat \ {0}
    /\ Days \in Nat \ {0}
    /\ WestOfGreenwich \in BOOLEAN
    /\ LastDay \in Nat

RuleConfig == [minimumAge           : Nat,
               restrictedCountries  : SUBSET STRING,
               requiredCountries    : SUBSET STRING,
               requiredDocuments    : SUBSET STRING,
               requireAccreditation : BOOLEAN,
               requireAMLScreening  : BOOLEAN,
               maxRiskScore         : Nat,
               whitelist            : SUBSET STRING,
               blacklist            : SUBSET STRING]

ComplianceRule ==
    [id : STRING, type : STRING, config : RuleConfig, enabled : BOOLEAN]

ASSUME RulesAssumption == \A rules \in CustomRules : rules \in Seq(ComplianceRule)

VARIABLES templates,    \* Map<string, ComplianceTemplate>
          today

vars == <<templates, today>>

NoConfig == [minimumAge           |-> 0,
             restrictedCountries  |-> {},
             requiredCountries    |-> {},
             requiredDocuments    |-> {},
             requireAccreditation |-> FALSE,
             requireAMLScreening  |-> FALSE,
             maxRiskScore         |-> 0,
             whitelist            |-> {},
             blacklist            |-> {}]

Rule(id, type, config) == [id |-> id, type |-> type, config |-> config, enabled |-> TRUE]

Age(id, n)        == Rule(id, "AGE_VERIFICATION", [NoConfig EXCEPT !.minimumAge = n])
Countries(id, cs) == Rule(id, "COUNTRY_RESTRICTION", [NoConfig EXCEPT !.restrictedCountries = cs])
Documents(id, ds) == Rule(id, "DOCUMENT_VERIFICATION", [NoConfig EXCEPT !.requiredDocuments = ds])
AML(id)           == Rule(id, "AML_SCREENING", [NoConfig EXCEPT !.requireAMLScreening = TRUE])
Risk(id, n)       == Rule(id, "RISK_THRESHOLD", [NoConfig EXCEPT !.maxRiskScore = n])
Accredited(id)    == Rule(id, "ACCREDITATION_CHECK", [NoConfig EXCEPT !.requireAccreditation = TRUE])

US_ACCREDITED ==
    [rules |-> <<Age("age_21", 21), Accredited("accreditation"), AML("aml_screening")>>,
     defaultLevel |-> "ACCREDITED_INVESTOR"]

GLOBAL_BASIC ==
    [rules |-> <<Age("age_18", 18),
                 Countries("country_check", {"KP", "IR", "SY"}),
                 Documents("document_verification", {"PASSPORT", "DRIVERS_LICENSE"})>>,
     defaultLevel |-> "BASIC"]

DEFI_STANDARD ==
    [rules |-> <<Age("age_18_defi", 18),
                 Countries("country_defi", {"KP", "IR", "SY", "CU", "VN"}),
                 Risk("risk_threshold_defi", 50),
                 AML("aml_defi")>>,
     defaultLevel |-> "ENHANCED"]

NFT_MARKETPLACE ==
    [rules |-> <<Age("age_13", 13), Documents("document_nft", {"PASSPORT"})>>,
     defaultLevel |-> "BASIC"]

(* A mutant of EXCHANGE_STANDARD: a country is missing from its list.      *)
WithoutSyria ==
    [rules |-> <<Age("age_18_exchange", 18),
                 Countries("country_exchange", {"KP", "IR", "CU"}),
                 Documents("document_exchange", {"PASSPORT", "DRIVERS_LICENSE", "ADDRESS_PROOF"}),
                 AML("aml_exchange"),
                 Risk("risk_exchange", 40)>>,
     defaultLevel |-> "ENHANCED"]

EXCHANGE_STANDARD ==
    [rules |-> <<Age("age_18_exchange", 18),
                 Countries("country_exchange", {"KP", "IR", "SY", "CU"}),
                 Documents("document_exchange", {"PASSPORT", "DRIVERS_LICENSE", "ADDRESS_PROOF"}),
                 AML("aml_exchange"),
                 Risk("risk_exchange", 40)>>,
     defaultLevel |-> "ENHANCED"]

-----------------------------------------------------------------------------
(* getFullYear, getMonth and getDate of a day.                             *)
Year(d)  == d \div (Months * Days)
Month(d) == (d \div Days) % Months
Date(d)  == d % Days

(* A date of birth without a time is read as midnight UTC, which is still  *)
(* the day before where the clock is behind.                               *)
ParseDate(dateOfBirth) == IF WestOfGreenwich THEN dateOfBirth - 1 ELSE dateOfBirth

(* A mutant of calculateAge: the month and the day are forgotten.          *)
ByYear(dateOfBirth, now) == Year(now) - Year(ParseDate(dateOfBirth))

calculateAge(dateOfBirth, now) ==
    LET birth     == ParseDate(dateOfBirth)
        monthDiff == Month(now) - Month(birth)
        notYet    == monthDiff < 0 \/ (monthDiff = 0 /\ Date(now) < Date(birth))
    IN  Year(now) - Year(birth) - (IF notYet THEN 1 ELSE 0)

Passed          == [passed |-> TRUE,  penalty |-> 0]
Failed(penalty) == [passed |-> FALSE, penalty |-> penalty]

(* A date that cannot be parsed gives an age that is not below anything.   *)
evaluateAgeRule(config, userData, now) ==
    IF /\ config.minimumAge # 0
       /\ userData.dateOfBirth \notin {None, Unparsable}
       /\ calculateAge(userData.dateOfBirth, now) < config.minimumAge
    THEN Failed(100)
    ELSE Passed

(* A mutant of evaluateCountryRule: a missing country costs nothing.       *)
MissingIsFree(config, userData) ==
    CASE userData.countryOfResidence = None -> Failed(0)
      [] userData.countryOfResidence \in config.restrictedCountries -> Failed(100)
      [] OTHER -> Passed

evaluateCountryRule(config, userData) ==
    CASE userData.countryOfResidence = None -> Failed(50)
      [] userData.countryOfResidence \in config.restrictedCountries -> Failed(100)
      [] OTHER -> IF /\ config.requiredCountries # {}
                     /\ userData.countryOfResidence \notin config.requiredCountries
                  THEN Failed(100)
                  ELSE Passed

evaluateDocumentRule(config, userData) ==
    IF config.requiredDocuments # {} /\ ~userData.documentsVerified
    THEN Failed(80) ELSE Passed

evaluateAccreditationRule(config, userData) ==
    IF config.requireAccreditation /\ ~userData.isAccreditedInvestor
    THEN Failed(100) ELSE Passed

evaluateAMLClearance(config, userData) ==
    IF config.requireAMLScreening /\ ~userData.amlCleared
    THEN Failed(100) ELSE Passed

(* A user without a score counts as a user without risk.                   *)
riskScoreOf(userData) == IF userData.riskScore = None THEN 0 ELSE userData.riskScore

evaluateRiskThreshold(config, userData) ==
    IF config.maxRiskScore # 0 /\ riskScoreOf(userData) > config.maxRiskScore
    THEN Failed(IF riskScoreOf(userData) < 100 THEN riskScoreOf(userData) ELSE 100)
    ELSE Passed

evaluateWhitelist(config, userData) ==
    IF config.whitelist # {} /\ userData.walletAddress \notin config.whitelist
    THEN Failed(100) ELSE Passed

evaluateBlacklist(config, userData) ==
    IF userData.walletAddress \in config.blacklist THEN Failed(100) ELSE Passed

(* A type that the switch does not know passes.                            *)
evaluateRule(rule, userData, now) ==
    CASE rule.type = "AGE_VERIFICATION"      -> evaluateAgeRule(rule.config, userData, now)
      [] rule.type = "COUNTRY_RESTRICTION"   -> evaluateCountryRule(rule.config, userData)
      [] rule.type = "DOCUMENT_VERIFICATION" -> evaluateDocumentRule(rule.config, userData)
      [] rule.type = "ACCREDITATION_CHECK"   -> evaluateAccreditationRule(rule.config, userData)
      [] rule.type = "AML_SCREENING"         -> evaluateAMLClearance(rule.config, userData)
      [] rule.type = "RISK_THRESHOLD"        -> evaluateRiskThreshold(rule.config, userData)
      [] rule.type = "WHITELIST"             -> evaluateWhitelist(rule.config, userData)
      [] rule.type = "BLACKLIST"             -> evaluateBlacklist(rule.config, userData)
      [] OTHER -> Passed

Outcome(rules, i, userData, now) == evaluateRule(rules[i], userData, now)

FailedAt(rules, userData, now) ==
    {i \in DOMAIN rules : rules[i].enabled /\ ~Outcome(rules, i, userData, now).passed}

evaluate(template, userData, now) ==
    LET rules  == template.rules
        failed == FailedAt(rules, userData, now)
        score  == 100 - SumFunction([i \in failed |->
                                         Outcome(rules, i, userData, now).penalty])
    IN  [passed      |-> failed = {},
         failedRules |-> {rules[i].id : i \in failed},
         passedRules |-> {rules[i].id : i \in {j \in DOMAIN rules : rules[j].enabled} \ failed},
         score       |-> IF score > 0 THEN score ELSE 0]

evaluateTemplate(templateId, userData) ==
    IF templates[templateId] = None
    THEN [passed |-> FALSE, failedRules |-> {"template_not_found"},
          passedRules |-> {}, score |-> 0]
    ELSE evaluate(templates[templateId], userData, today)

-----------------------------------------------------------------------------
DefaultTemplate ==
    [US_ACCREDITED     |-> US_ACCREDITED,
     GLOBAL_BASIC      |-> GLOBAL_BASIC,
     DEFI_STANDARD     |-> DEFI_STANDARD,
     NFT_MARKETPLACE   |-> NFT_MARKETPLACE,
     EXCHANGE_STANDARD |-> EXCHANGE_STANDARD]

(* The constructor registers the five default templates.                   *)
Init ==
    /\ templates = [id \in TemplateId |->
                      IF id \in DOMAIN DefaultTemplate THEN DefaultTemplate[id] ELSE None]
    /\ today \in 0..LastDay

(* set replaces a template that has the same id, a default one included.   *)
registerTemplate(id, template) ==
    /\ templates' = [templates EXCEPT ![id] = template]
    /\ UNCHANGED today

createCustomTemplate(id, rules) ==
    registerTemplate(id, [rules |-> rules, defaultLevel |-> "BASIC"])

removeTemplate(id) ==
    /\ templates' = [templates EXCEPT ![id] = None]
    /\ UNCHANGED today

NextDay ==
    /\ today < LastDay
    /\ today' = today + 1
    /\ UNCHANGED templates

Next ==
    \/ \E id \in TemplateId, rules \in CustomRules : createCustomTemplate(id, rules)
    \/ \E id \in TemplateId : removeTemplate(id)
    \/ NextDay

Spec == Init /\ [][Next]_vars

=============================================================================
