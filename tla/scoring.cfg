SPECIFICATION ScoringSpec
CONSTANTS
    Critical = 90
    High = 75
    Medium = 50
    Low = 25
    NoAnswer = NoAnswer
    TrmAnswers <- MCTrmAnswers
    ChainalysisAnswers <- MCChainalysisAnswers
    MaxIndicators = 2
    CategoriesSeen = {"Sanctions", "IllicitActivity", "BehavioralAnomaly", "TechnicalRisk"}
    SeveritiesSeen = {"critical", "medium", "info"}
    ScoresSeen = {0, 49, 50, 86, 87, 100}
    None = None
    Unparsable = Unparsable
    TemplateId = {"EXCHANGE_STANDARD", "custom"}
    CustomRules <- MCCustomRules
    Months = 2
    Days = 2
    WestOfGreenwich = TRUE
    LastDay = 2
    Users <- MCUsers
    Thresholds <- MCThresholds
    Volume = {1000, 100001}
    Count = {100, 10001}
    HighRisk = {0, 20, 51}
    AverageSize = {100, 10001}
    WalletAge = {29, 365}
    Patterns <- MCPatterns
INVARIANTS
    UnanimousIsRevoked
    RevocationIsCorroborated
    EnforceBeforeSleeping
    NoFlagAfterRevoke
    AgeIsCompletedYears
    PassedIsFullScore
    ExchangeIsStrictest
PROPERTIES
    WorseNeverLowers
CHECK_DEADLOCK FALSE
