------------------------------ MODULE MCScoring ------------------------------
(***************************************************************************)
(* The two scorers of a wallet, which share nothing: the aggregator of the *)
(* attestation service and the screening of the SDK.  A behaviour is one   *)
(* of either; the other stays as it began.                                 *)
(***************************************************************************)
EXTENDS RiskAggregator, Screening, SequencesExt

(* Bounded answers: TRM with up to two indicators, Chainalysis with at     *)
(* most one category score and the list flag.                              *)
CONSTANTS MaxIndicators, CategoriesSeen, SeveritiesSeen, ScoresSeen

MCTrmAnswers ==
    SeqOf([category : CategoriesSeen, severity : SeveritiesSeen], MaxIndicators)
        \cup {NoAnswer}

MCChainalysisAnswers ==
    [category_scores : SeqOf([category : CategoriesSeen, score : ScoresSeen], 1),
     is_sanctioned   : BOOLEAN] \cup {NoAnswer}

-----------------------------------------------------------------------------
(* Years of two months of two days; births around the 18th birthday, one   *)
(* either side of it, and a child of 13.                                   *)
User(wallet, birth, country, documents, accredited, cleared) ==
    [walletAddress |-> wallet, dateOfBirth |-> birth, countryOfResidence |-> country,
     documentsVerified |-> documents, isAccreditedInvestor |-> accredited,
     amlCleared |-> cleared, riskScore |-> None]

MCUsers ==
    {User("w1", birth, "US", TRUE, FALSE, TRUE) :
        birth \in {None, Unparsable, -52, -72, -71, -70, -69}}
    \cup {User("w2", -84, country, TRUE, TRUE, TRUE) : country \in {None, "VN", "SY"}}
    \cup {User("w2", -72, "US", FALSE, TRUE, FALSE)}

MCCustomRules ==
    {<<[Countries("only_us", {}) EXCEPT !.config.requiredCountries = {"US"}],
       [Rule("banned", "BLACKLIST", NoConfig) EXCEPT !.config.blacklist = {"w2"}]>>,
     <<[Rule("invited", "WHITELIST", NoConfig) EXCEPT !.config.whitelist = {"w2"}],
       Accredited("investor"), Rule("later", "LIVENESS", NoConfig),
       [Documents("off", {"PASSPORT"}) EXCEPT !.enabled = FALSE]>>}

MCThresholds == {[lowMax |-> 30, mediumMax |-> 60], [lowMax |-> 45, mediumMax |-> 50]}

MCPatterns == {None, {}, {"defi-interactions", "token-swaps", "staking"}}

-----------------------------------------------------------------------------
VARIABLE session    \* whose behaviour this is

answers == <<trm, chainalysis>>

ScoringInit ==
    \/ /\ session = "aggregation"
       /\ user = CHOOSE u \in Users : TRUE
       /\ today = 0
       /\ profile = CHOOSE p \in Profiles : TRUE
       /\ ScreeningInit
       /\ AggregationInit
    \/ /\ session = "screening"
       /\ ScreeningInit
       /\ trm = NoAnswer /\ chainalysis = NoAnswer

ScoringNext ==
    /\ UNCHANGED session
    /\ \/ session = "aggregation" /\ AggregationNext /\ UNCHANGED allVars
       \/ session = "screening" /\ ScreeningNext /\ UNCHANGED answers

ScoringSpec == ScoringInit /\ [][ScoringNext]_<<answers, allVars, session>>

=============================================================================
