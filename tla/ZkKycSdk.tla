------------------------------- MODULE ZkKycSdk -------------------------------
(***************************************************************************)
(* The main class of the TypeScript SDK (src/sdk.ts): one identity         *)
(* provider, one identity manager and one compliance reporter behind       *)
(* verifyIdentity, whose concurrent calls interleave at their awaits.      *)
(*                                                                         *)
(* The merkle tree of the proof generator is private and nobody adds a     *)
(* leaf to it, so generateProof rejects and registerCompliance is never    *)
(* reached.  What getVerificationStatus reports is a hash of the address.  *)
(***************************************************************************)
EXTENDS Integers, Sequences, FiniteSets

CONSTANTS User,         \* wallets
          Call,         \* calls of verifyIdentity
          Level, None,
          Oracle,       \* the DID of config.oraclePublicKey
          Foreign, MalformedDid, CallerDid, Year,
          Configs,      \* what a deployer may configure
          LastDay       \* bound: the last day of the model

VARIABLES config, initialized, anchorClient, kycProvider, complianceReporter,
          calls,
          sessionCache, timers,
          didRegistry, credentialRegistry, handedOut, now,
          auditLog

sdkVars == <<config, initialized, anchorClient, kycProvider, complianceReporter>>
providerVars == <<sessionCache, timers>>
identityVars == <<didRegistry, credentialRegistry, handedOut, now>>
vars == <<sdkVars, calls, providerVars, identityVars, auditLog>>

(* Ids are random.  A call opens one session and issues one credential at  *)
(* most, and the call stands for the id of both.                           *)
SessionId == Call
CredentialId == Call

(* The DID of a wallet is did:solana:wallet: the wallet stands for both.   *)
Did == User \cup {Oracle}

Kyc == INSTANCE KycProvider WITH kind <- config.identityProvider
Idm == INSTANCE IdentityManager
Rep == INSTANCE ComplianceReporter

ASSUME SdkAssumption ==
    /\ Year \in Nat
    /\ LastDay \in Nat
    /\ None \notin Level \cup User \cup Call
    /\ "mock" \notin Call          \* session ids of a provider are unlike mocks
    /\ \A u \in User, status \in Kyc!Status :
          None # [userId |-> u, status |-> status]
    /\ Foreign \in [DOMAIN Foreign -> User]
    /\ CallerDid \subseteq User \cup {Oracle}
    /\ \A c \in Configs :
          /\ c.identityProvider \in {"persona", "sumsub", "google", None}
          /\ c.enableAutoReporting \in BOOLEAN
          /\ c.enableMLRiskAssessment \in BOOLEAN

NewCall == [pc |-> "idle", wallet |-> None, tier |-> None,
            sessionId |-> None]

Init ==
    /\ config \in Configs
    /\ initialized = FALSE
    /\ anchorClient = FALSE
    /\ kycProvider = FALSE
    /\ complianceReporter = FALSE
    /\ calls = [c \in Call |-> NewCall]
    /\ sessionCache = Kyc!EmptyCache
    /\ timers = {}
    /\ Idm!IdentityInit
    /\ auditLog = <<>>

-----------------------------------------------------------------------------
(* createKYCProvider is given no clientSecret.                             *)
InitializeThrows == config.identityProvider # None /\ ~Kyc!Creatable(FALSE)

(* A new provider has an empty cache, a new reporter an empty log.  The    *)
(* timers of a provider that was replaced go on, but nobody sees them.     *)
CreateModules ==
    /\ anchorClient' = TRUE
    /\ IF InitializeThrows
       THEN UNCHANGED <<config, initialized, kycProvider, complianceReporter,
                        providerVars, auditLog>>
       ELSE /\ initialized' = TRUE
            /\ kycProvider' = (config.identityProvider # None)
            /\ complianceReporter' = config.enableAutoReporting
            /\ sessionCache' = Kyc!EmptyCache
            /\ timers' = {}
            /\ auditLog' = <<>>
            /\ UNCHANGED config

(* A mutant of initialize: every call creates the modules.                 *)
InitializeAlways == CreateModules

(* No await in it: a second call finds the first one's work done.          *)
initialize ==
    \/ ~initialized /\ CreateModules
    \/ initialized /\ UNCHANGED <<sdkVars, providerVars, auditLog>>

Goto(c, pc) == calls' = [calls EXCEPT ![c].pc = pc]

(* The DID is made and the credential issued, then generateProof is        *)
(* awaited; its rejection is not yet seen.                                 *)
IssueCredential(c, job) ==
    /\ didRegistry' = Idm!Documented(job.wallet)
    /\ Idm!issueCredential(c, Oracle, job.wallet, job.tier)
    /\ calls' = [calls EXCEPT ![c] = [job EXCEPT !.pc = "proof"]]

(* assessRisk is awaited when it is enabled.                               *)
AssessOrIssue(c, job) ==
    \/ /\ config.enableMLRiskAssessment
       /\ calls' = [calls EXCEPT ![c] = [job EXCEPT !.pc = "risk"]]
       /\ UNCHANGED identityVars
    \/ /\ ~config.enableMLRiskAssessment
       /\ IssueCredential(c, job)

(* Without a provider the session is a mock, named after the clock, and    *)
(* nothing is awaited.                                                     *)
OpenSession(c, job) ==
    \/ /\ kycProvider
       /\ Kyc!initiateVerification(c, job.wallet)
       /\ calls' = [calls EXCEPT ![c] = [job EXCEPT !.pc = "session", !.sessionId = c]]
       /\ UNCHANGED identityVars
    \/ /\ ~kycProvider
       /\ AssessOrIssue(c, [job EXCEPT !.sessionId = "mock"])
       /\ UNCHANGED providerVars

verifyIdentity(c, wallet, tier) ==
    /\ calls[c].pc = "idle"
    /\ LET job == [calls[c] EXCEPT !.wallet = wallet, !.tier = tier]
       IN  IF initialized
           THEN /\ UNCHANGED <<sdkVars, auditLog>>
                /\ OpenSession(c, job)
           ELSE /\ initialize
                /\ calls' = [calls EXCEPT ![c] =
                       [job EXCEPT !.pc = IF InitializeThrows THEN "failed" ELSE "initialized"]]
                /\ UNCHANGED identityVars

AfterInitialize(c) ==
    /\ calls[c].pc = "initialized"
    /\ UNCHANGED <<sdkVars, auditLog>>
    /\ OpenSession(c, calls[c])

AfterSession(c) ==
    /\ calls[c].pc = "session"
    /\ AssessOrIssue(c, calls[c])
    /\ UNCHANGED <<sdkVars, providerVars, auditLog>>

AfterRisk(c) ==
    /\ calls[c].pc = "risk"
    /\ IssueCredential(c, calls[c])
    /\ UNCHANGED <<sdkVars, providerVars, auditLog>>

(* The event has the risk score in its data and no risk level.             *)
Event(job) ==
    [eventType |-> "VERIFICATION_COMPLETE", walletAddress |-> job.wallet,
     status |-> "VERIFIED", verificationId |-> job.sessionId,
     riskLevel |-> None, timestamp |-> now]

(* A mutant of AfterProof: the rejection of generateProof is not caught.   *)
Uncaught(c) ==
    /\ calls[c].pc = "proof"
    /\ Goto(c, "failed")
    /\ UNCHANGED <<sdkVars, providerVars, identityVars, auditLog>>

(* The rejection is caught and reported on the console only.               *)
AfterProof(c) ==
    /\ calls[c].pc = "proof"
    /\ Goto(c, "done")
    /\ IF complianceReporter
       THEN Rep!logAuditEvent(Event(calls[c]))
       ELSE UNCHANGED auditLog
    /\ UNCHANGED <<sdkVars, providerVars, identityVars>>

callInitialize ==
    /\ initialize
    /\ UNCHANGED <<calls, identityVars>>

-----------------------------------------------------------------------------
(* The callback of a session's setTimeout.                                 *)
TimerStep(s) ==
    /\ UNCHANGED <<sdkVars, calls, identityVars, auditLog>>
    /\ Kyc!TimerFires(s)

WebhookStep(completed) ==
    /\ kycProvider
    /\ UNCHANGED <<sdkVars, calls, identityVars, auditLog>>
    /\ Kyc!handleWebhook(completed)

(* What callers do with the manager that getIdentityManager hands out.     *)
ManagerStep ==
    /\ UNCHANGED <<sdkVars, calls, providerVars, auditLog>>
    /\ \/ \E d \in CallerDid : Idm!createDID(d)
       \/ \E h \in Idm!Presented : Idm!verifyCredential(h)
       \/ \E id \in CredentialId : Idm!revokeCredential(id)
       \/ \E docs \in SUBSET CallerDid : Idm!importDIDs(docs)
       \/ Idm!clear

NextDay ==
    /\ now < LastDay
    /\ now' = now + 1
    /\ UNCHANGED <<sdkVars, calls, providerVars, didRegistry, credentialRegistry,
                   handedOut, auditLog>>

Continue(c) == AfterInitialize(c) \/ AfterSession(c) \/ AfterRisk(c) \/ AfterProof(c)

Next ==
    \/ \E c \in Call, w \in User, t \in Level : verifyIdentity(c, w, t)
    \/ \E c \in Call : Continue(c)
    \/ callInitialize
    \/ \E s \in SessionId : TimerStep(s)
    \/ \E completed \in BOOLEAN : WebhookStep(completed)
    \/ ManagerStep
    \/ NextDay

Spec == Init /\ [][Next]_vars

(* The event loop runs every continuation and every timer that is due.     *)
FairSpec ==
    /\ Spec
    /\ \A c \in Call : WF_vars(Continue(c))
    /\ \A s \in SessionId : WF_vars(TimerStep(s))

-----------------------------------------------------------------------------
Done(c) == calls[c].pc = "done"

Answered(w) == {c \in Call : Done(c) /\ calls[c].wallet = w}

(* A report about a wallet over all times.  Without a reporter the SDK     *)
(* throws.                                                                 *)
generateReport(type, w) ==
    Rep!generateReport([type |-> type, walletAddress |-> w, period |-> None])

(* With reporting enabled the trail of a wallet and its reports have one   *)
(* verification for each answer that was given: none is lost to a second   *)
(* initialisation, to a call of another wallet or to a report's filters,   *)
(* and none is written for a call that has not answered (sdk.ts 86-123     *)
(* and 226-237, reporter.ts 78-146 and 277-303).                           *)
AuditTrail ==
    config.enableAutoReporting =>
        \A w \in User :
            LET answers == Cardinality(Answered(w))
                summary == generateReport("KYC_SUMMARY", w)
                audit   == generateReport("AUDIT", w)
            IN  /\ Cardinality(Rep!getAuditTrail(w)) = answers
                /\ complianceReporter =>
                      /\ summary.totalVerifications = answers
                      /\ summary.approvedCount = answers
                      /\ audit.totalEvents = answers
                      /\ audit.verificationEvents = answers

(* The session of every call under way is in the cache of the provider     *)
(* that checkStatus asks, and belongs to the call's wallet (sdk.ts 99-149).*)
SessionsKnown ==
    \A c \in Call :
        calls[c].sessionId = c =>
            sessionCache[c] # None /\ sessionCache[c].userId = calls[c].wallet

(* What the provider's service says of one user decides no other user's    *)
(* session (base.ts 148-167 and 258-273).                                  *)
WebhookIsLocal ==
    [][\A s, t \in SessionId :
          (/\ sessionCache[s] # None /\ sessionCache'[s] # sessionCache[s]
           /\ sessionCache[t] # None /\ sessionCache'[t] # sessionCache[t])
             => sessionCache[s].userId = sessionCache[t].userId]_vars

(* Every session that is opened is decided in the end, whether or not the  *)
(* provider's service calls back (base.ts 107 and 217).                    *)
SessionsGetDecided ==
    \A s \in SessionId : (sessionCache[s] # None) ~> Kyc!Decided(s)

(* Every call answers, although no proof can be made: only the provider    *)
(* that cannot be created makes a call fail (sdk.ts 208-223).              *)
CallsAnswer ==
    \A c \in Call :
        (calls[c].pc # "idle") ~>
            (IF InitializeThrows THEN calls[c].pc = "failed" ELSE Done(c))

=============================================================================
