---------------------------- MODULE ZkKycSdk_proofs ----------------------------
(***************************************************************************)
(* The sessions, the credentials and the audit log of the SDK, for every   *)
(* number of wallets and of concurrent calls, and every configuration.     *)
(***************************************************************************)
EXTENDS ZkKycSdk, FiniteSetTheorems, SequenceTheorems, TLAPS

CallType == [pc : {"idle", "failed", "initialized", "session", "risk", "proof", "done"},
             wallet : User \cup {None}, tier : Level \cup {None},
             sessionId : Call \cup {None, "mock"}]

Started == {"initialized", "session", "risk", "proof", "done"}

TypeOK ==
    /\ config \in Configs
    /\ initialized \in BOOLEAN
    /\ calls \in [Call -> CallType]
    /\ sessionCache \in [Call -> Kyc!Session \cup {None}]

(* The locals of a call are those of its place in the code.                *)
CallOK(c) ==
    /\ calls[c].pc = "idle" => calls[c].sessionId = None
    /\ calls[c].pc # "idle" => calls[c].wallet \in User
    /\ calls[c].sessionId \in {None, "mock", c}
    /\ calls[c].pc \in Started \/ calls[c].sessionId = c => initialized

CallsOK == \A c \in Call : CallOK(c)

(* The modules exist once and for all; before that, nothing is recorded.   *)
ModulesOK ==
    /\ ~initialized => sessionCache = Kyc!EmptyCache /\ timers = {} /\ auditLog = <<>>
    /\ initialized => complianceReporter = config.enableAutoReporting
    /\ kycProvider => initialized /\ config.identityProvider # None

(* A timer is of a session that is in the cache.                           *)
TimersOK == \A s \in timers : s \in Call /\ sessionCache[s] # None

(* The inductive invariant.                                                *)
IInv == TypeOK /\ CallsOK /\ ModulesOK /\ TimersOK /\ SessionsKnown

-----------------------------------------------------------------------------
LEMMA InitialState == Init => IInv
  <1> SUFFICES ASSUME Init PROVE IInv
      OBVIOUS
  <1>1. \A c \in Call : calls[c] = [pc |-> "idle", wallet |-> None, tier |-> None, sessionId |-> None]
    BY DEF Init, NewCall
  <1>2. TypeOK
    BY <1>1 DEF Init, NewCall, TypeOK, CallType, Kyc!EmptyCache, SessionId
  <1>3. CallsOK /\ SessionsKnown
    BY <1>1, SdkAssumption DEF CallsOK, CallOK, SessionsKnown, Started
  <1> QED
    BY <1>2, <1>3 DEF Init, IInv, ModulesOK, TimersOK, Idm!IdentityInit

(* A session that is opened is the user's.                                 *)
LEMMA OpenedSession ==
    ASSUME TypeOK, config.identityProvider # None, NEW u \in User
    PROVE  Kyc!Opened(u) \in Kyc!Session /\ Kyc!Opened(u).userId = u /\ Kyc!Opened(u) # None
  <1>1. config.identityProvider \in {"persona", "sumsub", "google"}
    BY SdkAssumption DEF TypeOK
  <1>2. PICK status \in Kyc!Status : Kyc!Opened(u) = [userId |-> u, status |-> status]
    BY <1>1 DEF Kyc!Opened, Kyc!PersonaSession, Kyc!SumSubSession, Kyc!GoogleSession, Kyc!Status
  <1> QED
    BY <1>2, SdkAssumption DEF Kyc!Session

(* A decision changes the status of sessions, and nothing else.            *)
LEMMA StatusIsSet ==
    ASSUME TypeOK, NEW which, \A s \in which : s \in Call /\ sessionCache[s] # None,
           NEW status \in {"approved", "declined"}, Kyc!SetStatus(which, status)
    PROVE  /\ sessionCache' \in [Call -> Kyc!Session \cup {None}]
           /\ \A s \in Call : /\ s \notin which => sessionCache'[s] = sessionCache[s]
                              /\ sessionCache[s] # None =>
                                    /\ sessionCache'[s] # None
                                    /\ sessionCache'[s].userId = sessionCache[s].userId
  <1> SUFFICES ASSUME NEW s \in Call
               PROVE  /\ sessionCache'[s] \in Kyc!Session \cup {None}
                      /\ s \notin which => sessionCache'[s] = sessionCache[s]
                      /\ sessionCache[s] # None =>
                            /\ sessionCache'[s] # None
                            /\ sessionCache'[s].userId = sessionCache[s].userId
    BY DEF Kyc!SetStatus, SessionId
  <1>1. CASE s \notin which
    BY <1>1 DEF Kyc!SetStatus, SessionId, TypeOK
  <1>2. CASE s \in which
    <2>1. sessionCache[s] \in Kyc!Session
      BY <1>2 DEF TypeOK
    <2>2. sessionCache'[s] = [userId |-> sessionCache[s].userId, status |-> status]
      BY <1>2, <2>1 DEF Kyc!SetStatus, SessionId, Kyc!Session
    <2>3. sessionCache[s].userId \in User /\ status \in Kyc!Status
      BY <2>1 DEF Kyc!Session, Kyc!Status
    <2> QED
      BY <1>2, <2>2, <2>3, SdkAssumption DEF Kyc!Session
  <1> QED
    BY <1>1, <1>2

(* What a decision preserves.                                              *)
LEMMA DecisionPreserves ==
    ASSUME IInv, NEW which, \A s \in which : s \in Call /\ sessionCache[s] # None,
           NEW status \in {"approved", "declined"}, Kyc!SetStatus(which, status),
           timers' \subseteq timers,
           UNCHANGED <<sdkVars, calls, identityVars, auditLog>>, initialized
    PROVE  IInv'
  <1>1. /\ sessionCache' \in [Call -> Kyc!Session \cup {None}]
        /\ \A s \in Call : sessionCache[s] # None =>
              sessionCache'[s] # None /\ sessionCache'[s].userId = sessionCache[s].userId
    BY StatusIsSet DEF IInv
  <1>2. UNCHANGED <<config, initialized, kycProvider, complianceReporter, calls>>
    BY DEF sdkVars
  <1>3. TypeOK' /\ CallsOK' /\ ModulesOK'
    BY <1>1, <1>2 DEF IInv, TypeOK, CallsOK, CallOK, ModulesOK
  <1>4. TimersOK' /\ SessionsKnown'
    BY <1>1, <1>2 DEF IInv, TimersOK, SessionsKnown
  <1> QED
    BY <1>3, <1>4 DEF IInv

(* One call goes on, with its own session or none.                         *)
LEMMA CallMoves ==
    ASSUME IInv, NEW c \in Call, NEW j \in CallType, calls' = [calls EXCEPT ![c] = j],
           j.pc # "idle", j.wallet \in User, j.sessionId \in {None, "mock", c},
           j.pc \in Started \/ j.sessionId = c => initialized',
           initialized => initialized', initialized' \in BOOLEAN, UNCHANGED config,
           sessionCache' \in [Call -> Kyc!Session \cup {None}],
           \A s \in Call : s # c /\ calls[s].sessionId = s => sessionCache'[s] = sessionCache[s],
           j.sessionId = c => sessionCache'[c] # None /\ sessionCache'[c].userId = j.wallet
    PROVE  TypeOK' /\ CallsOK' /\ SessionsKnown'
  <1>1. calls' \in [Call -> CallType] /\ calls'[c] = j
        /\ \A s \in Call : s # c => calls'[s] = calls[s]
    BY DEF IInv, TypeOK
  <1>2. TypeOK'
    BY <1>1 DEF IInv, TypeOK
  <1>3. CallsOK'
    <2> SUFFICES ASSUME NEW s \in Call PROVE CallOK(s)'
      BY DEF CallsOK
    <2>1. CASE s = c
      BY <1>1, <2>1 DEF CallOK
    <2>2. CASE s # c
      BY <1>1, <2>2 DEF CallOK, CallsOK, IInv
    <2> QED
      BY <2>1, <2>2
  <1>4. SessionsKnown'
    BY <1>1 DEF SessionsKnown, IInv
  <1> QED
    BY <1>2, <1>3, <1>4

(* A call that does not touch the sessions.                                *)
LEMMA CallContinues ==
    ASSUME IInv, NEW c \in Call, calls[c].pc # "idle", initialized,
           NEW pc \in {"risk", "proof", "done"},
           calls' = [calls EXCEPT ![c] = [calls[c] EXCEPT !.pc = pc]],
           UNCHANGED <<config, initialized, sessionCache>>
    PROVE  TypeOK' /\ CallsOK' /\ SessionsKnown'
  <1> DEFINE j == [calls[c] EXCEPT !.pc = pc]
  <1>1. calls[c] \in CallType /\ CallOK(c)
    BY DEF IInv, TypeOK, CallsOK
  <1>2. /\ j \in CallType /\ j.pc = pc /\ j.wallet = calls[c].wallet
        /\ j.sessionId = calls[c].sessionId
    BY <1>1 DEF CallType
  <1>3. calls' = [calls EXCEPT ![c] = j]
    OBVIOUS
  <1> HIDE DEF j
  <1>4. /\ j.pc # "idle" /\ j.wallet \in User /\ j.sessionId \in {None, "mock", c}
        /\ j.sessionId = c => sessionCache'[c] # None /\ sessionCache'[c].userId = j.wallet
    BY <1>1, <1>2 DEF CallOK, IInv, SessionsKnown
  <1>5. sessionCache' \in [Call -> Kyc!Session \cup {None}] /\ initialized' \in BOOLEAN
    BY DEF IInv, TypeOK
  <1> QED
    BY <1>2, <1>3, <1>4, <1>5, CallMoves

(* A call opens its session, with a provider or without.                   *)
Opens(c, j) ==
    \/ /\ j.sessionId = c /\ kycProvider
       /\ sessionCache[c] = None
       /\ sessionCache' = [sessionCache EXCEPT ![c] = Kyc!Opened(j.wallet)]
       /\ timers' \subseteq timers \cup {c}
    \/ /\ j.sessionId = "mock"
       /\ UNCHANGED <<sessionCache, timers>>

LEMMA SessionOpens ==
    ASSUME IInv, NEW c \in Call, NEW j \in CallType, calls' = [calls EXCEPT ![c] = j],
           j.pc # "idle", j.wallet \in User, Opens(c, j),
           initialized, UNCHANGED <<sdkVars, auditLog>>
    PROVE  TypeOK' /\ CallsOK' /\ SessionsKnown' /\ ModulesOK' /\ TimersOK'
  <1>1. UNCHANGED <<config, initialized, kycProvider, complianceReporter>>
    BY DEF sdkVars
  <1>2. sessionCache \in [Call -> Kyc!Session \cup {None}]
    BY DEF IInv, TypeOK
  <1>3. /\ sessionCache' \in [Call -> Kyc!Session \cup {None}]
        /\ \A s \in Call : s # c => sessionCache'[s] = sessionCache[s]
        /\ \A s \in Call : sessionCache[s] # None => sessionCache'[s] = sessionCache[s]
        /\ j.sessionId = c => sessionCache'[c] # None /\ sessionCache'[c].userId = j.wallet
        /\ \A s \in timers' : s \in timers \/ (s = c /\ j.sessionId = c)
        /\ j.sessionId \in {None, "mock", c}
    <2>1. CASE j.sessionId = "mock" /\ UNCHANGED <<sessionCache, timers>>
      <3>1. j.sessionId # c /\ j.sessionId \in {None, "mock", c}
        BY <2>1, SdkAssumption, Zenon
      <3>2. sessionCache' = sessionCache /\ timers' = timers
        BY <2>1
      <3>3. /\ sessionCache' \in [Call -> Kyc!Session \cup {None}]
            /\ \A s \in Call : sessionCache'[s] = sessionCache[s]
        BY <1>2, <3>2
      <3>4. \A s \in timers' : s \in timers
        BY <3>2
      <3> QED
        BY <3>1, <3>3, <3>4, Zenon
    <2>2. CASE /\ j.sessionId = c /\ kycProvider /\ sessionCache[c] = None
               /\ sessionCache' = [sessionCache EXCEPT ![c] = Kyc!Opened(j.wallet)]
               /\ timers' \subseteq timers \cup {c}
      <3>1. /\ Kyc!Opened(j.wallet) \in Kyc!Session
            /\ Kyc!Opened(j.wallet).userId = j.wallet /\ Kyc!Opened(j.wallet) # None
        BY <2>2, OpenedSession DEF IInv, ModulesOK
      <3>2. /\ sessionCache' \in [Call -> Kyc!Session \cup {None}]
            /\ sessionCache'[c] = Kyc!Opened(j.wallet)
            /\ \A s \in Call : s # c => sessionCache'[s] = sessionCache[s]
        BY <1>2, <2>2, <3>1
      <3>3. \A s \in Call : sessionCache[s] # None => sessionCache'[s] = sessionCache[s]
        BY <2>2, <3>2
      <3> QED
        BY <2>2, <3>1, <3>2, <3>3
    <2> QED
      BY <2>1, <2>2 DEF Opens
  <1>4. TypeOK' /\ CallsOK' /\ SessionsKnown'
    <2>1. initialized' \in BOOLEAN
      BY <1>1 DEF IInv, TypeOK
    <2> QED
      BY <1>1, <1>3, <2>1, CallMoves
  <1>5. ModulesOK' /\ TimersOK'
    BY <1>1, <1>3 DEF IInv, ModulesOK, TimersOK
  <1> QED
    BY <1>4, <1>5

(* OpenSession, as the next locals of its call.                            *)
LEMMA OpenSessionOpens ==
    ASSUME IInv, NEW c \in Call, NEW job \in CallType, OpenSession(c, job)
    PROVE  \E j \in CallType : /\ calls' = [calls EXCEPT ![c] = j]
                               /\ j.pc \notin {"idle", "done"} /\ j.wallet = job.wallet
                               /\ Opens(c, j)
  <1>2. CASE kycProvider
    <2> DEFINE j == [job EXCEPT !.pc = "session", !.sessionId = c]
    <2>1. j \in CallType /\ j.pc = "session" /\ j.wallet = job.wallet /\ j.sessionId = c
      BY DEF CallType
    <2>2. calls' = [calls EXCEPT ![c] = j] /\ Kyc!initiateVerification(c, job.wallet)
      BY <1>2 DEF OpenSession
    <2> HIDE DEF j
    <2>3. /\ sessionCache[c] = None
          /\ sessionCache' = [sessionCache EXCEPT ![c] = Kyc!Opened(job.wallet)]
          /\ timers' \subseteq timers \cup {c}
      BY <2>2 DEF Kyc!initiateVerification
    <2>4. Opens(c, j)
      BY <1>2, <2>1, <2>3 DEF Opens
    <2> QED
      BY <2>1, <2>2, <2>4
  <1>3. CASE ~kycProvider
    <2> DEFINE mock == [job EXCEPT !.sessionId = "mock"]
    <2>1. mock \in CallType /\ mock.wallet = job.wallet /\ mock.sessionId = "mock"
      BY DEF CallType
    <2>2. AssessOrIssue(c, mock) /\ UNCHANGED <<sessionCache, timers>>
      BY <1>3 DEF OpenSession, providerVars
    <2> HIDE DEF mock
    <2>3. PICK pc \in {"risk", "proof"} : calls' = [calls EXCEPT ![c] = [mock EXCEPT !.pc = pc]]
      BY <2>2 DEF AssessOrIssue, IssueCredential
    <2> DEFINE j == [mock EXCEPT !.pc = pc]
    <2>4. j \in CallType /\ j.pc = pc /\ j.wallet = job.wallet /\ j.sessionId = "mock"
      BY <2>1 DEF CallType
    <2>5. calls' = [calls EXCEPT ![c] = j]
      BY <2>3
    <2> HIDE DEF j
    <2>6. Opens(c, j)
      BY <2>2, <2>4 DEF Opens
    <2> QED
      BY <2>4, <2>5, <2>6
  <1> QED
    BY <1>2, <1>3

-----------------------------------------------------------------------------
(* The modules are created, or are there already.                          *)
LEMMA InitializePreserves ==
    ASSUME IInv, initialize
    PROVE  /\ ModulesOK' /\ TimersOK' /\ UNCHANGED config
           /\ initialized' \in BOOLEAN /\ (initialized => initialized')
           /\ sessionCache' \in [Call -> Kyc!Session \cup {None}]
           /\ UNCHANGED sessionCache
           /\ ~initialized => UNCHANGED auditLog
           /\ initialized' \/ InitializeThrows
  <1>1. CASE initialized /\ UNCHANGED <<sdkVars, providerVars, auditLog>>
    BY <1>1 DEF sdkVars, providerVars, IInv, TypeOK, ModulesOK, TimersOK
  <1>2. CASE ~initialized /\ CreateModules
    <2>1. CASE InitializeThrows
      BY <1>2, <2>1 DEF CreateModules, providerVars, IInv, TypeOK, ModulesOK, TimersOK
    <2>2. CASE ~InitializeThrows
      BY <1>2, <2>2 DEF CreateModules, IInv, TypeOK, ModulesOK, TimersOK
    <2> QED
      BY <2>1, <2>2
  <1> QED
    BY <1>1, <1>2 DEF initialize

LEMMA CallInitializePreserves == IInv /\ callInitialize => IInv'
  <1> SUFFICES ASSUME IInv, callInitialize PROVE IInv'
      OBVIOUS
  <1>1. UNCHANGED calls /\ initialize
    BY DEF callInitialize
  <1>2. TypeOK' /\ ModulesOK' /\ TimersOK'
    BY <1>1, InitializePreserves DEF IInv, TypeOK
  <1>3. CallsOK' /\ SessionsKnown'
    BY <1>1, InitializePreserves DEF IInv, CallsOK, CallOK, SessionsKnown
  <1> QED
    BY <1>2, <1>3 DEF IInv

(* verifyIdentity, to its first await.                                     *)
LEMMA VerifyPreserves ==
    ASSUME IInv, NEW c \in Call, NEW w \in User, NEW t \in Level, verifyIdentity(c, w, t)
    PROVE  IInv'
  <1> DEFINE job == [calls[c] EXCEPT !.wallet = w, !.tier = t]
  <1>1. job \in CallType /\ job.wallet = w /\ job.sessionId = None
    <2>1. calls[c] \in CallType /\ CallOK(c)
      BY DEF IInv, TypeOK, CallsOK
    <2>2. calls[c].sessionId = None
      BY <2>1 DEF verifyIdentity, CallOK
    <2> QED
      BY <2>1, <2>2 DEF CallType
  <1>2. CASE initialized
    <2>1. OpenSession(c, job) /\ UNCHANGED <<sdkVars, auditLog>>
      BY <1>2 DEF verifyIdentity
    <2> HIDE DEF job
    <2>2. PICK j \in CallType : /\ calls' = [calls EXCEPT ![c] = j]
                                /\ j.pc # "idle" /\ j.wallet \in User
                                /\ Opens(c, j)
      BY <1>1, <2>1, OpenSessionOpens
    <2> QED
      BY <1>2, <2>1, <2>2, SessionOpens DEF IInv
  <1>3. CASE ~initialized
    <2>1. /\ initialize
          /\ calls' = [calls EXCEPT ![c] =
                [job EXCEPT !.pc = IF InitializeThrows THEN "failed" ELSE "initialized"]]
      BY <1>3 DEF verifyIdentity
    <2> HIDE DEF job
    <2> DEFINE j == [job EXCEPT !.pc = IF InitializeThrows THEN "failed" ELSE "initialized"]
    <2>2. /\ j \in CallType /\ j.wallet = w /\ j.sessionId = None
          /\ j.pc = IF InitializeThrows THEN "failed" ELSE "initialized"
      BY <1>1 DEF CallType
    <2>3. calls' = [calls EXCEPT ![c] = j]
      BY <2>1
    <2> HIDE DEF j
    <2>4. c # None
      BY SdkAssumption
    <2>5. j.pc \in Started \/ j.sessionId = c => initialized'
      BY <2>1, <2>2, <2>4, InitializePreserves DEF Started
    <2>6. j.pc # "idle" /\ j.sessionId # c
      BY <2>2, <2>4
    <2>7. TypeOK' /\ CallsOK' /\ SessionsKnown'
      BY <2>1, <2>2, <2>3, <2>5, <2>6, InitializePreserves, CallMoves
    <2> QED
      BY <2>1, <2>7, InitializePreserves DEF IInv
  <1> QED
    BY <1>2, <1>3

(* A call goes on after an await.                                          *)
LEMMA ContinuePreserves ==
    ASSUME IInv, NEW c \in Call, Continue(c)
    PROVE  IInv'
  <1>1. calls[c] \in CallType /\ CallOK(c)
    BY DEF IInv, TypeOK, CallsOK
  <1>2. CASE AfterInitialize(c)
    <2>1. /\ calls[c].pc = "initialized" /\ OpenSession(c, calls[c])
          /\ UNCHANGED <<sdkVars, auditLog>>
      BY <1>2 DEF AfterInitialize
    <2>2. initialized /\ calls[c].wallet \in User
      BY <1>1, <2>1 DEF CallOK, Started
    <2> DEFINE job == calls[c]
    <2>3. job \in CallType /\ job.wallet \in User /\ OpenSession(c, job)
      BY <1>1, <2>1, <2>2
    <2> HIDE DEF job
    <2>4. PICK j \in CallType : /\ calls' = [calls EXCEPT ![c] = j]
                                /\ j.pc # "idle" /\ j.wallet \in User
                                /\ Opens(c, j)
      BY <2>3, OpenSessionOpens
    <2> QED
      BY <2>1, <2>2, <2>4, SessionOpens DEF IInv
  <1>3. CASE AfterSession(c) \/ AfterRisk(c) \/ AfterProof(c)
    <2>1. /\ calls[c].pc \in {"session", "risk", "proof"}
          /\ UNCHANGED <<sdkVars, providerVars>>
      BY <1>3 DEF AfterSession, AfterRisk, AfterProof
    <2>2. UNCHANGED <<config, initialized, kycProvider, complianceReporter, sessionCache, timers>>
      BY <2>1 DEF sdkVars, providerVars
    <2>3. initialized
      BY <1>1, <2>1 DEF CallOK, Started
    <2>4. \E pc \in {"risk", "proof", "done"} :
             calls' = [calls EXCEPT ![c] = [calls[c] EXCEPT !.pc = pc]]
      BY <1>1, <1>3 DEF AfterSession, AfterRisk, AfterProof, AssessOrIssue, IssueCredential, Goto,
                        CallType, IInv, TypeOK
    <2>5. TypeOK' /\ CallsOK' /\ SessionsKnown'
      BY <2>1, <2>2, <2>3, <2>4, CallContinues
    <2>6. ModulesOK' /\ TimersOK'
      BY <2>2, <2>3 DEF IInv, ModulesOK, TimersOK
    <2> QED
      BY <2>5, <2>6 DEF IInv
  <1> QED
    BY <1>2, <1>3 DEF Continue

(* Timers and webhooks decide sessions that are in the cache.              *)
LEMMA TimerPreserves ==
    ASSUME IInv, NEW s \in SessionId, TimerStep(s)
    PROVE  IInv'
  <1>1. s \in Call /\ sessionCache[s] # None /\ timers # {}
    BY DEF TimerStep, Kyc!TimerFires, IInv, TimersOK
  <1>2. initialized
    BY <1>1 DEF IInv, ModulesOK
  <1>3. Kyc!SetStatus({s}, "approved") /\ timers' \subseteq timers
        /\ UNCHANGED <<sdkVars, calls, identityVars, auditLog>>
    BY DEF TimerStep, Kyc!TimerFires
  <1>4. \A r \in {s} : r \in Call /\ sessionCache[r] # None
    BY <1>1
  <1> QED
    BY <1>2, <1>3, <1>4, DecisionPreserves

(* The sessions that one call of the provider's service decides.           *)
LEMMA WebhookDecides ==
    ASSUME NEW completed, Kyc!handleWebhook(completed)
    PROVE  \E which \in SUBSET Kyc!Open, status \in {"approved", "declined"} :
              /\ Kyc!SetStatus(which, status)
              /\ \A s, t \in which : s = t \/ sessionCache[s].userId = sessionCache[t].userId
              /\ UNCHANGED timers
  <1>1. Kyc!Decision(completed) \in {"approved", "declined"}
    BY DEF Kyc!Decision
  <1>2. CASE \E i \in SessionId : Kyc!handlePersonaWebhook(i, completed)
    <2>1. PICK i \in SessionId : Kyc!handlePersonaWebhook(i, completed)
      BY <1>2
    <2>2. /\ Kyc!SetStatus({i} \cap Kyc!Open, Kyc!Decision(completed))
          /\ UNCHANGED timers /\ {i} \cap Kyc!Open \in SUBSET Kyc!Open
          /\ \A s, t \in {i} \cap Kyc!Open : s = t
      BY <2>1 DEF Kyc!handlePersonaWebhook
    <2> QED
      BY <1>1, <2>2
  <1>3. CASE \E u \in User : Kyc!handleSumSubWebhook(u, completed)
    <2>1. PICK u \in User : Kyc!handleSumSubWebhook(u, completed)
      BY <1>3
    <2>2. /\ Kyc!SetStatus(Kyc!SessionsOf(u), Kyc!Decision(completed))
          /\ UNCHANGED timers
      BY <2>1 DEF Kyc!handleSumSubWebhook
    <2>3. /\ Kyc!SessionsOf(u) \in SUBSET Kyc!Open
          /\ \A s, t \in Kyc!SessionsOf(u) : sessionCache[s].userId = sessionCache[t].userId
      BY DEF Kyc!SessionsOf
    <2> QED
      BY <1>1, <2>2, <2>3
  <1> QED
    BY <1>2, <1>3 DEF Kyc!handleWebhook

LEMMA WebhookPreserves ==
    ASSUME IInv, NEW completed, WebhookStep(completed)
    PROVE  IInv'
  <1>1. PICK which \in SUBSET Kyc!Open, status \in {"approved", "declined"} :
           Kyc!SetStatus(which, status) /\ UNCHANGED timers
    BY WebhookDecides DEF WebhookStep
  <1>2. UNCHANGED <<sdkVars, calls, identityVars, auditLog>>
    BY DEF WebhookStep
  <1>3. \A s \in which : s \in Call /\ sessionCache[s] # None
    BY DEF Kyc!Open, SessionId
  <1>4. initialized
    BY DEF WebhookStep, IInv, ModulesOK
  <1> QED
    BY <1>1, <1>2, <1>3, <1>4, DecisionPreserves

(* The manager that callers are given, and the clock, issue nothing.       *)
LEMMA OthersPreserve == IInv /\ (ManagerStep \/ NextDay \/ UNCHANGED vars) => IInv'
  <1> SUFFICES ASSUME IInv, ManagerStep \/ NextDay \/ UNCHANGED vars PROVE IInv'
      OBVIOUS
  <1>1. UNCHANGED <<sdkVars, calls, providerVars, auditLog>>
    BY DEF ManagerStep, NextDay, vars
  <1>2. UNCHANGED <<config, initialized, kycProvider, complianceReporter, calls, sessionCache,
                    timers, auditLog>>
    BY <1>1 DEF sdkVars, providerVars
  <1>3. TypeOK' /\ CallsOK' /\ ModulesOK'
    BY <1>2 DEF IInv, TypeOK, CallsOK, CallOK, ModulesOK
  <1>4. TimersOK' /\ SessionsKnown'
    BY <1>2 DEF IInv, TimersOK, SessionsKnown
  <1> QED
    BY <1>3, <1>4 DEF IInv

LEMMA Step == IInv /\ [Next]_vars => IInv'
  <1> SUFFICES ASSUME IInv, [Next]_vars PROVE IInv'
      OBVIOUS
  <1>1. CASE \E c \in Call, w \in User, t \in Level : verifyIdentity(c, w, t)
    BY <1>1, VerifyPreserves
  <1>2. CASE \E c \in Call : Continue(c)
    BY <1>2, ContinuePreserves
  <1>3. CASE callInitialize
    BY <1>3, CallInitializePreserves
  <1>4. CASE \E s \in SessionId : TimerStep(s)
    BY <1>4, TimerPreserves
  <1>5. CASE \E completed \in BOOLEAN : WebhookStep(completed)
    BY <1>5, WebhookPreserves
  <1>6. CASE ManagerStep \/ NextDay \/ UNCHANGED vars
    BY <1>6, OthersPreserve
  <1> QED
    BY <1>1, <1>2, <1>3, <1>4, <1>5, <1>6 DEF Next

-----------------------------------------------------------------------------
(* The inductive invariant of the SDK.                                     *)
THEOREM Invariant == Spec => []IInv
  BY InitialState, Step, PTL DEF Spec

(* The session of every call is known to the provider that is asked about  *)
(* it, for any number of concurrent first calls (sdk.ts 86-149).           *)
THEOREM SessionsAreKnown == Spec => []SessionsKnown
  <1>1. IInv => SessionsKnown
    BY DEF IInv
  <1> QED
    BY <1>1, Invariant, PTL

(* A call leaves the sessions that are open as they are.                   *)
LEMMA CallsOnlyOpen ==
    ASSUME IInv, NEW c \in Call,
           Continue(c) \/ (\E w \in User, t \in Level : verifyIdentity(c, w, t))
    PROVE  \A s \in Call : sessionCache[s] # None => sessionCache'[s] = sessionCache[s]
  <1>1. sessionCache \in [Call -> Kyc!Session \cup {None}]
    BY DEF IInv, TypeOK
  <1>2. ASSUME NEW job, OpenSession(c, job)
        PROVE  \A s \in Call : sessionCache[s] # None => sessionCache'[s] = sessionCache[s]
    <2>1. CASE UNCHANGED sessionCache
      BY <2>1
    <2>2. CASE sessionCache[c] = None
               /\ sessionCache' = [sessionCache EXCEPT ![c] = Kyc!Opened(job.wallet)]
      BY <1>1, <2>2
    <2> QED
      BY <1>2, <2>1, <2>2 DEF OpenSession, Kyc!initiateVerification, providerVars
  <1>3. CASE Continue(c)
    <2>1. CASE AfterInitialize(c)
      BY <1>2, <2>1 DEF AfterInitialize
    <2>2. CASE AfterSession(c) \/ AfterRisk(c) \/ AfterProof(c)
      BY <2>2 DEF AfterSession, AfterRisk, AfterProof, providerVars
    <2> QED
      BY <1>3, <2>1, <2>2 DEF Continue
  <1>4. CASE \E w \in User, t \in Level : verifyIdentity(c, w, t)
    <2>1. PICK w \in User, t \in Level : verifyIdentity(c, w, t)
      BY <1>4
    <2>2. CASE initialized
      BY <1>2, <2>1, <2>2 DEF verifyIdentity
    <2>3. CASE ~initialized
      BY <2>1, <2>3, InitializePreserves DEF verifyIdentity
    <2> QED
      BY <2>2, <2>3
  <1> QED
    BY <1>3, <1>4

(* What is said of one user decides no other user's session (base.ts       *)
(* 148-167 and 258-273).                                                   *)
THEOREM WebhooksAreLocal == Spec => WebhookIsLocal
  <1> DEFINE Local == \A s, t \in SessionId :
                  (/\ sessionCache[s] # None /\ sessionCache'[s] # sessionCache[s]
                   /\ sessionCache[t] # None /\ sessionCache'[t] # sessionCache[t])
                     => sessionCache[s].userId = sessionCache[t].userId
  <1>1. IInv /\ [Next]_vars => [Local]_vars
    <2> SUFFICES ASSUME IInv, Next PROVE Local
      BY DEF vars
    <2>1. ASSUME \A s \in Call : sessionCache[s] # None => sessionCache'[s] = sessionCache[s]
          PROVE  Local
      BY <2>1 DEF SessionId
    <2>2. ASSUME UNCHANGED sessionCache PROVE Local
      BY <2>2
    <2>3. ASSUME NEW which \in SUBSET Kyc!Open, NEW status \in {"approved", "declined"},
                 Kyc!SetStatus(which, status),
                 \A s, t \in which : s = t \/ sessionCache[s].userId = sessionCache[t].userId
          PROVE  Local
      <3>1. \A s \in which : s \in Call /\ sessionCache[s] # None
        BY DEF Kyc!Open, SessionId
      <3>2. \A s \in Call : s \notin which => sessionCache'[s] = sessionCache[s]
        BY <2>3, <3>1, StatusIsSet DEF IInv
      <3> QED
        BY <2>3, <3>2 DEF SessionId
    <2>4. CASE \E c \in Call, w \in User, t \in Level : verifyIdentity(c, w, t)
      BY <2>1, <2>4, CallsOnlyOpen
    <2>5. CASE \E c \in Call : Continue(c)
      BY <2>1, <2>5, CallsOnlyOpen
    <2>6. CASE callInitialize
      BY <2>2, <2>6, InitializePreserves DEF callInitialize
    <2>7. CASE \E s \in SessionId : TimerStep(s)
      <3>1. PICK s \in SessionId : TimerStep(s)
        BY <2>7
      <3>2. {s} \in SUBSET Kyc!Open /\ Kyc!SetStatus({s}, "approved")
        BY <3>1 DEF TimerStep, Kyc!TimerFires, Kyc!Open, IInv, TimersOK, SessionId
      <3>3. \A r, t \in {s} : r = t
        OBVIOUS
      <3> QED
        BY <2>3, <3>2, <3>3
    <2>8. CASE \E completed \in BOOLEAN : WebhookStep(completed)
      BY <2>3, <2>8, WebhookDecides DEF WebhookStep
    <2>9. CASE ManagerStep \/ NextDay
      BY <2>2, <2>9 DEF ManagerStep, NextDay, providerVars
    <2> QED
      BY <2>4, <2>5, <2>6, <2>7, <2>8, <2>9 DEF Next
  <1> QED
    BY <1>1, Invariant, PTL DEF Spec, WebhookIsLocal

-----------------------------------------------------------------------------
(* The audit trail.                                                        *)
EventType == [eventType : {"VERIFICATION_COMPLETE"}, walletAddress : User, status : {"VERIFIED"},
              verificationId : Call \cup {None, "mock"}, riskLevel : {None}, timestamp : Nat]

AuditOK ==
    /\ now \in Nat
    /\ auditLog \in Seq(EventType)
    /\ \A w \in User :
          /\ IsFiniteSet(Answered(w)) /\ IsFiniteSet(Rep!getAuditTrail(w))
          /\ config.enableAutoReporting =>
                Cardinality(Rep!getAuditTrail(w)) = Cardinality(Answered(w))

(* A step in which no call answers and nothing is logged.                  *)
LEMMA NothingAnswered ==
    ASSUME AuditOK, UNCHANGED <<config, auditLog>>, now' \in Nat,
           \A s \in Call : /\ calls'[s].pc = "done" <=> calls[s].pc = "done"
                           /\ calls[s].pc = "done" => calls'[s].wallet = calls[s].wallet
    PROVE  AuditOK'
  <1>1. ASSUME NEW w \in User PROVE Answered(w)' = Answered(w)
    <2>1. \A s \in Call : (calls'[s].pc = "done" /\ calls'[s].wallet = w)
                          <=> (calls[s].pc = "done" /\ calls[s].wallet = w)
      <3> SUFFICES ASSUME NEW s \in Call
                   PROVE  (calls'[s].pc = "done" /\ calls'[s].wallet = w)
                             <=> (calls[s].pc = "done" /\ calls[s].wallet = w)
        OBVIOUS
      <3>1. calls'[s].pc = "done" <=> calls[s].pc = "done"
        OBVIOUS
      <3>2. CASE calls[s].pc = "done"
        <4>1. calls'[s].wallet = calls[s].wallet
          BY <3>2
        <4> QED
          BY <3>1, <4>1
      <3> QED
        BY <3>1, <3>2
    <2> QED
      BY <2>1 DEF Answered, Done
  <1>2. \A w \in User : Rep!getAuditTrail(w)' = Rep!getAuditTrail(w)
    BY DEF Rep!getAuditTrail
  <1> QED
    BY <1>1, <1>2 DEF AuditOK

(* Calls that go on, other than to their answer.                           *)
LEMMA NotYetAnswered ==
    ASSUME IInv, NEW c \in Call,
           \/ \E w \in User, t \in Level : verifyIdentity(c, w, t)
           \/ AfterInitialize(c) \/ AfterSession(c) \/ AfterRisk(c)
    PROVE  /\ UNCHANGED auditLog
           /\ \A s \in Call : /\ calls'[s].pc = "done" <=> calls[s].pc = "done"
                              /\ calls[s].pc = "done" => calls'[s].wallet = calls[s].wallet
  <1>1. ASSUME calls[c].pc # "done", NEW j, j.pc # "done", calls' = [calls EXCEPT ![c] = j]
        PROVE  \A s \in Call : /\ calls'[s].pc = "done" <=> calls[s].pc = "done"
                               /\ calls[s].pc = "done" => calls'[s].wallet = calls[s].wallet
    BY <1>1 DEF IInv, TypeOK
  <1>2. calls[c] \in CallType
    BY DEF IInv, TypeOK
  <1>3. CASE \E w \in User, t \in Level : verifyIdentity(c, w, t)
    <2>1. PICK w \in User, t \in Level : verifyIdentity(c, w, t)
      BY <1>3
    <2>2. calls[c].pc = "idle"
      BY <2>1 DEF verifyIdentity
    <2> DEFINE job == [calls[c] EXCEPT !.wallet = w, !.tier = t]
    <2>3. job \in CallType
      BY <1>2 DEF CallType
    <2>4. CASE initialized
      <3>1. OpenSession(c, job) /\ UNCHANGED auditLog
        BY <2>1, <2>4 DEF verifyIdentity
      <3> HIDE DEF job
      <3>2. PICK j \in CallType : calls' = [calls EXCEPT ![c] = j] /\ j.pc \notin {"idle", "done"}
        BY <2>3, <3>1, OpenSessionOpens
      <3> QED
        BY <1>1, <2>2, <3>1, <3>2
    <2>5. CASE ~initialized
      <3> DEFINE j == [job EXCEPT !.pc = IF InitializeThrows THEN "failed" ELSE "initialized"]
      <3>1. calls' = [calls EXCEPT ![c] = j] /\ initialize
        BY <2>1, <2>5 DEF verifyIdentity
      <3> HIDE DEF job
      <3>2. j.pc # "done"
        BY <2>3 DEF CallType
      <3> HIDE DEF j
      <3>3. UNCHANGED auditLog
        BY <2>5, <3>1, InitializePreserves
      <3> QED
        BY <1>1, <2>2, <3>1, <3>2, <3>3
    <2> QED
      BY <2>4, <2>5
  <1>4. CASE AfterInitialize(c)
    <2> DEFINE job == calls[c]
    <2>1. OpenSession(c, job) /\ job \in CallType /\ UNCHANGED auditLog /\ calls[c].pc = "initialized"
      BY <1>2, <1>4 DEF AfterInitialize
    <2> HIDE DEF job
    <2>2. PICK j \in CallType : calls' = [calls EXCEPT ![c] = j] /\ j.pc \notin {"idle", "done"}
      BY <2>1, OpenSessionOpens
    <2> QED
      BY <1>1, <2>1, <2>2
  <1>5. CASE AfterSession(c) \/ AfterRisk(c)
    <2>1. calls[c].pc \in {"session", "risk"} /\ UNCHANGED auditLog
      BY <1>5 DEF AfterSession, AfterRisk
    <2>2. PICK pc \in {"risk", "proof"} : calls' = [calls EXCEPT ![c] = [calls[c] EXCEPT !.pc = pc]]
      BY <1>5 DEF AfterSession, AfterRisk, AssessOrIssue, IssueCredential
    <2>3. [calls[c] EXCEPT !.pc = pc].pc # "done"
      BY <1>2 DEF CallType
    <2> QED
      BY <1>1, <2>1, <2>2, <2>3
  <1> QED
    BY <1>3, <1>4, <1>5

(* An answer, and its event if there is a reporter.                        *)
LEMMA AnswerIsLogged ==
    ASSUME IInv, AuditOK, NEW c \in Call, AfterProof(c)
    PROVE  AuditOK'
  <1>1. /\ calls[c] \in CallType /\ calls[c].pc = "proof" /\ calls[c].wallet \in User
        /\ initialized /\ complianceReporter = config.enableAutoReporting
        /\ config.enableAutoReporting \in BOOLEAN
    <2>1. calls[c] \in CallType /\ CallOK(c) /\ calls[c].pc = "proof"
      BY DEF IInv, TypeOK, CallsOK, AfterProof
    <2>2. calls[c].wallet \in User /\ initialized
      BY <2>1 DEF CallOK, Started
    <2> QED
      BY <2>1, <2>2, SdkAssumption DEF IInv, TypeOK, ModulesOK
  <1>2. calls' = [calls EXCEPT ![c].pc = "done"] /\ UNCHANGED <<config, now>>
    BY DEF AfterProof, Goto, sdkVars, identityVars
  <1>3. calls'[c].pc = "done" /\ calls'[c].wallet = calls[c].wallet
        /\ \A s \in Call : s # c => calls'[s] = calls[s]
    BY <1>1, <1>2 DEF IInv, TypeOK, CallType
  <1>4. ASSUME NEW w \in User
        PROVE  Answered(w)' = IF w = calls[c].wallet THEN Answered(w) \cup {c} ELSE Answered(w)
    BY <1>1, <1>3 DEF Answered, Done
  <1>5. \A w \in User : c \notin Answered(w)
    BY <1>1 DEF Answered, Done
  <1>6. ASSUME NEW w \in User
        PROVE  /\ IsFiniteSet(Answered(w))'
               /\ Cardinality(Answered(w))' = IF w = calls[c].wallet THEN Cardinality(Answered(w)) + 1
                                              ELSE Cardinality(Answered(w))
    BY <1>4, <1>5, FS_AddElement DEF AuditOK
  <1>7. CASE complianceReporter
    <2> DEFINE e == Event(calls[c])
               n == Len(auditLog) + 1
    <2>1. e \in EventType /\ e.walletAddress = calls[c].wallet
      BY <1>1 DEF Event, EventType, CallType, AuditOK
    <2>2. auditLog' = Append(auditLog, e)
      BY <1>7 DEF AfterProof, Rep!logAuditEvent
    <2> HIDE DEF e
    <2>3. auditLog \in Seq(EventType)
      BY DEF AuditOK
    <2>4. /\ auditLog' \in Seq(EventType) /\ DOMAIN auditLog' = DOMAIN auditLog \cup {n}
          /\ n \notin DOMAIN auditLog /\ auditLog'[n] = e
          /\ \A i \in DOMAIN auditLog : auditLog'[i] = auditLog[i]
      BY <2>1, <2>2, <2>3
    <2> HIDE DEF n
    <2>5. ASSUME NEW w \in User
          PROVE  /\ n \notin Rep!getAuditTrail(w)
                 /\ Rep!getAuditTrail(w)' = IF w = calls[c].wallet THEN Rep!getAuditTrail(w) \cup {n}
                                            ELSE Rep!getAuditTrail(w)
      BY <2>1, <2>4 DEF Rep!getAuditTrail
    <2>6. ASSUME NEW w \in User
          PROVE  /\ IsFiniteSet(Rep!getAuditTrail(w))'
                 /\ Cardinality(Rep!getAuditTrail(w))' =
                       IF w = calls[c].wallet THEN Cardinality(Rep!getAuditTrail(w)) + 1
                       ELSE Cardinality(Rep!getAuditTrail(w))
      BY <2>5, FS_AddElement DEF AuditOK
    <2> QED
      BY <1>2, <1>6, <2>4, <2>6 DEF AuditOK
  <1>8. CASE ~complianceReporter
    <2>1. UNCHANGED auditLog /\ ~config.enableAutoReporting
      BY <1>1, <1>8 DEF AfterProof
    <2>2. \A w \in User : Rep!getAuditTrail(w)' = Rep!getAuditTrail(w)
      BY <2>1 DEF Rep!getAuditTrail
    <2> QED
      BY <1>2, <1>6, <2>1, <2>2 DEF AuditOK
  <1> QED
    BY <1>7, <1>8

LEMMA AuditStep == IInv /\ AuditOK /\ [Next]_vars => AuditOK'
  <1> SUFFICES ASSUME IInv, AuditOK, [Next]_vars PROVE AuditOK'
      OBVIOUS
  <1>1. UNCHANGED config /\ now' \in Nat
    <2>1. now \in Nat
      BY DEF AuditOK
    <2>2. CASE \E c \in Call, w \in User, t \in Level : verifyIdentity(c, w, t)
      BY <2>1, <2>2, InitializePreserves
      DEF verifyIdentity, OpenSession, AssessOrIssue, IssueCredential, Idm!issueCredential,
          sdkVars, identityVars
    <2>3. CASE \E c \in Call : Continue(c)
      BY <2>1, <2>3
      DEF Continue, AfterInitialize, AfterSession, AfterRisk, AfterProof, OpenSession,
          AssessOrIssue, IssueCredential, Idm!issueCredential, sdkVars, identityVars
    <2>4. CASE callInitialize
      BY <2>1, <2>4, InitializePreserves DEF callInitialize, identityVars
    <2>5. CASE (\E s \in SessionId : TimerStep(s)) \/ (\E b \in BOOLEAN : WebhookStep(b))
               \/ UNCHANGED vars
      BY <2>1, <2>5 DEF TimerStep, WebhookStep, vars, sdkVars, identityVars
    <2>6. CASE ManagerStep \/ NextDay
      BY <2>1, <2>6
      DEF ManagerStep, NextDay, sdkVars, Idm!createDID, Idm!verifyCredential,
          Idm!revokeCredential, Idm!importDIDs, Idm!clear
    <2> QED
      BY <2>2, <2>3, <2>4, <2>5, <2>6 DEF Next
  <1>2. CASE \E c \in Call : AfterProof(c)
    BY <1>2, AnswerIsLogged
  <1>3. CASE \E c \in Call : \/ \E w \in User, t \in Level : verifyIdentity(c, w, t)
                             \/ AfterInitialize(c) \/ AfterSession(c) \/ AfterRisk(c)
    BY <1>1, <1>3, NotYetAnswered, NothingAnswered
  <1>4. CASE UNCHANGED <<calls, auditLog>>
    BY <1>1, <1>4, NothingAnswered
  <1>5. CASE callInitialize
    <2>1. UNCHANGED <<calls, auditLog>>
      BY <1>5, InitializePreserves DEF callInitialize, initialize
    <2> QED
      BY <1>4, <2>1
  <1>6. CASE (\E s \in SessionId : TimerStep(s)) \/ (\E b \in BOOLEAN : WebhookStep(b))
             \/ ManagerStep \/ NextDay \/ UNCHANGED vars
    BY <1>4, <1>6 DEF TimerStep, WebhookStep, ManagerStep, NextDay, vars
  <1> QED
    BY <1>2, <1>3, <1>5, <1>6 DEF Next, Continue

(* The reporter's own instance of FiniteSets counts as this one does.      *)
LEMMA SameCardinality == \A S : Rep!Cardinality(S) = Cardinality(S)
  BY DEF Rep!Cardinality, Cardinality

(* Every event of a wallet is a verification that was approved: the        *)
(* reports count the whole trail.                                          *)
LEMMA ReportsCountTheTrail ==
    ASSUME AuditOK, NEW w \in User
    PROVE  /\ generateReport("KYC_SUMMARY", w).totalVerifications = Cardinality(Rep!getAuditTrail(w))
           /\ generateReport("KYC_SUMMARY", w).approvedCount = Cardinality(Rep!getAuditTrail(w))
           /\ generateReport("AUDIT", w).totalEvents = Cardinality(Rep!getAuditTrail(w))
           /\ generateReport("AUDIT", w).verificationEvents = Cardinality(Rep!getAuditTrail(w))
  <1> DEFINE trail == Rep!getAuditTrail(w)
             about(type) == [type |-> type, walletAddress |-> w, period |-> None]
  <1>1. ASSUME NEW type PROVE Rep!getAuditEvents(about(type)) = trail
    BY SdkAssumption DEF Rep!getAuditEvents, Rep!Selected, Rep!getAuditTrail
  <1>2. \A i \in trail : /\ auditLog[i].eventType = "VERIFICATION_COMPLETE"
                         /\ auditLog[i].status = "VERIFIED"
    <2>1. \A i \in DOMAIN auditLog : auditLog[i] \in EventType
      BY DEF AuditOK
    <2> QED
      BY <2>1 DEF Rep!getAuditTrail, EventType
  <1>3. ASSUME NEW events, events = trail
        PROVE  /\ Rep!OfType(events, "VERIFICATION_COMPLETE") = trail
               /\ {i \in Rep!OfType(events, "VERIFICATION_COMPLETE") :
                      auditLog[i].status = "VERIFIED"} = trail
               /\ {i \in events : auditLog[i].eventType \in
                      {"VERIFICATION_STARTED", "VERIFICATION_COMPLETE"}} = trail
    BY <1>2, <1>3 DEF Rep!OfType
  <1> HIDE DEF trail
  <1>4. ASSUME NEW params, Rep!getAuditEvents(params) = trail
        PROVE  /\ Rep!KYCSummaryReport(params).totalVerifications = Cardinality(trail)
               /\ Rep!KYCSummaryReport(params).approvedCount = Cardinality(trail)
               /\ Rep!AuditReport(params).totalEvents = Cardinality(trail)
               /\ Rep!AuditReport(params).verificationEvents = Cardinality(trail)
    <2> DEFINE events == Rep!getAuditEvents(params)
    <2>1. /\ events = trail
          /\ Rep!OfType(events, "VERIFICATION_COMPLETE") = trail
          /\ {i \in Rep!OfType(events, "VERIFICATION_COMPLETE") :
                 auditLog[i].status = "VERIFIED"} = trail
          /\ {i \in events : auditLog[i].eventType \in
                 {"VERIFICATION_STARTED", "VERIFICATION_COMPLETE"}} = trail
      BY <1>3, <1>4
    <2> DEFINE complete == Rep!OfType(events, "VERIFICATION_COMPLETE")
    <2>2. Rep!KYCSummaryReport(params).totalVerifications = Cardinality(complete)
      BY SameCardinality DEF Rep!KYCSummaryReport
    <2>3. Rep!KYCSummaryReport(params).approvedCount
             = Cardinality({i \in complete : auditLog[i].status = "VERIFIED"})
      BY SameCardinality DEF Rep!KYCSummaryReport
    <2>4. Rep!AuditReport(params).totalEvents = Cardinality(events)
      BY SameCardinality DEF Rep!AuditReport
    <2>5. Rep!AuditReport(params).verificationEvents
             = Cardinality({i \in events : auditLog[i].eventType \in
                               {"VERIFICATION_STARTED", "VERIFICATION_COMPLETE"}})
      BY SameCardinality DEF Rep!AuditReport
    <2> HIDE DEF events
    <2> QED
      BY <2>1, <2>2, <2>3, <2>4, <2>5
  <1>5. generateReport("KYC_SUMMARY", w) = Rep!KYCSummaryReport(about("KYC_SUMMARY"))
    BY DEF generateReport, Rep!generateReport
  <1>6. generateReport("AUDIT", w) = Rep!AuditReport(about("AUDIT"))
    BY DEF generateReport, Rep!generateReport
  <1> HIDE DEF about
  <1>7. /\ Rep!getAuditEvents(about("KYC_SUMMARY")) = trail
        /\ Rep!getAuditEvents(about("AUDIT")) = trail
    BY <1>1
  <1> QED
    BY <1>4, <1>5, <1>6, <1>7 DEF trail

(* With reporting enabled the log of a wallet has one event for each       *)
(* answer, and the reports about it count as many, for any number of calls *)
(* (sdk.ts 86-123 and 226-237, reporter.ts 78-146 and 277-303).            *)
THEOREM AuditTrailIsComplete == Spec => []AuditTrail
  <1>1. Init => AuditOK
    <2> SUFFICES ASSUME Init PROVE AuditOK
      OBVIOUS
    <2>1. ASSUME NEW w \in User PROVE Answered(w) = {} /\ Rep!getAuditTrail(w) = {}
      BY DEF Init, NewCall, Answered, Done, Rep!getAuditTrail
    <2>2. now \in Nat /\ auditLog \in Seq(EventType)
      BY DEF Init, Idm!IdentityInit
    <2> QED
      BY <2>1, <2>2, FS_EmptySet DEF AuditOK
  <1>2. AuditOK => AuditTrail
    BY ReportsCountTheTrail DEF AuditOK, AuditTrail
  <1> QED
    BY <1>1, <1>2, AuditStep, Invariant, PTL DEF Spec

=============================================================================
