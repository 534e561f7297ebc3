----------------------------- MODULE KycProvider -----------------------------
(***************************************************************************)
(* The identity providers of the TypeScript SDK (src/base.ts): Persona,    *)
(* SumSub and Google.  Each keeps a cache of sessions.  A session of the   *)
(* first two is approved by a timer five seconds after it was created and  *)
(* decided by webhooks, which the provider's service sends at any time,    *)
(* repeatedly and in any order.                                            *)
(***************************************************************************)
EXTENDS FiniteSets

CONSTANTS SessionId, User, None

VARIABLES kind,           \* the class of the provider
          sessionCache,   \* Map<string, KYCSession>
          timers          \* sessions whose setTimeout has not fired

providerVars == <<kind, sessionCache, timers>>

Kind == {"persona", "sumsub", "google"}

Status == {"pending", "in_progress", "approved", "declined"}

Session == [userId : User, status : Status]

EmptyCache == [s \in SessionId |-> None]

PersonaSession(user) == [userId |-> user, status |-> "pending"]
SumSubSession(user)  == [userId |-> user, status |-> "in_progress"]
GoogleSession(user)  == [userId |-> user, status |-> "pending"]

Opened(user) ==
    CASE kind = "persona" -> PersonaSession(user)
      [] kind = "sumsub"  -> SumSubSession(user)
      [] kind = "google"  -> GoogleSession(user)

(* A mutant of initiateVerification: SumSub waits for the webhook alone.   *)
WithoutTimer(s, user) ==
    /\ sessionCache[s] = None
    /\ sessionCache' = [sessionCache EXCEPT ![s] = Opened(user)]
    /\ timers' = IF kind = "persona" THEN timers \cup {s} ELSE timers
    /\ UNCHANGED kind

(* The id is random: one that was never used.  Google sets no timer.       *)
initiateVerification(s, user) ==
    /\ sessionCache[s] = None
    /\ sessionCache' = [sessionCache EXCEPT ![s] = Opened(user)]
    /\ timers' = IF kind = "google" THEN timers ELSE timers \cup {s}
    /\ UNCHANGED kind

SetStatus(which, status) ==
    sessionCache' = [s \in SessionId |->
                       IF s \in which THEN [sessionCache[s] EXCEPT !.status = status]
                       ELSE sessionCache[s]]

(* createKYCProvider throws for Google without a client secret.            *)
Creatable(clientSecret) == kind \in {"persona", "sumsub"} \/ (kind = "google" /\ clientSecret)

Open == {s \in SessionId : sessionCache[s] # None}

(* The callback approves whatever has happened in the meantime.            *)
TimerFires(s) ==
    /\ s \in timers
    /\ SetStatus({s}, "approved")
    /\ timers' = timers \ {s}
    /\ UNCHANGED kind

Decision(completed) == IF completed THEN "approved" ELSE "declined"

(* Persona's event 'inquiry.complete' names a session.                     *)
handlePersonaWebhook(inquiryId, completed) ==
    /\ kind = "persona"
    /\ SetStatus({inquiryId} \cap Open, Decision(completed))
    /\ UNCHANGED <<kind, timers>>

(* A mutant of SessionsOf: the event decides every session in the cache.   *)
AllSessions(applicantId) == Open

SessionsOf(applicantId) == {s \in Open : sessionCache[s].userId = applicantId}

(* SumSub's event 'applicantStatusChanged' names an applicant and decides  *)
(* all of the applicant's sessions.                                        *)
handleSumSubWebhook(applicantId, completed) ==
    /\ kind = "sumsub"
    /\ SetStatus(SessionsOf(applicantId), Decision(completed))
    /\ UNCHANGED <<kind, timers>>

handleWebhook(completed) ==
    \/ \E s \in SessionId : handlePersonaWebhook(s, completed)
    \/ \E u \in User : handleSumSubWebhook(u, completed)

(* What checkStatus reports of a session in the cache; a declined one is   *)
(* pending to it.                                                          *)
PersonaStatus(session) == IF session.status = "approved" THEN "VERIFIED" ELSE "PENDING"

SumSubStatus(session) ==
    IF session.status = "in_progress" THEN "IN_PROGRESS" ELSE PersonaStatus(session)

GoogleStatus(session) == "VERIFIED"

checkStatus(s) ==
    CASE sessionCache[s] = None -> "PENDING"
      [] sessionCache[s] # None /\ kind = "persona" -> PersonaStatus(sessionCache[s])
      [] sessionCache[s] # None /\ kind = "sumsub"  -> SumSubStatus(sessionCache[s])
      [] sessionCache[s] # None /\ kind = "google"  -> GoogleStatus(sessionCache[s])

-----------------------------------------------------------------------------
Decided(s) == sessionCache[s] # None /\ sessionCache[s].status \in {"approved", "declined"}

=============================================================================
