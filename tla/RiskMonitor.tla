----------------------------- MODULE RiskMonitor ----------------------------
(***************************************************************************)
(* RiskMonitoringService (risk_engine/service.rs) with the part of the     *)
(* ActionExecutor it awaits (risk_engine/policy/actions.rs) and the        *)
(* on-chain accounts that part writes.                                     *)
(*                                                                         *)
(* The tasks are the monitoring loops that start() spawns and the callers  *)
(* of the public API.  A step runs a task from one .await to the next.     *)
(* The three tokio RwLocks are explicit, because the code holds guards     *)
(* over awaits: unregister_wallet collects all three, process_wallet keeps *)
(* its guard on risk_cache for as long as it executes (and sleeps in) the  *)
(* actions it decided on.                                                  *)
(*                                                                         *)
(* Time is counted in ticks; Ticks maps the delays of the policies to      *)
(* ticks.  Ages saturate: a cache entry's at TTL, the age of the provider  *)
(* data behind a profile at MaxAge.                                        *)
(***************************************************************************)
EXTENDS RiskPolicy, Sequences

CONSTANTS
    Wallet,
    Attestation,
    Key, issuer,    \* see RiskAwareAttestation
    EngineKey,      \* risk_engine_keypair
    Caller,         \* concurrent callers of the API
    Loop,           \* the most monitoring loops that can be alive at once
    Profiles,       \* what the aggregator may answer
    TTL,            \* cache_ttl_minutes, in ticks
    Ticks,          \* delay in minutes -> ticks
    MaxAge,         \* where the age of provider data saturates
    None

Task == Caller \cup Loop

ASSUME MonitorAssumption ==
    /\ Caller \cap Loop = {}
    /\ Profiles \subseteq Profile
    /\ TTL \in Nat
    /\ MaxAge \in Nat
    /\ Ticks \in [Minutes -> Nat]
    /\ issuer \in [Attestation -> Key]
    /\ EngineKey \in Key
    /\ None \notin Wallet \cup Attestation \cup Profiles
    /\ None \notin [profile : Profiles, age : 0..TTL, since : 0..MaxAge]

VARIABLES
    is_running,
    active_wallets,
    wallet_attestations,
    risk_cache,
    risk_status,    \* the on-chain accounts
    rd, wr,         \* lock -> the tasks that hold a read, a write guard
    queue,          \* lock -> the tasks that wait for it, first come first
    pc,
    job             \* the locals of each task

locks  == <<rd, wr>>
tables == <<active_wallets, wallet_attestations, risk_cache>>
vars   == <<is_running, tables, risk_status, locks, queue, pc, job>>

Chain == INSTANCE RiskAwareAttestation

Lock == {"active_wallets", "wallet_attestations", "risk_cache"}

Entry == [profile : Profiles, age : 0..TTL, since : 0..MaxAge]

Job == [wallet  : Wallet \cup {None},
        key     : Attestation \cup {None},
        profile : Profiles \cup {None},
        since   : 0..MaxAge,               \* age of the profile's data
        plan    : SUBSET PolicyAction,     \* actions still to execute
        timer   : Nat,                     \* ticks of sleep left
        todo    : SUBSET (Wallet \X Attestation)]  \* rest of the cycle

NoJob == [wallet |-> None, key |-> None, profile |-> None, since |-> 0,
          plan |-> {}, timer |-> 0, todo |-> {}]

PC == {"idle",                             \* a caller outside the API
       "dead", "test", "tick", "snapActive", "snapKeys", "next",    \* loop
       "regActive", "regKeys",                         \* register_wallet
       "unActive", "unKeys", "unCache",                \* unregister_wallet
       "clear", "lookup",                              \* force_risk_check
       "get",                                          \* get_wallet_risk
       "check", "fetch", "store", "act", "sleep"}      \* process_wallet

TypeOK ==
    /\ is_running \in BOOLEAN
    /\ active_wallets \subseteq Wallet
    /\ wallet_attestations \in [Wallet -> Attestation \cup {None}]
    /\ risk_cache \in [Wallet -> Entry \cup {None}]
    /\ Chain!TypeOK
    /\ rd \in [Lock -> SUBSET Task]
    /\ wr \in [Lock -> SUBSET Task]
    /\ queue \in [Lock -> Seq(Task)]
    /\ pc \in [Task -> PC]
    /\ job \in [Task -> Job]

Init ==
    /\ is_running = FALSE
    /\ active_wallets = {}
    /\ wallet_attestations = [w \in Wallet |-> None]
    /\ risk_cache = [w \in Wallet |-> None]
    /\ Chain!Init
    /\ rd = [l \in Lock |-> {}]
    /\ wr = [l \in Lock |-> {}]
    /\ queue = [l \in Lock |-> <<>>]
    /\ pc = [t \in Task |-> IF t \in Caller THEN "idle" ELSE "dead"]
    /\ job = [t \in Task |-> NoJob]

-----------------------------------------------------------------------------
(* tokio::sync::RwLock: any number of readers or one writer, and waiters   *)
(* are served strictly in the order in which they asked.  A task asks when *)
(* it reaches a label from which it can only go on with the lock.          *)
Waiting == [active_wallets      |-> {"snapActive", "regActive", "unActive"},
            wallet_attestations |-> {"snapKeys", "regKeys", "unKeys", "lookup"},
            risk_cache          |-> {"unCache", "clear", "get", "check", "store"}]

IsFirst(t, l) == queue[l] # <<>> /\ Head(queue[l]) = t

CanRead(t, l)  == IsFirst(t, l) /\ wr[l] = {}
CanWrite(t, l) == IsFirst(t, l) /\ wr[l] = {} /\ rd[l] = {}

Read(t, l) ==
    CanRead(t, l) /\ rd' = [rd EXCEPT ![l] = @ \cup {t}] /\ UNCHANGED wr
Write(t, l) ==
    CanWrite(t, l) /\ wr' = [wr EXCEPT ![l] = @ \cup {t}] /\ UNCHANGED rd

(* Every guard of the task is dropped.                                     *)
Release(t) ==
    /\ rd' = [l \in Lock |-> rd[l] \ {t}]
    /\ wr' = [l \in Lock |-> wr[l] \ {t}]

(* From one await to the next: out of the queue the task was served from,  *)
(* into the queue of the lock it now asks for.                             *)
Served(t, l)       == IF pc[t] \in Waiting[l] THEN Tail(queue[l]) ELSE queue[l]
Asks(t, l, label) == IF label \in Waiting[l]
                     THEN Append(Served(t, l), t) ELSE Served(t, l)

Goto(t, label) ==
    /\ pc' = [pc EXCEPT ![t] = label]
    /\ queue' = [l \in Lock |-> Asks(t, l, label)]

Assign(t, j) == job' = [job EXCEPT ![t] = j]

(* A call of the API returns to its caller.                                *)
Return(t) ==
    /\ Goto(t, "idle")
    /\ Assign(t, NoJob)

-----------------------------------------------------------------------------
(* start and stop.  is_running is a Mutex that neither holds over an await *)
(* so each is one step.                                                    *)
start ==
    \/ /\ is_running
       /\ UNCHANGED vars
    \/ /\ ~is_running
       /\ \E t \in Loop :
             /\ pc[t] = "dead"
             /\ Goto(t, "test")
       /\ is_running' = TRUE
       /\ UNCHANGED <<tables, risk_status, locks, job>>

stop ==
    /\ is_running' = FALSE
    /\ UNCHANGED <<tables, risk_status, locks, queue, pc, job>>

(* A mutant of monitoring_loop: `loop` in place of `while`.                *)
LoopForever(t) ==
    /\ \/ pc[t] = "test" /\ Goto(t, "tick")
       \/ pc[t] = "tick" /\ Goto(t, "snapActive")
    /\ UNCHANGED <<is_running, tables, risk_status, locks, job>>

(* monitoring_loop: the flag is read before the tick is awaited, not after *)
monitoring_loop(t) ==
    /\ \/ pc[t] = "test" /\ Goto(t, IF is_running THEN "tick" ELSE "dead")
       \/ pc[t] = "tick" /\ Goto(t, "snapActive")
    /\ UNCHANGED <<is_running, tables, risk_status, locks, job>>

(* run_monitoring_cycle: under both read guards it copies the registered   *)
(* wallets; then it processes the copy, one wallet at a time.              *)
wallets_to_check ==
    {<<w, wallet_attestations[w]>> :
        w \in {v \in active_wallets : wallet_attestations[v] # None}}

snapshot_wallets(t) ==
    \/ /\ pc[t] = "snapActive"
       /\ Read(t, "active_wallets")
       /\ Goto(t, "snapKeys")
       /\ UNCHANGED <<is_running, tables, risk_status, job>>
    \/ /\ pc[t] = "snapKeys"
       /\ CanRead(t, "wallet_attestations")
       /\ Assign(t, [job[t] EXCEPT !.todo = wallets_to_check])
       /\ Release(t)
       /\ Goto(t, "next")
       /\ UNCHANGED <<is_running, tables, risk_status>>

run_monitoring_cycle(t) ==
    /\ pc[t] = "next"
    /\ \/ \E e \in job[t].todo :
             /\ Assign(t, [job[t] EXCEPT !.wallet = e[1], !.key = e[2],
                                         !.todo = @ \ {e}])
             /\ Goto(t, "check")
       \/ /\ job[t].todo = {}
          /\ Goto(t, "test")
          /\ UNCHANGED job
    /\ UNCHANGED <<is_running, tables, risk_status, locks>>

-----------------------------------------------------------------------------
(* process_wallet.  The read guard of the lookup lives to the end of the   *)
(* `if let`, so a cache hit is evaluated and executed under it.            *)
cached(t) == risk_cache[job[t].wallet]

Hit(t) == cached(t) # None /\ cached(t).age < TTL

Decide(t, p, since) ==
    /\ Assign(t, [job[t] EXCEPT !.profile = p, !.since = since,
                                !.plan = executable_actions(p)])
    /\ Goto(t, "act")

(* A mutant of OnHit: the profile is cloned out and the guard dropped.     *)
HitDropsGuard(t) ==
    /\ CanRead(t, "risk_cache")
    /\ Decide(t, cached(t).profile, cached(t).since)
    /\ UNCHANGED locks

OnHit(t) ==
    /\ Read(t, "risk_cache")
    /\ Decide(t, cached(t).profile, cached(t).since)

(* A mutant of OnMiss: the guard lives on (a `match` in place of the       *)
(* `if let`, with the fetch in its other arm).                             *)
MissKeepsGuard(t) ==
    /\ Read(t, "risk_cache")
    /\ Goto(t, "fetch")
    /\ UNCHANGED job

OnMiss(t) ==
    /\ CanRead(t, "risk_cache")
    /\ Goto(t, "fetch")
    /\ UNCHANGED <<locks, job>>

check_cache(t) ==
    /\ pc[t] = "check"
    /\ IF Hit(t) THEN OnHit(t) ELSE OnMiss(t)
    /\ UNCHANGED <<is_running, tables, risk_status>>

(* aggregate_wallet_risk answers: it never fails, a provider that does is  *)
(* missing from the profile's sources.                                     *)
fetch_risk(t) ==
    /\ pc[t] = "fetch"
    /\ \E p \in Profiles : Assign(t, [job[t] EXCEPT !.profile = p, !.since = 0])
    /\ Goto(t, "store")
    /\ UNCHANGED <<is_running, tables, risk_status, locks>>

insert(t) ==
    risk_cache' = [risk_cache EXCEPT ![job[t].wallet] =
                      [profile |-> job[t].profile, age |-> 0,
                       since |-> job[t].since]]

(* The write guard is never dropped explicitly: it stays until             *)
(* evaluate_and_execute has returned.                                      *)
update_cache(t) ==
    /\ pc[t] = "store"
    /\ Write(t, "risk_cache")
    /\ insert(t)
    /\ Decide(t, job[t].profile, job[t].since)
    /\ UNCHANGED <<is_running, active_wallets, wallet_attestations, risk_status>>

(* The action of the plan that the executor takes next.                    *)
IsNext(t, a) ==
    /\ a \in job[t].plan
    /\ \A b \in job[t].plan \ {a} : Before(a, b)

(* evaluate_and_execute: begin the next action with its delay, or return.  *)
evaluate_and_execute(t) ==
    /\ pc[t] = "act"
    /\ \/ \E a \in job[t].plan :
             /\ IsNext(t, a)
             /\ Assign(t, [job[t] EXCEPT !.timer = Ticks[a.delay]])
             /\ Goto(t, "sleep")
             /\ UNCHANGED locks
       \/ /\ job[t].plan = {}
          /\ Release(t)
          /\ IF t \in Caller
             THEN Return(t)
             ELSE /\ Goto(t, "next")
                  /\ Assign(t, [NoJob EXCEPT !.todo = job[t].todo])
    /\ UNCHANGED <<is_running, tables, risk_status>>

(* The transaction of an action: it lands if the program accepts it, or is *)
(* lost; the error is only logged.  The other actions only log.            *)
OnChain == {"FlagAttestation", "SuspendAttestation", "RevokeAttestation"}

submit(t, a) ==
    \/ a.type = "FlagAttestation"    /\ Chain!flag_attestation(job[t].key, EngineKey)
    \/ a.type = "SuspendAttestation" /\ Chain!suspend_attestation(job[t].key, EngineKey)
    \/ a.type = "RevokeAttestation"  /\ Chain!revoke_attestation(job[t].key, EngineKey)
    \/ UNCHANGED risk_status

execute_action(t) ==
    /\ pc[t] = "sleep"
    /\ job[t].timer = 0
    /\ \E a \in job[t].plan :
          /\ IsNext(t, a)
          /\ submit(t, a)
          /\ Assign(t, [job[t] EXCEPT !.plan = @ \ {a}])
    /\ Goto(t, "act")
    /\ UNCHANGED <<is_running, tables, locks>>

-----------------------------------------------------------------------------
(* A caller enters the API with its arguments.                             *)
Call(t, label, w, k) ==
    /\ pc[t] = "idle"
    /\ Goto(t, label)
    /\ Assign(t, [NoJob EXCEPT !.wallet = w, !.key = k])
    /\ UNCHANGED <<is_running, tables, risk_status, locks>>

register_wallet(t) ==
    \/ \E w \in Wallet, k \in Attestation : Call(t, "regActive", w, k)
    \/ /\ pc[t] = "regActive"
       /\ Write(t, "active_wallets")
       /\ Goto(t, "regKeys")
       /\ UNCHANGED <<is_running, tables, risk_status, job>>
    \/ /\ pc[t] = "regKeys"
       /\ CanWrite(t, "wallet_attestations")
       /\ active_wallets' = active_wallets \cup {job[t].wallet}
       /\ wallet_attestations' =
             [wallet_attestations EXCEPT ![job[t].wallet] = job[t].key]
       /\ Release(t)
       /\ Return(t)
       /\ UNCHANGED <<is_running, risk_cache, risk_status>>

unregister_wallet(t) ==
    \/ \E w \in Wallet : Call(t, "unActive", w, None)
    \/ /\ pc[t] = "unActive"
       /\ Write(t, "active_wallets")
       /\ Goto(t, "unKeys")
       /\ UNCHANGED <<is_running, tables, risk_status, job>>
    \/ /\ pc[t] = "unKeys"
       /\ Write(t, "wallet_attestations")
       /\ Goto(t, "unCache")
       /\ UNCHANGED <<is_running, tables, risk_status, job>>
    \/ /\ pc[t] = "unCache"
       /\ CanWrite(t, "risk_cache")
       /\ active_wallets' = active_wallets \ {job[t].wallet}
       /\ wallet_attestations' =
             [wallet_attestations EXCEPT ![job[t].wallet] = None]
       /\ risk_cache' = [risk_cache EXCEPT ![job[t].wallet] = None]
       /\ Release(t)
       /\ Return(t)
       /\ UNCHANGED <<is_running, risk_status>>

get_wallet_risk(t) ==
    \/ \E w \in Wallet : Call(t, "get", w, None)
    \/ /\ pc[t] = "get"
       /\ CanRead(t, "risk_cache")
       /\ Return(t)
       /\ UNCHANGED <<is_running, tables, risk_status, locks>>

force_risk_check(t) ==
    \/ \E w \in Wallet : Call(t, "clear", w, None)
    \/ /\ pc[t] = "clear"
       /\ CanWrite(t, "risk_cache")
       /\ risk_cache' = [risk_cache EXCEPT ![job[t].wallet] = None]
       /\ Goto(t, "lookup")
       /\ UNCHANGED <<is_running, active_wallets, wallet_attestations,
                      risk_status, locks, job>>
    \/ LET key == wallet_attestations[job[t].wallet]
       IN  /\ pc[t] = "lookup"
           /\ CanRead(t, "wallet_attestations")
           /\ \/ key = None /\ Return(t)
              \/ /\ key # None
                 /\ Assign(t, [job[t] EXCEPT !.key = key])
                 /\ Goto(t, "check")
           /\ UNCHANGED <<is_running, tables, risk_status, locks>>

-----------------------------------------------------------------------------
Older(n, cap) == IF n < cap THEN n + 1 ELSE cap

Tick ==
    /\ job' = [t \in Task |->
                 [job[t] EXCEPT
                    !.timer = IF job[t].timer > 0 THEN job[t].timer - 1 ELSE 0,
                    !.since = IF job[t].profile = None THEN job[t].since
                              ELSE Older(job[t].since, MaxAge)]]
    /\ risk_cache' = [w \in Wallet |->
                        IF risk_cache[w] = None THEN None
                        ELSE [profile |-> risk_cache[w].profile,
                              age     |-> Older(risk_cache[w].age, TTL),
                              since   |-> Older(risk_cache[w].since, MaxAge)]]
    /\ UNCHANGED <<is_running, active_wallets, wallet_attestations,
                   risk_status, locks, queue, pc>>

process_wallet(t) ==
    \/ check_cache(t)
    \/ fetch_risk(t)
    \/ update_cache(t)
    \/ evaluate_and_execute(t)
    \/ execute_action(t)

LoopStep(t) ==
    \/ monitoring_loop(t)
    \/ snapshot_wallets(t)
    \/ run_monitoring_cycle(t)
    \/ process_wallet(t)

CallerStep(t) ==
    \/ register_wallet(t)
    \/ unregister_wallet(t)
    \/ get_wallet_risk(t)
    \/ force_risk_check(t)
    \/ process_wallet(t)

Next ==
    \/ start
    \/ stop
    \/ Tick
    \/ \E t \in Loop : LoopStep(t)
    \/ \E t \in Caller : CallerStep(t)

Spec == Init /\ [][Next]_vars

-----------------------------------------------------------------------------
(* Fairness.  tokio polls every ready task again and time passes.  Since a *)
(* lock serves its waiters in order, a task whose turn it is stays enabled *)
(* and weak fairness is enough.  Nothing makes a caller call, or anyone    *)
(* start or stop the service.                                              *)
Progress(t) ==
    /\ pc[t] # "idle"
    /\ IF t \in Loop THEN LoopStep(t) ELSE CallerStep(t)

FairSpec ==
    /\ Spec
    /\ WF_vars(Tick)
    /\ \A t \in Task : WF_vars(Progress(t))

(* The same service when computing, the network and the chain take no time *)
(* worth counting: a tick passes only once every task waits for a lock, a  *)
(* delay or a caller.  What goes wrong here is not for want of speed.      *)
PromptTick == Tick /\ \A t \in Task : ~ENABLED Progress(t)

PromptNext ==
    \/ start
    \/ stop
    \/ PromptTick
    \/ \E t \in Loop : LoopStep(t)
    \/ \E t \in Caller : CallerStep(t)

PromptSpec == Init /\ [][PromptNext]_vars

-----------------------------------------------------------------------------
Executing(t) == pc[t] \in {"act", "sleep"}

(* Which guards a task holds follows from where it is, as the scopes of    *)
(* the guards in service.rs have it, and a writer is alone.                *)
GuardsOf(t) ==
    /\ t \in rd["active_wallets"] <=> pc[t] = "snapKeys"
    /\ t \in wr["active_wallets"] <=> pc[t] \in {"regKeys", "unKeys", "unCache"}
    /\ t \notin rd["wallet_attestations"]
    /\ t \in wr["wallet_attestations"] <=> pc[t] = "unCache"
    /\ t \in rd["risk_cache"] \cup wr["risk_cache"] <=> Executing(t)

GuardsMatch == \A t \in Task : GuardsOf(t)

Exclusion ==
    \A l \in Lock : \A t \in wr[l] : rd[l] = {} /\ wr[l] = {t}

LockDiscipline == GuardsMatch /\ Exclusion

(* The locals of a task: a wallet and a profile are there where they are   *)
(* used, and what is still to execute is what the policies say of the      *)
(* profile.                                                                *)
WithWallet == {"regActive", "regKeys", "unActive", "unKeys", "unCache",
               "clear", "lookup", "get",
               "check", "fetch", "store", "act", "sleep"}

JobOK ==
    \A t \in Task :
        /\ pc[t] \in WithWallet => job[t].wallet \in Wallet
        /\ pc[t] = "store" \/ Executing(t) => job[t].profile \in Profiles
        /\ Executing(t) => job[t].plan \subseteq executable_actions(job[t].profile)

(* The profile a task is enforcing is the one get_wallet_risk would report *)
(* for that wallet: no other task can replace or remove the entry between  *)
(* the decision and the last action, however long the delays are.  So two  *)
(* tasks never enforce different profiles for one wallet at once.          *)
EnforcesCached(t) ==
    Executing(t) =>
        /\ risk_cache[job[t].wallet] # None
        /\ risk_cache[job[t].wallet].profile = job[t].profile

EnforcedProfileIsCached == \A t \in Task : EnforcesCached(t)

(* The inductive invariant of the proofs.                                  *)
IInv == TypeOK /\ JobOK /\ LockDiscipline /\ EnforcedProfileIsCached

(* Locks are taken in the order active_wallets, wallet_attestations,       *)
(* risk_cache and never twice: a task that waits for a lock holds neither  *)
(* it nor a later one.  process_wallet would wait for itself if the read   *)
(* guard of its lookup outlived a cache miss.                              *)
LockOrder ==
    \A t \in Task :
        /\ pc[t] \in Waiting.active_wallets =>
              \A l \in Lock : t \notin rd[l] \cup wr[l]
        /\ pc[t] \in Waiting.wallet_attestations =>
              \A l \in Lock \ {"active_wallets"} : t \notin rd[l] \cup wr[l]
        /\ pc[t] \in Waiting.risk_cache =>
              t \notin rd["risk_cache"] \cup wr["risk_cache"]

(* What the service may do to an account without a human: flag it for a    *)
(* medium profile, revoke it for a critical one that both providers        *)
(* answered for.  A suspension requires approval and is never sent.        *)
Justified(a, p, status) ==
    /\ issuer[a] = EngineKey
    /\ \/ status = "Flagged" /\ level(p) = "Medium"
       \/ /\ status = "Revoked"
          /\ level(p) = "Critical"
          /\ p.sources = DataSource
          /\ p.categories \cap {"Sanctions", "IllicitActivity"} # {}

EnforcementJustified ==
    [][\A a \in Attestation : risk_status'[a] # risk_status[a] =>
          \E t \in Task :
             /\ pc[t] = "sleep" /\ job[t].key = a
             /\ Justified(a, job[t].profile, risk_status'[a])]_vars

(* Every call of the API returns, although the locks are held through the  *)
(* delays of the actions.                                                  *)
CallsReturn == \A t \in Caller : pc[t] # "idle" ~> pc[t] = "idle"

(* After a stop() that is not followed by a start(), every monitoring loop *)
(* ends.                                                                   *)
LoopsEnd == <>[](~is_running) => <>[](\A t \in Loop : pc[t] = "dead")

(* The recommendation for a critical profile: RevokeAttestation with       *)
(* deadline_hours: Some(1).                                                *)
RevokedInTime(deadline) ==
    \A t \in Task : \A a \in job[t].plan :
        pc[t] = "sleep" /\ a.type = "RevokeAttestation" => job[t].since <= deadline

=============================================================================
