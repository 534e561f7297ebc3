------------------------- MODULE RiskMonitor_proofs -------------------------
(***************************************************************************)
(* Theorems about RiskMonitor, for every set of wallets, attestations,     *)
(* keys, callers, loops and provider answers, all thresholds and delays.   *)
(***************************************************************************)
EXTENDS RiskMonitor, TLAPS

(* The policies recommend policy actions, and so the service executes them *)
LEMMA PlanType ==
    ASSUME NEW p
    PROVE  executable_actions(p) \subseteq PolicyAction
<1>1. critical_risk.actions \subseteq PolicyAction
  BY DEF critical_risk, Act, PolicyAction, ActionType, Minutes
<1>2. high_risk.actions \subseteq PolicyAction
  BY DEF high_risk, Act, PolicyAction, ActionType, Minutes
<1>3. medium_risk.actions \subseteq PolicyAction
  BY DEF medium_risk, Act, PolicyAction, ActionType, Minutes
<1>4. sanctions_exposure.actions \subseteq PolicyAction
  BY DEF sanctions_exposure, Act, PolicyAction, ActionType, Minutes
<1>5. behavioral_anomaly.actions \subseteq PolicyAction
  BY DEF behavioral_anomaly, Act, PolicyAction, ActionType, Minutes
<1>6. \A q \in default_policies : q.actions \subseteq PolicyAction
  BY <1>1, <1>2, <1>3, <1>4, <1>5 DEF default_policies
<1> QED BY <1>6 DEF executable_actions, evaluate_policy

(* Going to a label keeps pc and the wait queues well typed, if the task   *)
(* does not leave a queue that is empty.                                   *)
LEMMA GotoType ==
    ASSUME TypeOK, NEW t \in Task, NEW label \in PC, Goto(t, label),
           \A l \in Lock : pc[t] \in Waiting[l] => queue[l] # <<>>
    PROVE  pc' \in [Task -> PC] /\ queue' \in [Lock -> Seq(Task)]
<1>1. pc' \in [Task -> PC]
  BY DEF TypeOK, Goto
<1>2. ASSUME NEW l \in Lock PROVE Asks(t, l, label) \in Seq(Task)
  <2>1. queue[l] \in Seq(Task)
    BY DEF TypeOK
  <2>2. Served(t, l) \in Seq(Task)
    BY <2>1 DEF Served
  <2> QED BY <2>2 DEF Asks
<1> QED BY <1>1, <1>2 DEF Goto

(* A task whose turn it is at a lock waits in a queue that is not empty.   *)
LEMMA TurnInQueue ==
    ASSUME NEW t, NEW l, CanRead(t, l) \/ CanWrite(t, l)
    PROVE  queue[l] # <<>>
BY DEF CanRead, CanWrite, IsFirst

(* Taking or dropping guards keeps the guard tables well typed.            *)
LEMMA GuardType ==
    ASSUME TypeOK, NEW t \in Task,
           \/ \E l \in Lock : Read(t, l) \/ Write(t, l)
           \/ Release(t)
           \/ UNCHANGED locks
    PROVE  rd' \in [Lock -> SUBSET Task] /\ wr' \in [Lock -> SUBSET Task]
<1>1. rd \in [Lock -> SUBSET Task] /\ wr \in [Lock -> SUBSET Task]
  BY DEF TypeOK
<1>2. CASE \E l \in Lock : Read(t, l)
  <2>1. PICK l \in Lock : rd' = [rd EXCEPT ![l] = @ \cup {t}] /\ wr' = wr
    BY <1>2 DEF Read
  <2> QED BY <1>1, <2>1
<1>3. CASE \E l \in Lock : Write(t, l)
  <2>1. PICK l \in Lock : wr' = [wr EXCEPT ![l] = @ \cup {t}] /\ rd' = rd
    BY <1>3 DEF Write
  <2> QED BY <1>1, <2>1
<1>4. CASE Release(t)
  BY <1>1, <1>4 DEF Release
<1>5. CASE UNCHANGED locks
  BY <1>1, <1>5 DEF locks
<1> QED BY <1>2, <1>3, <1>4, <1>5

(* From one await to the next: where the task may go, what it may do to    *)
(* the locks and to its locals.                                            *)
Turn(t) == \A l \in Lock : pc[t] \in Waiting[l] => CanRead(t, l) \/ CanWrite(t, l)

Moves(t) ==
    /\ \E label \in PC : Goto(t, label)
    /\ \/ \E l \in Lock : Read(t, l) \/ Write(t, l)
       \/ Release(t)
       \/ UNCHANGED locks
    /\ UNCHANGED job \/ \E j \in Job : Assign(t, j)

LEMMA NotWaiting ==
    ASSUME NEW t,
           pc[t] \in {"idle", "dead", "test", "tick", "next", "fetch", "act", "sleep"}
    PROVE  Turn(t)
BY DEF Turn, Waiting, Lock

LEMMA MoveType ==
    ASSUME TypeOK, NEW t \in Task, Turn(t), Moves(t)
    PROVE  /\ pc' \in [Task -> PC]
           /\ queue' \in [Lock -> Seq(Task)]
           /\ rd' \in [Lock -> SUBSET Task]
           /\ wr' \in [Lock -> SUBSET Task]
           /\ job' \in [Task -> Job]
<1>1. \A l \in Lock : pc[t] \in Waiting[l] => queue[l] # <<>>
  BY TurnInQueue DEF Turn
<1>2. pc' \in [Task -> PC] /\ queue' \in [Lock -> Seq(Task)]
  BY <1>1, GotoType DEF Moves
<1>3. rd' \in [Lock -> SUBSET Task] /\ wr' \in [Lock -> SUBSET Task]
  BY GuardType DEF Moves
<1>4. job' \in [Task -> Job]
  BY DEF Moves, TypeOK, Assign
<1> QED BY <1>2, <1>3, <1>4

(* What every step of a task has in common.                                *)
LEMMA JobType ==
    ASSUME IInv, NEW t \in Task
    PROVE  /\ job[t] \in Job
           /\ NoJob \in Job
           /\ pc[t] \in WithWallet => job[t].wallet \in Wallet
           /\ pc[t] = "store" \/ Executing(t) => job[t].profile \in Profiles
<1>1. NoJob \in Job
  BY MonitorAssumption DEF NoJob, Job
<1> QED BY <1>1 DEF IInv, TypeOK, JobOK

LEMMA LocalStep ==
    ASSUME IInv, NEW t \in Task, Turn(t), Moves(t),
           UNCHANGED <<is_running, tables, risk_status>>
    PROVE  TypeOK'
<1>1. TypeOK
  BY DEF IInv
<1> QED BY <1>1, MoveType DEF TypeOK, tables, Chain!TypeOK

-----------------------------------------------------------------------------
(* Type correctness, one lemma per operation.                              *)
LEMMA TypeStartStop ==
    ASSUME IInv, start \/ stop
    PROVE  TypeOK'
<1>1. CASE stop
  BY <1>1 DEF stop, IInv, TypeOK, tables, locks, Chain!TypeOK
<1>2. CASE start
  <2>1. CASE UNCHANGED vars
    BY <2>1 DEF vars, IInv, TypeOK, tables, locks, Chain!TypeOK
  <2>2. ASSUME NEW t \in Loop, pc[t] = "dead", Goto(t, "test"), is_running' = TRUE,
               UNCHANGED <<tables, risk_status, locks, job>>
        PROVE  TypeOK'
    <3>1. t \in Task /\ Turn(t) /\ Moves(t)
      BY <2>2 DEF Task, Turn, Moves, PC, Waiting, Lock
    <3> QED BY <2>2, <3>1, MoveType DEF IInv, TypeOK, tables, locks, Chain!TypeOK
  <2> QED BY <1>2, <2>1, <2>2 DEF start
<1> QED BY <1>1, <1>2

LEMMA TypeLoop ==
    ASSUME IInv, NEW t \in Loop,
           monitoring_loop(t) \/ snapshot_wallets(t) \/ run_monitoring_cycle(t)
    PROVE  Moves(t) /\ TypeOK'
<1> t \in Task
  BY DEF Task
<1>1. CASE monitoring_loop(t)
  <2>1. Turn(t) /\ Moves(t)
    BY <1>1 DEF monitoring_loop, Turn, Moves, PC, Waiting, Lock
  <2> QED BY <1>1, <2>1, LocalStep DEF monitoring_loop
<1>2. CASE snapshot_wallets(t)
  <2>1. wallets_to_check \subseteq Wallet \X Attestation
    BY DEF wallets_to_check, IInv, TypeOK
  <2>2. [job[t] EXCEPT !.todo = wallets_to_check] \in Job
    BY <2>1, JobType DEF Job
  <2>3. Turn(t)
    BY <1>2 DEF snapshot_wallets, Turn, Read, Waiting, Lock
  <2>4. Moves(t)
    BY <1>2, <2>2 DEF snapshot_wallets, Moves, PC, Lock
  <2> QED BY <1>2, <2>3, <2>4, LocalStep DEF snapshot_wallets
<1>3. CASE run_monitoring_cycle(t)
  <2>1. ASSUME NEW e \in job[t].todo
        PROVE  [job[t] EXCEPT !.wallet = e[1], !.key = e[2], !.todo = @ \ {e}] \in Job
    <3>1. e \in Wallet \X Attestation
      BY JobType DEF Job
    <3> QED BY <3>1, JobType DEF Job
  <2>2. Turn(t)
    <3>1. pc[t] = "next"
      BY <1>3 DEF run_monitoring_cycle
    <3> QED BY <3>1, NotWaiting
  <2>3. Moves(t)
    <3>1. UNCHANGED job \/ \E j \in Job : Assign(t, j)
      BY <1>3, <2>1 DEF run_monitoring_cycle
    <3>2. \E label \in PC : Goto(t, label)
      BY <1>3 DEF run_monitoring_cycle, PC
    <3> QED BY <1>3, <3>1, <3>2 DEF run_monitoring_cycle, Moves
  <2> QED BY <1>3, <2>2, <2>3, LocalStep DEF run_monitoring_cycle
<1> QED BY <1>1, <1>2, <1>3

(* process_wallet.                                                         *)
LEMMA DecideType ==
    ASSUME IInv, NEW t \in Task, NEW p \in Profiles, NEW since \in 0..MaxAge
    PROVE  [job[t] EXCEPT !.profile = p, !.since = since,
                          !.plan = executable_actions(p)] \in Job
BY JobType, PlanType DEF Job

LEMMA CachedType ==
    ASSUME IInv, NEW t \in Task, pc[t] \in WithWallet, cached(t) # None
    PROVE  cached(t) \in Entry
BY JobType DEF IInv, TypeOK, cached

LEMMA TypeCheck ==
    ASSUME IInv, NEW t \in Task, check_cache(t)
    PROVE  Moves(t) /\ TypeOK'
<1>1. Turn(t)
  <2>1. pc[t] = "check" /\ CanRead(t, "risk_cache")
    BY DEF check_cache, OnHit, OnMiss, Read
  <2> QED BY <2>1 DEF Turn, Waiting, Lock
<1>2. CASE Hit(t)
  <2>1. cached(t) \in Entry
    BY <1>2, CachedType DEF check_cache, Hit, WithWallet
  <2>2. cached(t).profile \in Profiles /\ cached(t).since \in 0..MaxAge
    BY <2>1 DEF Entry
  <2>3. Moves(t)
    BY <1>2, <2>2, DecideType DEF check_cache, OnHit, Decide, Moves, PC, Lock
  <2> QED BY <1>1, <2>3, LocalStep DEF check_cache
<1>3. CASE ~Hit(t)
  <2>1. Moves(t)
    BY <1>3 DEF check_cache, OnMiss, Moves, PC
  <2> QED BY <1>1, <2>1, LocalStep DEF check_cache
<1> QED BY <1>2, <1>3

LEMMA TypeFetch ==
    ASSUME IInv, NEW t \in Task, fetch_risk(t)
    PROVE  Moves(t) /\ TypeOK'
<1>1. ASSUME NEW p \in Profiles
      PROVE  [job[t] EXCEPT !.profile = p, !.since = 0] \in Job
  <2>1. 0 \in 0..MaxAge
    BY MonitorAssumption
  <2> QED BY <2>1, JobType DEF Job
<1>2. Turn(t)
  BY NotWaiting DEF fetch_risk
<1>3. Moves(t)
  BY <1>1 DEF fetch_risk, Moves, PC
<1> QED BY <1>2, <1>3, LocalStep DEF fetch_risk

LEMMA TypeUpdate ==
    ASSUME IInv, NEW t \in Task, update_cache(t)
    PROVE  Moves(t) /\ TypeOK'
<1>1. job[t].profile \in Profiles /\ job[t].since \in 0..MaxAge
  BY JobType DEF update_cache, Job
<1>2. Turn(t)
  BY DEF update_cache, Write, Turn, Waiting, Lock
<1>3. Moves(t)
  BY <1>1, DecideType DEF update_cache, Decide, Moves, PC, Lock
<1>4. [profile |-> job[t].profile, age |-> 0, since |-> job[t].since] \in Entry
  BY <1>1, MonitorAssumption DEF Entry
<1>5. risk_cache' \in [Wallet -> Entry \cup {None}]
  BY <1>4 DEF update_cache, insert, IInv, TypeOK
<1> QED BY <1>2, <1>3, <1>5, MoveType DEF update_cache, IInv, TypeOK, Chain!TypeOK

LEMMA TypeEvaluate ==
    ASSUME IInv, NEW t \in Task, evaluate_and_execute(t)
    PROVE  Moves(t) /\ TypeOK'
<1>1. Turn(t)
  BY NotWaiting DEF evaluate_and_execute
<1>2. ASSUME NEW a \in job[t].plan
      PROVE  [job[t] EXCEPT !.timer = Ticks[a.delay]] \in Job
  <2>1. Ticks[a.delay] \in Nat
    BY JobType, MonitorAssumption DEF Job, PolicyAction
  <2> QED BY <2>1, JobType DEF Job
<1>3. [NoJob EXCEPT !.todo = job[t].todo] \in Job
  BY JobType DEF Job
<1>4. Moves(t)
  BY <1>2, <1>3, JobType DEF evaluate_and_execute, Moves, Return, PC, Lock
<1> QED BY <1>1, <1>4, LocalStep DEF evaluate_and_execute

LEMMA TypeExecute ==
    ASSUME IInv, NEW t \in Task, execute_action(t)
    PROVE  Moves(t) /\ TypeOK'
<1>1. Turn(t)
  BY NotWaiting DEF execute_action
<1>2. \A a : [job[t] EXCEPT !.plan = @ \ {a}] \in Job
  BY JobType DEF Job
<1>3. Moves(t)
  BY <1>2 DEF execute_action, Moves, PC
<1>4. PICK a \in job[t].plan : submit(t, a)
  BY DEF execute_action
<1>5. Chain!TypeOK'
  BY <1>4 DEF submit, Chain!flag_attestation, Chain!suspend_attestation,
              Chain!revoke_attestation, Chain!SetStatus, IInv, TypeOK,
              Chain!TypeOK, Chain!RiskStatus
<1> QED BY <1>1, <1>3, <1>5, MoveType DEF execute_action, IInv, TypeOK, tables

(* The operations of the API.                                              *)
LEMMA TypeCall ==
    ASSUME IInv, NEW t \in Task, NEW label \in PC,
           NEW w \in Wallet, NEW k \in Attestation \cup {None}, Call(t, label, w, k)
    PROVE  Moves(t) /\ TypeOK'
<1>1. [NoJob EXCEPT !.wallet = w, !.key = k] \in Job
  BY JobType DEF Job
<1>2. Turn(t)
  BY NotWaiting DEF Call
<1>3. Moves(t)
  BY <1>1 DEF Call, Moves
<1> QED BY <1>2, <1>3, LocalStep DEF Call

LEMMA TypeRegister ==
    ASSUME IInv, NEW t \in Task, register_wallet(t)
    PROVE  Moves(t) /\ TypeOK'
<1>1. CASE \E w \in Wallet, k \in Attestation : Call(t, "regActive", w, k)
  BY <1>1, TypeCall DEF PC
<1>2. CASE pc[t] = "regActive"
  <2>1. Write(t, "active_wallets") /\ Goto(t, "regKeys")
        /\ UNCHANGED <<is_running, tables, risk_status, job>>
    BY <1>2 DEF register_wallet, Call
  <2>2. Turn(t)
    BY <1>2, <2>1 DEF Write, Turn, Waiting, Lock
  <2>3. Moves(t)
    BY <2>1 DEF Moves, PC, Lock
  <2> QED BY <2>1, <2>2, <2>3, LocalStep
<1>3. CASE pc[t] = "regKeys"
  <2>1. CanWrite(t, "wallet_attestations") /\ Release(t) /\ Return(t)
    BY <1>3 DEF register_wallet, Call
  <2>2. Turn(t)
    BY <1>3, <2>1 DEF Turn, Waiting, Lock
  <2>3. Moves(t)
    BY <2>1, JobType DEF Moves, Return, PC
  <2>4. job[t].wallet \in Wallet /\ job[t].key \in Attestation \cup {None}
    BY <1>3, JobType DEF WithWallet, Job
  <2>5. /\ active_wallets' \subseteq Wallet
        /\ wallet_attestations' \in [Wallet -> Attestation \cup {None}]
        /\ UNCHANGED <<is_running, risk_cache, risk_status>>
    BY <1>3, <2>4 DEF register_wallet, Call, IInv, TypeOK
  <2> QED BY <2>2, <2>3, <2>5, MoveType DEF IInv, TypeOK, Chain!TypeOK
<1> QED BY <1>1, <1>2, <1>3 DEF register_wallet

LEMMA TypeUnregister ==
    ASSUME IInv, NEW t \in Task, unregister_wallet(t)
    PROVE  Moves(t) /\ TypeOK'
<1>1. CASE \E w \in Wallet : Call(t, "unActive", w, None)
  BY <1>1, TypeCall DEF PC
<1>2. CASE pc[t] = "unActive"
  <2>1. Write(t, "active_wallets") /\ Goto(t, "unKeys")
        /\ UNCHANGED <<is_running, tables, risk_status, job>>
    BY <1>2 DEF unregister_wallet, Call
  <2>2. Turn(t)
    BY <1>2, <2>1 DEF Write, Turn, Waiting, Lock
  <2>3. Moves(t)
    BY <2>1 DEF Moves, PC, Lock
  <2> QED BY <2>1, <2>2, <2>3, LocalStep
<1>3. CASE pc[t] = "unKeys"
  <2>1. Write(t, "wallet_attestations") /\ Goto(t, "unCache")
        /\ UNCHANGED <<is_running, tables, risk_status, job>>
    BY <1>3 DEF unregister_wallet, Call
  <2>2. Turn(t)
    BY <1>3, <2>1 DEF Write, Turn, Waiting, Lock
  <2>3. Moves(t)
    BY <2>1 DEF Moves, PC, Lock
  <2> QED BY <2>1, <2>2, <2>3, LocalStep
<1>4. CASE pc[t] = "unCache"
  <2>1. CanWrite(t, "risk_cache") /\ Release(t) /\ Return(t)
    BY <1>4 DEF unregister_wallet, Call
  <2>2. Turn(t)
    BY <1>4, <2>1 DEF Turn, Waiting, Lock
  <2>3. Moves(t)
    BY <2>1, JobType DEF Moves, Return, PC
  <2>4. /\ active_wallets' \subseteq Wallet
        /\ wallet_attestations' \in [Wallet -> Attestation \cup {None}]
        /\ risk_cache' \in [Wallet -> Entry \cup {None}]
        /\ UNCHANGED <<is_running, risk_status>>
    BY <1>4 DEF unregister_wallet, Call, IInv, TypeOK
  <2> QED BY <2>2, <2>3, <2>4, MoveType DEF IInv, TypeOK, Chain!TypeOK
<1> QED BY <1>1, <1>2, <1>3, <1>4 DEF unregister_wallet

LEMMA TypeGet ==
    ASSUME IInv, NEW t \in Task, get_wallet_risk(t)
    PROVE  Moves(t) /\ TypeOK'
<1>1. CASE \E w \in Wallet : Call(t, "get", w, None)
  BY <1>1, TypeCall DEF PC
<1>2. CASE pc[t] = "get"
  <2>1. CanRead(t, "risk_cache") /\ Return(t)
        /\ UNCHANGED <<is_running, tables, risk_status, locks>>
    BY <1>2 DEF get_wallet_risk, Call
  <2>2. Turn(t)
    BY <1>2, <2>1 DEF Turn, Waiting, Lock
  <2>3. Moves(t)
    BY <2>1, JobType DEF Moves, Return, PC
  <2> QED BY <2>1, <2>2, <2>3, LocalStep
<1> QED BY <1>1, <1>2 DEF get_wallet_risk

LEMMA TypeForce ==
    ASSUME IInv, NEW t \in Task, force_risk_check(t)
    PROVE  Moves(t) /\ TypeOK'
<1>1. CASE \E w \in Wallet : Call(t, "clear", w, None)
  BY <1>1, TypeCall DEF PC
<1>2. CASE pc[t] = "clear"
  <2>1. CanWrite(t, "risk_cache") /\ Goto(t, "lookup")
        /\ UNCHANGED <<is_running, active_wallets, wallet_attestations,
                       risk_status, locks, job>>
    BY <1>2 DEF force_risk_check, Call
  <2>2. Turn(t)
    BY <1>2, <2>1 DEF Turn, Waiting, Lock
  <2>3. Moves(t)
    BY <2>1 DEF Moves, PC
  <2>4. risk_cache' \in [Wallet -> Entry \cup {None}]
    BY <1>2 DEF force_risk_check, Call, IInv, TypeOK
  <2> QED BY <2>1, <2>2, <2>3, <2>4, MoveType DEF IInv, TypeOK, Chain!TypeOK
<1>3. CASE pc[t] = "lookup"
  <2> DEFINE key == wallet_attestations[job[t].wallet]
  <2>1. /\ CanRead(t, "wallet_attestations")
        /\ UNCHANGED <<is_running, tables, risk_status, locks>>
        /\ \/ Return(t)
           \/ key # None /\ Assign(t, [job[t] EXCEPT !.key = key]) /\ Goto(t, "check")
    BY <1>3 DEF force_risk_check, Call
  <2>2. Turn(t)
    BY <1>3, <2>1 DEF Turn, Waiting, Lock
  <2>3. key \in Attestation \cup {None}
    BY <1>3, JobType DEF WithWallet, IInv, TypeOK
  <2>4. [job[t] EXCEPT !.key = key] \in Job
    BY <2>3, JobType DEF Job
  <2>5. Moves(t)
    BY <2>1, <2>4, JobType DEF Moves, Return, PC
  <2> QED BY <2>1, <2>2, <2>5, LocalStep
<1> QED BY <1>1, <1>2, <1>3 DEF force_risk_check

LEMMA TypeTick ==
    ASSUME IInv, Tick
    PROVE  TypeOK'
<1>1. \A n \in 0..MaxAge : Older(n, MaxAge) \in 0..MaxAge
  BY MonitorAssumption DEF Older
<1>2. \A n \in 0..TTL : Older(n, TTL) \in 0..TTL
  BY MonitorAssumption DEF Older
<1>3. risk_cache' \in [Wallet -> Entry \cup {None}]
  BY <1>1, <1>2 DEF Tick, IInv, TypeOK, Entry
<1>4. ASSUME NEW t \in Task PROVE job'[t] \in Job
  <2>1. job[t] \in Job
    BY JobType
  <2> DEFINE timer == IF job[t].timer > 0 THEN job[t].timer - 1 ELSE 0
             since == IF job[t].profile = None THEN job[t].since
                      ELSE Older(job[t].since, MaxAge)
  <2>2. timer \in Nat /\ since \in 0..MaxAge
    BY <1>1, <2>1 DEF Job
  <2>3. job'[t] = [job[t] EXCEPT !.timer = timer, !.since = since]
    BY DEF Tick
  <2> HIDE DEF timer, since
  <2> QED BY <2>1, <2>2, <2>3 DEF Job
<1>5. job' \in [Task -> Job]
  BY <1>4 DEF Tick
<1> QED BY <1>3, <1>5 DEF Tick, IInv, TypeOK, locks, Chain!TypeOK

LEMMA TypeInit == Init => TypeOK
<1> SUFFICES ASSUME Init PROVE TypeOK
  OBVIOUS
<1>1. queue \in [Lock -> Seq(Task)]
  BY DEF Init
<1>2. pc \in [Task -> PC] /\ job \in [Task -> Job]
  BY MonitorAssumption DEF Init, PC, NoJob, Job
<1> QED BY <1>1, <1>2 DEF Init, TypeOK, Chain!Init, Chain!TypeOK, Chain!RiskStatus

LEMMA TypeNext ==
    ASSUME IInv, [Next]_vars
    PROVE  TypeOK'
<1>1. CASE \E t \in Loop : LoopStep(t)
  BY <1>1, TypeLoop, TypeCheck, TypeFetch, TypeUpdate, TypeEvaluate, TypeExecute
  DEF LoopStep, process_wallet, Task
<1>2. CASE \E t \in Caller : CallerStep(t)
  BY <1>2, TypeRegister, TypeUnregister, TypeGet, TypeForce,
     TypeCheck, TypeFetch, TypeUpdate, TypeEvaluate, TypeExecute
  DEF CallerStep, process_wallet, Task
<1>3. CASE UNCHANGED vars
  BY <1>3 DEF vars, IInv, TypeOK, tables, locks, Chain!TypeOK
<1> QED BY <1>1, <1>2, <1>3, TypeStartStop, TypeTick DEF Next

-----------------------------------------------------------------------------
(* JobOK.  A step of a task leaves the other tasks where they are.         *)
LEMMA OthersStay ==
    ASSUME TypeOK, NEW t \in Task, Moves(t), NEW u \in Task, u # t
    PROVE  pc'[u] = pc[u] /\ job'[u] = job[u]
BY DEF Moves, Goto, Assign, TypeOK

LEMMA JobStep ==
    ASSUME IInv, NEW t \in Task, Moves(t),
           /\ pc'[t] \in WithWallet => job'[t].wallet \in Wallet
           /\ pc'[t] = "store" \/ Executing(t)' => job'[t].profile \in Profiles
           /\ Executing(t)' => job'[t].plan \subseteq executable_actions(job'[t].profile)
    PROVE  JobOK'
<1>1. ASSUME NEW u \in Task, u # t
      PROVE  /\ pc'[u] \in WithWallet => job'[u].wallet \in Wallet
             /\ pc'[u] = "store" \/ Executing(u)' => job'[u].profile \in Profiles
             /\ Executing(u)' => job'[u].plan \subseteq executable_actions(job'[u].profile)
  BY <1>1, OthersStay DEF IInv, JobOK, Executing
<1> QED BY <1>1 DEF JobOK

LEMMA StepMoves ==
    ASSUME IInv, NEW t \in Task,
           (t \in Loop /\ LoopStep(t)) \/ (t \in Caller /\ CallerStep(t))
    PROVE  Moves(t) /\ TypeOK'
BY TypeLoop, TypeRegister, TypeUnregister, TypeGet, TypeForce, TypeCheck, TypeFetch,
   TypeUpdate, TypeEvaluate, TypeExecute DEF LoopStep, CallerStep, process_wallet

(* After a step that leaves the wallet alone, and where the profile is not *)
(* in use.                                                                 *)
LEMMA JobKept ==
    ASSUME IInv, NEW t \in Task, Moves(t),
           pc'[t] \in WithWallet => pc[t] \in WithWallet /\ job'[t].wallet = job[t].wallet,
           pc'[t] # "store", ~Executing(t)'
    PROVE  JobOK'
BY JobType, JobStep

LEMMA JobLoop ==
    ASSUME IInv, NEW t \in Loop, Moves(t),
           monitoring_loop(t) \/ snapshot_wallets(t) \/ run_monitoring_cycle(t)
    PROVE  JobOK'
<1> t \in Task
  BY DEF Task
<1>1. CASE monitoring_loop(t) \/ snapshot_wallets(t)
  <2>1. pc'[t] \in {"tick", "dead", "snapActive", "snapKeys", "next"}
    BY <1>1 DEF monitoring_loop, snapshot_wallets, Goto, IInv, TypeOK
  <2> QED BY <2>1, JobKept DEF WithWallet, Executing
<1>2. CASE run_monitoring_cycle(t)
  <2>1. CASE job[t].todo = {}
    <3>1. pc'[t] = "test"
      BY <1>2, <2>1 DEF run_monitoring_cycle, Goto, IInv, TypeOK
    <3> QED BY <3>1, JobKept DEF WithWallet, Executing
  <2>2. CASE job[t].todo # {}
    <3>1. PICK e \in job[t].todo :
             /\ Assign(t, [job[t] EXCEPT !.wallet = e[1], !.key = e[2], !.todo = @ \ {e}])
             /\ Goto(t, "check")
      BY <1>2, <2>2 DEF run_monitoring_cycle
    <3>2. e \in Wallet \X Attestation
      BY JobType DEF Job
    <3>3. job'[t].wallet \in Wallet
      BY <3>1, <3>2, JobType DEF Assign, IInv, TypeOK, Job
    <3>4. pc'[t] = "check"
      BY <3>1 DEF Goto, IInv, TypeOK
    <3> QED BY <3>3, <3>4, JobStep DEF Executing
  <2> QED BY <2>1, <2>2
<1> QED BY <1>1, <1>2

LEMMA JobDecide ==
    ASSUME IInv, NEW t \in Task, Moves(t), pc[t] \in WithWallet,
           NEW p \in Profiles, NEW since, Decide(t, p, since)
    PROVE  JobOK' /\ pc'[t] = "act" /\ job'[t].profile = p
           /\ job'[t].wallet = job[t].wallet
<1>1. job[t].wallet \in Wallet
  BY JobType
<1>2. pc'[t] = "act"
  BY DEF Decide, Goto, IInv, TypeOK
<1>3. job'[t] = [job[t] EXCEPT !.profile = p, !.since = since,
                               !.plan = executable_actions(p)]
  BY DEF Decide, Assign, IInv, TypeOK
<1>4. /\ job'[t].wallet = job[t].wallet
      /\ job'[t].profile = p
      /\ job'[t].plan = executable_actions(p)
  BY <1>3, JobType DEF Job
<1> QED BY <1>1, <1>2, <1>4, JobStep

LEMMA JobProcess ==
    ASSUME IInv, NEW t \in Task, Moves(t), process_wallet(t)
    PROVE  JobOK'
<1>1. CASE check_cache(t)
  <2>0. pc[t] = "check" /\ pc[t] \in WithWallet
    BY <1>1 DEF check_cache, WithWallet
  <2>1. CASE Hit(t)
    <3>1. cached(t).profile \in Profiles
      BY <2>0, <2>1, CachedType DEF Hit, Entry
    <3> QED BY <1>1, <2>0, <2>1, <3>1, JobDecide DEF check_cache, OnHit
  <2>2. CASE ~Hit(t)
    <3>1. pc'[t] = "fetch" /\ job' = job
      BY <1>1, <2>2 DEF check_cache, OnMiss, Goto, IInv, TypeOK
    <3> QED BY <2>0, <3>1, JobKept DEF Executing
  <2> QED BY <2>1, <2>2
<1>2. CASE fetch_risk(t)
  <2>1. pc'[t] = "store" /\ job[t].wallet \in Wallet
    BY <1>2, JobType DEF fetch_risk, Goto, IInv, TypeOK, WithWallet
  <2>2. PICK p \in Profiles : job'[t] = [job[t] EXCEPT !.profile = p, !.since = 0]
    BY <1>2 DEF fetch_risk, Assign, IInv, TypeOK
  <2>3. job'[t].wallet = job[t].wallet /\ job'[t].profile = p
    BY <2>2, JobType DEF Job
  <2> QED BY <2>1, <2>3, JobStep DEF Executing
<1>3. CASE update_cache(t)
  <2>1. job[t].profile \in Profiles /\ pc[t] \in WithWallet
    BY <1>3, JobType DEF update_cache, WithWallet
  <2> QED BY <1>3, <2>1, JobDecide DEF update_cache
<1>4. CASE evaluate_and_execute(t)
  <2>1. /\ pc[t] = "act" /\ Executing(t)
        /\ job[t].wallet \in Wallet /\ job[t].profile \in Profiles
        /\ job[t].plan \subseteq executable_actions(job[t].profile)
    BY <1>4, JobType DEF evaluate_and_execute, WithWallet, Executing, IInv, JobOK
  <2>2. CASE job[t].plan = {}
    <3>1. pc'[t] \in {"idle", "next"}
      BY <1>4, <2>2 DEF evaluate_and_execute, Return, Goto, IInv, TypeOK
    <3> QED BY <3>1, JobKept DEF WithWallet, Executing
  <2>3. ASSUME NEW a \in job[t].plan,
               Assign(t, [job[t] EXCEPT !.timer = Ticks[a.delay]]), Goto(t, "sleep")
        PROVE  JobOK'
    <3>1. job'[t] = [job[t] EXCEPT !.timer = Ticks[a.delay]]
      BY <2>3 DEF Assign, IInv, TypeOK
    <3>2. /\ job'[t].wallet = job[t].wallet /\ job'[t].profile = job[t].profile
          /\ job'[t].plan = job[t].plan
      BY <3>1, JobType DEF Job
    <3> QED BY <2>1, <3>2, JobStep
  <2> QED BY <1>4, <2>2, <2>3 DEF evaluate_and_execute
<1>5. CASE execute_action(t)
  <2>1. /\ Executing(t)
        /\ job[t].wallet \in Wallet /\ job[t].profile \in Profiles
        /\ job[t].plan \subseteq executable_actions(job[t].profile)
    BY <1>5, JobType DEF execute_action, WithWallet, Executing, IInv, JobOK
  <2>2. PICK a \in job[t].plan : job'[t] = [job[t] EXCEPT !.plan = @ \ {a}]
    BY <1>5 DEF execute_action, Assign, IInv, TypeOK
  <2>3. /\ job'[t].wallet = job[t].wallet /\ job'[t].profile = job[t].profile
        /\ job'[t].plan \subseteq job[t].plan
    BY <2>2, JobType DEF Job
  <2> QED BY <2>1, <2>3, JobStep
<1> QED BY <1>1, <1>2, <1>3, <1>4, <1>5 DEF process_wallet

LEMMA JobCall ==
    ASSUME IInv, NEW t \in Task, Moves(t), NEW w \in Wallet,
           NEW label \in {"regActive", "unActive", "get", "clear"},
           NEW k, Call(t, label, w, k)
    PROVE  JobOK'
<1>1. job'[t] = [NoJob EXCEPT !.wallet = w, !.key = k]
  BY DEF Call, Assign, IInv, TypeOK
<1>2. job'[t].wallet = w
  BY <1>1 DEF NoJob
<1>3. pc'[t] = label
  BY DEF Call, Goto, IInv, TypeOK
<1> QED BY <1>2, <1>3, JobStep DEF Executing

LEMMA JobApi ==
    ASSUME IInv, NEW t \in Task, Moves(t),
           \/ register_wallet(t) \/ unregister_wallet(t)
           \/ get_wallet_risk(t) \/ force_risk_check(t)
    PROVE  JobOK'
<1>1. CASE \E w \in Wallet : \/ \E k \in Attestation : Call(t, "regActive", w, k)
                             \/ Call(t, "unActive", w, None)
                             \/ Call(t, "get", w, None)
                             \/ Call(t, "clear", w, None)
  BY <1>1, JobCall
<1>2. CASE pc[t] \in {"regActive", "unActive", "unKeys", "clear"}
  <2>1. UNCHANGED job /\ pc'[t] \in {"regKeys", "unKeys", "unCache", "lookup"}
    BY <1>2 DEF register_wallet, unregister_wallet, get_wallet_risk, force_risk_check,
                Call, Goto, IInv, TypeOK
  <2> QED BY <1>2, <2>1, JobKept DEF Executing, WithWallet
<1>3. CASE pc[t] \in {"regKeys", "unCache", "get"}
  <2>1. pc'[t] = "idle"
    BY <1>3 DEF register_wallet, unregister_wallet, get_wallet_risk, force_risk_check,
                Call, Return, Goto, IInv, TypeOK
  <2> QED BY <2>1, JobKept DEF Executing, WithWallet
<1>4. CASE pc[t] = "lookup"
  <2>1. CASE Return(t)
    <3>1. pc'[t] = "idle"
      BY <2>1 DEF Return, Goto, IInv, TypeOK
    <3> QED BY <3>1, JobKept DEF Executing, WithWallet
  <2>2. CASE ~Return(t)
    <3>1. /\ Assign(t, [job[t] EXCEPT !.key = wallet_attestations[job[t].wallet]])
          /\ Goto(t, "check")
      BY <1>4, <2>2 DEF register_wallet, unregister_wallet, get_wallet_risk,
                        force_risk_check, Call
    <3>2. job'[t].wallet = job[t].wallet
      BY <3>1, JobType DEF Assign, IInv, TypeOK, Job
    <3>3. pc'[t] = "check"
      BY <3>1 DEF Goto, IInv, TypeOK
    <3> QED BY <1>4, <3>2, <3>3, JobKept DEF Executing, WithWallet
  <2> QED BY <2>1, <2>2
<1> QED BY <1>1, <1>2, <1>3, <1>4
    DEF register_wallet, unregister_wallet, get_wallet_risk, force_risk_check

LEMMA JobTick ==
    ASSUME IInv, Tick
    PROVE  JobOK'
<1>1. ASSUME NEW t \in Task
      PROVE  /\ job'[t].wallet = job[t].wallet /\ job'[t].profile = job[t].profile
             /\ job'[t].plan = job[t].plan
  BY JobType DEF Tick, Job
<1> QED BY <1>1 DEF Tick, IInv, JobOK, Executing

-----------------------------------------------------------------------------
(* LockDiscipline.                                                         *)
LEMMA ExclusionStep ==
    ASSUME IInv, NEW t \in Task, Moves(t)
    PROVE  Exclusion'
<1>1. ASSUME NEW l \in Lock, Read(t, l) PROVE Exclusion'
  BY <1>1 DEF Read, CanRead, IInv, TypeOK, LockDiscipline, Exclusion
<1>2. ASSUME NEW l \in Lock, Write(t, l) PROVE Exclusion'
  <2>1. wr[l] = {} /\ rd[l] = {} /\ rd' = rd
        /\ wr' = [wr EXCEPT ![l] = @ \cup {t}]
    BY <1>2 DEF Write, CanWrite
  <2>2. wr'[l] = {t} /\ \A m \in Lock \ {l} : wr'[m] = wr[m]
    BY <2>1 DEF IInv, TypeOK
  <2>3. ASSUME NEW m \in Lock, NEW u \in wr'[m] PROVE rd'[m] = {} /\ wr'[m] = {u}
    BY <2>1, <2>2, <2>3 DEF IInv, LockDiscipline, Exclusion
  <2> QED BY <2>3 DEF Exclusion
<1>3. CASE Release(t)
  BY <1>3 DEF Release, IInv, TypeOK, LockDiscipline, Exclusion
<1>4. CASE UNCHANGED locks
  BY <1>4 DEF locks, IInv, LockDiscipline, Exclusion
<1> QED BY <1>1, <1>2, <1>3, <1>4 DEF Moves

LEMMA GuardsStep ==
    ASSUME IInv, NEW t \in Task, Moves(t), GuardsOf(t)'
    PROVE  LockDiscipline'
<1>1. ASSUME NEW u \in Task, u # t PROVE GuardsOf(u)'
  <2>1. pc'[u] = pc[u]
    BY <1>1, OthersStay DEF IInv
  <2>2. \A l \in Lock : /\ u \in rd'[l] <=> u \in rd[l]
                        /\ u \in wr'[l] <=> u \in wr[l]
    <3>1. CASE \E l \in Lock : Read(t, l)
      BY <1>1, <3>1 DEF Read, IInv, TypeOK
    <3>2. CASE \E l \in Lock : Write(t, l)
      BY <1>1, <3>2 DEF Write, IInv, TypeOK
    <3>3. CASE Release(t) \/ UNCHANGED locks
      BY <1>1, <3>3 DEF Release, locks
    <3> QED BY <3>1, <3>2, <3>3 DEF Moves
  <2>3. GuardsOf(u)
    BY DEF IInv, LockDiscipline, GuardsMatch
  <2> QED BY <2>1, <2>2, <2>3 DEF GuardsOf, Executing, Lock
<1> QED BY <1>1, ExclusionStep DEF LockDiscipline, GuardsMatch

(* A task that keeps its guards moves between two places with the same     *)
(* guards; a task that takes one had the others; one that drops them all   *)
(* ends where none is held.                                                *)
Free == PC \ {"snapKeys", "regKeys", "unKeys", "unCache", "act", "sleep"}

LEMMA GuardsKept ==
    ASSUME IInv, NEW t \in Task, Moves(t), UNCHANGED locks,
           \/ pc[t] \in Free /\ pc'[t] \in Free
           \/ pc[t] \in {"act", "sleep"} /\ pc'[t] \in {"act", "sleep"}
    PROVE  LockDiscipline'
<1>1. GuardsOf(t)
  BY DEF IInv, LockDiscipline, GuardsMatch
<1>2. GuardsOf(t)'
  BY <1>1 DEF GuardsOf, locks, Executing, Free, PC
<1> QED BY <1>2, GuardsStep

LEMMA GuardsDropped ==
    ASSUME IInv, NEW t \in Task, Moves(t), Release(t), pc'[t] \in Free
    PROVE  LockDiscipline'
<1>1. GuardsOf(t)'
  BY DEF GuardsOf, Release, Executing, Free, PC, Lock
<1> QED BY <1>1, GuardsStep

LEMMA GuardsTaken ==
    ASSUME IInv, NEW t \in Task, Moves(t), NEW l \in Lock,
           \/ /\ Read(t, l)
              /\ \/ l = "active_wallets" /\ pc[t] \in Free /\ pc'[t] = "snapKeys"
                 \/ l = "risk_cache" /\ pc[t] \in Free /\ pc'[t] = "act"
           \/ /\ Write(t, l)
              /\ \/ l = "active_wallets" /\ pc[t] \in Free /\ pc'[t] \in {"regKeys", "unKeys"}
                 \/ l = "wallet_attestations" /\ pc[t] = "unKeys" /\ pc'[t] = "unCache"
                 \/ l = "risk_cache" /\ pc[t] \in Free /\ pc'[t] = "act"
    PROVE  LockDiscipline'
<1>1. GuardsOf(t)
  BY DEF IInv, LockDiscipline, GuardsMatch
<1>2. GuardsOf(t)'
  BY <1>1 DEF GuardsOf, Read, Write, Executing, Free, PC, Lock, IInv, TypeOK
<1> QED BY <1>2, GuardsStep

LEMMA GuardsLoop ==
    ASSUME IInv, NEW t \in Loop, Moves(t),
           monitoring_loop(t) \/ snapshot_wallets(t) \/ run_monitoring_cycle(t)
    PROVE  LockDiscipline'
<1> t \in Task
  BY DEF Task
<1>1. CASE monitoring_loop(t)
  <2>1. pc[t] \in Free /\ pc'[t] \in Free /\ UNCHANGED locks
    BY <1>1 DEF monitoring_loop, Goto, IInv, TypeOK, Free, PC, locks
  <2> QED BY <2>1, GuardsKept
<1>2. CASE run_monitoring_cycle(t)
  <2>1. pc[t] \in Free
    BY <1>2 DEF run_monitoring_cycle, Free, PC
  <2>2. pc'[t] \in Free
    BY <1>2 DEF run_monitoring_cycle, Goto, IInv, TypeOK, Free, PC
  <2>3. UNCHANGED locks
    BY <1>2 DEF run_monitoring_cycle
  <2> QED BY <2>1, <2>2, <2>3, GuardsKept
<1>3. CASE snapshot_wallets(t) /\ pc[t] = "snapActive"
  <2>1. Read(t, "active_wallets") /\ pc'[t] = "snapKeys"
    BY <1>3 DEF snapshot_wallets, Goto, IInv, TypeOK
  <2> QED BY <1>3, <2>1, GuardsTaken DEF Lock, Free, PC
<1>4. CASE snapshot_wallets(t) /\ pc[t] = "snapKeys"
  <2>1. Release(t) /\ pc'[t] \in Free
    BY <1>4 DEF snapshot_wallets, Goto, IInv, TypeOK, Free, PC
  <2> QED BY <2>1, GuardsDropped
<1> QED BY <1>1, <1>2, <1>3, <1>4 DEF snapshot_wallets

LEMMA GuardsProcess ==
    ASSUME IInv, NEW t \in Task, Moves(t), process_wallet(t)
    PROVE  LockDiscipline'
<1>1. CASE check_cache(t)
  <2>1. pc[t] \in Free
    BY <1>1 DEF check_cache, Free, PC
  <2>2. CASE Hit(t)
    <3>1. Read(t, "risk_cache") /\ pc'[t] = "act"
      BY <1>1, <2>2 DEF check_cache, OnHit, Decide, Goto, IInv, TypeOK
    <3> QED BY <2>1, <3>1, GuardsTaken DEF Lock
  <2>3. CASE ~Hit(t)
    <3>1. UNCHANGED locks /\ pc'[t] \in Free
      BY <1>1, <2>3 DEF check_cache, OnMiss, Goto, IInv, TypeOK, Free, PC
    <3> QED BY <2>1, <3>1, GuardsKept
  <2> QED BY <2>2, <2>3
<1>2. CASE fetch_risk(t)
  <2>1. pc[t] \in Free /\ pc'[t] \in Free /\ UNCHANGED locks
    BY <1>2 DEF fetch_risk, Goto, IInv, TypeOK, Free, PC
  <2> QED BY <2>1, GuardsKept
<1>3. CASE update_cache(t)
  <2>1. pc[t] \in Free /\ pc'[t] = "act" /\ Write(t, "risk_cache")
    BY <1>3 DEF update_cache, Decide, Goto, IInv, TypeOK, Free, PC
  <2> QED BY <2>1, GuardsTaken DEF Lock
<1>4. CASE evaluate_and_execute(t)
  <2>1. CASE Release(t) /\ pc'[t] \in Free
    BY <2>1, GuardsDropped
  <2>2. CASE UNCHANGED locks /\ pc[t] = "act" /\ pc'[t] = "sleep"
    BY <2>2, GuardsKept
  <2> QED BY <1>4, <2>1, <2>2
      DEF evaluate_and_execute, Return, Goto, IInv, TypeOK, Free, PC
<1>5. CASE execute_action(t)
  <2>1. pc[t] = "sleep" /\ pc'[t] = "act" /\ UNCHANGED locks
    BY <1>5 DEF execute_action, Goto, IInv, TypeOK
  <2> QED BY <2>1, GuardsKept
<1> QED BY <1>1, <1>2, <1>3, <1>4, <1>5 DEF process_wallet

LEMMA GuardsApi ==
    ASSUME IInv, NEW t \in Task, Moves(t),
           \/ register_wallet(t) \/ unregister_wallet(t)
           \/ get_wallet_risk(t) \/ force_risk_check(t)
    PROVE  LockDiscipline'
<1>1. CASE pc[t] \in {"idle", "get", "clear", "lookup"}
  <2>1. UNCHANGED locks
    <3>1. CASE register_wallet(t)
      BY <1>1, <3>1 DEF register_wallet, Call
    <3>2. CASE unregister_wallet(t)
      BY <1>1, <3>2 DEF unregister_wallet, Call
    <3>3. CASE get_wallet_risk(t)
      BY <1>1, <3>3 DEF get_wallet_risk, Call
    <3>4. CASE force_risk_check(t)
      BY <1>1, <3>4 DEF force_risk_check, Call
    <3> QED BY <3>1, <3>2, <3>3, <3>4
  <2>2. pc'[t] \in {"idle", "regActive", "unActive", "get", "clear", "lookup", "check"}
    BY <1>1 DEF register_wallet, unregister_wallet, get_wallet_risk, force_risk_check,
                Call, Return, Goto, IInv, TypeOK
  <2>3. pc[t] \in Free /\ pc'[t] \in Free
    BY <1>1, <2>2 DEF Free, PC
  <2> QED BY <2>1, <2>3, GuardsKept
<1>2. CASE pc[t] \in {"regActive", "unActive"}
  <2>1. Write(t, "active_wallets") /\ pc'[t] \in {"regKeys", "unKeys"}
    BY <1>2 DEF register_wallet, unregister_wallet, get_wallet_risk, force_risk_check,
                Call, Goto, IInv, TypeOK
  <2>2. pc[t] \in Free /\ "active_wallets" \in Lock
    BY <1>2 DEF Free, PC, Lock
  <2> QED BY <2>1, <2>2, GuardsTaken
<1>3. CASE pc[t] = "unKeys"
  <2>1. Write(t, "wallet_attestations") /\ pc'[t] = "unCache"
    BY <1>3 DEF register_wallet, unregister_wallet, get_wallet_risk, force_risk_check,
                Call, Goto, IInv, TypeOK
  <2> QED BY <1>3, <2>1, GuardsTaken DEF Lock
<1>4. CASE pc[t] \in {"regKeys", "unCache"}
  <2>1. Release(t) /\ pc'[t] \in Free
    BY <1>4 DEF register_wallet, unregister_wallet, get_wallet_risk, force_risk_check,
                Call, Return, Goto, IInv, TypeOK, Free, PC
  <2> QED BY <2>1, GuardsDropped
<1> QED BY <1>1, <1>2, <1>3, <1>4
    DEF register_wallet, unregister_wallet, get_wallet_risk, force_risk_check, Call

-----------------------------------------------------------------------------
(* EnforcedProfileIsCached.  Whoever may write the cache finds nobody      *)
(* executing, since executing needs a guard on it.                         *)
LEMMA WriterAlone ==
    ASSUME IInv, NEW t \in Task, CanWrite(t, "risk_cache"), NEW u \in Task
    PROVE  ~Executing(u)
<1>1. u \notin rd["risk_cache"] \cup wr["risk_cache"]
  BY DEF CanWrite
<1> QED BY <1>1 DEF IInv, LockDiscipline, GuardsMatch, GuardsOf

LEMMA CachedStep ==
    ASSUME IInv, NEW t \in Task, Moves(t), EnforcesCached(t)',
           UNCHANGED risk_cache \/ CanWrite(t, "risk_cache")
    PROVE  EnforcedProfileIsCached'
<1>1. ASSUME NEW u \in Task, u # t PROVE EnforcesCached(u)'
  <2>1. pc'[u] = pc[u] /\ job'[u] = job[u]
    BY <1>1, OthersStay DEF IInv
  <2>2. CASE UNCHANGED risk_cache
    BY <2>1, <2>2 DEF IInv, EnforcedProfileIsCached, EnforcesCached, Executing
  <2>3. CASE CanWrite(t, "risk_cache")
    <3>1. ~Executing(u)
      BY <2>3, WriterAlone
    <3> QED BY <2>1, <3>1 DEF EnforcesCached, Executing
  <2> QED BY <2>2, <2>3
<1> QED BY <1>1 DEF EnforcedProfileIsCached

LEMMA CachedLoop ==
    ASSUME IInv, NEW t \in Loop, Moves(t),
           monitoring_loop(t) \/ snapshot_wallets(t) \/ run_monitoring_cycle(t)
    PROVE  EnforcedProfileIsCached'
<1> t \in Task
  BY DEF Task
<1>1. CASE monitoring_loop(t) \/ snapshot_wallets(t)
  <2>1. ~Executing(t)' /\ UNCHANGED risk_cache
    BY <1>1 DEF monitoring_loop, snapshot_wallets, Goto, IInv, TypeOK, Executing, tables
  <2> QED BY <2>1, CachedStep DEF EnforcesCached
<1>2. CASE run_monitoring_cycle(t)
  <2>1. ~Executing(t)'
    BY <1>2 DEF run_monitoring_cycle, Goto, IInv, TypeOK, Executing
  <2>2. UNCHANGED risk_cache
    BY <1>2 DEF run_monitoring_cycle, tables
  <2> QED BY <2>1, <2>2, CachedStep DEF EnforcesCached
<1> QED BY <1>1, <1>2

LEMMA CachedProcess ==
    ASSUME IInv, NEW t \in Task, Moves(t), process_wallet(t)
    PROVE  EnforcedProfileIsCached'
<1>1. CASE check_cache(t)
  <2>1. UNCHANGED risk_cache /\ pc[t] = "check" /\ pc[t] \in WithWallet
    BY <1>1 DEF check_cache, tables, WithWallet
  <2>2. CASE Hit(t)
    <3>1. cached(t) # None /\ cached(t).profile \in Profiles
      BY <2>1, <2>2, CachedType DEF Hit, Entry
    <3>2. Decide(t, cached(t).profile, cached(t).since)
      BY <1>1, <2>2 DEF check_cache, OnHit
    <3>3. job'[t].profile = cached(t).profile /\ job'[t].wallet = job[t].wallet
      BY <2>1, <3>1, <3>2, JobDecide
    <3>4. EnforcesCached(t)'
      BY <2>1, <3>1, <3>3 DEF EnforcesCached, cached
    <3> QED BY <2>1, <3>4, CachedStep
  <2>3. CASE ~Hit(t)
    <3>1. ~Executing(t)'
      BY <1>1, <2>3 DEF check_cache, OnMiss, Goto, IInv, TypeOK, Executing
    <3> QED BY <2>1, <3>1, CachedStep DEF EnforcesCached
  <2> QED BY <2>2, <2>3
<1>2. CASE fetch_risk(t)
  <2>1. ~Executing(t)' /\ UNCHANGED risk_cache
    BY <1>2 DEF fetch_risk, Goto, IInv, TypeOK, Executing, tables
  <2> QED BY <2>1, CachedStep DEF EnforcesCached
<1>3. CASE update_cache(t)
  <2>1. /\ CanWrite(t, "risk_cache") /\ pc[t] \in WithWallet
        /\ job[t].profile \in Profiles /\ job[t].wallet \in Wallet
    BY <1>3, JobType DEF update_cache, Write, WithWallet
  <2>2. job'[t].profile = job[t].profile /\ job'[t].wallet = job[t].wallet
    BY <1>3, <2>1, JobDecide DEF update_cache
  <2> DEFINE entry == [profile |-> job[t].profile, age |-> 0, since |-> job[t].since]
  <2>3. risk_cache'[job[t].wallet] = entry
    BY <1>3, <2>1 DEF update_cache, insert, IInv, TypeOK
  <2>4. entry # None
    <3>1. job[t].since \in 0..MaxAge /\ 0 \in 0..TTL
      BY JobType, MonitorAssumption DEF Job
    <3>2. entry \in [profile : Profiles, age : 0..TTL, since : 0..MaxAge]
      BY <2>1, <3>1
    <3> QED BY <3>2, MonitorAssumption
  <2>5. EnforcesCached(t)'
    BY <2>2, <2>3, <2>4 DEF EnforcesCached
  <2> QED BY <2>1, <2>5, CachedStep
<1>4. CASE evaluate_and_execute(t)
  <2>1. UNCHANGED risk_cache /\ EnforcesCached(t) /\ Executing(t)
    BY <1>4 DEF evaluate_and_execute, tables, Executing, IInv, EnforcedProfileIsCached
  <2>2. CASE job[t].plan = {}
    <3>1. ~Executing(t)'
      BY <1>4, <2>2 DEF evaluate_and_execute, Return, Goto, IInv, TypeOK, Executing
    <3> QED BY <2>1, <3>1, CachedStep DEF EnforcesCached
  <2>3. ASSUME NEW a \in job[t].plan,
               Assign(t, [job[t] EXCEPT !.timer = Ticks[a.delay]])
        PROVE  EnforcedProfileIsCached'
    <3>1. job'[t] = [job[t] EXCEPT !.timer = Ticks[a.delay]]
      BY <2>3 DEF Assign, IInv, TypeOK
    <3>2. job'[t].wallet = job[t].wallet /\ job'[t].profile = job[t].profile
      BY <3>1, JobType DEF Job
    <3> QED BY <2>1, <3>2, CachedStep DEF EnforcesCached
  <2> QED BY <1>4, <2>2, <2>3 DEF evaluate_and_execute
<1>5. CASE execute_action(t)
  <2>1. UNCHANGED risk_cache /\ EnforcesCached(t) /\ Executing(t)
    BY <1>5 DEF execute_action, tables, Executing, IInv, EnforcedProfileIsCached
  <2>2. PICK a \in job[t].plan : job'[t] = [job[t] EXCEPT !.plan = @ \ {a}]
    BY <1>5 DEF execute_action, Assign, IInv, TypeOK
  <2>3. job'[t].wallet = job[t].wallet /\ job'[t].profile = job[t].profile
    BY <2>2, JobType DEF Job
  <2> QED BY <2>1, <2>3, CachedStep DEF EnforcesCached
<1> QED BY <1>1, <1>2, <1>3, <1>4, <1>5 DEF process_wallet

LEMMA CachedApi ==
    ASSUME IInv, NEW t \in Task, Moves(t),
           \/ register_wallet(t) \/ unregister_wallet(t)
           \/ get_wallet_risk(t) \/ force_risk_check(t)
    PROVE  EnforcedProfileIsCached'
<1>1. ~Executing(t)'
  BY DEF register_wallet, unregister_wallet, get_wallet_risk, force_risk_check,
         Call, Return, Goto, IInv, TypeOK, Executing
<1>2. UNCHANGED risk_cache \/ CanWrite(t, "risk_cache")
  BY DEF register_wallet, unregister_wallet, get_wallet_risk, force_risk_check,
         Call, tables
<1> QED BY <1>1, <1>2, CachedStep DEF EnforcesCached

LEMMA CachedTick ==
    ASSUME IInv, Tick
    PROVE  EnforcedProfileIsCached'
<1>1. ASSUME NEW t \in Task, Executing(t)' PROVE EnforcesCached(t)'
  <2>1. Executing(t) /\ job[t].wallet \in Wallet
    BY <1>1, JobType DEF Tick, Executing, WithWallet
  <2> DEFINE w == job[t].wallet
  <2>2. risk_cache[w] # None /\ risk_cache[w].profile = job[t].profile
    BY <2>1 DEF IInv, EnforcedProfileIsCached, EnforcesCached
  <2>3. job'[t].wallet = w /\ job'[t].profile = job[t].profile
    BY JobType DEF Tick, Job
  <2>4. risk_cache'[w].profile = risk_cache[w].profile
    BY <2>1, <2>2 DEF Tick
  <2>5. risk_cache'[w] # None
    <3>1. TypeOK'
      BY TypeTick
    <3>2. risk_cache'[w] = [profile |-> risk_cache[w].profile,
                            age     |-> Older(risk_cache[w].age, TTL),
                            since   |-> Older(risk_cache[w].since, MaxAge)]
      BY <2>1, <2>2 DEF Tick
    <3>3. risk_cache[w] \in Entry
      BY <2>1, <2>2 DEF IInv, TypeOK
    <3>4. risk_cache'[w] \in Entry
      BY <3>2, <3>3, MonitorAssumption DEF Entry, Older
    <3> QED BY <3>4, MonitorAssumption DEF Entry
  <2> QED BY <2>2, <2>3, <2>4, <2>5 DEF EnforcesCached
<1> QED BY <1>1 DEF EnforcedProfileIsCached, EnforcesCached

-----------------------------------------------------------------------------
(* The invariant.                                                          *)
LEMMA IInvInit == Init => IInv
<1> SUFFICES ASSUME Init PROVE IInv
  OBVIOUS
<1>1. \A t \in Task : pc[t] \in {"idle", "dead"}
  BY DEF Init
<1>2. JobOK /\ EnforcedProfileIsCached
  BY <1>1 DEF JobOK, WithWallet, Executing, EnforcedProfileIsCached, EnforcesCached
<1>3. LockDiscipline
  BY <1>1 DEF Init, LockDiscipline, GuardsMatch, GuardsOf, Exclusion, Executing, Lock
<1> QED BY <1>2, <1>3, TypeInit DEF IInv

LEMMA IInvStill ==
    ASSUME IInv, UNCHANGED vars
    PROVE  IInv'
<1>1. JobOK'
  BY DEF vars, IInv, JobOK, Executing
<1>2. LockDiscipline'
  BY DEF vars, locks, IInv, LockDiscipline, GuardsMatch, GuardsOf, Exclusion, Executing
<1>3. EnforcedProfileIsCached'
  BY DEF vars, tables, IInv, EnforcedProfileIsCached, EnforcesCached, Executing
<1> QED BY <1>1, <1>2, <1>3, TypeNext DEF IInv

LEMMA IInvNext == IInv /\ [Next]_vars => IInv'
<1> SUFFICES ASSUME IInv, [Next]_vars PROVE IInv'
  OBVIOUS
<1> USE TypeNext
<1>1. ASSUME NEW t \in Loop, LoopStep(t) PROVE IInv'
  <2>1. t \in Task /\ Moves(t)
    BY <1>1, StepMoves DEF Task
  <2> QED BY <1>1, <2>1, JobLoop, JobProcess, GuardsLoop, GuardsProcess,
             CachedLoop, CachedProcess DEF LoopStep, IInv
<1>2. ASSUME NEW t \in Caller, CallerStep(t) PROVE IInv'
  <2>1. t \in Task /\ Moves(t)
    BY <1>2, StepMoves DEF Task
  <2> QED BY <1>2, <2>1, JobApi, JobProcess, GuardsApi, GuardsProcess,
             CachedApi, CachedProcess DEF CallerStep, IInv
<1>3. CASE stop
  <2>1. JobOK'
    BY <1>3 DEF stop, IInv, JobOK, Executing
  <2>2. LockDiscipline'
    BY <1>3 DEF stop, locks, IInv, LockDiscipline, GuardsMatch, GuardsOf, Exclusion,
                Executing
  <2>3. EnforcedProfileIsCached'
    BY <1>3 DEF stop, tables, IInv, EnforcedProfileIsCached, EnforcesCached, Executing
  <2> QED BY <2>1, <2>2, <2>3 DEF IInv
<1>4. ASSUME NEW t \in Loop, pc[t] = "dead", Goto(t, "test"),
             UNCHANGED <<tables, risk_status, locks, job>>
      PROVE  IInv'
  <2>1. t \in Task /\ Moves(t)
    BY <1>4 DEF Moves, PC, Task
  <2>2. pc'[t] = "test"
    BY <1>4, <2>1 DEF Goto, IInv, TypeOK
  <2>3. JobOK'
    BY <2>1, <2>2, JobKept DEF WithWallet, Executing
  <2>4. LockDiscipline'
    BY <1>4, <2>1, <2>2, GuardsKept DEF Free, PC
  <2>5. EnforcedProfileIsCached'
    BY <1>4, <2>1, <2>2, CachedStep DEF EnforcesCached, Executing, tables
  <2> QED BY <2>3, <2>4, <2>5 DEF IInv
<1>5. CASE Tick
  <2>1. LockDiscipline'
    BY <1>5 DEF Tick, locks, IInv, LockDiscipline, GuardsMatch, GuardsOf, Exclusion,
                Executing
  <2> QED BY <1>5, <2>1, JobTick, CachedTick DEF IInv
<1>6. CASE start
  BY <1>4, <1>6, IInvStill DEF start
<1> QED BY <1>1, <1>2, <1>3, <1>5, <1>6, IInvStill DEF Next

(* In every reachable state of any number of loops and callers types, locals *)
(* and guards are those of each task's place in the code, and the profile    *)
(* that is being enforced is the cached one.                                 *)
THEOREM Invariance == Spec => []IInv
BY IInvInit, IInvNext, PTL DEF Spec

(* The variables of the service keep their types.                          *)
THEOREM TypeCorrect == Spec => []TypeOK
<1>1. IInv => TypeOK
  BY DEF IInv
<1> QED BY <1>1, Invariance, PTL

(* Guards are where the code's scopes put them, and a writer is alone.     *)
THEOREM LocksExclude == Spec => []LockDiscipline
<1>1. IInv => LockDiscipline
  BY DEF IInv
<1> QED BY <1>1, Invariance, PTL

(* No entry is replaced or removed while its profile is being enforced.    *)
THEOREM EnforcedIsCached == Spec => []EnforcedProfileIsCached
<1>1. IInv => EnforcedProfileIsCached
  BY DEF IInv
<1> QED BY <1>1, Invariance, PTL

(* The locks are taken in one order, so no cycle of waiting tasks arises   *)
(* from them.                                                              *)
THEOREM LocksOrdered == Spec => []LockOrder
<1>1. IInv => LockOrder
  BY DEF IInv, LockDiscipline, GuardsMatch, GuardsOf, LockOrder, Waiting, Lock, Executing
<1> QED BY <1>1, Invariance, PTL

-----------------------------------------------------------------------------
(* EnforcementJustified.  Which actions the service executes by itself:    *)
(* the policies that flag or revoke fix the level, no policy suspends      *)
(* without an approval, and the anomaly policy needs an age and a volume   *)
(* that are never passed.                                                  *)
LEMMA ExecutableFacts ==
    ASSUME NEW p, NEW a \in executable_actions(p)
    PROVE  /\ a.type # "SuspendAttestation"
           /\ a.type = "FlagAttestation" => level(p) = "Medium"
           /\ a.type = "RevokeAttestation" =>
                 /\ level(p) = "Critical"
                 /\ DataSource \subseteq p.sources
                 /\ p.categories \cap {"Sanctions", "IllicitActivity"} # {}
<1>1. PICK q \in default_policies :
         /\ a \in q.actions /\ ~a.approval
         /\ matches_policy(q, p, {}, {})
  BY DEF executable_actions, evaluate_policy
<1>2. CASE q = critical_risk
  <2>1. /\ "Critical" \in q.level
        /\ q.categories = {"Sanctions", "IllicitActivity"}
        /\ q.sources = DataSource
        /\ a.type \in {"RevokeAttestation", "NotifyComplianceTeam"}
    BY <1>1, <1>2 DEF critical_risk, Act, DataSource
  <2>2. /\ level(p) = "Critical"
        /\ q.categories \cap p.categories # {}
        /\ q.sources \subseteq p.sources
    BY <1>1, <2>1 DEF matches_policy, has_sources
  <2> QED BY <2>1, <2>2
<1>3. CASE q = high_risk
  BY <1>1, <1>3 DEF high_risk, Act
<1>4. CASE q = medium_risk
  <2>1. "Medium" \in q.level /\ a.type \in {"FlagAttestation", "NotifyUser"}
    BY <1>1, <1>4 DEF medium_risk, Act
  <2> QED BY <1>1, <2>1 DEF matches_policy
<1>5. CASE q = sanctions_exposure
  BY <1>1, <1>5 DEF sanctions_exposure, Act
<1>6. CASE q = behavioral_anomaly
  <2>1. q.age = {30}
    BY <1>6 DEF behavioral_anomaly
  <2> QED BY <1>1, <2>1 DEF matches_policy, meets
<1> QED BY <1>1, <1>2, <1>3, <1>4, <1>5, <1>6 DEF default_policies

LEMMA ExecuteJustified ==
    ASSUME IInv, NEW t \in Task, execute_action(t),
           NEW k \in Attestation, risk_status'[k] # risk_status[k]
    PROVE  /\ pc[t] = "sleep" /\ job[t].key = k
           /\ Justified(k, job[t].profile, risk_status'[k])
<1>1. PICK a \in job[t].plan : submit(t, a)
  BY DEF execute_action
<1>2. Executing(t) /\ pc[t] = "sleep"
  BY DEF execute_action, Executing
<1>3. a \in executable_actions(job[t].profile) /\ job[t].profile \in Profiles
  BY <1>2 DEF IInv, JobOK
<1>4. job[t].profile.sources \subseteq DataSource
  BY <1>3, MonitorAssumption DEF Profile
<1>5. a.type \in {"FlagAttestation", "RevokeAttestation"}
      /\ Chain!SetStatus(job[t].key, EngineKey,
                         IF a.type = "FlagAttestation" THEN "Flagged" ELSE "Revoked")
  BY <1>1, <1>3, ExecutableFacts
  DEF submit, Chain!flag_attestation, Chain!suspend_attestation, Chain!revoke_attestation
<1>6. /\ issuer[job[t].key] = EngineKey
      /\ job[t].key = k
      /\ risk_status'[k] = IF a.type = "FlagAttestation" THEN "Flagged" ELSE "Revoked"
  BY <1>5 DEF Chain!SetStatus, IInv, TypeOK, Chain!TypeOK
<1> QED BY <1>2, <1>3, <1>4, <1>5, <1>6, ExecutableFacts DEF Justified

LEMMA StepJustified ==
    ASSUME IInv, [Next]_vars, NEW k \in Attestation, risk_status'[k] # risk_status[k]
    PROVE  \E t \in Task : /\ pc[t] = "sleep" /\ job[t].key = k
                           /\ Justified(k, job[t].profile, risk_status'[k])
<1>1. ASSUME NEW t \in Task, process_wallet(t)
      PROVE  execute_action(t)
  BY <1>1 DEF process_wallet, check_cache, fetch_risk, update_cache, evaluate_and_execute
<1>2. ASSUME NEW t \in Loop, LoopStep(t)
      PROVE  t \in Task /\ execute_action(t)
  BY <1>1, <1>2 DEF LoopStep, monitoring_loop, snapshot_wallets, run_monitoring_cycle, Task
<1>3. ASSUME NEW t \in Caller, CallerStep(t)
      PROVE  t \in Task /\ execute_action(t)
  BY <1>1, <1>3 DEF CallerStep, register_wallet, unregister_wallet, get_wallet_risk,
                    force_risk_check, Call, Task
<1>4. ~start /\ ~stop /\ ~Tick /\ ~UNCHANGED vars
  BY DEF start, stop, Tick, vars
<1> QED BY <1>2, <1>3, <1>4, ExecuteJustified DEF Next

(* Whatever the service writes to an account was planned for the profile   *)
(* of the task that wrote it, and the policies justify it.                 *)
THEOREM Enforcement == Spec => EnforcementJustified
<1>1. IInv /\ [Next]_vars =>
         [\A a \in Attestation : risk_status'[a] # risk_status[a] =>
             \E t \in Task :
                /\ pc[t] = "sleep" /\ job[t].key = a
                /\ Justified(a, job[t].profile, risk_status'[a])]_vars
  BY StepJustified
<1> QED BY <1>1, Invariance, PTL DEF Spec, EnforcementJustified

=============================================================================
