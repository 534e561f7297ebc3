------------------- MODULE AttestationConsumer_proofs -------------------
(***************************************************************************)
(* Proofs about AttestationConsumer: the cache and the calls in flight are *)
(* honest about the past, and the time a stale allow survives is bounded.  *)
(***************************************************************************)
EXTENDS AttestationConsumer, TLAPS

(* What one step of the clock does to an age.                              *)
LEMMA OlderType ==
    ASSUME NEW cap \in Nat, NEW n \in 0..cap
    PROVE  /\ Older(n, cap) \in 0..cap
           /\ n <= Older(n, cap)
           /\ Older(n, cap) <= n + 1
           /\ Older(n, cap) < cap => Older(n, cap) = n + 1
  BY DEF Older

(* Ages that are ordered stay ordered.                                     *)
LEMMA OlderMonotone ==
    ASSUME NEW cap \in Nat, NEW m \in 0..cap, NEW n \in 0..cap, m <= n
    PROVE  Older(m, cap) <= Older(n, cap)
  BY DEF Older

LEMMA NoEntryType == NoEntry \in Entry
  BY ConsumerAssumption DEF NoEntry, Entry

LEMMA NoJobType == NoJob \in Job
  BY ConsumerAssumption DEF NoJob, Job

-----------------------------------------------------------------------------
LEMMA InitIInv == Init => IInv
  <1> SUFFICES ASSUME Init PROVE IInv
    OBVIOUS
  <1> USE DEF Init
  <1>1. TypeOK
    <2>1. lost \in [Key -> 0..MaxAge]
      BY ConsumerAssumption
    <2>2. cache \in [DOMAIN cache -> Entry] /\ DOMAIN cache = {}
      OBVIOUS
    <2>3. job \in [Task -> Job]
      BY NoJobType
    <2>4. pc \in [Task -> PC]
      BY DEF PC
    <2> QED
      BY <2>1, <2>2, <2>3, <2>4 DEF TypeOK
  <1>2. \A t \in Task : pc[t] = "idle"
    OBVIOUS
  <1>3. Arguments /\ HonestCalls
    BY <1>2 DEF Arguments, HonestCalls, Task
  <1>4. HonestCache /\ AgeOfData
    BY DEF HonestCache, AgeOfData
  <1> QED
    BY <1>1, <1>3, <1>4 DEF IInv, Honest
-----------------------------------------------------------------------------
(* A step that leaves the chain, the cache and the results in flight as    *)
(* they are leaves everything said about them as it is.                    *)
Quiet ==
    /\ UNCHANGED <<satisfies, lost, cache>>
    /\ \A c \in Caller : pc'[c] = "set" => pc[c] = "set" /\ job'[c] = job[c]

LEMMA QuietStep == Honest /\ AgeOfData /\ Quiet => Honest' /\ AgeOfData'
  BY DEF Honest, HonestCache, HonestCalls, AgeOfData, Quiet, Fresh

(* What Goto and Assign do to the types.                                   *)
LEMMA Moves ==
    ASSUME TypeOK, NEW t \in Task, NEW label \in PC, NEW j \in Job,
           Goto(t, label), Assign(t, j)
    PROVE  /\ pc' \in [Task -> PC] /\ job' \in [Task -> Job]
           /\ pc'[t] = label /\ job'[t] = j
           /\ \A u \in Task \ {t} : pc'[u] = pc[u] /\ job'[u] = job[u]
  BY DEF TypeOK, Goto, Assign

LEMMA Returns ==
    ASSUME TypeOK, NEW t \in Task, Return(t)
    PROVE  /\ pc' \in [Task -> PC] /\ job' \in [Task -> Job]
           /\ pc'[t] = "idle"
           /\ \A u \in Task \ {t} : pc'[u] = pc[u] /\ job'[u] = job[u]
  BY Moves, NoJobType DEF Return, PC

(* A waiter leaves the queue, a waiter joins it.                           *)
LEMMA QueueType ==
    ASSUME TypeOK, NEW h \in Handler
    PROVE  /\ Append(queue, h) \in Seq(Handler)
           /\ IsFirst(h) => Tail(queue) \in Seq(Handler)
  BY DEF TypeOK, IsFirst

-----------------------------------------------------------------------------
LEMMA ChainStep ==
    IInv /\ (Issue \/ Revoke \/ Expire) => IInv'
  <1> SUFFICES ASSUME IInv, Issue \/ Revoke \/ Expire PROVE IInv'
    OBVIOUS
  <1> USE DEF IInv
  <1>1. CASE Issue
    <2>1. PICK w \in Wallet, R \in SUBSET Requirement \ {{}} :
             /\ satisfies' = [satisfies EXCEPT ![w] = @ \cup R]
             /\ lost' = [k \in Key |-> IF k[1] = w /\ k[2] \in R
                                      THEN MaxAge ELSE lost[k]]
             /\ updates' = updates \cup {[wallet |-> w, type |-> "Issued"]}
             /\ UNCHANGED <<cache, subscribers, readers, queue, pc, job>>
      BY <1>1 DEF Issue
    <2>2. satisfies' \in [Wallet -> SUBSET Requirement]
      BY <2>1 DEF TypeOK
    <2>3. lost' \in [Key -> 0..MaxAge]
      BY <2>1, ConsumerAssumption DEF TypeOK
    <2>4. updates' \subseteq Update
      BY <2>1 DEF TypeOK, Update, Type
    <2>5. TypeOK'
      BY <2>1, <2>2, <2>3, <2>4 DEF TypeOK
    <2>6. \A k \in Key : k[2] \notin satisfies'[k[1]] =>
             k[2] \notin satisfies[k[1]] /\ lost'[k] = lost[k]
      BY <2>1 DEF TypeOK, Key
    <2>7. Honest'
      BY <2>1, <2>6 DEF Honest, HonestCache, HonestCalls, TypeOK, Arguments, Task
    <2> QED
      BY <2>1, <2>5, <2>7 DEF Arguments, AgeOfData, Fresh
  <1>2. ASSUME NEW type \in {"Revoked", "Expired"}, Withdraw(type) PROVE IInv'
    <2>1. PICK w \in Wallet :
             /\ satisfies' = [satisfies EXCEPT ![w] = {}]
             /\ lost' = [k \in Key |-> IF k[1] = w /\ k[2] \in satisfies[w]
                                      THEN 0 ELSE lost[k]]
             /\ updates' = updates \cup {[wallet |-> w, type |-> type]}
             /\ UNCHANGED <<cache, subscribers, readers, queue, pc, job>>
      BY <1>2 DEF Withdraw
    <2>2. satisfies' \in [Wallet -> SUBSET Requirement]
      BY <2>1 DEF TypeOK
    <2>3. lost' \in [Key -> 0..MaxAge]
      BY <2>1, ConsumerAssumption DEF TypeOK
    <2>4. updates' \subseteq Update
      BY <2>1 DEF TypeOK, Update, Type
    <2>5. TypeOK'
      BY <2>1, <2>2, <2>3, <2>4 DEF TypeOK
    <2>6. \A k \in Key :
             lost'[k] = 0 \/ (lost'[k] = lost[k] /\ k[2] \notin satisfies[k[1]])
                         \/ k[2] \in satisfies'[k[1]]
      BY <2>1 DEF TypeOK, Key
    <2>7. HonestCache'
      <3> SUFFICES ASSUME NEW k \in DOMAIN cache, cache[k].allowed,
                          k[2] \notin satisfies'[k[1]]
                   PROVE  lost'[k] <= cache[k].since
        BY <2>1 DEF HonestCache
      <3>1. k \in Key /\ cache[k].since \in 0..MaxAge
        BY DEF TypeOK, Entry
      <3> QED
        BY <2>6, <3>1, ConsumerAssumption DEF Honest, HonestCache
    <2>8. HonestCalls'
      <3> SUFFICES ASSUME NEW c \in Caller, pc[c] = "set", job[c].allowed,
                          job[c].key[2] \notin satisfies'[job[c].key[1]]
                   PROVE  lost'[job[c].key] <= job[c].since
        BY <2>1 DEF HonestCalls
      <3>1. job[c].key \in Key /\ job[c].since \in 0..MaxAge
        BY DEF TypeOK, Job, Arguments, Task
      <3> QED
        BY <2>6, <3>1, ConsumerAssumption DEF Honest, HonestCalls
    <2> QED
      BY <2>1, <2>5, <2>7, <2>8 DEF Arguments, AgeOfData, Fresh, Honest
  <1> QED
    BY <1>1, <1>2 DEF Revoke, Expire

LEMMA TickStep == IInv /\ Tick => IInv'
  <1> SUFFICES ASSUME IInv, Tick PROVE IInv'
    OBVIOUS
  <1> USE DEF IInv
  <1>1. /\ DOMAIN cache' = DOMAIN cache
        /\ DOMAIN cache \subseteq Key
        /\ \A k \in DOMAIN cache :
              /\ cache[k] \in Entry
              /\ cache'[k] = [cache[k] EXCEPT !.age = Older(@, TTL),
                                             !.since = Older(@, MaxAge)]
    BY DEF Tick, TypeOK
  <1>2. ASSUME NEW k \in DOMAIN cache
        PROVE  /\ cache'[k] \in Entry
               /\ cache'[k].allowed = cache[k].allowed
               /\ cache'[k].flight = cache[k].flight
               /\ cache'[k].age = Older(cache[k].age, TTL)
               /\ cache'[k].since = Older(cache[k].since, MaxAge)
    <2>1. Older(cache[k].age, TTL) \in 0..TTL /\ Older(cache[k].since, MaxAge) \in 0..MaxAge
      BY <1>1, <1>2, OlderType, ConsumerAssumption DEF Entry
    <2> QED
      BY <1>1, <1>2, <2>1 DEF Entry
  <1>3. ASSUME NEW t \in Task
        PROVE  /\ job'[t] \in Job
               /\ job'[t].key = job[t].key
               /\ job'[t].update = job[t].update
               /\ job'[t].allowed = job[t].allowed
               /\ pc[t] = "set" => job'[t].since = Older(job[t].since, MaxAge)
    <2>1. job[t] \in Job /\ Older(job[t].since, MaxAge) \in 0..MaxAge
      BY OlderType, ConsumerAssumption DEF TypeOK, Job
    <2>2. job'[t] = [job[t] EXCEPT !.since = IF pc[t] = "set" THEN Older(job[t].since, MaxAge)
                                              ELSE job[t].since]
      BY DEF Tick
    <2> QED
      BY <2>1, <2>2 DEF Job
  <1>4. ASSUME NEW k \in Key
        PROVE  /\ lost'[k] \in 0..MaxAge
               /\ k[2] \notin satisfies[k[1]] => lost'[k] = Older(lost[k], MaxAge)
    BY OlderType, ConsumerAssumption DEF Tick, TypeOK
  <1>5. TypeOK'
    <2>1. cache' \in [DOMAIN cache' -> Entry] /\ DOMAIN cache' \subseteq Key
      <3>1. cache' = [k \in DOMAIN cache |-> cache'[k]]
        BY DEF Tick
      <3> QED
        BY <1>1, <1>2, <3>1
    <2>2. job' \in [Task -> Job]
      <3>1. job' = [t \in Task |-> job'[t]]
        BY DEF Tick
      <3> QED
        BY <1>3, <3>1
    <2>3. lost' \in [Key -> 0..MaxAge]
      <3>1. lost' = [k \in Key |-> lost'[k]]
        BY DEF Tick
      <3> QED
        BY <1>4, <3>1
    <2> QED
      BY <2>1, <2>2, <2>3 DEF Tick, TypeOK
  <1>6. HonestCache'
    <2> SUFFICES ASSUME NEW k \in DOMAIN cache, cache[k].allowed, k[2] \notin satisfies[k[1]]
                 PROVE  lost'[k] <= cache'[k].since
      BY <1>1, <1>2 DEF HonestCache, Tick
    <2>1. lost[k] <= cache[k].since /\ lost[k] \in 0..MaxAge /\ cache[k].since \in 0..MaxAge
      BY <1>1 DEF Honest, HonestCache, TypeOK, Entry
    <2>2. Older(lost[k], MaxAge) <= Older(cache[k].since, MaxAge)
      BY <2>1, OlderMonotone, ConsumerAssumption
    <2> QED
      BY <1>1, <1>2, <1>4, <2>2
  <1>7. HonestCalls'
    <2> SUFFICES ASSUME NEW c \in Caller, pc[c] = "set", job[c].allowed,
                        job[c].key[2] \notin satisfies[job[c].key[1]]
                 PROVE  lost'[job[c].key] <= job'[c].since
      BY <1>3 DEF HonestCalls, Tick, Task
    <2>1. /\ job[c].key \in Key
          /\ lost[job[c].key] <= job[c].since
          /\ lost[job[c].key] \in 0..MaxAge
          /\ job[c].since \in 0..MaxAge
      BY DEF Honest, HonestCalls, TypeOK, Job, Arguments, Task
    <2>2. Older(lost[job[c].key], MaxAge) <= Older(job[c].since, MaxAge)
      BY <2>1, OlderMonotone, ConsumerAssumption
    <2> QED
      BY <1>3, <1>4, <2>1, <2>2 DEF Task
  <1>8. AgeOfData'
    <2> SUFFICES ASSUME NEW k \in DOMAIN cache, cache'[k].age < TTL
                 PROVE  cache'[k].since <= cache'[k].age + cache'[k].flight
      BY <1>1 DEF AgeOfData, Fresh
    <2>1. /\ cache[k].age \in 0..TTL
          /\ cache[k].since \in 0..MaxAge
          /\ cache[k].flight \in 0..MaxAge
      BY <1>1 DEF Entry
    <2>2. cache'[k].age = cache[k].age + 1 /\ cache[k].age < TTL
      BY <1>2, <2>1, OlderType, ConsumerAssumption
    <2>3. cache'[k].since <= cache[k].since + 1
      BY <1>2, <2>1, OlderType, ConsumerAssumption
    <2>4. cache[k].since <= cache[k].age + cache[k].flight
      BY <2>2 DEF AgeOfData, Fresh
    <2>5. cache'[k].since \in 0..MaxAge /\ cache'[k].flight = cache[k].flight
      BY <1>2 DEF Entry
    <2> QED
      BY <2>1, <2>2, <2>3, <2>4, <2>5, ConsumerAssumption
  <1>9. Arguments'
    BY <1>3 DEF Arguments, Tick
  <1> QED
    BY <1>5, <1>6, <1>7, <1>8, <1>9 DEF Honest

-----------------------------------------------------------------------------
(* verify_wallet_access.                                                   *)
LEMMA CacheTypes ==
    ASSUME TypeOK, NEW k \in DOMAIN cache
    PROVE  /\ k \in Key
           /\ cache[k] \in Entry
  BY DEF TypeOK

LEMMA LocalStep ==
    ASSUME TypeOK, Arguments, NEW t \in Task, NEW label \in PC, NEW j \in Job,
           Goto(t, label), Assign(t, j),
           label \in {"get", "fetch", "set"} => j.key \in Key,
           label \in {"notify", "send", "cache"} => j.update \in Update
    PROVE  Arguments'
  BY Moves DEF Arguments

LEMMA ReturnStep ==
    ASSUME TypeOK, Arguments, NEW t \in Task, Return(t)
    PROVE  Arguments'
  BY Returns DEF Arguments

(* The locals after the attestations were read.                            *)
LEMMA ReadType ==
    ASSUME NEW i \in Job, NEW ok \in BOOLEAN
    PROVE  LET j == [i EXCEPT !.allowed = ok, !.since = 0]
           IN  /\ j \in Job
               /\ j.key = i.key
               /\ j.allowed = ok
               /\ j.since = 0
  <1> DEFINE j == [i EXCEPT !.allowed = ok, !.since = 0]
  <1>1. 0 \in 0..MaxAge
    BY ConsumerAssumption
  <1>2. CASE ok = TRUE
    BY <1>1, <1>2 DEF Job
  <1>3. CASE ok = FALSE
    BY <1>1, <1>3 DEF Job
  <1> QED
    BY <1>2, <1>3

LEMMA CallStep ==
    ASSUME IInv, NEW c \in Caller, verify_wallet_access(c)
    PROVE  IInv'
  <1> USE DEF IInv
  <1>0. c \in Task /\ c \notin Handler /\ job[c] \in Job /\ pc[c] \in PC
    BY ConsumerAssumption DEF Task, TypeOK
  <1>1. CASE /\ pc[c] = "idle"
             /\ \E k \in Key : Assign(c, [NoJob EXCEPT !.key = k])
             /\ Goto(c, "get")
             /\ UNCHANGED <<chain, cache, subscribers, readers, queue>>
    <2>1. PICK k \in Key : Assign(c, [NoJob EXCEPT !.key = k])
      BY <1>1
    <2>2. [NoJob EXCEPT !.key = k] \in Job /\ [NoJob EXCEPT !.key = k].key = k
      BY NoJobType DEF NoJob, Job
    <2>3. "get" \in PC
      BY DEF PC
    <2>4. /\ pc' \in [Task -> PC] /\ job' \in [Task -> Job]
          /\ pc'[c] = "get"
          /\ \A u \in Task \ {c} : pc'[u] = pc[u] /\ job'[u] = job[u]
      BY <1>0, <1>1, <2>1, <2>2, <2>3, Moves
    <2>5. Quiet
      BY <1>1, <2>4 DEF Quiet, chain, Task
    <2>6. Arguments'
      BY <1>0, <1>1, <2>1, <2>2, <2>3, LocalStep
    <2> QED
      BY <1>1, <2>4, <2>5, <2>6, QuietStep DEF TypeOK, chain
  <1>2. CASE /\ pc[c] = "get"
             /\ \/ /\ get(job[c].key) # NoEntry
                   /\ OnHit(job[c].key)
                   /\ Return(c)
                \/ /\ get(job[c].key) = NoEntry
                   /\ Goto(c, "fetch")
                   /\ UNCHANGED <<cache, job>>
             /\ UNCHANGED <<chain, subscribers, readers, queue>>
    <2>1. UNCHANGED <<chain, cache, subscribers, readers, queue>>
      BY <1>2 DEF OnHit
    <2>2. CASE Return(c)
      <3>1. /\ pc' \in [Task -> PC] /\ job' \in [Task -> Job]
            /\ pc'[c] = "idle"
            /\ \A u \in Task \ {c} : pc'[u] = pc[u] /\ job'[u] = job[u]
        BY <1>0, <2>2, Returns
      <3>2. Quiet
        BY <2>1, <3>1 DEF Quiet, chain, Task
      <3>3. Arguments'
        BY <1>0, <2>2, ReturnStep
      <3> QED
        BY <2>1, <3>1, <3>2, <3>3, QuietStep DEF TypeOK, chain
    <2>3. CASE Goto(c, "fetch") /\ UNCHANGED job
      <3>1. pc' \in [Task -> PC]
        BY <1>0, <2>3 DEF Goto, TypeOK, PC
      <3>2. Quiet
        BY <2>1, <2>3 DEF Quiet, chain, Task, Goto, TypeOK
      <3>3. Arguments'
        BY <1>0, <1>2, <2>3 DEF Arguments, Goto, TypeOK
      <3> QED
        BY <2>1, <2>3, <3>1, <3>2, <3>3, QuietStep DEF TypeOK, chain
    <2> QED
      BY <1>2, <2>2, <2>3
  <1>3. CASE /\ pc[c] = "fetch"
             /\ Return(c)
             /\ UNCHANGED <<chain, cache, subscribers, readers, queue>>
    <2>1. /\ pc' \in [Task -> PC] /\ job' \in [Task -> Job]
          /\ pc'[c] = "idle"
          /\ \A u \in Task \ {c} : pc'[u] = pc[u] /\ job'[u] = job[u]
      BY <1>0, <1>3, Returns
    <2>2. Quiet
      BY <1>3, <2>1 DEF Quiet, chain, Task
    <2>3. Arguments'
      BY <1>0, <1>3, ReturnStep
    <2> QED
      BY <1>3, <2>1, <2>2, <2>3, QuietStep DEF TypeOK, chain
  <1>4. CASE /\ pc[c] = "fetch"
             /\ Assign(c, [job[c] EXCEPT
                     !.allowed = job[c].key[2] \in satisfies[job[c].key[1]],
                     !.since = 0])
             /\ Goto(c, "set")
             /\ UNCHANGED <<chain, cache, subscribers, readers, queue>>
    <2> DEFINE ok == job[c].key[2] \in satisfies[job[c].key[1]]
               j  == [job[c] EXCEPT !.allowed = ok, !.since = 0]
    <2>1. ok \in BOOLEAN
      OBVIOUS
    <2>2. job[c].key \in Key
      BY <1>0, <1>4 DEF Arguments
    <2>3. /\ j \in Job
          /\ j.key = job[c].key
          /\ j.allowed = ok
          /\ j.since = 0
      BY <1>0, <2>1, ReadType
    <2>4. "set" \in PC
      BY DEF PC
    <2>5. /\ pc' \in [Task -> PC] /\ job' \in [Task -> Job]
          /\ pc'[c] = "set" /\ job'[c] = j
          /\ \A u \in Task \ {c} : pc'[u] = pc[u] /\ job'[u] = job[u]
      BY <1>0, <1>4, <2>3, <2>4, Moves
    <2>6. Arguments'
      <3> HIDE DEF j
      <3> QED
        BY <2>2, <2>3, <2>5 DEF Arguments
    <2>7. HonestCalls'
      <3> SUFFICES ASSUME NEW d \in Caller, pc'[d] = "set", job'[d].allowed,
                          job'[d].key[2] \notin satisfies[job'[d].key[1]]
                   PROVE  lost[job'[d].key] <= job'[d].since
        BY <1>4 DEF HonestCalls, chain
      <3>1. CASE d = c
        <4>1. job'[d].allowed = ok /\ job'[d].key = job[c].key
          BY <2>3, <2>5, <3>1
        <4> QED
          BY <4>1
      <3>2. CASE d # c
        <4>1. pc[d] = "set" /\ job'[d] = job[d]
          BY <2>5, <3>2 DEF Task
        <4> QED
          BY <4>1 DEF Honest, HonestCalls
      <3> QED
        BY <3>1, <3>2
    <2>8. HonestCache' /\ AgeOfData'
      BY <1>4 DEF Honest, HonestCache, AgeOfData, Fresh, chain
    <2>9. TypeOK'
      BY <1>4, <2>5 DEF TypeOK, chain
    <2> QED
      BY <2>6, <2>7, <2>8, <2>9 DEF Honest
  <1>5. CASE /\ pc[c] = "set"
             /\ \/ UNCHANGED cache
                \/ Put(job[c].key, [allowed |-> job[c].allowed, age |-> 0,
                                    since |-> job[c].since,
                                    flight |-> job[c].since])
             /\ Return(c)
             /\ UNCHANGED <<chain, subscribers, readers, queue>>
    <2>1. /\ pc' \in [Task -> PC] /\ job' \in [Task -> Job]
          /\ pc'[c] = "idle"
          /\ \A u \in Task \ {c} : pc'[u] = pc[u] /\ job'[u] = job[u]
      BY <1>0, <1>5, Returns
    <2>2. Arguments'
      BY <1>0, <1>5, ReturnStep
    <2>3. CASE UNCHANGED cache
      <3>1. Quiet
        BY <1>5, <2>1, <2>3 DEF Quiet, chain, Task
      <3> QED
        BY <1>5, <2>1, <2>2, <2>3, <3>1, QuietStep DEF TypeOK, chain
    <2>4. ASSUME NEW e, e = [allowed |-> job[c].allowed, age |-> 0,
                             since |-> job[c].since, flight |-> job[c].since],
                 Put(job[c].key, e)
          PROVE  IInv'
      <3>1. /\ job[c].key \in Key
            /\ job[c].since \in 0..MaxAge
            /\ job[c].allowed \in BOOLEAN
        BY <1>0, <1>5 DEF Arguments, Job
      <3>2. /\ e \in Entry
            /\ e.allowed = job[c].allowed /\ e.age = 0
            /\ e.since = job[c].since /\ e.flight = job[c].since
        BY <2>4, <3>1, ConsumerAssumption DEF Entry
      <3>3. PICK drop \in SUBSET (DOMAIN cache \ {job[c].key}) :
               cache' = [l \in (DOMAIN cache \ drop) \cup {job[c].key} |->
                           IF l \in {job[c].key} THEN e ELSE cache[l]]
        BY <2>4 DEF Put, CacheKey
      <3>4. /\ DOMAIN cache' \subseteq Key
            /\ \A k \in DOMAIN cache' :
                  \/ k = job[c].key /\ cache'[k] = e
                  \/ k \in DOMAIN cache /\ cache'[k] = cache[k]
        BY <3>1, <3>3 DEF TypeOK
      <3>5. cache' \in [DOMAIN cache' -> Entry]
        BY <3>2, <3>3, <3>4 DEF TypeOK
      <3>6. TypeOK'
        BY <1>5, <2>1, <3>4, <3>5 DEF TypeOK, chain
      <3>7. HonestCalls'
        BY <1>5, <2>1 DEF Honest, HonestCalls, chain, Task
      <3>8. HonestCache'
        <4> SUFFICES ASSUME NEW k \in DOMAIN cache', cache'[k].allowed,
                            k[2] \notin satisfies[k[1]]
                     PROVE  lost[k] <= cache'[k].since
          BY <1>5 DEF HonestCache, chain
        <4> QED
          BY <1>5, <3>2, <3>4 DEF Honest, HonestCache, HonestCalls
      <3>9. AgeOfData'
        <4> SUFFICES ASSUME NEW k \in DOMAIN cache', cache'[k].age < TTL
                     PROVE  cache'[k].since <= cache'[k].age + cache'[k].flight
          BY DEF AgeOfData, Fresh
        <4>1. CASE k = job[c].key /\ cache'[k] = e
          BY <3>1, <3>2, <4>1
        <4>2. CASE k \in DOMAIN cache /\ cache'[k] = cache[k]
          BY <4>2 DEF AgeOfData, Fresh
        <4> QED
          BY <3>4, <4>1, <4>2
      <3> QED
        BY <2>2, <3>6, <3>7, <3>8, <3>9 DEF Honest
    <2> QED
      BY <1>5, <2>3, <2>4
  <1> QED
    BY <1>1, <1>2, <1>3, <1>4, <1>5 DEF verify_wallet_access

-----------------------------------------------------------------------------
(* The webhook server.  Its tasks are no callers, so that only its last    *)
(* step, on the cache, can disturb what is said of the cache.              *)
LEMMA HandlerQuiet ==
    ASSUME TypeOK, NEW h \in Handler, UNCHANGED <<satisfies, lost, cache>>,
           \A u \in Task \ {h} : pc'[u] = pc[u] /\ job'[u] = job[u]
    PROVE  Quiet
  BY ConsumerAssumption DEF Quiet, Task

LEMMA DeliverStep ==
    ASSUME IInv, NEW h \in Handler, Deliver(h)
    PROVE  IInv'
  <1> USE DEF IInv
  <1>1. h \in Task
    BY DEF Task
  <1>2. PICK u \in updates :
           /\ updates' \in {updates, updates \ {u}}
           /\ Assign(h, [NoJob EXCEPT !.update = u])
           /\ IF u.type = "Expired"
              THEN Goto(h, "cache") /\ UNCHANGED queue
              ELSE Goto(h, "notify") /\ queue' = Append(queue, h)
           /\ UNCHANGED <<satisfies, lost, cache, subscribers, readers>>
    BY DEF Deliver
  <1>3. u \in Update /\ [NoJob EXCEPT !.update = u] \in Job
        /\ [NoJob EXCEPT !.update = u].update = u
    BY <1>2, NoJobType DEF TypeOK, NoJob, Job
  <1>4. PICK label \in {"cache", "notify"} :
           Goto(h, label) /\ queue' \in {queue, Append(queue, h)}
    BY <1>2
  <1>5. label \in PC
    BY DEF PC
  <1>6. /\ pc' \in [Task -> PC] /\ job' \in [Task -> Job]
        /\ \A v \in Task \ {h} : pc'[v] = pc[v] /\ job'[v] = job[v]
    BY <1>1, <1>2, <1>3, <1>4, <1>5, Moves
  <1>7. Arguments'
    <2> DEFINE j == [NoJob EXCEPT !.update = u]
    <2> HIDE DEF j
    <2>1. j \in Job /\ j.update \in Update /\ Assign(h, j)
      BY <1>2, <1>3 DEF j
    <2> QED
      BY <1>1, <1>4, <1>5, <2>1, LocalStep
  <1>8. TypeOK'
    BY <1>2, <1>4, <1>6, QueueType DEF TypeOK
  <1> QED
    BY <1>2, <1>6, <1>7, <1>8, HandlerQuiet, QuietStep

LEMMA NotifyStep ==
    ASSUME IInv, NEW h \in Handler, notify_subscribers(h),
           UNCHANGED <<chain, cache, subscribers>>
    PROVE  IInv'
  <1> USE DEF IInv
  <1>1. h \in Task /\ job[h] \in Job
    BY DEF Task, TypeOK
  <1>2. /\ "send" \in PC /\ "cache" \in PC
    BY DEF PC
  <1>3. CASE /\ pc[h] = "notify"
             /\ IsFirst(h)
             /\ queue' = Tail(queue)
             /\ readers' = readers \cup {h}
             /\ Assign(h, [job[h] EXCEPT !.rest = subscribers[job[h].update.wallet]])
             /\ Goto(h, "send")
    <2> DEFINE j == [job[h] EXCEPT !.rest = subscribers[job[h].update.wallet]]
    <2>1. job[h].update \in Update /\ job[h].update.wallet \in Wallet
      BY <1>1, <1>3 DEF Arguments, Update
    <2>2. subscribers[job[h].update.wallet] \in Seq(SUBSET Type)
      BY <2>1 DEF TypeOK
    <2>3. j \in Job /\ j.update = job[h].update
      BY <1>1, <2>2 DEF Job
    <2> HIDE DEF j
    <2>4. Assign(h, j)
      BY <1>3 DEF j
    <2>5. /\ pc' \in [Task -> PC] /\ job' \in [Task -> Job]
          /\ \A v \in Task \ {h} : pc'[v] = pc[v] /\ job'[v] = job[v]
      BY <1>1, <1>2, <1>3, <2>3, <2>4, Moves
    <2>6. Arguments'
      BY <1>1, <1>2, <1>3, <2>1, <2>3, <2>4, LocalStep
    <2>7. TypeOK'
      BY <1>3, <2>5, QueueType DEF TypeOK, chain
    <2> QED
      BY <2>5, <2>6, <2>7, HandlerQuiet, QuietStep DEF chain
  <1>4. CASE /\ pc[h] = "send"
             /\ UNCHANGED queue
             /\ readers' = readers \ {h}
             /\ Goto(h, "cache")
             /\ UNCHANGED job
    <2>1. /\ pc' \in [Task -> PC]
          /\ \A v \in Task \ {h} : pc'[v] = pc[v]
      BY <1>1, <1>2, <1>4 DEF Goto, TypeOK
    <2>2. Arguments'
      BY <1>1, <1>4, <2>1 DEF Arguments, Goto, TypeOK
    <2>3. TypeOK'
      BY <1>4, <2>1 DEF TypeOK, chain
    <2> QED
      BY <1>4, <2>1, <2>2, <2>3, HandlerQuiet, QuietStep DEF chain
  <1>5. CASE /\ pc[h] = "send"
             /\ UNCHANGED queue
             /\ job[h].rest # <<>>
             /\ Assign(h, [job[h] EXCEPT !.rest = Tail(@)])
             /\ UNCHANGED <<readers, pc>>
    <2> DEFINE j == [job[h] EXCEPT !.rest = Tail(job[h].rest)]
    <2>1. job[h].rest \in Seq(SUBSET Type)
      BY <1>1 DEF Job
    <2>2. Tail(job[h].rest) \in Seq(SUBSET Type)
      BY <1>5, <2>1
    <2>3. j \in Job /\ j.update = job[h].update /\ j.key = job[h].key
      BY <1>1, <2>2 DEF Job
    <2> HIDE DEF j
    <2>4. job' = [job EXCEPT ![h] = j]
      BY <1>5 DEF j, Assign
    <2>5. /\ job' \in [Task -> Job]
          /\ job'[h] = j
          /\ \A v \in Task \ {h} : job'[v] = job[v]
      BY <1>1, <2>3, <2>4 DEF TypeOK
    <2>6. Arguments'
      BY <1>1, <1>5, <2>3, <2>5 DEF Arguments
    <2>7. TypeOK'
      BY <1>5, <2>5 DEF TypeOK, chain
    <2> QED
      BY <1>5, <2>5, <2>6, <2>7, HandlerQuiet, QuietStep DEF chain
  <1>6. CASE /\ pc[h] = "send"
             /\ UNCHANGED queue
             /\ SendFails(h)
    <2>1. readers' = readers \ {h} /\ Return(h)
      BY <1>6 DEF SendFails
    <2>2. /\ pc' \in [Task -> PC] /\ job' \in [Task -> Job]
          /\ \A v \in Task \ {h} : pc'[v] = pc[v] /\ job'[v] = job[v]
      BY <1>1, <2>1, Returns
    <2>3. Arguments'
      BY <1>1, <2>1, ReturnStep
    <2>4. TypeOK'
      BY <1>6, <2>1, <2>2 DEF TypeOK, chain
    <2> QED
      BY <2>2, <2>3, <2>4, HandlerQuiet, QuietStep DEF chain
  <1> QED
    BY <1>3, <1>4, <1>5, <1>6 DEF notify_subscribers

LEMMA ReadAfresh ==
    ASSUME NEW ok \in BOOLEAN
    PROVE  LET e == [allowed |-> ok, age |-> 0, since |-> 0, flight |-> 0]
           IN  e \in Entry /\ e.allowed = ok
  <1> DEFINE e == [allowed |-> ok, age |-> 0, since |-> 0, flight |-> 0]
  <1>1. 0 \in 0..MaxAge /\ 0 \in 0..TTL
    BY ConsumerAssumption
  <1>2. CASE ok = TRUE
    BY <1>1, <1>2 DEF Entry
  <1>3. CASE ok = FALSE
    BY <1>1, <1>3 DEF Entry
  <1> QED
    BY <1>2, <1>3

(* The handling of an update ends with the cache: entries go or are read   *)
(* afresh, the others stay.                                                *)
LEMMA AfterNotifyingStep ==
    ASSUME IInv, NEW h \in Handler, pc[h] = "cache",
           AfterNotifying(job[h].update), Return(h),
           UNCHANGED <<chain, subscribers, readers, queue>>
    PROVE  IInv'
  <1> USE DEF IInv
  <1> DEFINE w == job[h].update.wallet
             New(k) == [allowed |-> k[2] \in satisfies[w], age |-> 0,
                        since |-> 0, flight |-> 0]
  <1>1. h \in Task /\ job[h].update \in Update /\ w \in Wallet
    BY DEF Task, Arguments, Update
  <1>2. ASSUME NEW k \in Key
        PROVE  /\ New(k) \in Entry
               /\ New(k).allowed => k[2] \in satisfies[w]
               /\ New(k).age = 0 /\ New(k).since = 0 /\ New(k).flight = 0
    <2> DEFINE ok == k[2] \in satisfies[w]
    <2>1. ok \in BOOLEAN
      OBVIOUS
    <2> HIDE DEF ok
    <2>2. /\ [allowed |-> ok, age |-> 0, since |-> 0, flight |-> 0] \in Entry
          /\ [allowed |-> ok, age |-> 0, since |-> 0, flight |-> 0].allowed = ok
      BY <2>1, ReadAfresh
    <2> QED
      BY <2>2 DEF ok
  <1>3. /\ DOMAIN cache' \subseteq DOMAIN cache
        /\ cache' \in [DOMAIN cache' -> Entry]
        /\ \A k \in DOMAIN cache' :
              cache'[k] = cache[k] \/ (k[1] = w /\ cache'[k] = New(k))
    <2>1. CASE update_cache(w)
      <3> HIDE DEF w
      <3>1. PICK K \in SUBSET {k \in DOMAIN cache : k[1] = w}, keep \in BOOLEAN :
               cache' = [k \in (IF keep THEN DOMAIN cache ELSE DOMAIN cache \ K) |->
                           IF k \in K THEN New(k) ELSE cache[k]]
        BY <2>1 DEF update_cache
      <3> HIDE DEF New
      <3>2. PICK D \in SUBSET DOMAIN cache :
               cache' = [k \in D |-> IF k \in K THEN New(k) ELSE cache[k]]
        BY <3>1
      <3> QED
        BY <1>2, <3>2 DEF TypeOK
    <2>2. CASE Invalidate(w)
      BY <2>2 DEF Invalidate, Without, TypeOK
    <2> QED
      BY <2>1, <2>2 DEF AfterNotifying
  <1>4. /\ pc' \in [Task -> PC] /\ job' \in [Task -> Job]
        /\ pc'[h] = "idle"
        /\ \A v \in Task \ {h} : pc'[v] = pc[v] /\ job'[v] = job[v]
    BY <1>1, Returns
  <1>5. TypeOK'
    BY <1>3, <1>4 DEF TypeOK, chain
  <1>6. Arguments'
    BY <1>1, ReturnStep
  <1>7. HonestCalls'
    BY <1>4, ConsumerAssumption DEF Honest, HonestCalls, chain, Task
  <1>8. HonestCache'
    <2> SUFFICES ASSUME NEW k \in DOMAIN cache', cache'[k].allowed,
                        k[2] \notin satisfies[k[1]]
                 PROVE  lost[k] <= cache'[k].since
      BY DEF HonestCache, chain
    <2>1. k \in Key /\ k \in DOMAIN cache
      BY <1>3 DEF TypeOK
    <2>2. cache'[k] = cache[k]
      <3> HIDE DEF New, w
      <3> QED
        BY <1>2, <1>3, <2>1
    <2> QED
      BY <2>1, <2>2 DEF Honest, HonestCache
  <1>9. AgeOfData'
    <2> SUFFICES ASSUME NEW k \in DOMAIN cache', cache'[k].age < TTL
                 PROVE  cache'[k].since <= cache'[k].age + cache'[k].flight
      BY DEF AgeOfData, Fresh
    <2>1. k \in Key /\ k \in DOMAIN cache
      BY <1>3 DEF TypeOK
    <2>2. CASE cache'[k] = cache[k]
      BY <2>1, <2>2 DEF AgeOfData, Fresh
    <2>3. CASE cache'[k] = New(k)
      <3> HIDE DEF New, w
      <3> QED
        BY <1>2, <2>1, <2>3
    <2> QED
      BY <1>3, <2>2, <2>3
  <1> QED
    BY <1>5, <1>6, <1>7, <1>8, <1>9 DEF Honest

LEMMA SubscribeStep ==
    ASSUME IInv, NEW h \in Handler, subscribe(h)
    PROVE  IInv'
  <1> USE DEF IInv
  <1>1. h \in Task /\ job[h] \in Job
    BY DEF Task, TypeOK
  <1>2. CASE pc[h] = "idle"
    <2>1. PICK w \in Wallet, events \in EventSets :
             /\ Assign(h, [NoJob EXCEPT !.wallet = w, !.events = events])
             /\ Goto(h, "subscribe")
             /\ queue' = Append(queue, h)
             /\ UNCHANGED <<chain, cache, subscribers, readers>>
      BY <1>2 DEF subscribe
    <2> DEFINE j == [NoJob EXCEPT !.wallet = w, !.events = events]
    <2>2. j \in Job
      BY <2>1, NoJobType, ConsumerAssumption DEF NoJob, Job, Type
    <2> HIDE DEF j
    <2>3. Assign(h, j)
      BY <2>1 DEF j
    <2>4. "subscribe" \in PC
      BY DEF PC
    <2>5. /\ pc' \in [Task -> PC] /\ job' \in [Task -> Job]
          /\ \A v \in Task \ {h} : pc'[v] = pc[v] /\ job'[v] = job[v]
      BY <1>1, <2>1, <2>2, <2>3, <2>4, Moves
    <2>6. Arguments'
      BY <1>1, <2>1, <2>2, <2>3, <2>4, LocalStep
    <2>7. TypeOK'
      BY <2>1, <2>5, QueueType DEF TypeOK, chain
    <2> QED
      BY <2>1, <2>5, <2>6, <2>7, HandlerQuiet, QuietStep DEF chain
  <1>3. CASE pc[h] = "subscribe"
    <2>1. /\ IsFirst(h)
          /\ queue' = Tail(queue)
          /\ subscribers' = [subscribers EXCEPT ![job[h].wallet] =
                                Append(@, job[h].events)]
          /\ Return(h)
          /\ UNCHANGED <<chain, cache, readers>>
      BY <1>3 DEF subscribe
    <2>2. subscribers' \in [Wallet -> Seq(SUBSET Type)]
      <3>1. job[h].events \in SUBSET Type
        BY <1>1 DEF Job
      <3>2. ASSUME NEW w \in Wallet
            PROVE  Append(subscribers[w], job[h].events) \in Seq(SUBSET Type)
        <4>1. subscribers[w] \in Seq(SUBSET Type)
          BY DEF TypeOK
        <4> QED
          BY <3>1, <4>1
      <3> QED
        BY <2>1, <3>2 DEF TypeOK
    <2>3. /\ pc' \in [Task -> PC] /\ job' \in [Task -> Job]
          /\ \A v \in Task \ {h} : pc'[v] = pc[v] /\ job'[v] = job[v]
      BY <1>1, <2>1, Returns
    <2>4. Arguments'
      BY <1>1, <2>1, ReturnStep
    <2>5. TypeOK'
      BY <2>1, <2>2, <2>3, QueueType DEF TypeOK, chain
    <2> QED
      BY <2>1, <2>3, <2>4, <2>5, HandlerQuiet, QuietStep DEF chain
  <1> QED
    BY <1>2, <1>3 DEF subscribe

-----------------------------------------------------------------------------
LEMMA NextIInv == IInv /\ [Next]_vars => IInv'
  <1> SUFFICES ASSUME IInv, [Next]_vars PROVE IInv'
    OBVIOUS
  <1>1. CASE Issue \/ Revoke \/ Expire
    BY <1>1, ChainStep
  <1>2. CASE Tick
    BY <1>2, TickStep
  <1>3. ASSUME NEW c \in Caller, verify_wallet_access(c) PROVE IInv'
    BY <1>3, CallStep
  <1>4. ASSUME NEW h \in Handler, handle_attestation_update(h) PROVE IInv'
    BY <1>4, DeliverStep, NotifyStep, AfterNotifyingStep DEF handle_attestation_update
  <1>5. ASSUME NEW h \in Handler, subscribe(h) PROVE IInv'
    BY <1>5, SubscribeStep
  <1>6. CASE UNCHANGED vars
    BY <1>6 DEF vars, chain, IInv, TypeOK, Arguments, Honest, HonestCache,
                HonestCalls, AgeOfData, Fresh
  <1> QED
    BY <1>1, <1>2, <1>3, <1>4, <1>5, <1>6 DEF Next

(* Every reachable state satisfies the inductive invariant.                *)
THEOREM Invariance == Spec => []IInv
  BY InitIInv, NextIInv, PTL DEF Spec

(* The variables of verifier, cache and webhook server keep their types.   *)
THEOREM TypeCorrect == Spec => []TypeOK
  <1>1. IInv => TypeOK
    BY DEF IInv
  <1> QED
    BY Invariance, <1>1, PTL

(* What verify_wallet_access answers was so when it read the attestations, *)
(* for this wallet and these requirements.                                 *)
THEOREM HonestAnswers == Spec => []Honest
  <1>1. IInv => Honest
    BY DEF IInv
  <1> QED
    BY Invariance, <1>1, PTL

(* A lost requirement is honoured within ttl_seconds and one validation,   *)
(* whatever happens to the updates for the webhook server.                 *)
THEOREM BoundedStaleness == Spec => []StaleAllowIsBounded
  <1>1. IInv => StaleAllowIsBounded
    <2> SUFFICES ASSUME IInv, NEW k \in Key, get(k).allowed,
                        k[2] \notin satisfies[k[1]]
                 PROVE  lost[k] < TTL + get(k).flight
      BY DEF StaleAllowIsBounded
    <2>1. k \in DOMAIN cache /\ Fresh(cache[k]) /\ get(k) = cache[k]
      BY DEF get, NoEntry
    <2>2. /\ lost[k] \in 0..MaxAge
          /\ cache[k].age \in 0..TTL
          /\ cache[k].since \in 0..MaxAge
          /\ cache[k].flight \in 0..MaxAge
      BY <2>1 DEF IInv, TypeOK, Entry
    <2>3. lost[k] <= cache[k].since
      BY <2>1 DEF IInv, Honest, HonestCache
    <2>4. cache[k].since <= cache[k].age + cache[k].flight /\ cache[k].age < TTL
      BY <2>1 DEF IInv, AgeOfData, Fresh
    <2> QED
      BY <2>1, <2>2, <2>3, <2>4, ConsumerAssumption
  <1> QED
    BY Invariance, <1>1, PTL
=============================================================================
