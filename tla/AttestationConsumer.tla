------------------------ MODULE AttestationConsumer ------------------------
(***************************************************************************)
(* The consumer side: AttestationVerifier::verify_wallet_access, its       *)
(* AttestationCache, and the webhook server that is to keep the cache up   *)
(* to date with what happens to the attestations.                          *)
(*                                                                         *)
(* A step runs a call from one .await to the next.  The cache's lock is    *)
(* taken and dropped inside get, set and invalidate, so each of these is   *)
(* one step.  The lock on subscribers is explicit: notify_subscribers      *)
(* holds it over the HTTP calls to the subscribers.                        *)
(*                                                                         *)
(* Ages are counted in ticks and saturate: an entry's at TTL, the others   *)
(* at MaxAge.                                                              *)
(***************************************************************************)
EXTENDS Integers, Sequences, FiniteSets

CONSTANTS
    Wallet,
    Requirement,    \* AccessRequirements a caller may ask for
    Caller,         \* concurrent calls of verify_wallet_access
    Handler,        \* concurrent requests to the webhook server
    TTL,            \* ttl_seconds, in ticks
    Capacity,       \* entries the LRU cache holds
    MaxAge,         \* where the other ages saturate
    MaxSubscribers, \* bound on the subscribers of a wallet
    EventSets,      \* what a subscriber may ask to be told
    None

Task == Caller \cup Handler

ASSUME ConsumerAssumption ==
    /\ Caller \cap Handler = {}
    /\ TTL \in Nat \ {0}
    /\ MaxAge \in Nat
    /\ None \notin Wallet
    /\ None \notin Wallet \X Requirement
    /\ None \notin [wallet : Wallet, type : {"Issued", "Revoked", "Expired"}]
    /\ EventSets \subseteq SUBSET {"Issued", "Revoked", "Expired"}

VARIABLES
    satisfies,      \* on chain: the requirements a wallet's attestations meet
    lost,           \* ticks since a requirement was lost (MaxAge while it is met)
    updates,        \* updates on their way to the webhook server
    cache,
    subscribers,    \* wallet -> the event sets of its subscribers, in order
    readers,        \* tasks that hold the read guard on subscribers
    queue,          \* tasks that wait for that lock, first come first
    pc,
    job

chain  == <<satisfies, lost, updates>>
vars   == <<chain, cache, subscribers, readers, queue, pc, job>>

Key    == Wallet \X Requirement        \* CacheKey
Type   == {"Issued", "Revoked", "Expired"}
Update == [wallet : Wallet, type : Type]

(* A result, how long ago its attestations were read (since), how long     *)
(* after that it was cached (flight), and its timestamp (age).             *)
Entry == [allowed : BOOLEAN, age : 0..TTL, since : 0..MaxAge, flight : 0..MaxAge]
NoEntry == [allowed |-> FALSE, age |-> TTL, since |-> MaxAge, flight |-> 0]

Job == [key     : Key \cup {None},      \* verify_wallet_access
        allowed : BOOLEAN,
        since   : 0..MaxAge,
        update  : Update \cup {None},   \* handle_attestation_update
        rest    : Seq(SUBSET Type),     \* subscribers still to call
        wallet  : Wallet \cup {None},   \* subscribe
        events  : SUBSET Type]

NoJob == [key |-> None, allowed |-> FALSE, since |-> 0,
          update |-> None, rest |-> <<>>, wallet |-> None, events |-> {}]

PC == {"idle", "get", "fetch", "set",              \* verify_wallet_access
       "notify", "send", "cache",                  \* handle_attestation_update
       "subscribe"}

TypeOK ==
    /\ satisfies \in [Wallet -> SUBSET Requirement]
    /\ lost \in [Key -> 0..MaxAge]
    /\ updates \subseteq Update
    /\ DOMAIN cache \subseteq Key
    /\ cache \in [DOMAIN cache -> Entry]
    /\ subscribers \in [Wallet -> Seq(SUBSET Type)]
    /\ readers \subseteq Handler
    /\ queue \in Seq(Handler)
    /\ pc \in [Task -> PC]
    /\ job \in [Task -> Job]

Init ==
    /\ satisfies = [w \in Wallet |-> {}]
    /\ lost = [k \in Key |-> MaxAge]
    /\ updates = {}
    /\ cache = [k \in {} |-> NoEntry]
    /\ subscribers = [w \in Wallet |-> <<>>]
    /\ readers = {}
    /\ queue = <<>>
    /\ pc = [t \in Task |-> "idle"]
    /\ job = [t \in Task |-> NoJob]

-----------------------------------------------------------------------------
(* The attestation registry: an attestation is issued, revoked or expires, *)
(* and an update is sent that may be delivered late, twice or never.       *)
Issue ==
    \E w \in Wallet, R \in SUBSET Requirement \ {{}} :
        /\ satisfies' = [satisfies EXCEPT ![w] = @ \cup R]
        /\ lost' = [k \in Key |->
                      IF k[1] = w /\ k[2] \in R THEN MaxAge ELSE lost[k]]
        /\ updates' = updates \cup {[wallet |-> w, type |-> "Issued"]}
        /\ UNCHANGED <<cache, subscribers, readers, queue, pc, job>>

Withdraw(type) ==
    \E w \in Wallet :
        /\ satisfies[w] # {}
        /\ satisfies' = [satisfies EXCEPT ![w] = {}]
        /\ lost' = [k \in Key |->
                      IF k[1] = w /\ k[2] \in satisfies[w] THEN 0 ELSE lost[k]]
        /\ updates' = updates \cup {[wallet |-> w, type |-> type]}
        /\ UNCHANGED <<cache, subscribers, readers, queue, pc, job>>

Revoke == Withdraw("Revoked")
Expire == Withdraw("Expired")

-----------------------------------------------------------------------------
(* AttestationCache.                                                       *)

(* A mutant of Fresh: >= in place of >.                                    *)
FreshAtTTL(e) == e.age <= TTL

Fresh(e) == e.age < TTL

get(k) == IF k \in DOMAIN cache /\ Fresh(cache[k]) THEN cache[k] ELSE NoEntry

(* A mutant of OnHit: a hit renews the entry.                              *)
RenewingHit(k) == cache' = [cache EXCEPT ![k].age = 0]

OnHit(k) == UNCHANGED cache

(* A mutant of CacheKey: the requirements are left out of the key.         *)
ByWallet(k) == {l \in Key : l[1] = k[1]}

CacheKey(k) == {k}

Without(K) == [k \in DOMAIN cache \ K |-> cache[k]]

(* put: a full cache drops an entry, which one (the least recently used)   *)
(* is left open.                                                           *)
Put(k, e) ==
    \E drop \in SUBSET (DOMAIN cache \ {k}) :
        /\ Cardinality(drop) =
              IF k \notin DOMAIN cache /\ Cardinality(DOMAIN cache) = Capacity
              THEN 1 ELSE 0
        /\ cache' = [l \in (DOMAIN cache \ drop) \cup CacheKey(k) |->
                        IF l \in CacheKey(k) THEN e ELSE cache[l]]

Invalidate(w) == cache' = Without({k \in Key : k[1] = w})

-----------------------------------------------------------------------------
Goto(t, label) == pc' = [pc EXCEPT ![t] = label]
Assign(t, j) == job' = [job EXCEPT ![t] = j]
Return(t) == Goto(t, "idle") /\ Assign(t, NoJob)

(* verify_wallet_access: the cache, else the attestations of the wallet,   *)
(* whose validation is then cached, however long ago they were read.       *)
verify_wallet_access(c) ==
    \/ /\ pc[c] = "idle"
       /\ \E k \in Key : Assign(c, [NoJob EXCEPT !.key = k])
       /\ Goto(c, "get")
       /\ UNCHANGED <<chain, cache, subscribers, readers, queue>>
    \/ /\ pc[c] = "get"
       /\ \/ /\ get(job[c].key) # NoEntry
             /\ OnHit(job[c].key)
             /\ Return(c)
          \/ /\ get(job[c].key) = NoEntry
             /\ Goto(c, "fetch")
             /\ UNCHANGED <<cache, job>>
       /\ UNCHANGED <<chain, subscribers, readers, queue>>
    \/ /\ pc[c] = "fetch"
       /\ \/ Return(c)                      \* the RPC fails: Err
          \/ /\ Assign(c, [job[c] EXCEPT
                     !.allowed = job[c].key[2] \in satisfies[job[c].key[1]],
                     !.since = 0])
             /\ Goto(c, "set")
       /\ UNCHANGED <<chain, cache, subscribers, readers, queue>>
    \/ /\ pc[c] = "set"
       /\ \/ UNCHANGED cache                \* validation fails: Err
          \/ Put(job[c].key, [allowed |-> job[c].allowed, age |-> 0,
                              since |-> job[c].since,
                              flight |-> job[c].since])
       /\ Return(c)
       /\ UNCHANGED <<chain, subscribers, readers, queue>>

-----------------------------------------------------------------------------
(* The webhook server.                                                     *)
Deliver(h) ==
    /\ pc[h] = "idle"
    /\ \E u \in updates :
          /\ updates' \in {updates, updates \ {u}}
          /\ Assign(h, [NoJob EXCEPT !.update = u])
          /\ IF u.type = "Expired"
             THEN Goto(h, "cache") /\ UNCHANGED queue
             ELSE Goto(h, "notify") /\ queue' = Append(queue, h)
    /\ UNCHANGED <<satisfies, lost, cache, subscribers, readers>>

IsFirst(h) == queue # <<>> /\ Head(queue) = h

(* A mutant of SendFails: the notification starts over.                    *)
NotifyAgain(h) ==
    /\ Assign(h, [job[h] EXCEPT !.rest = subscribers[job[h].update.wallet]])
    /\ UNCHANGED <<readers, pc>>

SendFails(h) ==
    /\ readers' = readers \ {h}
    /\ Return(h)

(* notify_subscribers goes through the subscribers under the read guard    *)
(* and calls those that asked for the event; the first call that fails     *)
(* ends the handling of the update.                                        *)
notify_subscribers(h) ==
    \/ /\ pc[h] = "notify"
       /\ IsFirst(h)
       /\ queue' = Tail(queue)
       /\ readers' = readers \cup {h}
       /\ Assign(h, [job[h] EXCEPT !.rest = subscribers[job[h].update.wallet]])
       /\ Goto(h, "send")
    \/ /\ pc[h] = "send"
       /\ UNCHANGED queue
       /\ \/ /\ job[h].rest = <<>>
             /\ readers' = readers \ {h}
             /\ Goto(h, "cache")
             /\ UNCHANGED job
          \/ /\ job[h].rest # <<>>
             /\ Assign(h, [job[h] EXCEPT !.rest = Tail(@)])
             /\ UNCHANGED <<readers, pc>>
          \/ /\ job[h].rest # <<>>
             /\ job[h].update.type \in Head(job[h].rest)
             /\ SendFails(h)

(* update_cache is not part of the sources: whatever it does to the        *)
(* wallet's entries, it leaves them absent, as they are, or read afresh.   *)
update_cache(w) ==
    \E K \in SUBSET {k \in DOMAIN cache : k[1] = w}, keep \in BOOLEAN :
        cache' = [k \in (IF keep THEN DOMAIN cache ELSE DOMAIN cache \ K) |->
                    IF k \in K
                    THEN [allowed |-> k[2] \in satisfies[w], age |-> 0,
                          since |-> 0, flight |-> 0]
                    ELSE cache[k]]

AfterNotifying(u) ==
    \/ u.type = "Issued" /\ update_cache(u.wallet)
    \/ u.type # "Issued" /\ Invalidate(u.wallet)

handle_attestation_update(h) ==
    \/ Deliver(h)
    \/ /\ notify_subscribers(h)
       /\ UNCHANGED <<chain, cache, subscribers>>
    \/ /\ pc[h] = "cache"
       /\ AfterNotifying(job[h].update)
       /\ Return(h)
       /\ UNCHANGED <<chain, subscribers, readers, queue>>

(* subscribe waits for the write guard and holds it over no await.         *)
Subscribing(w) == {h \in Handler : pc[h] = "subscribe" /\ job[h].wallet = w}

subscribe(h) ==
    \/ /\ pc[h] = "idle"
       /\ \E w \in Wallet, events \in EventSets :
             /\ Len(subscribers[w]) + Cardinality(Subscribing(w)) < MaxSubscribers
             /\ Assign(h, [NoJob EXCEPT !.wallet = w, !.events = events])
       /\ Goto(h, "subscribe")
       /\ queue' = Append(queue, h)
       /\ UNCHANGED <<chain, cache, subscribers, readers>>
    \/ /\ pc[h] = "subscribe"
       /\ IsFirst(h)
       /\ readers = {}
       /\ queue' = Tail(queue)
       /\ subscribers' = [subscribers EXCEPT ![job[h].wallet] =
                             Append(@, job[h].events)]
       /\ Return(h)
       /\ UNCHANGED <<chain, cache, readers>>

-----------------------------------------------------------------------------
Older(n, cap) == IF n < cap THEN n + 1 ELSE cap

Tick ==
    /\ lost' = [k \in Key |-> IF k[2] \in satisfies[k[1]] THEN lost[k]
                              ELSE Older(lost[k], MaxAge)]
    /\ cache' = [k \in DOMAIN cache |->
                   [cache[k] EXCEPT !.age = Older(@, TTL),
                                    !.since = Older(@, MaxAge)]]
    /\ job' = [t \in Task |-> [job[t] EXCEPT
                  !.since = IF pc[t] = "set" THEN Older(@, MaxAge) ELSE @]]
    /\ UNCHANGED <<satisfies, updates, subscribers, readers, queue, pc>>

Next ==
    \/ Issue
    \/ Revoke
    \/ Expire
    \/ Tick
    \/ \E c \in Caller : verify_wallet_access(c)
    \/ \E h \in Handler : handle_attestation_update(h) \/ subscribe(h)

Spec == Init /\ [][Next]_vars

(* Fairness: an RPC, a call to a subscriber and a wait for a lock end, and *)
(* time passes.  Nobody has to call, and no update has to arrive.          *)
Progress(t) ==
    /\ pc[t] # "idle"
    /\ IF t \in Caller THEN verify_wallet_access(t)
       ELSE handle_attestation_update(t) \/ subscribe(t)

FairSpec ==
    /\ Spec
    /\ WF_vars(Tick)
    /\ \A t \in Task : WF_vars(Progress(t))

-----------------------------------------------------------------------------
(* What the cache or a call in flight says of a wallet was so when its     *)
(* attestations were read: if the requirement has been lost since, it was  *)
(* lost after that.                                                        *)
HonestCache ==
    \A k \in DOMAIN cache :
        cache[k].allowed /\ k[2] \notin satisfies[k[1]] => lost[k] <= cache[k].since

HonestCalls ==
    \A c \in Caller : LET k == job[c].key IN
        pc[c] = "set" /\ job[c].allowed /\ k[2] \notin satisfies[k[1]] =>
            lost[k] <= job[c].since

Honest == HonestCache /\ HonestCalls

(* Within its TTL the data of an entry is no older than its age and flight. *)
AgeOfData ==
    \A k \in DOMAIN cache :
        Fresh(cache[k]) => cache[k].since <= cache[k].age + cache[k].flight

(* The arguments of a call are there as long as it runs.                   *)
Arguments ==
    \A t \in Task :
        /\ pc[t] \in {"get", "fetch", "set"} => job[t].key \in Key
        /\ pc[t] \in {"notify", "send", "cache"} => job[t].update \in Update

(* The inductive invariant of the proofs.                                  *)
IInv == TypeOK /\ Arguments /\ Honest /\ AgeOfData

(* A wallet that no longer meets a requirement is let in by the cache for  *)
(* less than ttl_seconds, counted from its loss, plus the time one call    *)
(* took to validate what it had read before, whatever the webhook does.    *)
StaleAllowIsBounded ==
    \A k \in Key :
        LET e == get(k)
        IN  e.allowed /\ k[2] \notin satisfies[k[1]] => lost[k] < TTL + e.flight

(* A wallet that loses a requirement for good is refused for good in the   *)
(* end, though calls keep coming and every update to the webhook server    *)
(* may be lost: no cached allow and no call in flight outlives it forever. *)
Allows(k) ==
    \/ get(k).allowed
    \/ \E c \in Caller : pc[c] = "set" /\ job[c].key = k /\ job[c].allowed

RevokedIsRefused ==
    \A k \in Key : <>[](k[2] \notin satisfies[k[1]]) => <>[](~Allows(k))

(* Every request to the webhook server is answered, although new           *)
(* subscribers wait behind slow callbacks and later updates behind them.   *)
HandlersReturn == \A h \in Handler : pc[h] # "idle" ~> pc[h] = "idle"

=============================================================================
