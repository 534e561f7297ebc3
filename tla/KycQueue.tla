------------------------------ MODULE KycQueue ------------------------------
(***************************************************************************)
(* The queue with which the mobile app works offline (rn/src/kycQueue.ts): *)
(* the app enqueues uploads of KYC metadata, and a background task uploads *)
(* them to IPFS and sends the registrations to the chain.                  *)
(*                                                                         *)
(* The queue is one value in AsyncStorage.  enqueue and processQueue read  *)
(* it, await, and write back what they make of it; nothing locks it.  A    *)
(* step runs a task from one await to the next, and at any time the system *)
(* may kill the process: what is stored, uploaded or registered stays.     *)
(*                                                                         *)
(* An item is known by its action and the metadata it is about.  Order and *)
(* repetition in the queue are left out: no step depends on them.          *)
(***************************************************************************)
EXTENDS FiniteSets

CONSTANTS
    Metadata,
    App,            \* concurrent calls of enqueue by the app
    Sync,           \* runs of processQueue that can overlap
    None

Task == App \cup Sync

Item == [action : {"upload_metadata", "register_onchain"}, of : Metadata]

upload(d)   == [action |-> "upload_metadata", of |-> d]
register(d) == [action |-> "register_onchain", of |-> d]

ASSUME QueueAssumption ==
    /\ App \cap Sync = {}
    /\ None \notin Item

VARIABLES
    stored,         \* under QUEUE_KEY; an absent key reads as an empty queue
    uploaded,       \* metadata in IPFS
    registered,     \* metadata registered on chain
    pc,
    job

vars == <<stored, uploaded, registered, pc, job>>

Job == [item      : Item \cup {None},     \* enqueue
        cur       : SUBSET Item,
        items     : SUBSET Item,          \* processQueue
        remaining : SUBSET Item]

NoJob == [item |-> None, cur |-> {}, items |-> {}, remaining |-> {}]

TypeOK ==
    /\ stored \subseteq Item
    /\ uploaded \subseteq Metadata
    /\ registered \subseteq Metadata
    /\ pc \in [Task -> {"idle", "getItem", "setItem", "next"}]
    /\ job \in [Task -> Job]

Init ==
    /\ stored = {}
    /\ uploaded = {}
    /\ registered = {}
    /\ pc = [t \in Task |-> "idle"]
    /\ job = [t \in Task |-> NoJob]

Goto(t, label) == pc' = [pc EXCEPT ![t] = label]
Assign(t, j) == job' = [job EXCEPT ![t] = j]

-----------------------------------------------------------------------------
(* After enqueue the app's call returns and a run goes on.  When           *)
(* AsyncStorage rejects, the app's call fails too and a run keeps the item *)
(* it was about.                                                           *)
Enqueued(t) ==
    IF t \in App
    THEN Goto(t, "idle") /\ Assign(t, NoJob)
    ELSE /\ Goto(t, "next")
         /\ Assign(t, [job[t] EXCEPT !.item = None, !.cur = {}])

Rejected(t) ==
    IF t \in App
    THEN Goto(t, "idle") /\ Assign(t, NoJob)
    ELSE /\ Goto(t, "next")
         /\ Assign(t, [job[t] EXCEPT !.item = None, !.cur = {},
                          !.remaining = @ \cup {upload(job[t].item.of)}])

enqueue(t) ==
    \/ /\ pc[t] = "getItem"
       /\ \/ Goto(t, "setItem") /\ Assign(t, [job[t] EXCEPT !.cur = stored])
          \/ Rejected(t)
       /\ UNCHANGED <<stored, uploaded, registered>>
    \/ /\ pc[t] = "setItem"
       /\ \/ stored' = job[t].cur \cup {job[t].item} /\ Enqueued(t)
          \/ Rejected(t) /\ UNCHANGED stored
       /\ UNCHANGED <<uploaded, registered>>

(* fakeSubmit: a button of the app.                                        *)
submit(t) ==
    /\ pc[t] = "idle"
    /\ \E d \in Metadata : Assign(t, [NoJob EXCEPT !.item = upload(d)])
    /\ Goto(t, "getItem")
    /\ UNCHANGED <<stored, uploaded, registered>>

-----------------------------------------------------------------------------
(* processQueue.  A request that fails may still have had its effect.      *)

(* A mutant of Upload: the upload is not awaited.                          *)
Unawaited(s, d) ==
    /\ Assign(s, [job[s] EXCEPT !.items = @ \ {upload(d)},
                                !.item = register(d)])
    /\ Goto(s, "getItem")
    /\ UNCHANGED uploaded

Upload(s, d) ==
    /\ uploaded' = uploaded \cup {d}
    /\ Assign(s, [job[s] EXCEPT !.items = @ \ {upload(d)},
                                !.item = register(d)])
    /\ Goto(s, "getItem")

sendRegisterTx(s, d) ==
    /\ registered' = registered \cup {d}
    /\ Assign(s, [job[s] EXCEPT !.items = @ \ {register(d)}])
    /\ UNCHANGED pc

(* A mutant of Keep: the item is not pushed.                               *)
Drop(s, i) == Assign(s, [job[s] EXCEPT !.items = @ \ {i}])

Keep(s, i) ==
    Assign(s, [job[s] EXCEPT !.items = @ \ {i}, !.remaining = @ \cup {i}])

Uploads(s, d) ==
    /\ pc[s] = "next"
    /\ upload(d) \in job[s].items
    /\ Upload(s, d)
    /\ UNCHANGED <<stored, registered>>

processQueue(s) ==
    \/ /\ pc[s] = "idle"
       /\ Assign(s, [NoJob EXCEPT !.items = stored])
       /\ Goto(s, "next")
       /\ UNCHANGED <<stored, uploaded, registered>>
    \/ \E d \in Metadata : Uploads(s, d)
    \/ /\ pc[s] = "next"
       /\ \E d \in Metadata :
             /\ upload(d) \in job[s].items
             /\ uploaded' \in {uploaded, uploaded \cup {d}}
             /\ Keep(s, upload(d))
       /\ UNCHANGED <<stored, registered, pc>>
    \/ /\ pc[s] = "next"
       /\ \E d \in Metadata :
             /\ register(d) \in job[s].items
             /\ \/ sendRegisterTx(s, d)
                \/ /\ registered' \in {registered, registered \cup {d}}
                   /\ Keep(s, register(d))
                   /\ UNCHANGED pc
       /\ UNCHANGED <<stored, uploaded>>
    \/ /\ pc[s] = "next"
       /\ job[s].items = {}
       /\ stored' \in {stored, job[s].remaining}   \* setItem may reject
       /\ Goto(s, "idle")
       /\ Assign(s, NoJob)
       /\ UNCHANGED <<uploaded, registered>>

(* The process is killed, with whatever it is in the middle of.            *)
Kill ==
    /\ \E t \in Task : pc[t] # "idle"
    /\ pc' = [t \in Task |-> "idle"]
    /\ job' = [t \in Task |-> NoJob]
    /\ UNCHANGED <<stored, uploaded, registered>>

Next ==
    \/ \E t \in App : submit(t)
    \/ \E t \in Task : enqueue(t)
    \/ \E s \in Sync : processQueue(s)
    \/ Kill

Spec == Init /\ [][Next]_vars

(* Fairness: BackgroundFetch starts a run every now and then, also after a *)
(* boot; an AsyncStorage call comes back; and metadata that is uploaded    *)
(* again and again is uploaded in the end.                                 *)
FairSpec ==
    /\ Spec
    /\ \A s \in Sync : WF_vars(enqueue(s) \/ processQueue(s))
    /\ \A t \in App : WF_vars(enqueue(t))
    /\ \A s \in Sync, d \in Metadata : SF_vars(Uploads(s, d))

-----------------------------------------------------------------------------
(* Whatever is lost, repeated or written back from a stale read, nothing   *)
(* is registered, or waits to be, whose metadata is not in IPFS.           *)
Follows(S) ==
    \A i \in S : i.action = "register_onchain" => i.of \in uploaded

RegisteredWasUploaded ==
    /\ registered \subseteq uploaded
    /\ Follows(stored)
    /\ \A t \in Task :
          /\ Follows(job[t].cur \cup job[t].items \cup job[t].remaining)
          /\ job[t].item # None => Follows({job[t].item})

(* enqueue has its argument.  And the inductive invariant of the proofs.   *)
HasItem ==
    \A t \in Task : pc[t] \in {"getItem", "setItem"} => job[t].item \in Item

IInv == TypeOK /\ HasItem /\ RegisteredWasUploaded

(* As long as calls do not overlap, an upload that is in the queue reaches *)
(* IPFS, through failures of the network and of the storage and through    *)
(* kills at any point: "keep item for retry".                              *)
Alone == \A t, u \in Task : pc[t] # "idle" /\ pc[u] # "idle" => t = u

QueuedIsUploaded ==
    []Alone => \A d \in Metadata : upload(d) \in stored ~> d \in uploaded

(* "enqueue register action": when nothing runs, metadata that is in IPFS  *)
(* is registered, or one of its actions is still in the queue.             *)
UploadedIsPending ==
    (\A t \in Task : pc[t] = "idle") =>
        \A d \in uploaded :
            d \in registered \/ {upload(d), register(d)} \cap stored # {}

=============================================================================
