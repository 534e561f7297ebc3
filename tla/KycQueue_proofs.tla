--------------------------- MODULE KycQueue_proofs ---------------------------
(***************************************************************************)
(* Theorems about KycQueue: types, and that nothing is registered whose    *)
(* metadata is not in IPFS, whatever overlaps, fails or is killed.         *)
(***************************************************************************)
EXTENDS KycQueue, TLAPS

(* The items the code builds.                                              *)
LEMMA Items ==
    /\ NoJob \in Job
    /\ \A d \in Metadata : upload(d) \in Item /\ register(d) \in Item
    /\ \A i \in Item : upload(i.of) \in Item
BY DEF NoJob, Job, Item, upload, register

LEMMA InitIInv == Init => IInv
<1> SUFFICES ASSUME Init PROVE IInv
    OBVIOUS
<1>1. TypeOK
    BY Items DEF Init, TypeOK
<1>2. HasItem
    BY DEF Init, HasItem
<1>3. RegisteredWasUploaded
    BY DEF Init, RegisteredWasUploaded, Follows, NoJob
<1> QED BY <1>1, <1>2, <1>3 DEF IInv

(* What a task holds is about metadata of U.                               *)
JobIn(j, U) ==
    \A i \in j.cur \cup j.items \cup j.remaining \cup ({j.item} \ {None}) :
        i.action = "register_onchain" => i.of \in U

(* A step that only moves task t, to a place and locals that are in order. *)
LEMMA LocalStep ==
    ASSUME IInv, NEW t \in Task,
           NEW label \in {"idle", "getItem", "setItem", "next"}, NEW j \in Job,
           pc' = [pc EXCEPT ![t] = label],
           job' = [job EXCEPT ![t] = j],
           label \in {"getItem", "setItem"} => j.item \in Item,
           JobIn(j, uploaded'),
           stored' \subseteq Item, Follows(stored)',
           uploaded' \subseteq Metadata, uploaded \subseteq uploaded',
           registered' \subseteq uploaded'
    PROVE  IInv'
<1> USE DEF IInv
<1>1. TypeOK'
    BY DEF TypeOK
<1>2. HasItem'
    BY DEF HasItem, TypeOK
<1>3. \A u \in Task : JobIn(job'[u], uploaded')
  <2> TAKE u \in Task
  <2>1. CASE u = t
    <3>1. job'[u] = j
        BY <2>1 DEF TypeOK
    <3> QED BY <3>1 DEF JobIn, Follows
  <2>2. CASE u # t
    <3>1. job'[u] = job[u]
        BY <2>2 DEF TypeOK
    <3>2. JobIn(job[u], uploaded)
        BY DEF RegisteredWasUploaded, JobIn, Follows
    <3> QED BY <3>1, <3>2 DEF JobIn, Follows
  <2> QED BY <2>1, <2>2
<1>4. RegisteredWasUploaded'
    BY <1>3 DEF RegisteredWasUploaded, JobIn, Follows
<1> QED BY <1>1, <1>2, <1>4

LEMMA NoJobIn == JobIn(NoJob, uploaded')
BY DEF JobIn, NoJob

(* The parts of a job, in order when the invariant holds.                  *)
LEMMA Parts ==
    ASSUME IInv, NEW t \in Task
    PROVE  /\ job[t] \in Job
           /\ JobIn(job[t], uploaded)
           /\ stored \subseteq Item /\ Follows(stored)
           /\ uploaded \subseteq Metadata
           /\ registered \subseteq uploaded
BY DEF IInv, TypeOK, RegisteredWasUploaded, JobIn, Follows

LEMMA SubmitStep ==
    ASSUME IInv, NEW t \in App, submit(t)
    PROVE  IInv'
<1>1. t \in Task
    BY DEF Task
<1>2. PICK d \in Metadata : Assign(t, [NoJob EXCEPT !.item = upload(d)])
    BY DEF submit
<1> DEFINE j == [NoJob EXCEPT !.item = upload(d)]
<1>3. j \in Job /\ j.item \in Item
    BY Items DEF NoJob, Job
<1>4. JobIn(j, uploaded')
    BY DEF JobIn, Follows, NoJob, upload
<1>5. /\ pc' = [pc EXCEPT ![t] = "getItem"]
      /\ job' = [job EXCEPT ![t] = j]
      /\ UNCHANGED <<stored, uploaded, registered>>
    BY <1>2 DEF submit, Goto, Assign
<1>6. Follows(stored)'
    BY <1>5, Parts DEF Follows, Task
<1> HIDE DEF j
<1> QED BY <1>1, <1>3, <1>4, <1>5, <1>6, Parts, LocalStep

(* The two ways out of enqueue.                                            *)
LEMMA RejectedStep ==
    ASSUME IInv, NEW t \in Task, pc[t] \in {"getItem", "setItem"},
           Rejected(t), UNCHANGED <<stored, uploaded, registered>>
    PROVE  IInv'
<1> DEFINE k == [job[t] EXCEPT !.item = None, !.cur = {},
                               !.remaining = @ \cup {upload(job[t].item.of)}]
<1>1. job[t].item \in Item
    BY DEF IInv, HasItem
<1>2. Follows(stored)'
    BY Parts DEF Follows
<1>3. CASE t \in App
  <2>1. pc' = [pc EXCEPT ![t] = "idle"] /\ job' = [job EXCEPT ![t] = NoJob]
      BY <1>3 DEF Rejected, Goto, Assign
  <2> QED BY <1>2, <2>1, Items, NoJobIn, Parts, LocalStep
<1>4. CASE t \notin App
  <2>1. k \in Job
      BY <1>1, Items, Parts DEF Job
  <2>2. JobIn(k, uploaded')
      BY Parts DEF JobIn, Follows, Job, upload
  <2>3. pc' = [pc EXCEPT ![t] = "next"] /\ job' = [job EXCEPT ![t] = k]
      BY <1>4 DEF Rejected, Goto, Assign
  <2> HIDE DEF k
  <2> QED BY <1>2, <2>1, <2>2, <2>3, Parts, LocalStep
<1> QED BY <1>3, <1>4

LEMMA EnqueuedStep ==
    ASSUME IInv, NEW t \in Task, pc[t] = "setItem",
           stored' = job[t].cur \cup {job[t].item},
           Enqueued(t), UNCHANGED <<uploaded, registered>>
    PROVE  IInv'
<1> DEFINE k == [job[t] EXCEPT !.item = None, !.cur = {}]
<1>1. job[t].item \in Item
    BY DEF IInv, HasItem
<1>2. job[t].item # None
    BY <1>1, QueueAssumption
<1>3. stored' \subseteq Item /\ Follows(stored)'
    BY <1>1, <1>2, Parts DEF JobIn, Follows, Job
<1>4. CASE t \in App
  <2>1. pc' = [pc EXCEPT ![t] = "idle"] /\ job' = [job EXCEPT ![t] = NoJob]
      BY <1>4 DEF Enqueued, Goto, Assign
  <2> QED BY <1>3, <2>1, Items, NoJobIn, Parts, LocalStep
<1>5. CASE t \notin App
  <2>1. k \in Job
      BY Parts DEF Job
  <2>2. JobIn(k, uploaded')
      BY Parts DEF JobIn, Follows, Job
  <2>3. pc' = [pc EXCEPT ![t] = "next"] /\ job' = [job EXCEPT ![t] = k]
      BY <1>5 DEF Enqueued, Goto, Assign
  <2> HIDE DEF k
  <2> QED BY <1>3, <2>1, <2>2, <2>3, Parts, LocalStep
<1> QED BY <1>4, <1>5

LEMMA EnqueueStep ==
    ASSUME IInv, NEW t \in Task, enqueue(t)
    PROVE  IInv'
<1>1. ASSUME pc[t] = "getItem", Goto(t, "setItem"),
             Assign(t, [job[t] EXCEPT !.cur = stored]),
             UNCHANGED <<stored, uploaded, registered>>
      PROVE  IInv'
  <2> DEFINE j == [job[t] EXCEPT !.cur = stored]
  <2>1. j \in Job /\ j.item \in Item
      BY <1>1, Parts DEF Job, IInv, HasItem
  <2>2. JobIn(j, uploaded')
      BY <1>1, Parts DEF JobIn, Follows, Job
  <2>3. pc' = [pc EXCEPT ![t] = "setItem"] /\ job' = [job EXCEPT ![t] = j]
      BY <1>1 DEF Goto, Assign
  <2>4. Follows(stored)'
      BY <1>1, Parts DEF Follows
  <2> HIDE DEF j
  <2> QED BY <1>1, <2>1, <2>2, <2>3, <2>4, Parts, LocalStep
<1>2. ASSUME pc[t] \in {"getItem", "setItem"}, Rejected(t),
             UNCHANGED <<stored, uploaded, registered>>
      PROVE  IInv'
    BY <1>2, RejectedStep
<1>3. ASSUME pc[t] = "setItem", stored' = job[t].cur \cup {job[t].item},
             Enqueued(t), UNCHANGED <<uploaded, registered>>
      PROVE  IInv'
    BY <1>3, EnqueuedStep
<1> QED BY <1>1, <1>2, <1>3 DEF enqueue

-----------------------------------------------------------------------------
LEMMA StartStep ==
    ASSUME IInv, NEW s \in Sync, pc[s] = "idle", Goto(s, "next"),
           Assign(s, [NoJob EXCEPT !.items = stored]),
           UNCHANGED <<stored, uploaded, registered>>
    PROVE  IInv'
<1> DEFINE j == [NoJob EXCEPT !.items = stored]
<1>1. j \in Job
    BY Items, Parts DEF Job, NoJob, Task
<1>2. Follows(stored)'
    BY Parts DEF Follows, Task
<1>3. JobIn(j, uploaded')
    BY <1>2 DEF JobIn, Follows, NoJob
<1>4. pc' = [pc EXCEPT ![s] = "next"] /\ job' = [job EXCEPT ![s] = j]
    BY DEF Goto, Assign
<1>5. s \in Task
    BY DEF Task
<1> HIDE DEF j
<1> QED BY <1>1, <1>2, <1>3, <1>4, <1>5, Parts, LocalStep

LEMMA UploadsStep ==
    ASSUME IInv, NEW s \in Sync, NEW d \in Metadata, Uploads(s, d)
    PROVE  IInv'
<1> DEFINE j == [job[s] EXCEPT !.items = @ \ {upload(d)}, !.item = register(d)]
<1>1. s \in Task
    BY DEF Task
<1>2. j \in Job /\ j.item \in Item
    BY <1>1, Items, Parts DEF Job
<1>3. /\ uploaded' = uploaded \cup {d}
      /\ pc' = [pc EXCEPT ![s] = "getItem"]
      /\ job' = [job EXCEPT ![s] = j]
      /\ UNCHANGED <<stored, registered>>
    BY DEF Uploads, Upload, Goto, Assign
<1>4. JobIn(j, uploaded')
    BY <1>1, <1>3, Parts DEF JobIn, Follows, Job, register
<1>5. Follows(stored)' /\ uploaded' \subseteq Metadata
    BY <1>1, <1>3, Parts DEF Follows
<1> HIDE DEF j
<1> QED BY <1>1, <1>2, <1>3, <1>4, <1>5, Parts, LocalStep

(* An item that failed is kept, whatever it may have done.                 *)
LEMMA KeepStep ==
    ASSUME IInv, NEW s \in Sync, NEW i \in job[s].items, pc[s] = "next",
           Keep(s, i), UNCHANGED <<stored, pc>>,
           uploaded' \subseteq Metadata, uploaded \subseteq uploaded',
           registered' \subseteq uploaded'
    PROVE  IInv'
<1> DEFINE j == [job[s] EXCEPT !.items = @ \ {i}, !.remaining = @ \cup {i}]
<1>1. s \in Task
    BY DEF Task
<1>2. j \in Job
    BY <1>1, Parts DEF Job
<1>3. job' = [job EXCEPT ![s] = j] /\ pc' = [pc EXCEPT ![s] = "next"]
    BY <1>1 DEF Keep, Assign, IInv, TypeOK
<1>4. JobIn(j, uploaded')
    BY <1>1, Parts DEF JobIn, Follows, Job
<1>5. Follows(stored)' /\ stored' \subseteq Item
    BY <1>1, Parts DEF Follows
<1> HIDE DEF j
<1> QED BY <1>1, <1>2, <1>3, <1>4, <1>5, LocalStep

LEMMA SendStep ==
    ASSUME IInv, NEW s \in Sync, NEW d \in Metadata, pc[s] = "next",
           register(d) \in job[s].items, sendRegisterTx(s, d),
           UNCHANGED <<stored, uploaded>>
    PROVE  IInv'
<1> DEFINE j == [job[s] EXCEPT !.items = @ \ {register(d)}]
<1>1. s \in Task
    BY DEF Task
<1>2. j \in Job
    BY <1>1, Parts DEF Job
<1>3. /\ job' = [job EXCEPT ![s] = j]
      /\ pc' = [pc EXCEPT ![s] = "next"]
      /\ registered' = registered \cup {d}
    BY <1>1 DEF sendRegisterTx, Assign, IInv, TypeOK
<1>4. d \in uploaded
    BY <1>1, Parts DEF JobIn, Follows, register
<1>5. JobIn(j, uploaded')
    BY <1>1, Parts DEF JobIn, Follows, Job
<1>6. Follows(stored)' /\ registered' \subseteq uploaded'
    BY <1>1, <1>3, <1>4, Parts DEF Follows
<1> HIDE DEF j
<1> QED BY <1>1, <1>2, <1>3, <1>5, <1>6, Parts, LocalStep

LEMMA SaveStep ==
    ASSUME IInv, NEW s \in Sync, stored' \in {stored, job[s].remaining},
           Goto(s, "idle"), Assign(s, NoJob), UNCHANGED <<uploaded, registered>>
    PROVE  IInv'
<1>1. s \in Task
    BY DEF Task
<1>2. stored' \subseteq Item /\ Follows(stored)'
    BY <1>1, Parts DEF JobIn, Follows, Job
<1>3. pc' = [pc EXCEPT ![s] = "idle"] /\ job' = [job EXCEPT ![s] = NoJob]
    BY DEF Goto, Assign
<1> QED BY <1>1, <1>2, <1>3, Items, NoJobIn, Parts, LocalStep

LEMMA ProcessStep ==
    ASSUME IInv, NEW s \in Sync, processQueue(s)
    PROVE  IInv'
<1>1. ASSUME NEW d \in Metadata, pc[s] = "next",
             upload(d) \in job[s].items,
             uploaded' \in {uploaded, uploaded \cup {d}},
             Keep(s, upload(d)), UNCHANGED <<stored, registered, pc>>
      PROVE  IInv'
  <2>1. /\ uploaded' \subseteq Metadata
        /\ uploaded \subseteq uploaded'
        /\ registered' \subseteq uploaded'
      BY <1>1, Parts DEF Task
  <2> QED BY <1>1, <2>1, KeepStep
<1>2. ASSUME NEW d \in Metadata, pc[s] = "next",
             register(d) \in job[s].items,
             registered' \in {registered, registered \cup {d}},
             Keep(s, register(d)), UNCHANGED <<stored, uploaded, pc>>
      PROVE  IInv'
  <2>1. d \in uploaded
      BY <1>2, Parts DEF JobIn, Follows, register, Task
  <2>2. /\ uploaded' \subseteq Metadata
        /\ uploaded \subseteq uploaded'
        /\ registered' \subseteq uploaded'
      BY <1>2, <2>1, Parts DEF Task
  <2> QED BY <1>2, <2>2, KeepStep
<1> QED BY <1>1, <1>2, StartStep, UploadsStep, SendStep, SaveStep
        DEF processQueue

LEMMA KillStep == IInv /\ Kill => IInv'
<1> SUFFICES ASSUME IInv, Kill PROVE IInv'
    OBVIOUS
<1>1. TypeOK'
    BY Items DEF IInv, TypeOK, Kill
<1>2. HasItem'
    BY DEF Kill, HasItem
<1>3. RegisteredWasUploaded'
    BY DEF IInv, Kill, RegisteredWasUploaded, Follows, NoJob
<1> QED BY <1>1, <1>2, <1>3 DEF IInv

LEMMA NextIInv == IInv /\ [Next]_vars => IInv'
<1> SUFFICES ASSUME IInv, [Next]_vars PROVE IInv'
    OBVIOUS
<1>1. CASE UNCHANGED vars
    BY <1>1 DEF IInv, TypeOK, HasItem, RegisteredWasUploaded, Follows, vars
<1>2. CASE Next
    BY <1>2, SubmitStep, EnqueueStep, ProcessStep, KillStep DEF Next
<1> QED BY <1>1, <1>2

-----------------------------------------------------------------------------
(* The inductive invariant of the queue holds in every reachable state.    *)
THEOREM Invariance == Spec => []IInv
BY InitIInv, NextIInv, PTL DEF Spec

(* The variables keep their types.                                         *)
THEOREM TypeCorrect == Spec => []TypeOK
<1>1. IInv => TypeOK
    BY DEF IInv
<1> QED BY <1>1, Invariance, PTL

(* However many calls of the app and runs of the background task overlap,  *)
(* fail halfway or are killed, and whatever the last writer of the queue   *)
(* undoes, nothing is registered, or queued to be, before its upload.      *)
THEOREM UploadFirst == Spec => []RegisteredWasUploaded
<1>1. IInv => RegisteredWasUploaded
    BY DEF IInv
<1> QED BY <1>1, Invariance, PTL

=============================================================================
