------------------------ MODULE ComplianceSdk_proofs ------------------------
(***************************************************************************)
(* Theorems about ComplianceSdk, for any number of wallets, calls and      *)
(* attempts: first what follows from whether a transaction landed, then    *)
(* what its instructions do to the ledger one after the other.             *)
(***************************************************************************)
EXTENDS ComplianceSdk, FiniteSetTheorems, SequenceTheorems, WellFoundedInduction, TLAPS

RequestType ==
    [method : Method, wallet : Wallet \cup {None}, other : Wallet \cup {None},
     mint : Mint \cup {None}, amount : 0..1]

Step == {"idle", "read", "send", "source", "destination", "confirm", "done"}

CallType ==
    [request : RequestType \cup {None}, pc : Step, attempt : Nat,
     result : Answer \cup {None}, code : ErrorCode \cup {None},
     seen : SUBSET Wallet, halted : BOOLEAN]

InstructionType ==
    [op : Admin \cup {"createPlainMint", "createExtendedMint", "initializeMint",
                      "initializePermanentDelegate", "initializeTransferHook",
                      "initializeExtraAccountMetaList", "createTokenAccount", "mintTo"},
     wallet : Wallet \cup {None}, mint : Mint \cup {None}]

TransactionType ==
    [instructions : Seq(InstructionType), state : {"sent", "landed", "rejected", "invalid"},
     before : SUBSET (Call \X (1..MaxAttempts))]

TypeOK ==
    /\ calls \in [Call -> CallType]
    /\ transactions \in [Call -> Seq(TransactionType)]

Sends == Admin \cup {"initializeCompliantMint"}
Reads == Method \ (Sends \cup {"approveTransfer"})

(* The methods that never send.                                            *)
Asking == {"approveTransfer", "getRegistryInfo", "getTransferHookInfo", "updateTransferHook"}

(* Where call c may be, and what it may have sent and returned by then.    *)
CallOK(c) ==
    LET job == calls[c]
        sent == transactions[c]
    IN  /\ job.pc = "idle" => sent = <<>>
        /\ job.pc # "idle" => job.request \in RequestType
        /\ job.pc # "done" => job.result = None
        /\ job.pc = "read" => job.request.method \in Reads
        /\ job.pc = "send" => job.request.method \in Sends
        /\ job.pc \in {"source", "destination"} =>
              job.request.method = "approveTransfer" /\ Verified(ledger) \subseteq job.seen
        /\ job.pc \in {"source", "destination"} =>
              job.request.wallet \in Wallet /\ job.request.other \in Wallet
        /\ job.pc = "destination" => job.request.wallet \in job.seen
        /\ job.pc = "confirm" => sent # <<>> /\ job.request.method # "approveTransfer"
        /\ job.result = "failed" => job.request.method # "approveTransfer"
        /\ job.result = "signature" => sent # <<>> /\ sent[Len(sent)].state = "landed"
        /\ job.result = "approved" =>
              {job.request.wallet, job.request.other} \subseteq job.seen

IInv == TypeOK /\ \A c \in Call : CallOK(c)

-----------------------------------------------------------------------------
(* isRetryable refuses every code that an error is wrapped in, that of a   *)
(* lost connection included.                                               *)
LEMMA NotRetryable ==
    ASSUME NEW m \in DOMAIN wrapped
    PROVE  wrapped[m] \in ErrorCode /\ ~isRetryable(wrapped[m])
  BY DEF wrapped, isRetryable, ErrorCode, SDK

LEMMA RequestsOK == Requests \subseteq RequestType
  <1>1. OfWallet \cup OfBreaker \cup Unwrapping
          \cup {"approveTransfer", "createCompliantMint", "getRegistryInfo",
                "updateTransferHook", "getTransferHookInfo"} \subseteq Method
    BY DEF OfWallet, OfBreaker, Unwrapping, Method, wrapped
  <1>2. Existing \in Mint
    BY DEF Mint
  <1>3. ASSUME NEW m \in Method, NEW w \in Wallet \cup {None}, NEW o \in Wallet \cup {None},
               NEW t \in Mint \cup {None}, NEW n \in 0..1
        PROVE  Request(m, w, o, t, n) \in RequestType
    BY <1>3 DEF Request, RequestType
  <1>4. 0 \in 0..1 /\ 1 \in 0..1
    OBVIOUS
  <1>5. {"TokenManager.createCompliantMint", "initializeCompliantMint", "mintToWallet",
         "transferCheckedWithHook"} \subseteq Method
    BY <1>1 DEF Unwrapping
  <1> SUFFICES ASSUME NEW r \in Requests PROVE r \in RequestType
    OBVIOUS
  <1>6. CASE r \in {Request(m, w, None, None, 0) : m \in OfWallet, w \in Wallet}
    BY <1>1, <1>3, <1>4, <1>6
  <1>7. CASE r \in {Request(m, None, None, None, 0) : m \in OfBreaker
                        \cup {"createCompliantMint", "getRegistryInfo",
                              "TokenManager.createCompliantMint", "initializeCompliantMint"}}
    <2>1. PICK m \in OfBreaker \cup {"createCompliantMint", "getRegistryInfo",
                              "TokenManager.createCompliantMint", "initializeCompliantMint"} :
              r = Request(m, None, None, None, 0)
      BY <1>7
    <2>2. m \in Method
      BY <1>1, <1>5
    <2> QED
      BY <1>3, <1>4, <2>1, <2>2
  <1>8. CASE r \in {Request("approveTransfer", w, o, None, 0) : w, o \in Wallet}
    BY <1>1, <1>3, <1>4, <1>8
  <1>9. CASE r \in {Request(m, None, None, t, 0) :
                        m \in {"updateTransferHook", "getTransferHookInfo"}, t \in Mint}
    <2>1. PICK m \in {"updateTransferHook", "getTransferHookInfo"}, t \in Mint :
              r = Request(m, None, None, t, 0)
      BY <1>9
    <2>2. m \in Method
      BY <1>1
    <2> QED
      BY <1>3, <1>4, <2>1, <2>2
  <1>10. CASE r \in {Request("mintToWallet", w, None, t, 1) : w \in Wallet, t \in Mint}
    BY <1>3, <1>4, <1>5, <1>10
  <1>11. CASE r \in {Request("transferCheckedWithHook", w, o, Existing, n) :
                        w, o \in Wallet, n \in 0..1}
    BY <1>2, <1>3, <1>5, <1>11
  <1> QED
    BY <1>6, <1>7, <1>8, <1>9, <1>10, <1>11 DEF Requests

(* Only a transfer is between wallets that both must be named.             *)
LEMMA TransfersNameWallets ==
    ASSUME NEW r \in Requests, r.method = "approveTransfer"
    PROVE  r.wallet \in Wallet /\ r.other \in Wallet
  BY DEF Requests, Request, OfWallet, OfBreaker

LEMMA InstructionsOK ==
    ASSUME NEW id \in Call, NEW c \in RequestType,
           c.method \in Method \ Asking
    PROVE  Instructions(id, c) \in Seq(InstructionType)
  <1>1. id \in Mint
    BY DEF Mint
  <1>2. /\ c.wallet \in Wallet \cup {None}
        /\ c.mint \in Mint \cup {None}
    BY DEF RequestType
  <1>3. CASE c.method \in Admin
    <2>1. Instructions(id, c) = <<Instruction(c.method, c.wallet, None)>>
      BY <1>3 DEF Instructions, Admin, OfWallet, OfBreaker
    <2>2. Instruction(c.method, c.wallet, None) \in InstructionType
      BY <1>2, <1>3 DEF Instruction, InstructionType
    <2> QED
      BY <2>1, <2>2
  <1>4. CASE c.method = "createCompliantMint"
    <2>1. Instructions(id, c) = mintWithTransferHook(id)
      BY <1>4 DEF Instructions, Admin, OfWallet, OfBreaker
    <2>2. \A op \in {"createPlainMint", "initializeMint", "initializeTransferHook",
                     "initializeExtraAccountMetaList"} :
              Instruction(op, None, id) \in InstructionType
      BY <1>1 DEF Instruction, InstructionType
    <2> QED
      BY <2>1, <2>2 DEF mintWithTransferHook, createInitializeMintInstruction,
                        createExtraAccountMetaListInstruction
  <1>6. CASE c.method = "TokenManager.createCompliantMint"
    <2>1. Instructions(id, c) = compliantMint(id)
      BY <1>6 DEF Instructions, Admin, OfWallet, OfBreaker
    <2>2. \A op \in {"createExtendedMint", "initializePermanentDelegate",
                     "initializeTransferHook", "initializeMint"} :
              Instruction(op, None, id) \in InstructionType
      BY <1>1 DEF Instruction, InstructionType
    <2> QED
      BY <2>1, <2>2 DEF compliantMint
  <1>7. CASE c.method = "mintToWallet"
    <2>1. Instructions(id, c) = mintTo(c)
      BY <1>7 DEF Instructions, Admin, OfWallet, OfBreaker
    <2>2. /\ Instruction("createTokenAccount", c.wallet, c.mint) \in InstructionType
          /\ Instruction("mintTo", c.wallet, c.mint) \in InstructionType
      BY <1>2 DEF Instruction, InstructionType
    <2>3. \A i \in InstructionType : <<i>> \in Seq(InstructionType)
      OBVIOUS
    <2>4. \A s, t \in Seq(InstructionType) : s \o t \in Seq(InstructionType)
      OBVIOUS
    <2>5. <<>> \in Seq(InstructionType)
      OBVIOUS
    <2> QED
      BY <2>1, <2>2, <2>3, <2>4, <2>5 DEF mintTo
  <1>8. CASE c.method \in {"initializeCompliantMint", "transferCheckedWithHook"}
    BY <1>8 DEF Instructions, compliantTransaction, Admin, OfWallet, OfBreaker
  <1> QED
    BY <1>3, <1>4, <1>6, <1>7, <1>8
       DEF Method, Asking, wrapped, Unwrapping, Admin, OfWallet, OfBreaker

LEMMA FirstAwaitOK ==
    ASSUME NEW m \in Method
    PROVE  /\ FirstAwait(m) \in {"send", "source", "read"}
           /\ FirstAwait(m) = "send" => m \in Sends
           /\ FirstAwait(m) = "source" => m = "approveTransfer"
           /\ FirstAwait(m) = "read" => m \in Reads
  BY DEF FirstAwait, Sends, Reads, Admin, OfWallet, OfBreaker

LEMMA CodeOK ==
    ASSUME NEW m \in Method
    PROVE  codeOf(m) \in ErrorCode \cup {None}
  BY NotRetryable DEF codeOf, Method

-----------------------------------------------------------------------------
LEMMA InitOK == Init => IInv
  <1> SUFFICES ASSUME Init PROVE IInv
    OBVIOUS
  <1>1. Idle \in CallType
    BY DEF Idle, CallType, Step
  <1>2. TypeOK
    BY <1>1 DEF Init, TypeOK
  <1>3. ASSUME NEW c \in Call PROVE CallOK(c)
    <2>1. /\ calls[c].pc = "idle" /\ calls[c].result = None
          /\ transactions[c] = <<>>
      BY DEF Init, Idle
    <2> QED
      BY <2>1, SdkAssumption DEF CallOK, Answer
  <1> QED
    BY <1>2, <1>3 DEF IInv

(* A step of one call leaves what is known of the others.                  *)
LEMMA OnlyOne ==
    ASSUME IInv, NEW id \in Call, TypeOK', ledger' = ledger, CallOK(id)',
           \A d \in Call : d # id => /\ calls'[d] = calls[d]
                                     /\ transactions'[d] = transactions[d]
    PROVE  IInv'
  <1>1. ASSUME NEW d \in Call, d # id PROVE CallOK(d)'
    <2>1. CallOK(d) /\ calls'[d] = calls[d] /\ transactions'[d] = transactions[d]
      BY <1>1 DEF IInv
    <2> QED
      BY <2>1 DEF CallOK, Verified
  <1> QED
    BY <1>1 DEF IInv

(* A call that returns.                                                    *)
LEMMA ReturnOK ==
    ASSUME IInv, NEW id \in Call, NEW result \in Answer, NEW code \in ErrorCode \cup {None},
           calls[id].pc # "idle",
           Return(id, result, code), UNCHANGED <<ledger, transactions>>,
           result = "failed" => calls[id].request.method # "approveTransfer",
           result = "signature" => /\ transactions[id] # <<>>
                                   /\ Latest(id).state = "landed",
           result = "approved" =>
               {calls[id].request.wallet, calls[id].request.other} \subseteq calls[id].seen
    PROVE  IInv'
  <1> DEFINE j == [calls[id] EXCEPT !.pc = "done", !.result = result, !.code = code]
  <1>1. calls \in [Call -> CallType] /\ calls[id] \in CallType /\ CallOK(id)
    BY DEF IInv, TypeOK
  <1>2. j \in CallType
    BY <1>1 DEF CallType, Step
  <1>3. calls' = [calls EXCEPT ![id] = j]
    BY <1>1 DEF Return, CallType
  <1>4. /\ j.pc = "done" /\ j.result = result /\ j.code = code
        /\ j.request = calls[id].request /\ j.seen = calls[id].seen
    BY <1>1 DEF CallType
  <1> HIDE DEF j
  <1>5. calls'[id] = j /\ \A d \in Call : d # id => calls'[d] = calls[d]
    BY <1>1, <1>3
  <1>6. TypeOK'
    BY <1>1, <1>2, <1>3 DEF IInv, TypeOK
  <1>7. CallOK(id)'
    <2>1. j.request \in RequestType
      BY <1>1, <1>4 DEF CallOK
    <2> QED
      BY <1>4, <1>5, <2>1 DEF CallOK, Latest
  <1> QED
    BY <1>5, <1>6, <1>7, OnlyOne

(* A call that starts, or is made again.                                   *)
LEMMA StartOK ==
    ASSUME IInv, NEW id \in Call, NEW j \in CallType,
           j.request \in RequestType, j.pc = FirstAwait(j.request.method), j.result = None,
           j.request.method = "approveTransfer" =>
               /\ Verified(ledger) \subseteq j.seen
               /\ j.request.wallet \in Wallet /\ j.request.other \in Wallet,
           calls' = [calls EXCEPT ![id] = j], UNCHANGED <<ledger, transactions>>
    PROVE  IInv'
  <1>1. calls'[id] = j /\ \A d \in Call : d # id => calls'[d] = calls[d]
    BY DEF IInv, TypeOK
  <1>2. TypeOK'
    BY DEF IInv, TypeOK
  <1>3. j.request.method \in Method
    BY DEF RequestType
  <1>4. CallOK(id)'
    BY <1>1, <1>3, FirstAwaitOK, SdkAssumption DEF CallOK, Verified, Answer
  <1> QED
    BY <1>1, <1>2, <1>4, OnlyOne

LEMMA BeginOK ==
    ASSUME IInv, NEW id \in Call, NEW request \in Requests, Begin(id, request)
    PROVE  IInv'
  <1> DEFINE halted == request.method = "approveTransfer" /\ ledger.circuitBreakerActive
             j == [Idle EXCEPT !.request = request, !.pc = FirstAwait(request.method),
                               !.attempt = 1,
                               !.seen = IF request.method = "approveTransfer"
                                        THEN Verified(ledger) ELSE {},
                               !.halted = halted]
  <1>1. request \in RequestType /\ request.method \in Method
    BY RequestsOK DEF RequestType
  <1>2. /\ j.request = request /\ j.pc = FirstAwait(request.method) /\ j.result = None
        /\ request.method = "approveTransfer" => j.seen = Verified(ledger)
    BY DEF Idle
  <1>3. j \in CallType
    <2>1. FirstAwait(request.method) \in Step
      BY <1>1, FirstAwaitOK DEF Step
    <2>2. halted \in BOOLEAN
      OBVIOUS
    <2> HIDE DEF halted
    <2> QED
      BY <1>1, <2>1, <2>2 DEF Idle, CallType, Verified
  <1>4. calls' = [calls EXCEPT ![id] = j] /\ UNCHANGED <<ledger, transactions>>
    BY DEF Begin
  <1>5. request.method = "approveTransfer" => request.wallet \in Wallet /\ request.other \in Wallet
    BY TransfersNameWallets
  <1> HIDE DEF j
  <1> QED
    BY <1>1, <1>2, <1>3, <1>4, <1>5, StartOK

(* A call that is made again is not about a transfer: approveTransfer does *)
(* not fail.                                                               *)
LEMMA RetryOK ==
    ASSUME IInv, NEW id \in Call, retry(id)
    PROVE  IInv'
  <1> DEFINE j == [calls[id] EXCEPT !.pc = FirstAwait(calls[id].request.method),
                                    !.attempt = @ + 1, !.result = None, !.code = None]
  <1>1. calls \in [Call -> CallType] /\ calls[id] \in CallType /\ CallOK(id)
    BY DEF IInv, TypeOK
  <1>2. calls[id].request \in RequestType /\ calls[id].request.method \in Method
    BY <1>1 DEF retry, CallOK, RequestType
  <1>3. calls[id].request.method # "approveTransfer"
    BY <1>1 DEF retry, CallOK
  <1>4. j \in CallType
    <2>1. FirstAwait(calls[id].request.method) \in Step
      BY <1>2, FirstAwaitOK DEF Step
    <2>2. /\ calls[id].attempt + 1 \in Nat
          /\ None \in Answer \cup {None} /\ None \in ErrorCode \cup {None}
      BY <1>1 DEF CallType
    <2> DEFINE pc == FirstAwait(calls[id].request.method)
               attempt == calls[id].attempt + 1
    <2>3. j = [calls[id] EXCEPT !.pc = pc, !.attempt = attempt, !.result = None, !.code = None]
      OBVIOUS
    <2>4. pc \in Step /\ attempt \in Nat
      BY <2>1, <2>2
    <2> HIDE DEF pc, attempt, j
    <2> QED
      BY <1>1, <2>2, <2>3, <2>4 DEF CallType
  <1>5. /\ j.request = calls[id].request /\ j.result = None
        /\ j.pc = FirstAwait(calls[id].request.method)
    BY <1>1 DEF CallType
  <1>6. calls' = [calls EXCEPT ![id] = j] /\ UNCHANGED <<ledger, transactions>>
    BY <1>1 DEF retry, CallType
  <1> HIDE DEF j
  <1> QED
    BY <1>2, <1>3, <1>4, <1>5, <1>6, StartOK

LEMMA SendOK ==
    ASSUME IInv, NEW id \in Call, Send(id), UNCHANGED ledger,
           calls[id].pc \in {"read", "send"},
           calls[id].request.method \in Method \ Asking
    PROVE  IInv'
  <1> DEFINE tx == [instructions |-> Instructions(id, calls[id].request), state |-> "sent",
                    before |-> Creators]
             j == [calls[id] EXCEPT !.pc = "confirm"]
  <1>1. /\ calls \in [Call -> CallType] /\ calls[id] \in CallType /\ CallOK(id)
        /\ transactions \in [Call -> Seq(TransactionType)]
        /\ transactions[id] \in Seq(TransactionType)
    BY DEF IInv, TypeOK
  <1>2. calls[id].request \in RequestType /\ calls[id].result = None
    BY <1>1 DEF CallOK
  <1>3. tx \in TransactionType
    <2>1. Creators \subseteq Call \X (1..MaxAttempts)
      BY DEF Creators
    <2> QED
      BY <1>2, <2>1, InstructionsOK DEF TransactionType
  <1>4. calls' = [calls EXCEPT ![id] = j] /\ j \in CallType
    BY <1>1 DEF Send, CallType, Step
  <1>5. /\ j.pc = "confirm" /\ j.request = calls[id].request
        /\ j.result = None
    BY <1>1, <1>2 DEF CallType
  <1>6. transactions' = [transactions EXCEPT ![id] = Append(transactions[id], tx)]
    BY DEF Send
  <1> HIDE DEF tx, j
  <1>7. /\ Append(transactions[id], tx) \in Seq(TransactionType)
        /\ Append(transactions[id], tx) # <<>>
        /\ Len(Append(transactions[id], tx)) = Len(transactions[id]) + 1
    BY <1>1, <1>3
  <1>8. TypeOK'
    BY <1>1, <1>4, <1>6, <1>7 DEF TypeOK
  <1>9. /\ calls'[id] = j /\ transactions'[id] = Append(transactions[id], tx)
        /\ \A d \in Call : d # id => /\ calls'[d] = calls[d]
                                     /\ transactions'[d] = transactions[d]
    BY <1>1, <1>4, <1>6
  <1>10. CallOK(id)'
    BY <1>2, <1>5, <1>7, <1>9, SdkAssumption DEF CallOK, Answer, Asking
  <1> QED
    BY <1>8, <1>9, <1>10, OnlyOne

(* What a method does with the code of its failure.                        *)
LEMMA FailOK ==
    ASSUME IInv, NEW id \in Call, calls[id].pc # "idle",
           calls[id].request.method # "approveTransfer",
           Fail(id), UNCHANGED <<ledger, transactions>>
    PROVE  IInv'
  <1>1. calls[id].request.method \in Method
    BY DEF IInv, CallOK, RequestType
  <1>2. codeOf(calls[id].request.method) \in ErrorCode \cup {None}
    BY <1>1, CodeOK
  <1>3. "failed" \in Answer
    BY DEF Answer
  <1> QED
    BY <1>2, <1>3, ReturnOK DEF Fail

LEMMA AfterReadOK ==
    ASSUME IInv, NEW id \in Call, AfterRead(id)
    PROVE  IInv'
  <1>1. calls[id].pc = "read" /\ UNCHANGED ledger
    BY DEF AfterRead
  <1>2. calls[id].request.method \in Reads
    BY <1>1 DEF IInv, CallOK
  <1>3. CASE Return(id, "answer", None) /\ UNCHANGED transactions
    <2>1. "answer" \in Answer
      BY DEF Answer
    <2> QED
      BY <1>1, <1>3, <2>1, ReturnOK
  <1>4. CASE Fail(id) /\ UNCHANGED transactions
    BY <1>1, <1>2, <1>4, FailOK DEF Reads
  <1>5. CASE Send(id) /\ calls[id].request.method \notin Asking
    BY <1>1, <1>2, <1>5, SendOK DEF Reads
  <1> QED
    BY <1>2, <1>3, <1>4, <1>5 DEF AfterRead, Asking, Reads

LEMMA SendAndConfirmOK ==
    ASSUME IInv, NEW id \in Call, sendAndConfirm(id)
    PROVE  IInv'
  <1>1. calls[id].request.method \in Sends
    BY DEF IInv, CallOK, sendAndConfirm
  <1>2. calls[id].request.method \in Method \ Asking
    BY <1>1 DEF Sends, Asking, Admin, OfWallet, OfBreaker, Method, wrapped, Unwrapping
  <1> QED
    BY <1>2, SendOK DEF sendAndConfirm

(* A status is that of the ledger, or "unverified".                        *)
LEMMA StatusIsGrounded ==
    ASSUME NEW w \in Wallet, NEW fetched \in BOOLEAN,
           checkComplianceStatus(w, fetched) = "verified"
    PROVE  w \in Verified(ledger)
  BY DEF checkComplianceStatus, Verified

LEMMA ApproveOK ==
    ASSUME IInv, NEW id \in Call, NEW fetched \in BOOLEAN, approveTransfer(id, fetched)
    PROVE  IInv'
  <1> DEFINE request == calls[id].request
  <1>1. calls \in [Call -> CallType] /\ calls[id] \in CallType /\ CallOK(id)
    BY DEF IInv, TypeOK
  <1>2. calls[id].pc \in {"source", "destination"} /\ UNCHANGED <<ledger, transactions>>
    BY DEF approveTransfer
  <1>3. /\ request \in RequestType /\ request.method = "approveTransfer"
        /\ request.wallet \in Wallet /\ request.other \in Wallet
        /\ Verified(ledger) \subseteq calls[id].seen
    BY <1>1, <1>2 DEF CallOK
  <1>4. {"approved", "refused"} \subseteq Answer
    BY DEF Answer
  <1>5. CASE calls[id].pc = "source" /\ checkComplianceStatus(request.wallet, fetched) = "verified"
    <2> DEFINE j == [calls[id] EXCEPT !.pc = "destination"]
    <2>1. calls' = [calls EXCEPT ![id] = j] /\ j \in CallType
      BY <1>1, <1>5 DEF approveTransfer, CallType, Step
    <2>2. /\ j.pc = "destination" /\ j.request = request
          /\ j.seen = calls[id].seen /\ j.result = calls[id].result
      BY <1>1 DEF CallType
    <2>3. request.wallet \in calls[id].seen
      BY <1>3, <1>5, StatusIsGrounded
    <2>4. calls[id].result = None
      BY <1>1, <1>2 DEF CallOK
    <2> HIDE DEF j
    <2>5. calls'[id] = j /\ \A d \in Call : d # id => calls'[d] = calls[d]
      BY <1>1, <2>1
    <2>6. TypeOK'
      BY <1>1, <1>2, <2>1 DEF IInv, TypeOK
    <2>7. CallOK(id)'
      BY <1>2, <1>3, <2>2, <2>3, <2>4, <2>5, SdkAssumption DEF CallOK, Verified, Answer
    <2> QED
      BY <1>2, <2>5, <2>6, <2>7, OnlyOne
  <1>6. CASE Return(id, "refused", None)
    BY <1>2, <1>4, <1>6, ReturnOK
  <1>7. CASE /\ calls[id].pc = "destination" /\ Return(id, "approved", None)
             /\ checkComplianceStatus(request.other, fetched) = "verified"
    <2>1. {request.wallet, request.other} \subseteq calls[id].seen
      BY <1>1, <1>3, <1>7, StatusIsGrounded DEF CallOK
    <2> QED
      BY <1>2, <1>4, <1>7, <2>1, ReturnOK
  <1> QED
    BY <1>5, <1>6, <1>7 DEF approveTransfer

LEMMA SettleOK ==
    ASSUME IInv, NEW id \in Call, Settle(id)
    PROVE  IInv'
  <1>1. calls[id].pc = "confirm" /\ UNCHANGED <<ledger, transactions>>
    BY DEF Settle, Confirmed, Rejected, TimesOut
  <1>5. transactions[id] # <<>> /\ calls[id].request.method # "approveTransfer"
    BY <1>1 DEF IInv, CallOK
  <1>2. CASE Confirmed(id)
    <2>2. "signature" \in Answer
      BY DEF Answer
    <2> QED
      BY <1>1, <1>2, <1>5, <2>2, ReturnOK DEF Confirmed
  <1>3. CASE Rejected(id)
    BY <1>1, <1>3, <1>5, FailOK DEF Rejected
  <1>4. CASE TimesOut(id)
    BY <1>1, <1>4, <1>5, FailOK DEF TimesOut
  <1> QED
    BY <1>2, <1>3, <1>4 DEF Settle

LEMMA NetworkFailsOK ==
    ASSUME IInv, NEW id \in Call, NetworkFails(id)
    PROVE  IInv'
  <1>1. calls[id].request.method \in Reads \cup Sends
    BY DEF NetworkFails, IInv, CallOK
  <1>2. calls[id].request.method # "approveTransfer"
    BY <1>1 DEF Reads, Sends, Admin, OfWallet, OfBreaker
  <1> QED
    BY <1>2, FailOK DEF NetworkFails

(* What the ledger's steps leave of a call.                                *)
Undisturbed(c) ==
    /\ calls'[c] \in CallType
    /\ calls'[c].pc = calls[c].pc /\ calls'[c].request = calls[c].request
    /\ calls'[c].result = calls[c].result /\ calls'[c].attempt = calls[c].attempt
    /\ calls[c].seen \subseteq calls'[c].seen
    /\ calls[c].pc \in {"source", "destination"} => Verified(ledger') \subseteq calls'[c].seen

LEMMA ObserveOK ==
    ASSUME IInv, calls' = Observe(ledger'), NEW c \in Call
    PROVE  Undisturbed(c)
  <1> DEFINE halted == calls[c].halted /\ ledger'.circuitBreakerActive
             j == Witnessed(calls[c], ledger')
  <1>1. calls[c] \in CallType
    BY DEF IInv, TypeOK
  <1>2. Verified(ledger') \subseteq Wallet /\ halted \in BOOLEAN
    BY DEF Verified
  <1>5. j = [calls[c] EXCEPT !.seen = calls[c].seen \cup Verified(ledger'), !.halted = halted]
    BY <1>1 DEF Witnessed, CallType
  <1>4. calls'[c] = IF calls[c].pc \in {"source", "destination"} THEN j ELSE calls[c]
    BY DEF Observe
  <1> HIDE DEF halted, j
  <1>3. /\ j \in CallType /\ j.pc = calls[c].pc /\ j.request = calls[c].request
        /\ j.result = calls[c].result /\ j.attempt = calls[c].attempt
        /\ j.seen = calls[c].seen \cup Verified(ledger')
    BY <1>1, <1>2, <1>5 DEF CallType
  <1> QED
    BY <1>1, <1>3, <1>4 DEF Undisturbed

(* What the invariant says of a call survives any step of the ledger, and  *)
(* any fate of its transactions but the loss of a landed one.              *)
LEMMA LedgerStepOK ==
    ASSUME IInv, NEW c \in Call, Undisturbed(c),
           transactions \in [Call -> Seq(TransactionType)],
           transactions' \in [Call -> Seq(TransactionType)],
           Len(transactions'[c]) = Len(transactions[c]),
           \A k \in 1..Len(transactions[c]) :
               transactions[c][k].state = "landed" => transactions'[c][k].state = "landed"
    PROVE  CallOK(c)'
  <1>1. CallOK(c) /\ calls[c] \in CallType
    BY DEF IInv, TypeOK
  <1>2. transactions[c] \in Seq(TransactionType) /\ transactions'[c] \in Seq(TransactionType)
    OBVIOUS
  <1>3. transactions[c] = <<>> <=> transactions'[c] = <<>>
    BY <1>2
  <1>4. transactions[c] # <<>> /\ transactions[c][Len(transactions[c])].state = "landed"
          => transactions'[c][Len(transactions'[c])].state = "landed"
    <2> SUFFICES ASSUME transactions[c] # <<>>
                 PROVE  Len(transactions[c]) \in 1..Len(transactions[c])
      OBVIOUS
    <2> QED
      BY <1>2
  <1> QED
    BY <1>1, <1>3, <1>4 DEF CallOK, Undisturbed

(* A sent transaction gets a fate.                                         *)
LEMMA FateOK ==
    ASSUME IInv, NEW id \in Call, NEW n \in DOMAIN transactions[id],
           NEW fate \in {"landed", "rejected", "invalid"},
           transactions[id][n].state = "sent",
           transactions' = [transactions EXCEPT ![id][n].state = fate],
           calls' = [c \in Call |-> calls'[c]], \A c \in Call : Undisturbed(c)
    PROVE  IInv'
  <1> DEFINE sent == transactions[id]
  <1>2. /\ transactions \in [Call -> Seq(TransactionType)]
        /\ sent \in Seq(TransactionType) /\ n \in 1..Len(sent)
        /\ sent[n].state = "sent"
    BY DEF IInv, TypeOK
  <1> DEFINE tx == [sent[n] EXCEPT !.state = fate]
             after == [sent EXCEPT ![n] = tx]
  <1>3. tx \in TransactionType
    <2>1. sent[n] \in TransactionType
      BY <1>2
    <2> QED
      BY <2>1 DEF TransactionType
  <1>4. transactions' = [transactions EXCEPT ![id] = after]
    BY <1>2
  <1> HIDE DEF tx
  <1>5. /\ after \in Seq(TransactionType) /\ Len(after) = Len(sent)
        /\ \A k \in 1..Len(sent) : sent[k].state = "landed" => after[k].state = "landed"
    BY <1>2, <1>3
  <1> HIDE DEF after
  <1>6. transactions' \in [Call -> Seq(TransactionType)]
    BY <1>2, <1>4, <1>5
  <1>7. ASSUME NEW c \in Call PROVE CallOK(c)'
    <2>1. CASE c = id
      <3>1. transactions'[c] = after
        BY <1>2, <1>4, <2>1
      <3> QED
        BY <1>2, <1>5, <1>6, <2>1, <3>1, LedgerStepOK
    <2>2. CASE c # id
      <3>1. transactions'[c] = transactions[c]
        BY <1>2, <1>4, <2>2
      <3> QED
        BY <1>2, <1>6, <3>1, LedgerStepOK
    <2> QED
      BY <2>1, <2>2
  <1>8. calls' \in [Call -> CallType]
    BY DEF Undisturbed
  <1> QED
    BY <1>6, <1>7, <1>8 DEF IInv, TypeOK

LEMMA ExecuteOK ==
    ASSUME IInv, NEW id \in Call, NEW n, Execute(id, n)
    PROVE  IInv'
  <1>1. PICK fate \in {"landed", "rejected"} :
            transactions' = [transactions EXCEPT ![id][n].state = fate]
    BY DEF Execute
  <1>2. /\ n \in DOMAIN transactions[id] /\ transactions[id][n].state = "sent"
        /\ calls' = Observe(ledger')
    BY DEF Execute
  <1>3. calls' = [c \in Call |-> calls'[c]] /\ \A c \in Call : Undisturbed(c)
    BY <1>2, ObserveOK DEF Observe
  <1> QED
    BY <1>1, <1>2, <1>3, FateOK

LEMMA RefuseOK ==
    ASSUME IInv, NEW id \in Call, NEW n, Refuse(id, n)
    PROVE  IInv'
  <1>1. /\ n \in DOMAIN transactions[id] /\ transactions[id][n].state = "sent"
        /\ transactions' = [transactions EXCEPT ![id][n].state = "invalid"]
        /\ calls' = calls /\ ledger' = ledger
    BY DEF Refuse
  <1>2. calls' = [c \in Call |-> calls'[c]] /\ \A c \in Call : Undisturbed(c)
    BY <1>1 DEF IInv, TypeOK, CallOK, Undisturbed, Verified
  <1> QED
    BY <1>1, <1>2, FateOK

LEMMA SanctionOK ==
    ASSUME IInv, NEW w \in Wallet, Sanction(w)
    PROVE  IInv'
  <1>1. /\ transactions \in [Call -> Seq(TransactionType)]
        /\ transactions' = transactions /\ calls' = Observe(ledger')
    BY DEF IInv, TypeOK, Sanction
  <1>2. ASSUME NEW c \in Call PROVE CallOK(c)'
    BY <1>1, ObserveOK, LedgerStepOK
  <1>3. calls' \in [Call -> CallType]
    <2>1. calls' = [c \in Call |-> calls'[c]]
      BY <1>1 DEF Observe
    <2> QED
      BY <1>1, <2>1, ObserveOK DEF Undisturbed
  <1> QED
    BY <1>1, <1>2, <1>3 DEF IInv, TypeOK

(* Every step of every call, of the ledger and of its authority.           *)
LEMMA NextOK == IInv /\ [Next]_vars => IInv'
  <1> SUFFICES ASSUME IInv, [Next]_vars PROVE IInv'
    OBVIOUS
  <1>1. CASE \E c \in Call, r \in Requests : Begin(c, r)
    BY <1>1, BeginOK
  <1>2. CASE \E c \in Call : Continue(c) \/ retry(c)
    <2> SUFFICES ASSUME NEW c \in Call, Continue(c) \/ retry(c) PROVE IInv'
      BY <1>2
    <2> QED
      BY SendAndConfirmOK, AfterReadOK, ApproveOK, NetworkFailsOK, SettleOK, RetryOK DEF Continue
  <1>3. CASE \E c \in Call, n \in 1..MaxAttempts : Execute(c, n) \/ Refuse(c, n)
    BY <1>3, ExecuteOK, RefuseOK
  <1>4. CASE \E w \in Wallet : Sanction(w)
    BY <1>4, SanctionOK
  <1>5. CASE UNCHANGED vars
    BY <1>5 DEF vars, IInv, TypeOK, CallOK, Verified
  <1> QED
    BY <1>1, <1>2, <1>3, <1>4, <1>5 DEF Next

-----------------------------------------------------------------------------
(* In every reachable state a call is where its method allows, and its     *)
(* transactions and its result agree with each other.                      *)
THEOREM CallsAgree == Spec => []IInv
  <1>1. Init => IInv
    BY InitOK
  <1>2. IInv /\ [Next]_vars => IInv'
    BY NextOK
  <1> QED
    BY <1>1, <1>2, PTL DEF Spec

(* Whatever happens between the two reads of approveTransfer, and however  *)
(* they fail, an approved transfer is between wallets that were each       *)
(* verified during the call.                                               *)
THEOREM ApprovalsAreGrounded == Spec => []ApprovalIsGrounded
  <1>1. IInv => ApprovalIsGrounded
    BY DEF IInv, CallOK, ApprovalIsGrounded
  <1> QED
    BY <1>1, CallsAgree, PTL

-----------------------------------------------------------------------------
(* What a program answers is final: the first line of a log that says      *)
(* anything decides which error is made of it, whatever the lines after    *)
(* it say, and neither that error nor one made of an Anchor error may be   *)
(* retried (errors.ts 104-110, 324-365 and 370-398).                       *)
LogLine == [kind : {"anchor", "failed", "other"}, code : ErrorCode \cup {None}]

LEMMA AnchorCodesAreFinal ==
    ASSUME NEW code \in ERROR_CODE_MAP \cup {"UNKNOWN_ERROR"}
    PROVE  /\ code \in ErrorCode /\ ~isRetryable(code)
           /\ getCategory(code) \in {"General", "KYC", "Arithmetic"}
  <1>1. code \in KYC \cup Arithmetic \cup General
    BY DEF ERROR_CODE_MAP, General
  <1>2. code \in ErrorCode /\ ~isRetryable(code)
    BY DEF ErrorCode, isRetryable, ERROR_CODE_MAP, General, KYC, Arithmetic
  <1>3. CASE code \in General
    <2>1. code \notin KYC \cup Registry \cup TransferHook \cup SDK \cup Arithmetic
      BY <1>3 DEF General, KYC, Registry, TransferHook, SDK, Arithmetic
    <2> QED
      BY <1>2, <1>3, <2>1 DEF getCategory
  <1>4. CASE code \in KYC
    <2>1. code \notin General \cup Registry \cup TransferHook \cup SDK \cup Arithmetic
      BY <1>4 DEF General, KYC, Registry, TransferHook, SDK, Arithmetic
    <2> QED
      BY <1>2, <1>4, <2>1 DEF getCategory
  <1>5. CASE code \in Arithmetic
    <2>1. code \notin General \cup KYC \cup Registry \cup TransferHook \cup SDK
      BY <1>5 DEF General, KYC, Registry, TransferHook, SDK, Arithmetic
    <2> QED
      BY <1>2, <1>5, <2>1 DEF getCategory
  <1> QED
    BY <1>1, <1>3, <1>4, <1>5

(* What a program answered is final: the first line of a log that says       *)
(* anything decides the error, and isRetryable refuses it (errors.ts).       *)
THEOREM ProgramErrorsAreFinal ==
    ASSUME NEW logs \in Seq(LogLine), NEW first \in DOMAIN logs,
           Decisive(logs[first]), \A k \in 1..(first - 1) : ~Decisive(logs[k])
    PROVE  LET code == createErrorFromTransactionFailure(logs)
           IN  /\ code = IF logs[first].kind = "anchor" THEN parseAnchorError(logs[first].code)
                         ELSE "UNKNOWN_ERROR"
               /\ code \in ErrorCode /\ ~isRetryable(code)
               /\ getCategory(code) \in {"General", "KYC", "Arithmetic"}
  <1> DEFINE lines == {i \in DOMAIN logs : Decisive(logs[i])}
             Least(i) == \A k \in lines : i <= k
  <1>1. lines \subseteq Nat /\ first \in lines
    OBVIOUS
  <1>2. Least(first)
    <2> SUFFICES ASSUME NEW k \in lines, k < first PROVE FALSE
      BY <1>1
    <2> QED
      BY <1>1
  <1>3. first = CHOOSE i \in lines : Least(i)
    <2>1. \A i \in lines : Least(i) => i = first
      BY <1>1, <1>2
    <2> HIDE DEF lines, Least
    <2> QED
      BY <1>1, <1>2, <2>1
  <1>4. createErrorFromTransactionFailure(logs)
          = IF logs[first].kind = "anchor" THEN logs[first].code ELSE "UNKNOWN_ERROR"
    BY <1>1, <1>3 DEF createErrorFromTransactionFailure
  <1>5. logs[first].kind = "anchor" => /\ logs[first].code \in ERROR_CODE_MAP
                                       /\ parseAnchorError(logs[first].code) = logs[first].code
    BY DEF Decisive, parseAnchorError
  <1> QED
    BY <1>4, <1>5, AnchorCodesAreFinal

-----------------------------------------------------------------------------
(* Of some subsets of a finite set, one has no other below it.             *)
LEMMA SmallestMember ==
    ASSUME NEW S, IsFiniteSet(S), NEW F \in SUBSET SUBSET S, F # {}
    PROVE  \E A \in F : \A B \in F : B \subseteq A => B = A
<1> DEFINE R == StrictSubsetOrdering(S)
<1>1. IsWellFoundedOn(R, SUBSET S)
  BY FS_StrictSubsetOrderingWellFounded, FS_FiniteSubsetsOfFinite
<1>2. \E A \in F : \A B \in F : ~ (<<B, A>> \in R)
  <2> HIDE DEF R
  <2>1. F \subseteq SUBSET S
    OBVIOUS
  <2> QED BY <1>1, <2>1, WFMin
<1>3. PICK A \in F : \A B \in F : ~ (<<B, A>> \in R)
  BY <1>2
<1>4. ASSUME NEW B \in F, B \subseteq A, B # A PROVE FALSE
  <2>1. <<B, A>> \in (SUBSET S) \X (SUBSET S)
    OBVIOUS
  <2>2. <<B, A>> \in R
    BY <1>4, <2>1 DEF StrictSubsetOrdering
  <2> QED BY <2>2, <1>3
<1> QED BY <1>4

(* A set of numbers up to n that has 0, and with k < n also k + 1, is full. *)
LEMMA UpToInduction ==
    ASSUME NEW n \in Nat, NEW G, 0 \in G,
           \A k \in 0..n : k < n /\ k \in G => k + 1 \in G
    PROVE  n \in G
<1> DEFINE Full == 0..n
           F == {0..k : k \in Full \ G}
<1>1. SUFFICES ASSUME n \notin G PROVE FALSE
  OBVIOUS
<1>2. IsFiniteSet(Full)
  BY FS_Interval
<1>3. F \in SUBSET SUBSET Full /\ F # {}
  BY <1>1
<1>4. PICK A \in F : \A B \in F : B \subseteq A => B = A
  <2> HIDE DEF F, Full
  <2> QED BY <1>2, <1>3, SmallestMember
<1>5. PICK k \in Full \ G : A = 0..k
  OBVIOUS
<1>6. k # 0 /\ k - 1 \in Full /\ k - 1 \notin G
  BY <1>5
<1>7. 0..(k - 1) \in F /\ 0..(k - 1) \subseteq A
  BY <1>5, <1>6
<1>8. 0..(k - 1) = 0..k
  BY <1>4, <1>5, <1>7
<1>9. k \in 0..k /\ k \notin 0..(k - 1)
  BY <1>5
<1> QED BY <1>8, <1>9

-----------------------------------------------------------------------------
(* What has become of a ledger after each instruction of a transaction.    *)
Runs(g, tx, l, n) ==
    g = [k \in 0..n |->
            IF k = 0 THEN l
            ELSE IF g[k - 1] = None \/ ~Accepts(tx[k], g[k - 1]) THEN None
            ELSE Effect(tx[k], g[k - 1])]

(* A transaction of any length has such a run.                             *)
LEMMA RunsExist ==
    ASSUME NEW tx, NEW l, NEW n \in Nat
    PROVE  \E g : Runs(g, tx, l, n)
<1> DEFINE G == {k \in 0..n : \E g : Runs(g, tx, l, k)}
<1>1. 0 \in G
  <2>1. Runs([k \in 0..0 |-> l], tx, l, 0)
    BY DEF Runs
  <2> QED BY <2>1
<1>2. ASSUME NEW m \in 0..n, m < n, m \in G PROVE m + 1 \in G
  <2>1. PICK g : Runs(g, tx, l, m)
    BY <1>2
  <2> DEFINE last == IF g[m] = None \/ ~Accepts(tx[m + 1], g[m]) THEN None
                     ELSE Effect(tx[m + 1], g[m])
             h == [k \in 0..(m + 1) |-> IF k = m + 1 THEN last ELSE g[k]]
  <2>2. m \in Nat /\ m + 1 \in 0..n
    BY <1>2
  <2>3. ASSUME NEW k \in 0..(m + 1)
        PROVE  h[k] = IF k = 0 THEN l
                      ELSE IF h[k - 1] = None \/ ~Accepts(tx[k], h[k - 1]) THEN None
                      ELSE Effect(tx[k], h[k - 1])
    <3>1. CASE k = m + 1
      <4>1. h[k] = last /\ h[k - 1] = g[m] /\ k # 0 /\ k - 1 = m
        BY <2>2, <3>1
      <4> HIDE DEF h
      <4> QED BY <3>1, <4>1
    <3>2. CASE k # m + 1
      <4>1. k \in 0..m /\ h[k] = g[k] /\ (k # 0 => h[k - 1] = g[k - 1])
        BY <2>2, <3>2
      <4>2. g[k] = IF k = 0 THEN l
                   ELSE IF g[k - 1] = None \/ ~Accepts(tx[k], g[k - 1]) THEN None
                   ELSE Effect(tx[k], g[k - 1])
        BY <2>1, <4>1 DEF Runs
      <4> HIDE DEF h
      <4> QED BY <4>1, <4>2
    <3> QED BY <3>1, <3>2
  <2>4. h = [k \in 0..(m + 1) |-> h[k]]
    OBVIOUS
  <2> HIDE DEF h
  <2>5. Runs(h, tx, l, m + 1)
    BY <2>3, <2>4 DEF Runs
  <2> QED BY <2>2, <2>5
<1> HIDE DEF G
<1>3. n \in G
  BY <1>1, <1>2, UpToInduction
<1> QED BY <1>3 DEF G

(* Executed is the last of them.                                           *)
LEMMA ExecutedRuns ==
    ASSUME NEW tx, NEW l, Len(tx) \in Nat
    PROVE  \E g : /\ g[0] = l /\ Executed(tx, l) = g[Len(tx)]
                  /\ \A k \in 1..Len(tx) :
                        g[k] = IF g[k - 1] = None \/ ~Accepts(tx[k], g[k - 1]) THEN None
                               ELSE Effect(tx[k], g[k - 1])
<1> DEFINE g == CHOOSE f : Runs(f, tx, l, Len(tx))
<1>1. Runs(g, tx, l, Len(tx))
  BY RunsExist
<1>2. Executed(tx, l) = g[Len(tx)]
  BY DEF Executed, Runs
<1> HIDE DEF g
<1>3. g[0] = l
  BY <1>1 DEF Runs
<1>4. ASSUME NEW k \in 1..Len(tx)
      PROVE  g[k] = IF g[k - 1] = None \/ ~Accepts(tx[k], g[k - 1]) THEN None
                    ELSE Effect(tx[k], g[k - 1])
  BY <1>1 DEF Runs
<1> QED BY <1>2, <1>3, <1>4

(* A ledger that begins in L[0], and that each accepted instruction takes  *)
(* from one L to the next, ends in the last of them unless an instruction  *)
(* is refused.                                                             *)
LEMMA Chain ==
    ASSUME NEW tx, Len(tx) \in Nat, NEW l, NEW L, l \in L[0],
           \A k \in 1..Len(tx) : \A x \in L[k - 1] :
               Accepts(tx[k], x) => Effect(tx[k], x) \in L[k]
    PROVE  Executed(tx, l) = None \/ Executed(tx, l) \in L[Len(tx)]
<1> DEFINE n == Len(tx)
<1>1. PICK g : /\ g[0] = l /\ Executed(tx, l) = g[n]
               /\ \A k \in 1..n :
                     g[k] = IF g[k - 1] = None \/ ~Accepts(tx[k], g[k - 1]) THEN None
                            ELSE Effect(tx[k], g[k - 1])
  BY ExecutedRuns
<1> DEFINE G == {k \in 0..n : g[k] = None \/ g[k] \in L[k]}
<1>2. 0 \in G
  BY <1>1
<1>3. ASSUME NEW m \in 0..n, m < n, m \in G PROVE m + 1 \in G
  <2>1. m + 1 \in 1..n /\ m + 1 \in 0..n /\ (m + 1) - 1 = m
    BY <1>3
  <2>2. g[m + 1] = IF g[m] = None \/ ~Accepts(tx[m + 1], g[m]) THEN None
                   ELSE Effect(tx[m + 1], g[m])
    BY <1>1, <2>1
  <2>3. g[m] = None \/ g[m] \in L[m]
    BY <1>3
  <2> QED BY <2>1, <2>2, <2>3
<1>4. n \in G
  <2> HIDE DEF G
  <2> QED BY <1>2, <1>3, UpToInduction
<1> QED BY <1>1, <1>4

-----------------------------------------------------------------------------
MintSteps == {"initializePermanentDelegate", "initializeTransferHook", "initializeMint"}
NewMints == {"createPlainMint", "createExtendedMint"}

(* What the clients' instructions name: a mint is created with a key of    *)
(* its own.                                                                *)
Named(i) ==
    /\ i.op \in OfWallet => i.wallet \in Wallet
    /\ i.op \in NewMints => i.mint \in Call
    /\ i.op \in MintSteps => i.mint \in Mint
    /\ i.op \in {"createTokenAccount", "mintTo"} => i.wallet \in Wallet /\ i.mint \in Mint

(* The instruction that creates the account of wallet w for mint t.        *)
Creating(i, w, t) == i.op = "createTokenAccount" /\ i.wallet = w /\ i.mint = t

(* Every mint that can be used has its hook, and the one that was there    *)
(* before is complete.                                                     *)
Complete(l) ==
    /\ \A t \in Mint :
          l.mints[t] # None => (l.mints[t].initialized => l.mints[t].transferHook)
    /\ l.mints[Existing] # None => l.mints[Existing].initialized

(* What a mint to a wallet leaves, and what the token manager makes of a   *)
(* mint.                                                                   *)
Held(l, t, w) == l.tokens[t][w] \in Nat \ {0}
Finished(l, t) ==
    /\ l.mints[t] # None
    /\ l.mints[t].initialized /\ l.mints[t].transferHook /\ l.mints[t].permanentDelegate

(* No account disappears or is emptied, the mint that is there was there,  *)
(* and one that is finished stays so.                                      *)
Follows(l, e) ==
    /\ \A t \in Mint, w \in Wallet : l.tokens[t][w] # None => e.tokens[t][w] # None
    /\ \A t \in Mint, w \in Wallet : Held(l, t, w) => Held(e, t, w)
    /\ \A t \in Mint : Finished(l, t) => Finished(e, t)
    /\ e.mints[Existing] # None => l.mints[Existing] # None

(* An instruction for a mint writes that mint and nothing else.            *)
LEMMA MintEffect ==
    ASSUME NEW l \in Ledger, NEW i, Named(i), Accepts(i, l), i.op \in MintSteps \cup NewMints
    PROVE  \E m \in MintAccount :
              /\ Effect(i, l) = [l EXCEPT !.mints = [l.mints EXCEPT ![i.mint] = m]]
              /\ i.mint \in Mint
              /\ i.op \in NewMints => m = NewMint(IF i.op = "createPlainMint" THEN "plain"
                                                  ELSE "extended")
              /\ i.op \in MintSteps =>
                    /\ l.mints[i.mint] \in MintAccount
                    /\ m.space = l.mints[i.mint].space
                    /\ m.initialized = (l.mints[i.mint].initialized \/ i.op = "initializeMint")
                    /\ m.transferHook =
                          (l.mints[i.mint].transferHook \/ i.op = "initializeTransferHook")
                    /\ m.permanentDelegate = (l.mints[i.mint].permanentDelegate
                                                  \/ i.op = "initializePermanentDelegate")
<1>1. l.mints \in [Mint -> MintAccount \cup {None}] /\ i.mint \in Mint
  BY DEF Ledger, Named, Mint
<1>2. CASE i.op \in NewMints
  <2> DEFINE m == NewMint(IF i.op = "createPlainMint" THEN "plain" ELSE "extended")
  <2>1. m \in MintAccount
    BY DEF NewMint, MintAccount
  <2>2. Effect(i, l) = [l EXCEPT !.mints = [l.mints EXCEPT ![i.mint] = m]]
    BY <1>1, <1>2 DEF Effect, NewMints, Ledger
  <2>3. i.op \notin MintSteps
    BY <1>2 DEF NewMints, MintSteps
  <2> HIDE DEF m
  <2> WITNESS m \in MintAccount
  <2> QED BY <1>1, <2>2, <2>3 DEF m
<1>3. CASE i.op \in MintSteps
  <2> DEFINE was == l.mints[i.mint]
             m == IF i.op = "initializePermanentDelegate"
                  THEN [was EXCEPT !.permanentDelegate = TRUE]
                  ELSE IF i.op = "initializeTransferHook"
                  THEN [was EXCEPT !.transferHook = TRUE]
                  ELSE [was EXCEPT !.initialized = TRUE]
  <2>1. was # None
    BY <1>3 DEF Accepts, MintSteps
  <2>2. was \in MintAccount
    BY <1>1, <2>1
  <2>3. m \in MintAccount
    BY <2>2 DEF MintAccount
  <2>4. Effect(i, l) = [l EXCEPT !.mints = [l.mints EXCEPT ![i.mint] = m]]
    BY <1>1, <1>3 DEF Effect, MintSteps, Ledger
  <2>5. /\ m.space = was.space
        /\ m.initialized = (was.initialized \/ i.op = "initializeMint")
        /\ m.transferHook = (was.transferHook \/ i.op = "initializeTransferHook")
        /\ m.permanentDelegate =
              (was.permanentDelegate \/ i.op = "initializePermanentDelegate")
    BY <1>3, <2>2 DEF MintAccount, MintSteps
  <2>6. i.op \notin NewMints
    BY <1>3 DEF NewMints, MintSteps
  <2> HIDE DEF m
  <2> WITNESS m \in MintAccount
  <2> QED BY <1>1, <2>2, <2>4, <2>5, <2>6
<1> QED BY <1>2, <1>3

(* The same, read from the ledger that it leaves.                          *)
LEMMA MintAfter ==
    ASSUME NEW l \in Ledger, NEW i, Named(i), Accepts(i, l), i.op \in MintSteps \cup NewMints
    PROVE  LET e == Effect(i, l)
               m == e.mints[i.mint]
           IN  /\ i.mint \in Mint
               /\ e \in Ledger /\ e.tokens = l.tokens
               /\ \A t \in Mint : t # i.mint => e.mints[t] = l.mints[t]
               /\ m \in MintAccount
               /\ i.op \in NewMints =>
                     m = NewMint(IF i.op = "createPlainMint" THEN "plain" ELSE "extended")
               /\ i.op \in MintSteps =>
                     /\ l.mints[i.mint] \in MintAccount
                     /\ m.space = l.mints[i.mint].space
                     /\ m.initialized = (l.mints[i.mint].initialized \/ i.op = "initializeMint")
                     /\ m.transferHook =
                           (l.mints[i.mint].transferHook \/ i.op = "initializeTransferHook")
                     /\ m.permanentDelegate = (l.mints[i.mint].permanentDelegate
                                                   \/ i.op = "initializePermanentDelegate")
<1> DEFINE e == Effect(i, l)
<1>1. PICK m \in MintAccount :
              /\ e = [l EXCEPT !.mints = [l.mints EXCEPT ![i.mint] = m]]
              /\ i.mint \in Mint
              /\ i.op \in NewMints => m = NewMint(IF i.op = "createPlainMint" THEN "plain"
                                                  ELSE "extended")
              /\ i.op \in MintSteps =>
                    /\ l.mints[i.mint] \in MintAccount
                    /\ m.space = l.mints[i.mint].space
                    /\ m.initialized = (l.mints[i.mint].initialized \/ i.op = "initializeMint")
                    /\ m.transferHook =
                          (l.mints[i.mint].transferHook \/ i.op = "initializeTransferHook")
                    /\ m.permanentDelegate = (l.mints[i.mint].permanentDelegate
                                                  \/ i.op = "initializePermanentDelegate")
  BY MintEffect
<1> HIDE DEF e
<1>2. l.mints \in [Mint -> MintAccount \cup {None}]
  BY DEF Ledger
<1>3. [l.mints EXCEPT ![i.mint] = m] \in [Mint -> MintAccount \cup {None}]
  BY <1>1, <1>2
<1>4. /\ e \in Ledger /\ e.tokens = l.tokens
      /\ e.mints = [l.mints EXCEPT ![i.mint] = m]
  BY <1>1, <1>3 DEF Ledger
<1>5. /\ e.mints[i.mint] = m
      /\ \A t \in Mint : t # i.mint => e.mints[t] = l.mints[t]
  BY <1>1, <1>2, <1>4
<1> QED BY <1>1, <1>4, <1>5 DEF e

(* An instruction for a token account writes a number into it.             *)
LEMMA TokenEffect ==
    ASSUME NEW l \in Ledger, NEW i, Named(i), Accepts(i, l),
           i.op \in {"createTokenAccount", "mintTo"}
    PROVE  \E n \in Nat :
              /\ Effect(i, l) = [l EXCEPT !.tokens = [l.tokens EXCEPT ![i.mint] =
                                   [l.tokens[i.mint] EXCEPT ![i.wallet] = n]]]
              /\ i.op = "mintTo" =>
                    l.tokens[i.mint][i.wallet] \in Nat /\ n = l.tokens[i.mint][i.wallet] + 1
<1>1. /\ l.tokens \in [Mint -> [Wallet -> Nat \cup {None}]]
      /\ i.mint \in Mint /\ i.wallet \in Wallet
  BY DEF Ledger, Named
<1>2. l.tokens[i.mint] \in [Wallet -> Nat \cup {None}] /\ l.tokens[i.mint][i.wallet] \in Nat \cup {None}
  BY <1>1
<1>3. CASE i.op = "createTokenAccount"
  BY <1>1, <1>3 DEF Effect, Ledger
<1>4. CASE i.op = "mintTo"
  <2>1. l.tokens[i.mint][i.wallet] \in Nat
    BY <1>2, <1>4 DEF Accepts
  <2>2. Effect(i, l) = [l EXCEPT !.tokens = [l.tokens EXCEPT ![i.mint] =
            [l.tokens[i.mint] EXCEPT ![i.wallet] = l.tokens[i.mint][i.wallet] + 1]]]
    BY <1>1, <1>2, <1>4 DEF Effect, Ledger
  <2> DEFINE n == l.tokens[i.mint][i.wallet] + 1
  <2>3. n \in Nat
    BY <2>1
  <2>4. Effect(i, l) = [l EXCEPT !.tokens = [l.tokens EXCEPT ![i.mint] =
            [l.tokens[i.mint] EXCEPT ![i.wallet] = n]]]
    BY <2>2
  <2> HIDE DEF n
  <2> WITNESS n \in Nat
  <2> QED BY <2>1, <2>4 DEF n
<1> QED BY <1>3, <1>4

(* The others leave mints and token accounts alone.                        *)
LEMMA OtherEffect ==
    ASSUME NEW l \in Ledger, NEW i, Named(i), Accepts(i, l),
           i.op \notin MintSteps \cup NewMints \cup {"createTokenAccount", "mintTo"}
    PROVE  /\ Effect(i, l) \in Ledger
           /\ Effect(i, l).mints = l.mints /\ Effect(i, l).tokens = l.tokens
<1>1. CASE i.op \in OfWallet
  <2>1. PICK s \in KycStatus : Effect(i, l) =
            [l EXCEPT !.kycStatus = [l.kycStatus EXCEPT ![i.wallet] = s]]
    BY <1>1 DEF Effect, OfWallet, KycStatus, Ledger
  <2>2. [l.kycStatus EXCEPT ![i.wallet] = s] \in [Wallet -> KycStatus \cup {None}]
    BY DEF Ledger
  <2> QED BY <2>1, <2>2 DEF Ledger
<1>2. CASE i.op \in OfBreaker
  BY <1>2 DEF Effect, OfBreaker, Ledger
<1>3. CASE i.op \notin OfWallet \cup OfBreaker
  BY <1>3 DEF Effect, OfWallet, OfBreaker, MintSteps, NewMints
<1> QED BY <1>1, <1>2, <1>3

(* What an instruction that is accepted does to a ledger.                  *)
LEMMA EffectOK ==
    ASSUME NEW l \in Ledger, Complete(l), NEW i, Named(i), Accepts(i, l),
           i.op = "initializeMint" => l.mints[i.mint].transferHook
    PROVE  /\ Effect(i, l) \in Ledger /\ Complete(Effect(i, l)) /\ Follows(l, Effect(i, l))
           /\ \A t \in Mint, w \in Wallet :
                 Effect(i, l).tokens[t][w] # None =>
                     l.tokens[t][w] # None \/ Creating(i, w, t)
<1> DEFINE e == Effect(i, l)
<1>1. CASE i.op \in MintSteps \cup NewMints
  <2> DEFINE m == e.mints[i.mint]
  <2>1. /\ i.mint \in Mint
        /\ e \in Ledger /\ e.tokens = l.tokens
        /\ \A t \in Mint : t # i.mint => e.mints[t] = l.mints[t]
        /\ m \in MintAccount
        /\ i.op \in NewMints =>
              m = NewMint(IF i.op = "createPlainMint" THEN "plain" ELSE "extended")
        /\ i.op \in MintSteps =>
              /\ l.mints[i.mint] \in MintAccount
              /\ m.space = l.mints[i.mint].space
              /\ m.initialized = (l.mints[i.mint].initialized \/ i.op = "initializeMint")
              /\ m.transferHook =
                    (l.mints[i.mint].transferHook \/ i.op = "initializeTransferHook")
              /\ m.permanentDelegate = (l.mints[i.mint].permanentDelegate
                                            \/ i.op = "initializePermanentDelegate")
    BY <1>1, MintAfter
  <2> HIDE DEF e
  <2>6. m.initialized => m.transferHook
    <3>1. CASE i.op \in NewMints
      BY <2>1, <3>1 DEF NewMint
    <3>2. CASE i.op \in MintSteps
      BY <2>1, <3>2, NoneAssumption DEF Complete
    <3> QED BY <1>1, <3>1, <3>2
  <2>7. Existing = i.mint => l.mints[Existing] # None /\ (l.mints[Existing].initialized => m.initialized)
    <3>1. CASE i.op \in NewMints
      BY <3>1, SdkAssumption DEF Named
    <3>2. CASE i.op \in MintSteps
      BY <2>1, <3>2, NoneAssumption
    <3> QED BY <1>1, <3>1, <3>2
  <2>8. Complete(e)
    BY <2>1, <2>6, <2>7 DEF Complete, Mint
  <2>9. ASSUME NEW t \in Mint, Finished(l, t) PROVE Finished(e, t)
    <3>1. CASE t # i.mint
      BY <2>1, <2>9, <3>1 DEF Finished
    <3>2. CASE t = i.mint
      BY <1>1, <2>9, <3>2 DEF Finished, Accepts, MintSteps, NewMints
    <3> QED BY <3>1, <3>2
  <2> QED BY <2>1, <2>7, <2>8, <2>9 DEF Follows, Held, Mint, e
<1>2. CASE i.op \in {"createTokenAccount", "mintTo"}
  <2>1. PICK n \in Nat :
            /\ e = [l EXCEPT !.tokens = [l.tokens EXCEPT ![i.mint] =
                       [l.tokens[i.mint] EXCEPT ![i.wallet] = n]]]
            /\ i.op = "mintTo" =>
                  l.tokens[i.mint][i.wallet] \in Nat /\ n = l.tokens[i.mint][i.wallet] + 1
    BY <1>2, TokenEffect
  <2>2. /\ l.tokens \in [Mint -> [Wallet -> Nat \cup {None}]]
        /\ i.mint \in Mint /\ i.wallet \in Wallet
    BY <1>2 DEF Ledger, Named
  <2>3. i.op = "mintTo" => l.tokens[i.mint][i.wallet] # None
    BY DEF Accepts
  <2> HIDE DEF e
  <2> DEFINE row == [l.tokens[i.mint] EXCEPT ![i.wallet] = n]
  <2>4. row \in [Wallet -> Nat \cup {None}] /\ row[i.wallet] = n
        /\ \A w \in Wallet : w # i.wallet => row[w] = l.tokens[i.mint][w]
    BY <2>2
  <2> HIDE DEF row
  <2>5. /\ e \in Ledger /\ e.mints = l.mints
        /\ e.tokens = [l.tokens EXCEPT ![i.mint] = row]
    <3>1. [l.tokens EXCEPT ![i.mint] = row] \in [Mint -> [Wallet -> Nat \cup {None}]]
      BY <2>2, <2>4
    <3>2. e = [l EXCEPT !.tokens = [l.tokens EXCEPT ![i.mint] = row]]
      BY <2>1 DEF row
    <3> QED BY <3>1, <3>2 DEF Ledger
  <2>6. /\ e.tokens[i.mint] = row
        /\ \A t \in Mint : t # i.mint => e.tokens[t] = l.tokens[t]
    BY <2>2, <2>5
  <2>7. n # None
    BY NoneAssumption
  <2>8. Complete(e)
    BY <2>5 DEF Complete
  <2>9. ASSUME NEW t \in Mint, NEW w \in Wallet
        PROVE  /\ l.tokens[t][w] # None => e.tokens[t][w] # None
               /\ e.tokens[t][w] # None => l.tokens[t][w] # None \/ Creating(i, w, t)
    BY <1>2, <2>3, <2>4, <2>6, <2>7 DEF Creating
  <2>10. ASSUME NEW t \in Mint, NEW w \in Wallet, Held(l, t, w) PROVE Held(e, t, w)
    <3>1. CASE t = i.mint /\ w = i.wallet
      <4>1. l.tokens[i.mint][i.wallet] # None
        BY <2>10, <3>1, NoneAssumption DEF Held
      <4>2. i.op = "mintTo"
        BY <1>2, <4>1 DEF Accepts
      <4>3. n \in Nat \ {0}
        BY <2>1, <4>2
      <4> QED BY <2>4, <2>6, <3>1, <4>3 DEF Held
    <3>2. CASE ~ (t = i.mint /\ w = i.wallet)
      BY <2>4, <2>6, <2>10, <3>2 DEF Held
    <3> QED BY <3>1, <3>2
  <2> QED BY <2>5, <2>8, <2>9, <2>10 DEF Follows, Finished, e
<1>3. CASE i.op \notin MintSteps \cup NewMints \cup {"createTokenAccount", "mintTo"}
  <2>1. e \in Ledger /\ e.mints = l.mints /\ e.tokens = l.tokens
    BY <1>3, OtherEffect
  <2> HIDE DEF e
  <2> QED BY <2>1 DEF Complete, Follows, Held, Finished, e
<1> QED BY <1>1, <1>2, <1>3

-----------------------------------------------------------------------------
(* The two instructions of mintToWallet.                                   *)
Creation(r) == Instruction("createTokenAccount", r.wallet, r.mint)
Minting(r) == Instruction("mintTo", r.wallet, r.mint)

(* The transactions that a call may send.                                  *)
MayBeSent(id, r) ==
    CASE r.method \in Admin -> {<<Instruction(r.method, r.wallet, None)>>}
      [] r.method = "createCompliantMint" -> {mintWithTransferHook(id)}
      [] r.method = "TokenManager.createCompliantMint" -> {compliantMint(id)}
      [] r.method = "mintToWallet" -> {<<Creation(r), Minting(r)>>, <<Minting(r)>>}
      [] OTHER -> {<<>>}

(* The ledgers that the clients can meet.                                  *)
Good == {l \in Ledger : Complete(l)}

(* What may follow a ledger while a transaction is executed.               *)
Reached(l, tx) ==
    {x \in Good : /\ Follows(l, x)
                  /\ \A t \in Mint, w \in Wallet :
                        x.tokens[t][w] # None =>
                            l.tokens[t][w] # None \/ \E k \in 1..Len(tx) : Creating(tx[k], w, t)}

(* One instruction more.                                                   *)
LEMMA ReachedOK ==
    ASSUME NEW l, NEW tx, NEW k \in 1..Len(tx), NEW x \in Reached(l, tx),
           Named(tx[k]), Accepts(tx[k], x),
           tx[k].op = "initializeMint" => x.mints[tx[k].mint].transferHook
    PROVE  Effect(tx[k], x) \in Reached(l, tx)
<1> DEFINE i == tx[k]
           e == Effect(i, x)
<1>1. x \in Ledger /\ Complete(x) /\ Follows(l, x)
  BY DEF Reached, Good
<1>2. /\ e \in Ledger /\ Complete(e) /\ Follows(x, e)
      /\ \A t \in Mint, w \in Wallet :
            e.tokens[t][w] # None => x.tokens[t][w] # None \/ Creating(i, w, t)
  BY <1>1, EffectOK
<1> HIDE DEF e
<1>3. Follows(l, e)
  BY <1>1, <1>2 DEF Follows
<1>4. \A t \in Mint, w \in Wallet :
          e.tokens[t][w] # None =>
              l.tokens[t][w] # None \/ \E j \in 1..Len(tx) : Creating(tx[j], w, t)
  BY <1>2 DEF Reached
<1> QED BY <1>2, <1>3, <1>4 DEF Reached, Good, e

(* A transaction of named instructions that initialises no mint.           *)
LEMMA PlainTransaction ==
    ASSUME NEW l \in Good, NEW tx, Len(tx) \in Nat,
           \A k \in 1..Len(tx) : Named(tx[k]) /\ tx[k].op # "initializeMint"
    PROVE  Executed(tx, l) = None \/ Executed(tx, l) \in Reached(l, tx)
<1> DEFINE L == [k \in 0..Len(tx) |-> Reached(l, tx)]
<1>1. l \in L[0]
  BY DEF Reached, Follows
<1>2. ASSUME NEW k \in 1..Len(tx), NEW x \in L[k - 1], Accepts(tx[k], x)
      PROVE  Effect(tx[k], x) \in L[k]
  <2>1. x \in Reached(l, tx)
    BY <1>2
  <2>2. Effect(tx[k], x) \in Reached(l, tx)
    BY <1>2, <2>1, ReachedOK
  <2> QED BY <2>2
<1>3. L[Len(tx)] = Reached(l, tx)
  OBVIOUS
<1> HIDE DEF L
<1>4. Executed(tx, l) = None \/ Executed(tx, l) \in L[Len(tx)]
  BY <1>1, <1>2, Chain
<1> QED BY <1>3, <1>4

(* The SDK makes room for a plain mint, which takes no hook: it is refused *)
(* as a whole.                                                             *)
LEMMA PlainMintIsRefused ==
    ASSUME NEW l \in Good, NEW id \in Call
    PROVE  Executed(mintWithTransferHook(id), l) = None
<1> DEFINE tx == mintWithTransferHook(id)
           plain == {x \in Ledger : x.mints[id] # None /\ x.mints[id].space = "plain"}
           L == [k \in 0..4 |-> IF k = 0 THEN Good ELSE IF k <= 2 THEN plain ELSE {}]
<1>1. /\ Len(tx) = 4
      /\ tx[1].op = "createPlainMint" /\ tx[2].op = "initializeMint"
      /\ tx[3].op = "initializeTransferHook"
      /\ \A k \in 1..4 : tx[k].mint = id
  BY DEF mintWithTransferHook, createInitializeMintInstruction,
         createExtraAccountMetaListInstruction, Instruction
<1>2. \A k \in 1..4 : id \in Mint /\ (k <= 3 => Named(tx[k]))
  BY <1>1 DEF Named, Mint, MintSteps, NewMints, OfWallet
<1> HIDE DEF tx
<1>3. ASSUME NEW x \in Ledger, Accepts(tx[1], x) PROVE Effect(tx[1], x) \in plain
  <2>1. /\ Effect(tx[1], x) \in Ledger
        /\ Effect(tx[1], x).mints[id] \in MintAccount
        /\ Effect(tx[1], x).mints[id] = NewMint("plain")
    BY <1>1, <1>2, <1>3, MintAfter DEF NewMints
  <2> QED BY <2>1, NoneAssumption DEF NewMint
<1>4. ASSUME NEW x \in plain, Accepts(tx[2], x) PROVE Effect(tx[2], x) \in plain
  <2>1. /\ Effect(tx[2], x) \in Ledger
        /\ Effect(tx[2], x).mints[id] \in MintAccount
        /\ Effect(tx[2], x).mints[id].space = x.mints[id].space
    BY <1>1, <1>2, <1>4, MintAfter DEF MintSteps
  <2> QED BY <2>1, NoneAssumption
<1>5. ASSUME NEW x \in plain PROVE ~Accepts(tx[3], x)
  BY <1>1 DEF Accepts
<1>9. Len(tx) \in Nat
  BY <1>1
<1>6. ASSUME NEW k \in 1..Len(tx), NEW x \in L[k - 1], Accepts(tx[k], x)
      PROVE  Effect(tx[k], x) \in L[k]
  <2>1. k \in 1..4
    BY <1>1
  <2>2. CASE k = 1
    BY <1>3, <1>6, <2>2 DEF Good
  <2>3. CASE k = 2
    BY <1>4, <1>6, <2>3
  <2>4. CASE k = 3
    BY <1>5, <1>6, <2>4
  <2>5. CASE k = 4
    BY <1>6, <2>5
  <2> QED BY <2>1, <2>2, <2>3, <2>4, <2>5
<1>7. l \in L[0] /\ L[Len(tx)] = {}
  BY <1>1
<1> HIDE DEF L
<1>8. Executed(tx, l) = None \/ Executed(tx, l) \in L[Len(tx)]
  BY <1>6, <1>7, <1>9, Chain
<1> QED BY <1>7, <1>8 DEF tx

(* The token manager initialises the hook and the delegate before the      *)
(* mint.                                                                   *)
LEMMA HookComesFirst ==
    ASSUME NEW l \in Good, NEW id \in Call
    PROVE  LET e == Executed(compliantMint(id), l)
           IN  e = None \/ (e \in Reached(l, compliantMint(id)) /\ Finished(e, id))
<1> DEFINE tx == compliantMint(id)
           R == Reached(l, tx)
           delegated == {x \in R : x.mints[id] \in MintAccount /\ x.mints[id].permanentDelegate}
           hooked == {x \in delegated : x.mints[id].transferHook}
           ready == {x \in R : Finished(x, id)}
           L == [k \in 0..4 |-> CASE k = 2 -> delegated [] k = 3 -> hooked [] k = 4 -> ready
                                  [] OTHER -> R]
<1>1. /\ Len(tx) = 4
      /\ tx[1].op = "createExtendedMint" /\ tx[2].op = "initializePermanentDelegate"
      /\ tx[3].op = "initializeTransferHook" /\ tx[4].op = "initializeMint"
      /\ \A k \in 1..4 : tx[k].mint = id
  BY DEF compliantMint, Instruction
<1>2. id \in Mint /\ \A k \in 1..4 : Named(tx[k])
  BY <1>1 DEF Named, Mint, MintSteps, NewMints, OfWallet
<1> HIDE DEF tx
<1>3. ASSUME NEW k \in 1..4, NEW x \in R, Accepts(tx[k], x),
             k = 4 => x.mints[id].transferHook
      PROVE  Effect(tx[k], x) \in R
  <2>1. tx[k].op = "initializeMint" => x.mints[tx[k].mint].transferHook
    BY <1>1, <1>3
  <2> QED BY <1>1, <1>2, <1>3, <2>1, ReachedOK
<1>4. ASSUME NEW k \in 2..4, NEW x \in R, Accepts(tx[k], x)
      PROVE  LET m == Effect(tx[k], x).mints[id]
             IN  /\ x.mints[id] \in MintAccount /\ m \in MintAccount
                 /\ k = 4 => m.initialized
                 /\ k = 3 \/ x.mints[id].transferHook => m.transferHook
                 /\ k = 2 \/ x.mints[id].permanentDelegate => m.permanentDelegate
  <2> DEFINE i == tx[k]
  <2>1. x \in Ledger
    BY DEF Reached, Good
  <2>2. /\ Named(i) /\ i.mint = id /\ i.op \in MintSteps
        /\ (i.op = "initializeMint") = (k = 4)
        /\ (i.op = "initializeTransferHook") = (k = 3)
        /\ (i.op = "initializePermanentDelegate") = (k = 2)
    BY <1>1, <1>2 DEF MintSteps
  <2> HIDE DEF i
  <2>3. /\ Effect(i, x).mints[i.mint] \in MintAccount /\ x.mints[i.mint] \in MintAccount
        /\ Effect(i, x).mints[i.mint].initialized =
               (x.mints[i.mint].initialized \/ i.op = "initializeMint")
        /\ Effect(i, x).mints[i.mint].transferHook =
               (x.mints[i.mint].transferHook \/ i.op = "initializeTransferHook")
        /\ Effect(i, x).mints[i.mint].permanentDelegate =
               (x.mints[i.mint].permanentDelegate \/ i.op = "initializePermanentDelegate")
    <3>1. Accepts(i, x)
      BY <1>4 DEF i
    <3> QED BY <2>1, <2>2, <3>1, MintAfter
  <2> QED BY <2>2, <2>3 DEF i
<1>5. Len(tx) \in Nat
  BY <1>1
<1>6. ASSUME NEW k \in 1..Len(tx), NEW x \in L[k - 1], Accepts(tx[k], x)
      PROVE  Effect(tx[k], x) \in L[k]
  <2>1. k \in 1..4 /\ x \in R
    BY <1>1
  <2>2. k = 4 => x \in hooked
    OBVIOUS
  <2>3. Effect(tx[k], x) \in R
    BY <1>3, <1>6, <2>1, <2>2
  <2> HIDE DEF R
  <2>4. CASE k = 1
    BY <2>3, <2>4
  <2>5. CASE k = 2
    <3>1. Effect(tx[k], x).mints[id] \in MintAccount /\ Effect(tx[k], x).mints[id].permanentDelegate
      BY <1>4, <1>6, <2>1, <2>5
    <3> QED BY <2>3, <2>5, <3>1
  <2>6. CASE k = 3
    <3>1. x \in delegated
      BY <2>6
    <3>2. /\ Effect(tx[k], x).mints[id] \in MintAccount
          /\ Effect(tx[k], x).mints[id].permanentDelegate
          /\ Effect(tx[k], x).mints[id].transferHook
      BY <1>4, <1>6, <2>1, <2>6, <3>1
    <3> QED BY <2>3, <2>6, <3>2
  <2>7. CASE k = 4
    <3>1. x \in hooked
      BY <2>7
    <3>2. /\ Effect(tx[k], x).mints[id] \in MintAccount
          /\ Effect(tx[k], x).mints[id].permanentDelegate
          /\ Effect(tx[k], x).mints[id].transferHook
          /\ Effect(tx[k], x).mints[id].initialized
      BY <1>4, <1>6, <2>1, <2>7, <3>1
    <3>3. Finished(Effect(tx[k], x), id)
      BY <3>2, NoneAssumption DEF Finished
    <3> QED BY <2>3, <2>7, <3>3
  <2> QED BY <2>1, <2>4, <2>5, <2>6, <2>7
<1>7. l \in L[0] /\ L[Len(tx)] = ready
  BY <1>1 DEF Reached, Follows
<1> HIDE DEF L, R
<1>8. Executed(tx, l) = None \/ Executed(tx, l) \in L[Len(tx)]
  BY <1>5, <1>6, <1>7, Chain
<1> DEFINE e == Executed(tx, l)
<1>9. e = None \/ (e \in R /\ Finished(e, id))
  <2> HIDE DEF e
  <2>1. e = None \/ e \in ready
    BY <1>7, <1>8 DEF e
  <2> QED BY <2>1
<1> QED BY <1>9 DEF R, tx

(* A mint to an account is accepted only if it is there, and fills it.     *)
LEMMA MintingFills ==
    ASSUME NEW l \in Ledger, NEW r, r.wallet \in Wallet, r.mint \in Mint,
           Accepts(Minting(r), l)
    PROVE  Effect(Minting(r), l) \in Ledger /\ Held(Effect(Minting(r), l), r.mint, r.wallet)
<1> DEFINE w == r.wallet
           t == r.mint
           i == Minting(r)
<1>1. i.op = "mintTo" /\ i.wallet = w /\ i.mint = t /\ Named(i)
  BY DEF Minting, Instruction, Named, MintSteps, NewMints, OfWallet
<1> HIDE DEF i
<1>2. PICK n \in Nat :
          /\ Effect(i, l) = [l EXCEPT !.tokens = [l.tokens EXCEPT ![t] =
                                 [l.tokens[t] EXCEPT ![w] = n]]]
          /\ l.tokens[t][w] \in Nat /\ n = l.tokens[t][w] + 1
  <2>1. Accepts(i, l) /\ i.op \in {"createTokenAccount", "mintTo"}
    BY <1>1 DEF i
  <2>2. \E n \in Nat :
          /\ Effect(i, l) = [l EXCEPT !.tokens = [l.tokens EXCEPT ![i.mint] =
                                 [l.tokens[i.mint] EXCEPT ![i.wallet] = n]]]
          /\ i.op = "mintTo" =>
                l.tokens[i.mint][i.wallet] \in Nat /\ n = l.tokens[i.mint][i.wallet] + 1
    <3> HIDE DEF w, t
    <3> QED BY <1>1, <2>1, TokenEffect
  <2>3. PICK n \in Nat :
          /\ Effect(i, l) = [l EXCEPT !.tokens = [l.tokens EXCEPT ![i.mint] =
                                 [l.tokens[i.mint] EXCEPT ![i.wallet] = n]]]
          /\ l.tokens[i.mint][i.wallet] \in Nat /\ n = l.tokens[i.mint][i.wallet] + 1
    BY <1>1, <2>2
  <2> HIDE DEF w, t
  <2> WITNESS n \in Nat
  <2> QED BY <1>1, <2>3
<1>3. l.tokens \in [Mint -> [Wallet -> Nat \cup {None}]] /\ n \in Nat \ {0}
  BY <1>2 DEF Ledger
<1>4. [l.tokens EXCEPT ![t] = [l.tokens[t] EXCEPT ![w] = n]]
          \in [Mint -> [Wallet -> Nat \cup {None}]]
  BY <1>3
<1>5. Effect(i, l) \in Ledger
  BY <1>2, <1>4 DEF Ledger
<1>6. Effect(i, l).tokens[t][w] = n
  BY <1>2, <1>3 DEF Ledger
<1> QED BY <1>3, <1>5, <1>6 DEF Held, i

(* Where a mint to a wallet is executed, the wallet has an account that is *)
(* not empty, whether or not it had to be created.                         *)
LEMMA MintToPays ==
    ASSUME NEW l \in Good, NEW r, r.wallet \in Wallet, r.mint \in Mint,
           NEW tx \in {<<Creation(r), Minting(r)>>, <<Minting(r)>>}
    PROVE  Executed(tx, l) = None \/ Held(Executed(tx, l), r.mint, r.wallet)
<1> DEFINE full == {x \in Ledger : Held(x, r.mint, r.wallet)}
           L == [k \in 0..Len(tx) |-> IF k = Len(tx) THEN full ELSE Good]
           make == Creation(r)
           mint == Minting(r)
<1>1. Named(make) /\ make.op = "createTokenAccount"
  BY DEF Creation, Instruction, Named, MintSteps, NewMints, OfWallet
<1>2. \/ Len(tx) = 1 /\ tx[1] = mint
      \/ Len(tx) = 2 /\ tx[1] = make /\ tx[2] = mint
  OBVIOUS
<1>3. ASSUME NEW x \in Good, Accepts(mint, x) PROVE Effect(mint, x) \in full
  BY <1>3, MintingFills DEF Good
<1> HIDE DEF make, mint, full
<1>4. ASSUME NEW x \in Good, Accepts(make, x) PROVE Effect(make, x) \in Good
  BY <1>1, <1>4, EffectOK DEF Good
<1>5. Len(tx) \in Nat /\ l \in L[0] /\ L[Len(tx)] = full
  BY <1>2
<1>6. ASSUME NEW k \in 1..Len(tx), NEW x \in L[k - 1], Accepts(tx[k], x)
      PROVE  Effect(tx[k], x) \in L[k]
  <2>1. x \in Good
    BY <1>2
  <2>2. CASE k = Len(tx)
    BY <1>2, <1>3, <1>6, <2>1, <2>2
  <2>3. CASE k # Len(tx)
    BY <1>2, <1>4, <1>6, <2>1, <2>3
  <2> QED BY <2>2, <2>3
<1> HIDE DEF L
<1>7. Executed(tx, l) = None \/ Executed(tx, l) \in L[Len(tx)]
  BY <1>5, <1>6, Chain
<1> QED BY <1>5, <1>7 DEF full

(* What mintToWallet sends is refused only if the mint cannot be used or   *)
(* the account it means to create is there.                                *)
LEMMA MintToExecuted ==
    ASSUME NEW l \in Good, NEW r, r.wallet \in Wallet, r.mint \in Mint
    PROVE  /\ l.tokens[r.mint][r.wallet] # None => Executed(<<Minting(r)>>, l) # None
           /\ Executed(<<Creation(r), Minting(r)>>, l) = None =>
                 \/ l.mints[r.mint] = None
                 \/ ~l.mints[r.mint].initialized
                 \/ l.tokens[r.mint][r.wallet] # None
<1> DEFINE w == r.wallet
           t == r.mint
           make == Creation(r)
           mint == Minting(r)
<1>1. /\ make.op = "createTokenAccount" /\ make.wallet = w /\ make.mint = t
      /\ mint.op = "mintTo" /\ mint.wallet = w /\ mint.mint = t
      /\ Named(make) /\ Named(mint)
  BY DEF Creation, Minting, Instruction, Named, MintSteps, NewMints, OfWallet
<1>2. l \in Ledger /\ Complete(l)
  BY DEF Good
<1> HIDE DEF make, mint
<1>3. ASSUME NEW x \in Ledger, x.tokens[t][w] # None
      PROVE  Accepts(mint, x) /\ Effect(mint, x) # None
  <2>1. Accepts(mint, x)
    BY <1>1, <1>3 DEF Accepts
  <2>2. Effect(mint, x) \in Ledger
    BY <2>1, MintingFills DEF mint
  <2> QED BY <2>1, <2>2, NoneAssumption
<1>4. ASSUME l.mints[t] # None, l.mints[t].initialized, l.tokens[t][w] = None
      PROVE  /\ Accepts(make, l) /\ Effect(make, l) \in Ledger
             /\ Effect(make, l).tokens[t][w] # None
  <2>1. Accepts(make, l)
    BY <1>1, <1>4 DEF Accepts
  <2>2. Effect(make, l) \in Ledger
    BY <1>1, <1>2, <2>1, EffectOK
  <2>3. l.tokens \in [Mint -> [Wallet -> Nat \cup {None}]]
    BY <1>2 DEF Ledger
  <2>4. Effect(make, l).tokens[t][w] = 0
    <3>1. Effect(make, l) = [l EXCEPT !.tokens[make.mint][make.wallet] = 0]
      BY <1>1 DEF Effect
    <3> QED BY <1>1, <1>2, <2>3, <3>1 DEF Ledger
  <2> QED BY <2>1, <2>2, <2>4, NoneAssumption
<1>5. l # None
  BY <1>2, NoneAssumption
<1>6. ASSUME l.tokens[t][w] # None PROVE Executed(<<mint>>, l) # None
  <2> DEFINE tx == <<mint>>
  <2>1. Len(tx) = 1 /\ tx[1] = mint
    OBVIOUS
  <2> HIDE DEF tx
  <2>2. PICK g : /\ g[0] = l /\ Executed(tx, l) = g[Len(tx)]
                 /\ \A k \in 1..Len(tx) :
                       g[k] = IF g[k - 1] = None \/ ~Accepts(tx[k], g[k - 1]) THEN None
                              ELSE Effect(tx[k], g[k - 1])
    <3>1. Len(tx) \in Nat
      BY <2>1
    <3> QED BY <3>1, ExecutedRuns
  <2>3. g[1] = IF l = None \/ ~Accepts(mint, l) THEN None ELSE Effect(mint, l)
    BY <2>1, <2>2
  <2>4. Executed(tx, l) # None
    BY <1>2, <1>3, <1>5, <1>6, <2>1, <2>2, <2>3
  <2> QED BY <2>4 DEF tx
<1>7. ASSUME l.mints[t] # None, l.mints[t].initialized, l.tokens[t][w] = None
      PROVE  Executed(<<make, mint>>, l) # None
  <2> DEFINE tx == <<make, mint>>
             x == Effect(make, l)
  <2>1. Len(tx) = 2 /\ tx[1] = make /\ tx[2] = mint
    OBVIOUS
  <2> HIDE DEF tx
  <2>2. PICK g : /\ g[0] = l /\ Executed(tx, l) = g[Len(tx)]
                 /\ \A k \in 1..Len(tx) :
                       g[k] = IF g[k - 1] = None \/ ~Accepts(tx[k], g[k - 1]) THEN None
                              ELSE Effect(tx[k], g[k - 1])
    <3>1. Len(tx) \in Nat
      BY <2>1
    <3> QED BY <3>1, ExecutedRuns
  <2>3. x \in Ledger /\ x.tokens[t][w] # None /\ Accepts(make, l)
    BY <1>4, <1>7
  <2>4. g[1] = x
    BY <1>5, <2>1, <2>2, <2>3
  <2> HIDE DEF x
  <2>5. x # None
    BY <2>3, NoneAssumption
  <2>6. g[2] = Effect(mint, x) /\ Effect(mint, x) # None
    <3>1. Accepts(mint, x) /\ Effect(mint, x) # None
      BY <1>3, <2>3
    <3> QED BY <2>1, <2>2, <2>4, <2>5, <3>1
  <2> QED BY <2>1, <2>2, <2>6 DEF tx
<1> QED BY <1>6, <1>7 DEF make, mint

(* What a request names.                                                   *)
LEMMA RequestsName ==
    ASSUME NEW r \in Requests
    PROVE  /\ r.method \in Method
           /\ r.method \in OfWallet => r.wallet \in Wallet
           /\ r.method = "mintToWallet" => r.wallet \in Wallet /\ r.mint \in Mint
<1>1. r.method \in Method
  BY RequestsOK DEF RequestType
<1>2. /\ r.method \in OfWallet => r.wallet \in Wallet
      /\ r.method = "mintToWallet" => r.wallet \in Wallet /\ r.mint \in Mint
  BY DEF Requests, Request, OfWallet, OfBreaker
<1> QED BY <1>1, <1>2

(* Two sequences of one entry make a sequence of two.                      *)
LEMMA Two ==
    ASSUME NEW a, NEW b
    PROVE  <<a>> \o <<b>> = <<a, b>>
<1> DEFINE S == {a, b}
<1>1. <<a>> \in Seq(S) /\ <<b>> \in Seq(S) /\ <<a, b>> \in Seq(S)
  OBVIOUS
<1>2. /\ <<a>> \o <<b>> \in Seq(S) /\ Len(<<a>> \o <<b>>) = 2
      /\ (<<a>> \o <<b>>)[1] = a /\ (<<a>> \o <<b>>)[2] = b
  BY <1>1, ConcatProperties
<1> DEFINE s == <<a>> \o <<b>>
           t == <<a, b>>
<1>3. /\ s \in Seq(S) /\ t \in Seq(S) /\ Len(s) = Len(t)
      /\ \A i \in 1..Len(s) : s[i] = t[i]
  BY <1>1, <1>2
<1> HIDE DEF s, t, S
<1>4. s = t
  BY <1>3, SeqEqual
<1> QED BY <1>4 DEF s, t

(* What a call sends is among what it may send.                            *)
LEMMA SendsWhatItMay ==
    ASSUME NEW id \in Call, NEW r \in Requests, r.method \in Method \ Asking
    PROVE  /\ Instructions(id, r) \in MayBeSent(id, r)
           /\ (r.method = "mintToWallet" /\ ledger.tokens[r.mint][r.wallet] # None) =>
                 Instructions(id, r) = <<Minting(r)>>
           /\ (r.method = "mintToWallet" /\ ledger.tokens[r.mint][r.wallet] = None) =>
                 Instructions(id, r) = <<Creation(r), Minting(r)>>
<1>1. CASE r.method = "mintToWallet"
  <2>1. Instructions(id, r) = mintTo(r) /\ MayBeSent(id, r) = {<<Creation(r), Minting(r)>>, <<Minting(r)>>}
    BY <1>1 DEF Instructions, MayBeSent, Admin, OfWallet, OfBreaker
  <2>2. ledger.tokens[r.mint][r.wallet] # None => mintTo(r) = <<Minting(r)>>
    BY DEF mintTo, Minting
  <2>3. ledger.tokens[r.mint][r.wallet] = None => mintTo(r) = <<Creation(r), Minting(r)>>
    <3>1. <<Creation(r)>> \o <<Minting(r)>> = <<Creation(r), Minting(r)>>
      BY Two
    <3> QED BY <3>1 DEF mintTo, Minting, Creation
  <2> QED BY <1>1, <2>1, <2>2, <2>3
<1>2. CASE r.method # "mintToWallet"
  BY <1>2 DEF Instructions, MayBeSent, compliantTransaction, Method, Unwrapping, wrapped,
              Admin, OfWallet, OfBreaker, Asking
<1> QED BY <1>1, <1>2

(* Only mintToWallet creates accounts.                                     *)
LEMMA OnlyMintToCreates ==
    ASSUME NEW id \in Call, NEW r \in Requests, NEW tx \in MayBeSent(id, r),
           NEW w, NEW t, NEW k \in 1..Len(tx), Creating(tx[k], w, t)
    PROVE  /\ r.method = "mintToWallet" /\ tx = <<Creation(r), Minting(r)>>
           /\ w = r.wallet /\ t = r.mint
<1>1. CASE r.method = "mintToWallet"
  <2>1. tx \in {<<Creation(r), Minting(r)>>, <<Minting(r)>>}
    BY <1>1 DEF MayBeSent, Admin, OfWallet, OfBreaker
  <2>2. /\ Minting(r).op # "createTokenAccount"
        /\ Creation(r).wallet = r.wallet /\ Creation(r).mint = r.mint
    BY DEF Minting, Creation, Instruction
  <2>3. tx # <<Minting(r)>>
    <3> SUFFICES ASSUME tx = <<Minting(r)>> PROVE FALSE
      OBVIOUS
    <3>1. k = 1
      OBVIOUS
    <3> QED BY <2>2, <3>1 DEF Creating
  <2>4. tx = <<Creation(r), Minting(r)>>
    BY <2>1, <2>3
  <2>5. k = 1
    <3>1. k = 1 \/ k = 2
      BY <2>4
    <3> QED BY <2>2, <2>4, <3>1 DEF Creating
  <2> QED BY <1>1, <2>2, <2>4, <2>5 DEF Creating
<1>2. CASE r.method # "mintToWallet"
  <2>1. tx[k].op # "createTokenAccount"
    BY <1>2 DEF MayBeSent, Admin, OfWallet, OfBreaker, Instruction, mintWithTransferHook,
                compliantMint, createInitializeMintInstruction,
                createExtraAccountMetaListInstruction
  <2> QED BY <2>1 DEF Creating
<1> QED BY <1>1, <1>2

(* No transaction of the clients leaves a mint without its hook.           *)
LEMMA ExecutedOK ==
    ASSUME NEW id \in Call, NEW r \in Requests, NEW tx \in MayBeSent(id, r), NEW l \in Good
    PROVE  Executed(tx, l) = None \/ Executed(tx, l) \in Reached(l, tx)
<1>1. CASE r.method = "createCompliantMint"
  BY <1>1, PlainMintIsRefused DEF MayBeSent, Admin, OfWallet, OfBreaker
<1>2. CASE r.method = "TokenManager.createCompliantMint"
  BY <1>2, HookComesFirst DEF MayBeSent, Admin, OfWallet, OfBreaker
<1>3. CASE r.method \in Admin
  <2> DEFINE i == Instruction(r.method, r.wallet, None)
  <2>1. Named(i) /\ i.op # "initializeMint"
    BY <1>3, RequestsName
    DEF Named, Instruction, Admin, OfWallet, OfBreaker, NewMints, MintSteps
  <2>2. tx = <<i>>
    BY <1>3 DEF MayBeSent, Admin, OfWallet, OfBreaker
  <2> HIDE DEF i
  <2>3. Len(tx) = 1 /\ \A k \in 1..Len(tx) : tx[k] = i
    BY <2>2
  <2> QED BY <2>1, <2>3, PlainTransaction
<1>4. CASE r.method = "mintToWallet"
  <2> DEFINE a == Creation(r)
             b == Minting(r)
  <2>1. /\ Named(a) /\ a.op # "initializeMint"
        /\ Named(b) /\ b.op # "initializeMint"
    BY <1>4, RequestsName
    DEF Named, Instruction, Creation, Minting, OfWallet, NewMints, MintSteps
  <2>2. tx \in {<<a, b>>, <<b>>}
    BY <1>4 DEF MayBeSent, Admin, OfWallet, OfBreaker
  <2> HIDE DEF a, b
  <2>3. Len(tx) \in Nat /\ \A k \in 1..Len(tx) : tx[k] \in {a, b}
    BY <2>2
  <2> QED BY <2>1, <2>3, PlainTransaction
<1>5. CASE r.method \notin Admin \cup {"createCompliantMint", "TokenManager.createCompliantMint",
                                     "mintToWallet"}
  <2>1. tx = <<>>
    BY <1>5 DEF MayBeSent
  <2>2. Len(tx) \in Nat /\ 1..Len(tx) = {}
    BY <2>1
  <2> QED BY <2>2, PlainTransaction
<1> QED BY <1>1, <1>2, <1>3, <1>4, <1>5

-----------------------------------------------------------------------------
(* How far a call has come, and how many transactions it has sent.         *)
AttemptOK(c) ==
    LET job == calls[c] IN
    /\ job.attempt <= MaxAttempts
    /\ Len(transactions[c]) <= job.attempt
    /\ job.pc \in {"read", "send"} => Len(transactions[c]) < job.attempt
    /\ job.pc # "idle" => job.request \in Requests

(* The n-th transaction of a call: it asks for what the call was to do; an *)
(* account that it does not create is there; and where it was refused the  *)
(* account it was to create is there.                                      *)
SentOK(c, n) ==
    LET r == calls[c].request
        tx == transactions[c][n]
    IN  /\ tx.instructions \in MayBeSent(c, r)
        /\ r.method = "createCompliantMint" => tx.state # "landed"
        /\ r.method = "mintToWallet" =>
              /\ tx.instructions = <<Minting(r)>> => ledger.tokens[r.mint][r.wallet] # None
              /\ (tx.state = "rejected" /\ r.mint = Existing /\ ledger.mints[Existing] # None) =>
                    /\ tx.instructions = <<Creation(r), Minting(r)>>
                    /\ ledger.tokens[Existing][r.wallet] # None

(* A transaction that creates the account landed.                          *)
LandedFor(w, t) ==
    \E d \in Call : \E k \in 1..Len(transactions[d]) :
        /\ transactions[d][k].state = "landed"
        /\ transactions[d][k].instructions =
               <<Instruction("createTokenAccount", w, t), Instruction("mintTo", w, t)>>

(* An account that a transaction was to create, and that is there, was     *)
(* created by a transaction.                                               *)
AccountOK(c, n) ==
    LET r == calls[c].request IN
    (/\ r.method = "mintToWallet"
     /\ transactions[c][n].instructions = <<Creation(r), Minting(r)>>
     /\ ledger.tokens[r.mint][r.wallet] # None) => LandedFor(r.wallet, r.mint)

(* What landed for the token manager has had its effect, and it lasts.     *)
LandedOK(c, n) ==
    LET r == calls[c].request IN
    transactions[c][n].state = "landed" =>
        /\ r.method = "TokenManager.createCompliantMint" => Finished(ledger, c)
        /\ r.method = "mintToWallet" => Held(ledger, r.mint, r.wallet)

(* What had landed when a transaction was made did not create the account  *)
(* that it creates.                                                        *)
BeforeOK(c, n) ==
    LET r == calls[c].request
        both == <<Creation(r), Minting(r)>>
    IN  (r.method = "mintToWallet" /\ transactions[c][n].instructions = both) =>
            \A p \in transactions[c][n].before :
                /\ p[2] \in 1..Len(transactions[p[1]])
                /\ transactions[p[1]][p[2]].instructions # both

EntryOK(c, n) == SentOK(c, n) /\ AccountOK(c, n) /\ LandedOK(c, n) /\ BeforeOK(c, n)

(* The second inductive invariant: the ledger agrees with what was sent.   *)
LedgerInv ==
    /\ ledger \in Good
    /\ \A c \in Call : AttemptOK(c)
    /\ \A c \in Call : \A n \in 1..Len(transactions[c]) : EntryOK(c, n)

(* It holds at the start.                                                  *)
LEMMA LedgerInit == Init => LedgerInv
<1> SUFFICES ASSUME Init PROVE LedgerInv
  OBVIOUS
<1>1. ledger \in Good
  BY SdkAssumption, LaunchAssumption DEF Init, Good, Complete, Mint
<1>2. ASSUME NEW c \in Call
      PROVE  AttemptOK(c) /\ 1..Len(transactions[c]) = {}
  BY SdkAssumption DEF Init, Idle, AttemptOK
<1> QED BY <1>1, <1>2 DEF LedgerInv

(* What a step may do to the ledger and to what was sent.                  *)
(* A step of one call that sends nothing.                                  *)
LEMMA CallStepKeeps ==
    ASSUME IInv, LedgerInv, NEW id \in Call,
           UNCHANGED <<ledger, transactions>>,
           \A d \in Call : d # id => calls'[d] = calls[d],
           AttemptOK(id)',
           transactions[id] = <<>> \/ calls'[id].request = calls[id].request
    PROVE  LedgerInv'
<1>1. ASSUME NEW c \in Call PROVE AttemptOK(c)'
  BY DEF LedgerInv, AttemptOK
<1>2. ASSUME NEW c \in Call, NEW n \in 1..Len(transactions[c])
      PROVE  EntryOK(c, n)'
  <2>1. EntryOK(c, n)
    BY DEF LedgerInv
  <2>2. transactions[id] = <<>> => c # id
    OBVIOUS
  <2>3. calls'[c].request = calls[c].request
    BY <2>2
  <2> QED BY <2>1, <2>3 DEF EntryOK, SentOK, AccountOK, LandedFor, LandedOK, BeforeOK, Finished, Held
<1> QED BY <1>1, <1>2 DEF LedgerInv

(* A call returns, begins, is made again, or goes on to its second read.   *)
LEMMA ReturnKeeps ==
    ASSUME IInv, LedgerInv, NEW id \in Call, NEW result, NEW code,
           Return(id, result, code), UNCHANGED <<ledger, transactions>>,
           calls[id].pc # "idle"
    PROVE  LedgerInv'
<1>1. calls \in [Call -> CallType] /\ calls[id] \in CallType /\ AttemptOK(id)
  BY DEF IInv, TypeOK, LedgerInv
<1>2. /\ calls'[id].pc = "done" /\ calls'[id].request = calls[id].request
      /\ calls'[id].attempt = calls[id].attempt
      /\ \A d \in Call : d # id => calls'[d] = calls[d]
  BY <1>1 DEF Return, CallType
<1>3. AttemptOK(id)'
  BY <1>1, <1>2 DEF AttemptOK
<1> QED BY <1>2, <1>3, CallStepKeeps

LEMMA BeginKeeps ==
    ASSUME IInv, LedgerInv, NEW id \in Call, NEW request \in Requests, Begin(id, request)
    PROVE  LedgerInv'
<1>1. calls \in [Call -> CallType] /\ calls[id].pc = "idle" /\ transactions[id] = <<>>
  BY DEF IInv, TypeOK, CallOK, Begin
<1>2. /\ calls'[id].request = request /\ calls'[id].attempt = 1
      /\ \A d \in Call : d # id => calls'[d] = calls[d]
      /\ UNCHANGED <<ledger, transactions>>
  BY <1>1 DEF Begin, Idle
<1>3. AttemptOK(id)'
  BY <1>1, <1>2, SdkAssumption DEF AttemptOK
<1> QED BY <1>1, <1>2, <1>3, CallStepKeeps

LEMMA RetryKeeps ==
    ASSUME IInv, LedgerInv, NEW id \in Call, retry(id)
    PROVE  LedgerInv'
<1>1. /\ calls \in [Call -> CallType] /\ calls[id] \in CallType /\ AttemptOK(id)
      /\ transactions[id] \in Seq(TransactionType)
  BY DEF IInv, TypeOK, LedgerInv
<1>2. /\ calls'[id].request = calls[id].request
      /\ calls'[id].attempt = calls[id].attempt + 1
      /\ \A d \in Call : d # id => calls'[d] = calls[d]
      /\ UNCHANGED <<ledger, transactions>>
  BY <1>1 DEF retry, CallType
<1>3. Len(transactions[id]) \in Nat /\ calls[id].attempt \in Nat
  BY <1>1 DEF CallType
<1>4. AttemptOK(id)'
  BY <1>1, <1>2, <1>3, SdkAssumption DEF AttemptOK, retry
<1> QED BY <1>2, <1>4, CallStepKeeps

LEMMA ApproveKeeps ==
    ASSUME IInv, LedgerInv, NEW id \in Call, NEW fetched \in BOOLEAN, approveTransfer(id, fetched)
    PROVE  LedgerInv'
<1>1. /\ calls \in [Call -> CallType] /\ calls[id] \in CallType /\ AttemptOK(id)
      /\ calls[id].pc \in {"source", "destination"} /\ UNCHANGED <<ledger, transactions>>
  BY DEF IInv, TypeOK, LedgerInv, approveTransfer
<1>2. CASE calls' = [calls EXCEPT ![id].pc = "destination"]
  <2>1. /\ calls'[id].request = calls[id].request /\ calls'[id].pc = "destination"
        /\ calls'[id].attempt = calls[id].attempt
        /\ \A d \in Call : d # id => calls'[d] = calls[d]
    BY <1>1, <1>2 DEF CallType
  <2>2. AttemptOK(id)'
    BY <1>1, <2>1 DEF AttemptOK
  <2> QED BY <1>1, <2>1, <2>2, CallStepKeeps
<1>3. CASE \E result : Return(id, result, None)
  BY <1>1, <1>3, ReturnKeeps
<1> QED BY <1>2, <1>3 DEF approveTransfer

(* A transaction is sent: what it is to create is not there at this        *)
(* moment.                                                                 *)
LEMMA SendKeeps ==
    ASSUME IInv, LedgerInv, NEW id \in Call, Send(id), UNCHANGED ledger,
           calls[id].pc \in {"read", "send"},
           calls[id].request.method \in Method \ Asking
    PROVE  LedgerInv'
<1> DEFINE r == calls[id].request
           tx == [instructions |-> Instructions(id, r), state |-> "sent", before |-> Creators]
           m == Len(transactions[id])
<1>1. /\ calls \in [Call -> CallType] /\ calls[id] \in CallType
      /\ transactions \in [Call -> Seq(TransactionType)]
      /\ transactions[id] \in Seq(TransactionType) /\ m \in Nat
      /\ \A c \in Call : AttemptOK(c) /\ transactions[c] \in Seq(TransactionType)
  BY DEF IInv, TypeOK, LedgerInv
<1>2. r \in Requests
  BY <1>1 DEF AttemptOK
<1>3. /\ calls'[id].request = r /\ calls'[id].pc = "confirm"
      /\ calls'[id].attempt = calls[id].attempt
      /\ \A d \in Call : d # id => calls'[d] = calls[d]
  BY <1>1 DEF Send, CallType
<1>4. /\ transactions'[id] = Append(transactions[id], tx)
      /\ \A d \in Call : d # id => transactions'[d] = transactions[d]
  BY <1>1 DEF Send
<1>5. \A c \in Call : calls'[c].request = calls[c].request
  BY <1>3
<1> HIDE DEF tx
<1>6. /\ Len(transactions'[id]) = m + 1 /\ transactions'[id][m + 1] = tx
      /\ \A n \in 1..m : transactions'[id][n] = transactions[id][n]
  BY <1>1, <1>4
<1>7. \A c \in Call : \A n \in 1..Len(transactions[c]) :
          n \in 1..Len(transactions'[c]) /\ transactions'[c][n] = transactions[c][n]
  <2> TAKE c \in Call
  <2>1. CASE c = id
    BY <1>1, <1>6, <2>1
  <2>2. CASE c # id
    BY <1>4, <2>2
  <2> QED BY <2>1, <2>2
<1>8. \A c \in Call : \A n \in 1..Len(transactions'[c]) :
          n \in 1..Len(transactions[c]) \/ (c = id /\ n = m + 1)
  BY <1>1, <1>4, <1>6
<1>9. ASSUME NEW c \in Call PROVE AttemptOK(c)'
  <2>1. CASE c = id
    <3>1. calls[id].attempt \in Nat
      BY <1>1 DEF CallType
    <3> QED BY <1>1, <1>2, <1>3, <1>6, <2>1, <3>1 DEF AttemptOK
  <2>2. CASE c # id
    BY <1>1, <1>3, <1>4, <2>2 DEF AttemptOK
  <2> QED BY <2>1, <2>2
<1>10. /\ tx.instructions \in MayBeSent(id, r)
       /\ (r.method = "mintToWallet" /\ ledger.tokens[r.mint][r.wallet] # None) =>
             tx.instructions = <<Minting(r)>>
       /\ (r.method = "mintToWallet" /\ ledger.tokens[r.mint][r.wallet] = None) =>
             tx.instructions = <<Creation(r), Minting(r)>>
       /\ tx.state = "sent" /\ tx.before = Creators
  BY <1>2, SendsWhatItMay DEF tx
<1>11. <<Minting(r)>> # <<Creation(r), Minting(r)>>
  OBVIOUS
<1>12. ASSUME NEW w, NEW t, LandedFor(w, t) PROVE LandedFor(w, t)'
  BY <1>7, <1>12 DEF LandedFor
<1>16. ASSUME r.method = "mintToWallet", tx.instructions = <<Creation(r), Minting(r)>>,
              NEW p \in Creators
       PROVE  /\ p[2] \in 1..Len(transactions[p[1]])
              /\ transactions[p[1]][p[2]].instructions # <<Creation(r), Minting(r)>>
  <2> DEFINE d == p[1]
             k == p[2]
             q == calls[d].request
             both == <<Creation(r), Minting(r)>>
  <2>1. d \in Call /\ k \in 1..Len(transactions[d]) /\ transactions[d][k].state = "landed"
    BY <1>1 DEF Creators
  <2>2. transactions[d] # <<>>
    BY <1>1, <2>1
  <2>3. q \in Requests /\ EntryOK(d, k)
    BY <1>1, <2>1, <2>2 DEF LedgerInv, AttemptOK, IInv, CallOK
  <2>4. ASSUME transactions[d][k].instructions = both PROVE FALSE
    <3>1. both \in MayBeSent(d, q)
      BY <2>3, <2>4 DEF EntryOK, SentOK
    <3>2. 1 \in 1..Len(both) /\ Creating(both[1], r.wallet, r.mint)
      BY DEF Creating, Creation, Instruction
    <3>3. q.method = "mintToWallet" /\ r.wallet = q.wallet /\ r.mint = q.mint
      <4> HIDE DEF q, both
      <4> QED BY <2>1, <2>3, <3>1, <3>2, OnlyMintToCreates
    <3>4. Held(ledger, r.mint, r.wallet)
      BY <2>1, <2>3, <3>3 DEF EntryOK, LandedOK
    <3>5. ledger.tokens[r.mint][r.wallet] = None
      BY <1>10, <1>11, <1>16
    <3> QED BY <3>4, <3>5, NoneAssumption DEF Held
  <2> QED BY <2>1, <2>4
<1>13. ASSUME NEW c \in Call, NEW n \in 1..Len(transactions'[c])
       PROVE  EntryOK(c, n)'
  <2>1. CASE n \in 1..Len(transactions[c])
    <3>1. EntryOK(c, n) /\ transactions'[c][n] = transactions[c][n]
      BY <1>7, <2>1 DEF LedgerInv
    <3>2. SentOK(c, n)'
      BY <1>5, <3>1 DEF EntryOK, SentOK
    <3>3. AccountOK(c, n)'
      BY <1>5, <1>12, <3>1 DEF EntryOK, AccountOK
    <3>4. LandedOK(c, n)'
      BY <1>5, <3>1 DEF EntryOK, LandedOK, Finished, Held
    <3>5. BeforeOK(c, n)'
      <4> DEFINE q == calls[c].request
                 both == <<Creation(q), Minting(q)>>
      <4>1. /\ calls'[c].request = q /\ transactions'[c][n] = transactions[c][n]
            /\ BeforeOK(c, n)
        BY <1>5, <3>1 DEF EntryOK
      <4>2. ASSUME q.method = "mintToWallet", transactions[c][n].instructions = both,
                   NEW p \in transactions[c][n].before
            PROVE  /\ p[2] \in 1..Len(transactions'[p[1]])
                   /\ transactions'[p[1]][p[2]].instructions # both
        <5>1. p[1] \in Call
          <6>1. transactions[c][n] \in TransactionType
            BY <1>1, <2>1
          <6> QED BY <6>1 DEF TransactionType
        <5>2. /\ p[2] \in 1..Len(transactions[p[1]])
              /\ transactions[p[1]][p[2]].instructions # both
          BY <4>1, <4>2 DEF BeforeOK
        <5> HIDE DEF both
        <5> QED BY <1>7, <5>1, <5>2
      <4> HIDE DEF both, q
      <4> QED BY <4>1, <4>2 DEF BeforeOK, both
    <3> QED BY <3>2, <3>3, <3>4, <3>5 DEF EntryOK
  <2>2. CASE c = id /\ n = m + 1
    <3>1. transactions'[c][n] = tx /\ calls'[c].request = r
      BY <1>3, <1>6, <2>2
    <3> HIDE DEF r, m
    <3>2. SentOK(c, n)'
      BY <1>10, <1>11, <2>2, <3>1 DEF SentOK
    <3>3. AccountOK(c, n)'
      BY <1>10, <1>11, <2>2, <3>1 DEF AccountOK
    <3>4. LandedOK(c, n)'
      BY <1>10, <3>1 DEF LandedOK
    <3>5. BeforeOK(c, n)'
      <4>1. \A p \in Creators : p[1] \in Call
        BY DEF Creators
      <4> QED BY <1>7, <1>10, <1>16, <3>1, <4>1 DEF BeforeOK, r
    <3> QED BY <3>2, <3>3, <3>4, <3>5 DEF EntryOK
  <2> QED BY <1>8, <2>1, <2>2
<1>14. (ledger \in Good)'
  BY DEF LedgerInv, Good, Complete
<1> QED BY <1>9, <1>13, <1>14 DEF LedgerInv

(* What a call does after a read, and at any other of its awaits.          *)
LEMMA AfterReadKeeps ==
    ASSUME IInv, LedgerInv, NEW id \in Call, AfterRead(id)
    PROVE  LedgerInv'
<1>1. calls[id].pc = "read" /\ UNCHANGED ledger /\ calls[id].request.method \in Reads
  BY DEF AfterRead, IInv, CallOK
<1>2. CASE (\E result, code : Return(id, result, code)) /\ UNCHANGED transactions
  BY <1>1, <1>2, ReturnKeeps
<1>3. CASE Send(id) /\ calls[id].request.method \notin Asking
  BY <1>1, <1>3, SendKeeps DEF Reads
<1> QED BY <1>1, <1>2, <1>3 DEF AfterRead, Fail, Asking, Reads

LEMMA ContinueKeeps ==
    ASSUME IInv, LedgerInv, NEW id \in Call, Continue(id)
    PROVE  LedgerInv'
<1>1. CASE sendAndConfirm(id)
  <2>1. calls[id].request.method \in Method \ Asking
    BY <1>1 DEF IInv, CallOK, sendAndConfirm, Sends, Admin, OfWallet, OfBreaker, Method, wrapped,
           Unwrapping, Asking
  <2> QED BY <1>1, <2>1, SendKeeps DEF sendAndConfirm
<1>2. CASE AfterRead(id)
  BY <1>2, AfterReadKeeps
<1>3. CASE \E fetched \in BOOLEAN : approveTransfer(id, fetched)
  BY <1>3, ApproveKeeps
<1>4. CASE NetworkFails(id) \/ Settle(id)
  BY <1>4, ReturnKeeps DEF NetworkFails, Settle, Confirmed, Rejected, TimesOut, Fail
<1> QED BY <1>1, <1>2, <1>3, <1>4 DEF Continue

(* A ledger that follows, and a fate of one transaction.                   *)
LEMMA LedgerKeeps ==
    ASSUME IInv, LedgerInv, \A c \in Call : Undisturbed(c),
           ledger' \in Good, Follows(ledger, ledger'),
           \A c \in Call : Len(transactions'[c]) = Len(transactions[c]),
           \A c \in Call : \A n \in 1..Len(transactions[c]) :
               /\ transactions'[c][n].instructions = transactions[c][n].instructions
               /\ transactions'[c][n].before = transactions[c][n].before
               /\ transactions[c][n].state = "landed" => transactions'[c][n].state = "landed"
               /\ (transactions'[c][n].state = "rejected"
                      /\ transactions[c][n].state # "rejected") =>
                     Executed(transactions[c][n].instructions, ledger) = None
               /\ (transactions'[c][n].state = "landed"
                      /\ transactions[c][n].state # "landed") =>
                     /\ Executed(transactions[c][n].instructions, ledger) # None
                     /\ ledger' = Executed(transactions[c][n].instructions, ledger),
           \A c \in Call : \A n \in 1..Len(transactions[c]) :
               LET r == calls[c].request IN
               (ledger'.tokens[r.mint][r.wallet] # None
                   /\ r.method = "mintToWallet"
                   /\ ledger.tokens[r.mint][r.wallet] = None) => LandedFor(r.wallet, r.mint)'
    PROVE  LedgerInv'
<1>1. ASSUME NEW c \in Call
      PROVE  /\ calls'[c].request = calls[c].request /\ calls'[c].pc = calls[c].pc
             /\ calls'[c].attempt = calls[c].attempt
  BY DEF Undisturbed
<1>2. ASSUME NEW c \in Call PROVE AttemptOK(c)'
  BY <1>1 DEF AttemptOK, LedgerInv
<1>4. ASSUME NEW c \in Call, NEW n \in 1..Len(transactions[c])
      PROVE  EntryOK(c, n)'
  <2> DEFINE r == calls[c].request
             i == transactions[c][n].instructions
  <2>1. /\ SentOK(c, n) /\ AccountOK(c, n) /\ LandedOK(c, n) /\ BeforeOK(c, n)
        /\ r \in Requests /\ calls'[c].request = r /\ transactions'[c][n].instructions = i
    BY <1>1 DEF LedgerInv, AttemptOK, IInv, CallOK, EntryOK
  <2>2. r.method = "mintToWallet" => r.wallet \in Wallet /\ r.mint \in Mint
    BY <2>1, RequestsName
  <2>3. /\ i \in MayBeSent(c, r)
        /\ r.method = "mintToWallet" => i \in {<<Creation(r), Minting(r)>>, <<Minting(r)>>}
    BY <2>1 DEF SentOK, MayBeSent, Admin, OfWallet, OfBreaker
  <2>4. r.method = "mintToWallet" =>
            (i = <<Minting(r)>> => ledger'.tokens[r.mint][r.wallet] # None)
    BY <2>1, <2>2 DEF SentOK, Follows
  <2>5. ASSUME r.method = "mintToWallet", transactions'[c][n].state = "rejected",
               r.mint = Existing, ledger'.mints[Existing] # None
        PROVE  i = <<Creation(r), Minting(r)>> /\ ledger'.tokens[Existing][r.wallet] # None
    <3>1. ledger.mints[Existing] # None /\ ledger \in Good
      BY <2>5 DEF Follows, LedgerInv
    <3>2. i = <<Creation(r), Minting(r)>> /\ ledger.tokens[Existing][r.wallet] # None
      <4>1. CASE transactions[c][n].state = "rejected"
        BY <2>1, <2>5, <3>1, <4>1 DEF SentOK
      <4>2. CASE transactions[c][n].state # "rejected"
        <5>1. Executed(i, ledger) = None
          BY <2>5, <4>2
        <5>2. i # <<Minting(r)>>
          <6>1. i = <<Minting(r)>> => ledger.tokens[r.mint][r.wallet] # None
            BY <2>1, <2>5 DEF SentOK
          <6> QED BY <2>2, <2>5, <3>1, <5>1, <6>1, MintToExecuted
        <5>3. i = <<Creation(r), Minting(r)>>
          BY <2>3, <2>5, <5>2
        <5>4. ledger.mints[Existing].initialized
          BY <3>1 DEF Good, Complete
        <5> QED BY <2>2, <2>5, <3>1, <5>1, <5>3, <5>4, MintToExecuted
      <4> QED BY <4>1, <4>2
    <3> QED BY <2>2, <2>5, <3>2 DEF Follows
  <2>8. r.method = "createCompliantMint" => transactions'[c][n].state # "landed"
    <3> SUFFICES ASSUME r.method = "createCompliantMint", transactions'[c][n].state = "landed"
                 PROVE  FALSE
      OBVIOUS
    <3>1. transactions[c][n].state # "landed"
      BY <2>1 DEF SentOK
    <3>2. Executed(i, ledger) # None
      BY <3>1
    <3>3. i = mintWithTransferHook(c)
      BY <2>3 DEF MayBeSent, Admin, OfWallet, OfBreaker
    <3> QED BY <3>2, <3>3, PlainMintIsRefused DEF LedgerInv
  <2>6. SentOK(c, n)'
    <3> HIDE DEF r, i
    <3> QED BY <2>1, <2>3, <2>4, <2>5, <2>8 DEF SentOK, r, i
  <2>7. AccountOK(c, n)'
    <3>1. SUFFICES ASSUME r.method = "mintToWallet", i = <<Creation(r), Minting(r)>>,
                          ledger'.tokens[r.mint][r.wallet] # None
                   PROVE  LandedFor(r.wallet, r.mint)'
      BY <2>1 DEF AccountOK
    <3>2. CASE ledger.tokens[r.mint][r.wallet] = None
      BY <3>1, <3>2
    <3>3. CASE ledger.tokens[r.mint][r.wallet] # None
      <4>1. LandedFor(r.wallet, r.mint)
        BY <2>1, <3>1, <3>3 DEF AccountOK
      <4>2. PICK d \in Call : \E k \in 1..Len(transactions[d]) :
                /\ transactions[d][k].state = "landed"
                /\ transactions[d][k].instructions =
                      <<Instruction("createTokenAccount", r.wallet, r.mint),
                        Instruction("mintTo", r.wallet, r.mint)>>
        BY <4>1 DEF LandedFor
      <4>3. \E k \in 1..Len(transactions'[d]) :
                /\ transactions'[d][k].state = "landed"
                /\ transactions'[d][k].instructions =
                      <<Instruction("createTokenAccount", r.wallet, r.mint),
                        Instruction("mintTo", r.wallet, r.mint)>>
        BY <4>2
      <4> QED BY <2>1, <4>3 DEF LandedFor
    <3> QED BY <3>2, <3>3
  <2>9. LandedOK(c, n)'
    <3>1. CASE transactions[c][n].state = "landed"
      <4>1. c \in Mint
        BY DEF Mint
      <4> QED BY <2>1, <2>2, <3>1, <4>1 DEF LandedOK, Follows, Finished, Held
    <3>2. CASE transactions[c][n].state # "landed" /\ transactions'[c][n].state = "landed"
      <4>1. Executed(i, ledger) # None /\ ledger' = Executed(i, ledger) /\ ledger \in Good
        BY <3>2 DEF LedgerInv
      <4>2. ASSUME r.method = "TokenManager.createCompliantMint" PROVE Finished(ledger', c)
        <5>1. i = compliantMint(c)
          BY <2>3, <4>2 DEF MayBeSent, Admin, OfWallet, OfBreaker
        <5> QED BY <4>1, <5>1, HookComesFirst
      <4>3. ASSUME r.method = "mintToWallet" PROVE Held(ledger', r.mint, r.wallet)
        <5> HIDE DEF r, i
        <5> QED BY <2>2, <2>3, <4>1, <4>3, MintToPays
      <4> HIDE DEF r, i
      <4> QED BY <2>1, <4>2, <4>3 DEF LandedOK, Finished, Held
    <3>3. CASE transactions'[c][n].state # "landed"
      BY <3>3 DEF LandedOK
    <3> QED BY <3>1, <3>2, <3>3
  <2>10. BeforeOK(c, n)'
    <3> DEFINE both == <<Creation(r), Minting(r)>>
               before == transactions[c][n].before
    <3>1. ASSUME r.method = "mintToWallet", i = both, NEW p \in before
          PROVE  /\ p[2] \in 1..Len(transactions'[p[1]])
                 /\ transactions'[p[1]][p[2]].instructions # both
      <4>1. p[1] \in Call
        <5>1. transactions[c] \in Seq(TransactionType)
          BY DEF IInv, TypeOK
        <5>2. transactions[c][n] \in TransactionType
          BY <5>1
        <5> QED BY <5>2 DEF TransactionType
      <4>2. /\ p[2] \in 1..Len(transactions[p[1]])
            /\ transactions[p[1]][p[2]].instructions # both
        BY <2>1, <3>1 DEF BeforeOK
      <4> HIDE DEF both
      <4> QED BY <4>1, <4>2
    <3>2. transactions'[c][n].before = before
      OBVIOUS
    <3> HIDE DEF both, before
    <3> QED BY <2>1, <3>1, <3>2 DEF BeforeOK, both
  <2> QED BY <2>6, <2>7, <2>9, <2>10 DEF EntryOK
<1>5. \A c \in Call : 1..Len(transactions'[c]) = 1..Len(transactions[c])
  OBVIOUS
<1> QED BY <1>2, <1>4, <1>5 DEF LedgerInv

(* What is recorded of the fate of one transaction.                        *)
Recorded(id, n, fate) ==
    \A c \in Call :
        /\ Len(transactions'[c]) = Len(transactions[c])
        /\ \A k \in 1..Len(transactions[c]) :
              /\ transactions'[c][k].instructions = transactions[c][k].instructions
              /\ transactions'[c][k].before = transactions[c][k].before
              /\ (c = id /\ k = n) => transactions'[c][k].state = fate
              /\ ~ (c = id /\ k = n) => transactions'[c][k].state = transactions[c][k].state

LEMMA FateRecorded ==
    ASSUME IInv, NEW id \in Call, NEW n \in DOMAIN transactions[id],
           NEW fate \in {"landed", "rejected", "invalid"},
           transactions[id][n].state = "sent",
           transactions' = [transactions EXCEPT ![id][n].state = fate]
    PROVE  Recorded(id, n, fate)
<1> DEFINE sent == transactions[id]
           tx == [sent[n] EXCEPT !.state = fate]
<1>1. /\ transactions \in [Call -> Seq(TransactionType)]
      /\ sent \in Seq(TransactionType) /\ n \in 1..Len(sent) /\ sent[n] \in TransactionType
  <2>1. sent \in Seq(TransactionType) /\ n \in 1..Len(sent)
    BY DEF IInv, TypeOK
  <2> QED BY <2>1 DEF IInv, TypeOK
<1>2. transactions' = [transactions EXCEPT ![id] = [sent EXCEPT ![n] = tx]]
  BY <1>1
<1>3. tx.instructions = sent[n].instructions /\ tx.before = sent[n].before /\ tx.state = fate
  BY <1>1 DEF TransactionType
<1> HIDE DEF tx
<1> SUFFICES ASSUME NEW c \in Call
             PROVE  /\ Len(transactions'[c]) = Len(transactions[c])
                    /\ \A k \in 1..Len(transactions[c]) :
                          /\ transactions'[c][k].instructions = transactions[c][k].instructions
                          /\ transactions'[c][k].before = transactions[c][k].before
                          /\ (c = id /\ k = n) => transactions'[c][k].state = fate
                          /\ ~ (c = id /\ k = n) =>
                                transactions'[c][k].state = transactions[c][k].state
  BY DEF Recorded
<1>4. transactions[c] \in Seq(TransactionType)
  BY <1>1
<1>5. CASE c = id
  <2>1. transactions'[c] = [sent EXCEPT ![n] = tx]
    BY <1>1, <1>2, <1>5
  <2>2. /\ Len(transactions'[c]) = Len(transactions[c])
        /\ \A k \in 1..Len(transactions[c]) :
              transactions'[c][k] = IF k = n THEN tx ELSE transactions[c][k]
    BY <1>1, <1>5, <2>1
  <2> QED BY <1>3, <1>5, <2>2
<1>6. CASE c # id
  BY <1>1, <1>2, <1>6
<1> QED BY <1>5, <1>6

(* A transaction is executed: it lands, or is refused as a whole.          *)
LEMMA ExecuteKeeps ==
    ASSUME IInv, LedgerInv, NEW id \in Call, NEW n, Execute(id, n)
    PROVE  LedgerInv'
<1> DEFINE sent == transactions[id]
           i == sent[n].instructions
           after == Executed(i, ledger)
           r == calls[id].request
           fate == IF after = None THEN "rejected" ELSE "landed"
<1>1. /\ n \in DOMAIN sent /\ sent[n].state = "sent"
      /\ calls' = Observe(ledger')
      /\ ledger' = (IF after = None THEN ledger ELSE after)
      /\ transactions' = [transactions EXCEPT ![id][n].state = fate]
  BY DEF Execute
<1>2. n \in 1..Len(sent) /\ sent # <<>>
  <2>1. sent \in Seq(TransactionType)
    BY DEF IInv, TypeOK
  <2> QED BY <1>1, <2>1
<1>3. Recorded(id, n, fate)
  <2>1. fate \in {"landed", "rejected", "invalid"}
    OBVIOUS
  <2> HIDE DEF fate
  <2> QED BY <1>1, <2>1, FateRecorded
<1>4. ledger \in Good /\ EntryOK(id, n) /\ r \in Requests
  BY <1>2 DEF LedgerInv, AttemptOK, IInv, CallOK
<1>5. i \in MayBeSent(id, r)
  BY <1>4 DEF EntryOK, SentOK
<1>6. after = None \/ after \in Reached(ledger, i)
  BY <1>4, <1>5, ExecutedOK
<1>7. \A c \in Call : Undisturbed(c)
  BY <1>1, ObserveOK
<1> HIDE DEF after, i, r
<1>8. /\ ledger' \in Good /\ Follows(ledger, ledger')
  BY <1>1, <1>4, <1>6 DEF Reached, Follows
<1>9. \A c \in Call : \A k \in 1..Len(transactions[c]) :
          /\ transactions'[c][k].instructions = transactions[c][k].instructions
          /\ transactions'[c][k].before = transactions[c][k].before
          /\ transactions[c][k].state = "landed" => transactions'[c][k].state = "landed"
          /\ (transactions'[c][k].state = "rejected" /\ transactions[c][k].state # "rejected") =>
                Executed(transactions[c][k].instructions, ledger) = None
          /\ (transactions'[c][k].state = "landed" /\ transactions[c][k].state # "landed") =>
                /\ Executed(transactions[c][k].instructions, ledger) # None
                /\ ledger' = Executed(transactions[c][k].instructions, ledger)
  <2> TAKE c \in Call
  <2> TAKE k \in 1..Len(transactions[c])
  <2>1. CASE c = id /\ k = n
    BY <1>1, <1>3, <2>1 DEF i, after, Recorded
  <2>2. CASE ~ (c = id /\ k = n)
    BY <1>3, <2>2 DEF Recorded
  <2> QED BY <2>1, <2>2
<1>10. ASSUME NEW c \in Call, NEW k \in 1..Len(transactions[c]),
              calls[c].request.method = "mintToWallet",
              ledger'.tokens[calls[c].request.mint][calls[c].request.wallet] # None,
              ledger.tokens[calls[c].request.mint][calls[c].request.wallet] = None
       PROVE  LandedFor(calls[c].request.wallet, calls[c].request.mint)'
  <2> DEFINE t == calls[c].request.mint
             w == calls[c].request.wallet
  <2>1. t \in Mint /\ w \in Wallet
    <3>1. transactions[c] # <<>>
      <4>1. transactions[c] \in Seq(TransactionType)
        BY DEF IInv, TypeOK
      <4> QED BY <1>10, <4>1
    <3>2. calls[c].request \in Requests
      BY <3>1 DEF LedgerInv, AttemptOK, IInv, CallOK
    <3> QED BY <1>10, <3>2, RequestsName
  <2> HIDE DEF t, w
  <2>2. after # None /\ after \in Reached(ledger, i) /\ ledger' = after
    BY <1>1, <1>6, <1>10 DEF t, w
  <2>3. PICK j \in 1..Len(i) : Creating(i[j], w, t)
    BY <1>10, <2>1, <2>2 DEF Reached, t, w
  <2>4. i = <<Creation(r), Minting(r)>> /\ w = r.wallet /\ t = r.mint
    BY <1>4, <1>5, <2>3, OnlyMintToCreates
  <2>5. /\ transactions'[id][n].state = "landed"
        /\ transactions'[id][n].instructions =
              <<Instruction("createTokenAccount", w, t), Instruction("mintTo", w, t)>>
    BY <1>2, <1>3, <2>2, <2>4 DEF Creation, Minting, i, Recorded
  <2>6. n \in 1..Len(transactions'[id])
    BY <1>2, <1>3 DEF Recorded
  <2>7. calls'[c].request = calls[c].request
    BY <1>7 DEF Undisturbed
  <2> QED BY <2>5, <2>6, <2>7 DEF LandedFor, w, t
<1>11. \A c \in Call : Len(transactions'[c]) = Len(transactions[c])
  BY <1>3 DEF Recorded
<1> QED BY <1>7, <1>8, <1>9, <1>10, <1>11, LedgerKeeps

(* One that the cluster refuses for another reason changes nothing else.   *)
LEMMA RefuseKeeps ==
    ASSUME IInv, LedgerInv, NEW id \in Call, NEW n, Refuse(id, n)
    PROVE  LedgerInv'
<1>1. /\ n \in DOMAIN transactions[id] /\ transactions[id][n].state = "sent"
      /\ transactions' = [transactions EXCEPT ![id][n].state = "invalid"]
      /\ calls' = calls /\ ledger' = ledger
  BY DEF Refuse
<1>2. Recorded(id, n, "invalid")
  BY <1>1, FateRecorded
<1>3. \A c \in Call : Undisturbed(c)
  BY <1>1 DEF IInv, TypeOK, CallOK, Undisturbed, Verified
<1>4. ledger' \in Good /\ Follows(ledger, ledger')
  BY <1>1 DEF LedgerInv, Good, Complete, Follows, Held, Finished
<1>5. \A c \in Call : \A k \in 1..Len(transactions[c]) :
          /\ transactions'[c][k].instructions = transactions[c][k].instructions
          /\ transactions'[c][k].before = transactions[c][k].before
          /\ transactions[c][k].state = "landed" => transactions'[c][k].state = "landed"
          /\ transactions'[c][k].state = "rejected" => transactions[c][k].state = "rejected"
          /\ transactions'[c][k].state = "landed" => transactions[c][k].state = "landed"
  BY <1>1, <1>2 DEF Recorded
<1>6. \A c \in Call : Len(transactions'[c]) = Len(transactions[c])
  BY <1>2 DEF Recorded
<1> QED BY <1>1, <1>3, <1>4, <1>5, <1>6, LedgerKeeps

(* Sanctions touch neither mints nor token accounts.                       *)
LEMMA SanctionKeeps ==
    ASSUME IInv, LedgerInv, NEW w \in Wallet, Sanction(w)
    PROVE  LedgerInv'
<1>1. /\ ledger' = [ledger EXCEPT !.kycStatus[w] = "sanctioned"]
      /\ calls' = Observe(ledger') /\ transactions' = transactions
      /\ ledger \in Ledger /\ Complete(ledger)
  BY DEF Sanction, LedgerInv, Good
<1>2. ledger' \in Ledger /\ ledger'.mints = ledger.mints /\ ledger'.tokens = ledger.tokens
  <2>1. [ledger.kycStatus EXCEPT ![w] = "sanctioned"] \in [Wallet -> KycStatus \cup {None}]
    BY <1>1 DEF Ledger, KycStatus
  <2> QED BY <1>1, <2>1 DEF Ledger
<1>3. ledger' \in Good /\ Follows(ledger, ledger')
  BY <1>1, <1>2 DEF Good, Complete, Follows, Held, Finished
<1>4. \A c \in Call : Undisturbed(c)
  BY <1>1, ObserveOK
<1> QED BY <1>1, <1>2, <1>3, <1>4, LedgerKeeps

(* Every step keeps the ledger and the transactions in agreement.          *)
LEMMA LedgerNext == IInv /\ LedgerInv /\ [Next]_vars => LedgerInv'
<1> SUFFICES ASSUME IInv, LedgerInv, [Next]_vars PROVE LedgerInv'
  OBVIOUS
<1>1. CASE \E c \in Call, r \in Requests : Begin(c, r)
  BY <1>1, BeginKeeps
<1>2. CASE \E c \in Call : Continue(c) \/ retry(c)
  BY <1>2, ContinueKeeps, RetryKeeps
<1>3. CASE \E c \in Call, n \in 1..MaxAttempts : Execute(c, n) \/ Refuse(c, n)
  BY <1>3, ExecuteKeeps, RefuseKeeps
<1>4. CASE \E w \in Wallet : Sanction(w)
  BY <1>4, SanctionKeeps
<1>5. CASE UNCHANGED vars
  <2>1. calls' = calls /\ ledger' = ledger /\ transactions' = transactions
    BY <1>5 DEF vars
  <2>2. \A c \in Call : Undisturbed(c)
    BY <2>1 DEF IInv, TypeOK, CallOK, Undisturbed, Verified
  <2>3. ledger' \in Good /\ Follows(ledger, ledger')
    BY <2>1 DEF LedgerInv, Good, Complete, Follows, Held, Finished
  <2> QED BY <2>1, <2>2, <2>3, LedgerKeeps
<1> QED BY <1>1, <1>2, <1>3, <1>4, <1>5 DEF Next

(* In every reachable state the ledger agrees with what was sent.          *)
THEOREM LedgerAgrees == Spec => []LedgerInv
<1>1. Init => LedgerInv
  BY LedgerInit
<1> QED BY <1>1, LedgerNext, CallsAgree, PTL DEF Spec

(* No interleaving, retry or refusal of the clients' transactions leaves a *)
(* mint that can be used without its hook, for any number of calls: the    *)
(* token manager initialises the hook before the mint in one transaction   *)
(* (tokenManager.ts 41-99), and what the SDK sends is refused as a whole.  *)
THEOREM MintsHaveHooks == Spec => []MintHasHook
<1>1. LedgerInv => MintHasHook
  BY DEF LedgerInv, Good, Complete, MintHasHook
<1> QED BY <1>1, LedgerAgrees, PTL

(* A signature that the token manager returns stands for its effect, for   *)
(* any number of calls, attempts and transactions that landed in between   *)
(* (tokenManager.ts 41-99, 110-160): the invariant has the effect of every *)
(* transaction that landed, the empty one of initializeCompliantMint being *)
(* none of them.                                                           *)
THEOREM SignaturesMeanMint == Spec => []SignatureMeansMint
<1>1. IInv /\ LedgerInv => SignatureMeansMint
  <2> SUFFICES ASSUME IInv, LedgerInv, NEW c \in Call, calls[c].result = "signature"
               PROVE  LET r == calls[c].request IN
                      /\ r.method = "TokenManager.createCompliantMint" => Finished(ledger, c)
                      /\ r.method = "mintToWallet" => Held(ledger, r.mint, r.wallet)
    BY DEF SignatureMeansMint, Finished, Held
  <2>1. /\ transactions[c] # <<>> /\ transactions[c] \in Seq(TransactionType)
        /\ transactions[c][Len(transactions[c])].state = "landed"
    BY DEF IInv, TypeOK, CallOK
  <2>2. Len(transactions[c]) \in 1..Len(transactions[c])
    BY <2>1
  <2> QED BY <2>1, <2>2 DEF LedgerInv, EntryOK, LandedOK
<1> QED BY <1>1, LedgerAgrees, CallsAgree, PTL

(* A mint to a wallet does not find what it expects only if another        *)
(* transaction created the account after it was looked up                  *)
(* (tokenManager.ts 110-160).                                              *)
THEOREM RefusedMintsHaveRivals == Spec => []RejectedMintHadRival
<1>1. IInv /\ LedgerInv => RejectedMintHadRival
  <2> SUFFICES ASSUME IInv, LedgerInv, NEW c \in Call, NEW n \in 1..MaxAttempts,
                      n \in DOMAIN transactions[c], transactions[c][n].state = "rejected",
                      calls[c].request.method = "mintToWallet",
                      calls[c].request.mint = Existing, ledger.mints[Existing] # None
               PROVE  \E d \in Call, k \in 1..MaxAttempts :
                         /\ k \in DOMAIN transactions[d]
                         /\ transactions[d][k].state = "landed"
                         /\ Creates(transactions[d][k], calls[c].request.wallet, Existing)
                         /\ <<d, k>> \notin transactions[c][n].before
    BY DEF RejectedMintHadRival
  <2> DEFINE w == calls[c].request.wallet
             both == <<Instruction("createTokenAccount", w, Existing),
                       Instruction("mintTo", w, Existing)>>
  <2>1. \A d \in Call : transactions[d] \in Seq(TransactionType)
    BY DEF IInv, TypeOK
  <2>2. n \in 1..Len(transactions[c])
    BY <2>1
  <2>3. EntryOK(c, n)
    BY <2>2 DEF LedgerInv
  <2>4. /\ both = <<Creation(calls[c].request), Minting(calls[c].request)>>
        /\ transactions[c][n].instructions = both /\ ledger.tokens[Existing][w] # None
    BY <2>3 DEF EntryOK, SentOK, Creation, Minting
  <2>5. LandedFor(w, Existing)
    BY <2>3, <2>4 DEF EntryOK, AccountOK
  <2>6. PICK d \in Call : \E k \in 1..Len(transactions[d]) :
            transactions[d][k].state = "landed" /\ transactions[d][k].instructions = both
    BY <2>5 DEF LandedFor
  <2>7. PICK k \in 1..Len(transactions[d]) :
            transactions[d][k].state = "landed" /\ transactions[d][k].instructions = both
    BY <2>6
  <2>8. k \in 1..MaxAttempts /\ k \in DOMAIN transactions[d]
    <3>1. /\ Len(transactions[d]) <= calls[d].attempt /\ calls[d].attempt <= MaxAttempts
          /\ calls[d].attempt \in Nat /\ Len(transactions[d]) \in Nat /\ MaxAttempts \in Nat
      BY <2>1, SdkAssumption DEF LedgerInv, AttemptOK, IInv, TypeOK, CallType
    <3>2. DOMAIN transactions[d] = 1..Len(transactions[d])
      BY <2>1
    <3> QED BY <3>1, <3>2
  <2>9. Creates(transactions[d][k], w, Existing)
    <3>1. /\ transactions[d][k].instructions[1] = Instruction("createTokenAccount", w, Existing)
          /\ 1 \in DOMAIN transactions[d][k].instructions
      BY <2>7
    <3> QED BY <3>1 DEF Creates
  <2>10. <<d, k>> \notin transactions[c][n].before
    <3>1. \A p \in transactions[c][n].before : transactions[p[1]][p[2]].instructions # both
      BY <2>3, <2>4 DEF EntryOK, BeforeOK
    <3> HIDE DEF both
    <3>2. ASSUME <<d, k>> \in transactions[c][n].before PROVE FALSE
      <4>1. transactions[<<d, k>>[1]][<<d, k>>[2]].instructions # both
        BY <3>1, <3>2
      <4> QED BY <2>7, <4>1
    <3> QED BY <3>2
  <2> QED BY <2>7, <2>8, <2>9, <2>10
<1> QED BY <1>1, LedgerAgrees, CallsAgree, PTL

(* createCompliantMint of the SDK never returns a signature: it makes room *)
(* for a plain mint, whose hook cannot be initialised                      *)
(* (transfer-hook-service.ts 101-157, compliance-sdk.ts 250-266), although *)
(* complete-workflow.test.ts 106-111 expects a signature.                  *)
SdkMintFails ==
    \A c \in Call :
        (calls[c].request # None /\ calls[c].request.method = "createCompliantMint") =>
            calls[c].result # "signature"

(* That call fails in every run: the cluster refuses its transaction       *)
(* before any mint is made.                                                *)
THEOREM SdkMintsFail == Spec => []SdkMintFails
<1>1. IInv /\ LedgerInv => SdkMintFails
  <2> SUFFICES ASSUME IInv, LedgerInv, NEW c \in Call,
                      calls[c].request.method = "createCompliantMint",
                      calls[c].result = "signature"
               PROVE  FALSE
    BY DEF SdkMintFails
  <2>1. /\ transactions[c] # <<>> /\ transactions[c] \in Seq(TransactionType)
        /\ transactions[c][Len(transactions[c])].state = "landed"
    BY DEF IInv, TypeOK, CallOK
  <2>2. Len(transactions[c]) \in 1..Len(transactions[c])
    BY <2>1
  <2> QED BY <2>1, <2>2 DEF LedgerInv, EntryOK, SentOK
<1> QED BY <1>1, LedgerAgrees, CallsAgree, PTL

=============================================================================
