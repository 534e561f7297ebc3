---------------------------- MODULE ComplianceSdk ----------------------------
(***************************************************************************)
(* The clients that issue and control compliant tokens: the ComplianceSDK  *)
(* (src/compliance-sdk.ts) with its transfer hook service                  *)
(* (src/transfer-hook-service.ts), and the token manager                   *)
(* (src/sdk/typescript/src/tokenManager.ts).  Each of their methods reads, *)
(* awaits, sends one transaction and awaits its confirmation.              *)
(*                                                                         *)
(* A transaction that was sent is executed later, once or never; the       *)
(* caller may be told that it failed although it will still be executed.   *)
(* Calls overlap as their awaits allow.                                    *)
(***************************************************************************)
EXTENDS Integers, Sequences

CONSTANTS Wallet, Call, Existing, None,
          Launches,        \* the ledgers in which the clients begin
          MaxAttempts      \* bound: how often a caller makes a call again

(* createMint generates a key: a call stands for its mint.                 *)
Mint == Call \cup {Existing}

INSTANCE SolanaLedger
INSTANCE ComplianceErrors

Answer == {"answer", "signature", "approved", "refused", "failed"}

ASSUME SdkAssumption ==
    /\ MaxAttempts \in Nat \ {0}
    /\ Existing \notin Call
    /\ None \notin Wallet \cup Mint \cup Answer
    /\ Launches \subseteq Ledger

(* A mint that was there before is complete and has its hook.              *)
ASSUME LaunchAssumption ==
    \A l \in Launches, t \in Mint :
        l.mints[t] # None => l.mints[t].initialized /\ l.mints[t].transferHook

(* None is neither an account nor a ledger.                                *)
ASSUME NoneAssumption == None \notin Nat \cup MintAccount \cup Ledger

VARIABLES ledger,
          calls,           \* the calls of the clients' methods
          transactions     \* what each call has sent, by attempt

vars == <<ledger, calls, transactions>>

-----------------------------------------------------------------------------
(* The methods, and the code their errors are wrapped in.  The account of a *)
(* registration is paid for and signed by the wallet itself.               *)
wrapped ==
    [registerUser             |-> "REGISTRATION_FAILED",
     freezeWallet             |-> "FREEZE_FAILED",
     unfreezeWallet           |-> "UNFREEZE_FAILED",
     activateCircuitBreaker   |-> "CIRCUIT_BREAKER_FAILED",
     deactivateCircuitBreaker |-> "CIRCUIT_BREAKER_FAILED",
     createCompliantMint      |-> "MINT_CREATION_FAILED",
     updateTransferHook       |-> "HOOK_UPDATE_FAILED",
     getTransferHookInfo      |-> "HOOK_FETCH_FAILED",
     getRegistryInfo          |-> "REGISTRY_FETCH_FAILED",
     approveTransfer          |-> "TRANSFER_APPROVAL_FAILED"]

OfWallet == {"registerUser", "freezeWallet", "unfreezeWallet"}
OfBreaker == {"activateCircuitBreaker", "deactivateCircuitBreaker"}
Admin == OfWallet \cup OfBreaker

(* The token manager and the transfer hook client throw what the           *)
(* connection throws.                                                      *)
Unwrapping == {"TokenManager.createCompliantMint", "mintToWallet",
               "initializeCompliantMint", "transferCheckedWithHook"}

Method == DOMAIN wrapped \cup Unwrapping

(* Every failure of a method is wrapped in the same code, whatever it was.  *)
codeOf(method) == IF method \in Unwrapping THEN None ELSE wrapped[method]

(* A mint whose only authority is the payer, without one to freeze.        *)
createInitializeMintInstruction(mint) == Instruction("initializeMint", None, mint)

(* The accounts that the hook is given beside those of the transfer: the   *)
(* program, its registry and the authority.                                *)
createExtraAccountMetaListInstruction(mint) ==
    Instruction("initializeExtraAccountMetaList", None, mint)

(* createMintWithTransferHook makes room for a plain mint and initialises  *)
(* it before its hook.                                                     *)
mintWithTransferHook(mint) ==
    <<Instruction("createPlainMint", None, mint),
      createInitializeMintInstruction(mint),
      Instruction("initializeTransferHook", None, mint),
      createExtraAccountMetaListInstruction(mint)>>

(* A mutant of compliantMint: the hook is left for later.                  *)
WithoutHook(mint) ==
    <<Instruction("createExtendedMint", None, mint),
      Instruction("initializePermanentDelegate", None, mint),
      Instruction("initializeMint", None, mint)>>

(* A mutant of compliantMint: the permanent delegate is forgotten.         *)
WithoutDelegate(mint) ==
    <<Instruction("createExtendedMint", None, mint),
      Instruction("initializeTransferHook", None, mint),
      Instruction("initializeMint", None, mint)>>

compliantMint(mint) ==
    <<Instruction("createExtendedMint", None, mint),
      Instruction("initializePermanentDelegate", None, mint),
      Instruction("initializeTransferHook", None, mint),
      Instruction("initializeMint", None, mint)>>

(* A mutant of mintTo: the existence of the account is not looked up.      *)
Unchecked(c) ==
    <<Instruction("createTokenAccount", c.wallet, c.mint),
      Instruction("mintTo", c.wallet, c.mint)>>

(* The account is created if the look-up did not find it.                  *)
mintTo(c) ==
    (IF ledger.tokens[c.mint][c.wallet] = None
     THEN <<Instruction("createTokenAccount", c.wallet, c.mint)>> ELSE <<>>)
    \o <<Instruction("mintTo", c.wallet, c.mint)>>

(* The transfer hook client adds no instruction to what it sends.          *)
compliantTransaction == <<>>

(* What a call sends, from what it reads at this moment.                   *)
Instructions(id, c) ==
    CASE c.method \in Admin -> <<Instruction(c.method, c.wallet, None)>>
      [] c.method = "createCompliantMint" -> mintWithTransferHook(id)
      [] c.method = "TokenManager.createCompliantMint" -> compliantMint(id)
      [] c.method = "mintToWallet" -> mintTo(c)
      [] c.method \in {"initializeCompliantMint", "transferCheckedWithHook"} -> compliantTransaction

-----------------------------------------------------------------------------
Request(method, wallet, other, mint, amount) ==
    [method |-> method, wallet |-> wallet, other |-> other, mint |-> mint, amount |-> amount]

Requests ==
    {Request(m, w, None, None, 0) : m \in OfWallet, w \in Wallet}
    \cup {Request(m, None, None, None, 0) :
              m \in OfBreaker \cup {"createCompliantMint", "getRegistryInfo",
                                    "TokenManager.createCompliantMint", "initializeCompliantMint"}}
    \cup {Request("approveTransfer", w, o, None, 0) : w, o \in Wallet}
    \cup {Request(m, None, None, t, 0) : m \in {"updateTransferHook", "getTransferHookInfo"}, t \in Mint}
    \cup {Request("mintToWallet", w, None, t, 1) : w \in Wallet, t \in Mint}
    \cup {Request("transferCheckedWithHook", w, o, Existing, n) : w, o \in Wallet, n \in 0..1}

Idle == [request |-> None, pc |-> "idle", attempt |-> 0, result |-> None, code |-> None,
         seen |-> {}, halted |-> FALSE]

Init ==
    /\ ledger \in Launches
    /\ calls = [c \in Call |-> Idle]
    /\ transactions = [c \in Call |-> <<>>]

Verified(l) == {w \in Wallet : l.kycStatus[w] = "verified"}

Return(id, result, code) ==
    calls' = [calls EXCEPT ![id].pc = "done", ![id].result = result, ![id].code = code]

Fail(id) == Return(id, "failed", codeOf(calls[id].request.method))

(* Where a method waits first: it sends, or it reads before it acts.       *)
FirstAwait(method) ==
    CASE method \in Admin \cup {"initializeCompliantMint"} -> "send"
      [] method = "approveTransfer" -> "source"
      [] OTHER -> "read"

Begin(id, request) ==
    /\ calls[id].pc = "idle"
    /\ calls' = [calls EXCEPT ![id] =
          [Idle EXCEPT !.request = request, !.pc = FirstAwait(request.method), !.attempt = 1,
                       !.seen = IF request.method = "approveTransfer" THEN Verified(ledger) ELSE {},
                       !.halted = request.method = "approveTransfer"
                                      /\ ledger.circuitBreakerActive]]
    /\ UNCHANGED <<ledger, transactions>>

CreatesAccount(tx) ==
    \E i \in DOMAIN tx.instructions : tx.instructions[i].op = "createTokenAccount"

(* The transactions that have created accounts, by call and attempt.       *)
Creators ==
    {p \in Call \X (1..MaxAttempts) :
        /\ p[2] \in DOMAIN transactions[p[1]]
        /\ transactions[p[1]][p[2]].state = "landed"
        /\ CreatesAccount(transactions[p[1]][p[2]])}

(* History: "before" is what had created accounts when this was made.      *)
Send(id) ==
    /\ transactions' = [transactions EXCEPT ![id] =
          Append(@, [instructions |-> Instructions(id, calls[id].request),
                     state |-> "sent", before |-> Creators])]
    /\ calls' = [calls EXCEPT ![id].pc = "confirm"]

sendAndConfirm(id) ==
    /\ calls[id].pc = "send"
    /\ Send(id)
    /\ UNCHANGED ledger

(* The transfer hook client takes every balance for zero.                  *)
getTokenBalance(wallet) == 0

(* A read is answered: a rent, an account, a hook or a balance.  In what   *)
(* updateTransferHookProgramId reads of a mint there is never the field    *)
(* that it takes the authority from: it throws, mint or none.              *)
AfterRead(id) ==
    LET r == calls[id].request
    IN  /\ calls[id].pc = "read"
        /\ CASE r.method \in {"getRegistryInfo", "getTransferHookInfo"} ->
                  Return(id, "answer", None) /\ UNCHANGED transactions
             [] \/ r.method = "updateTransferHook"
                \/ r.method = "transferCheckedWithHook" /\ getTokenBalance(r.wallet) < r.amount ->
                  Fail(id) /\ UNCHANGED transactions
             [] OTHER -> Send(id)
        /\ UNCHANGED ledger

(* A mutant of checkComplianceStatus: no answer is no objection.           *)
FailsOpen(wallet, fetched) ==
    IF ledger.kycStatus[wallet] # None /\ fetched
    THEN ledger.kycStatus[wallet]
    ELSE IF fetched THEN "unverified" ELSE "verified"

(* A fetch that fails and an account that is missing are all one to it.    *)
checkComplianceStatus(wallet, fetched) ==
    IF fetched /\ ledger.kycStatus[wallet] # None
    THEN ledger.kycStatus[wallet]
    ELSE "unverified"

(* The sender's status is awaited, then the recipient's.                   *)
approveTransfer(id, fetched) ==
    /\ \/ /\ calls[id].pc = "source"
          /\ IF checkComplianceStatus(calls[id].request.wallet, fetched) = "verified"
             THEN calls' = [calls EXCEPT ![id].pc = "destination"]
             ELSE Return(id, "refused", None)
       \/ /\ calls[id].pc = "destination"
          /\ Return(id, IF checkComplianceStatus(calls[id].request.other, fetched) = "verified"
                        THEN "approved" ELSE "refused", None)
    /\ UNCHANGED <<ledger, transactions>>

(* The request or its answer is lost before anything was sent.             *)
NetworkFails(id) ==
    /\ calls[id].pc \in {"read", "send"}
    /\ Fail(id)
    /\ UNCHANGED <<ledger, transactions>>

Latest(id) == transactions[id][Len(transactions[id])]

Confirmed(id) ==
    /\ calls[id].pc = "confirm"
    /\ Latest(id).state = "landed"
    /\ Return(id, "signature", None)
    /\ UNCHANGED <<ledger, transactions>>

Rejected(id) ==
    /\ calls[id].pc = "confirm"
    /\ Latest(id).state \in {"rejected", "invalid"}
    /\ Fail(id)
    /\ UNCHANGED <<ledger, transactions>>

(* The confirmation does not come in time, wherever the transaction is.    *)
TimesOut(id) ==
    /\ calls[id].pc = "confirm"
    /\ Fail(id)
    /\ UNCHANGED <<ledger, transactions>>

(* retry() makes a call again whatever it failed with: nothing asks        *)
(* isRetryable.                                                            *)
retry(id) ==
    /\ calls[id].pc = "done" /\ calls[id].result = "failed"
    /\ calls[id].attempt < MaxAttempts
    /\ calls' = [calls EXCEPT ![id].pc = FirstAwait(calls[id].request.method),
                              ![id].attempt = @ + 1, ![id].result = None, ![id].code = None]
    /\ UNCHANGED <<ledger, transactions>>

(* History: the wallets that an approval under way could have seen         *)
(* verified, and whether the circuit breaker was active all the time.      *)
Witnessed(job, l) ==
    [job EXCEPT !.seen = @ \cup Verified(l), !.halted = @ /\ l.circuitBreakerActive]

Observe(l) ==
    [c \in Call |-> IF calls[c].pc \in {"source", "destination"}
                    THEN Witnessed(calls[c], l) ELSE calls[c]]

Execute(id, n) ==
    /\ n \in DOMAIN transactions[id]
    /\ transactions[id][n].state = "sent"
    /\ LET after == Executed(transactions[id][n].instructions, ledger)
       IN  /\ ledger' = IF after = None THEN ledger ELSE after
           /\ transactions' = [transactions EXCEPT ![id][n].state =
                                  IF after = None THEN "rejected" ELSE "landed"]
           /\ calls' = Observe(ledger')

(* The cluster refuses a transaction for what the accounts of this ledger  *)
(* do not show: its fees, its blockhash, or an authority that it lacks.    *)
Refuse(id, n) ==
    /\ n \in DOMAIN transactions[id]
    /\ transactions[id][n].state = "sent"
    /\ transactions' = [transactions EXCEPT ![id][n].state = "invalid"]
    /\ UNCHANGED <<ledger, calls>>

(* Another authority of the program puts a wallet on the sanctions list.   *)
Sanction(w) ==
    /\ ledger.kycStatus[w] \notin {None, "sanctioned"}
    /\ ledger' = [ledger EXCEPT !.kycStatus[w] = "sanctioned"]
    /\ calls' = Observe(ledger')
    /\ UNCHANGED transactions

Settle(id) == Confirmed(id) \/ Rejected(id) \/ TimesOut(id)

Continue(id) ==
    \/ sendAndConfirm(id)
    \/ AfterRead(id)
    \/ \E fetched \in BOOLEAN : approveTransfer(id, fetched)
    \/ NetworkFails(id)
    \/ Settle(id)

Next ==
    \/ \E c \in Call, r \in Requests : Begin(c, r)
    \/ \E c \in Call : Continue(c) \/ retry(c)
    \/ \E c \in Call, n \in 1..MaxAttempts : Execute(c, n) \/ Refuse(c, n)
    \/ \E w \in Wallet : Sanction(w)

Spec == Init /\ [][Next]_vars

-----------------------------------------------------------------------------
(* A transfer that approveTransfer approves is between wallets that were   *)
(* each verified at some moment of that call, however its two reads        *)
(* interleave with freezes and whichever of them fails.  (It need not be   *)
(* between wallets that are verified at the same moment.)                  *)
ApprovalIsGrounded ==
    \A c \in Call : calls[c].result = "approved" =>
        {calls[c].request.wallet, calls[c].request.other} \subseteq calls[c].seen

(* A transfer is not approved while the circuit breaker is active: so says *)
(* a test of the SDK, which activates it, asks for an approval and expects *)
(* a refusal.  (approveTransfer reads the two wallets and nothing else.)   *)
BreakerStopsApprovals ==
    \A c \in Call : calls[c].result = "approved" => ~calls[c].halted

(* The signature that a method of the token manager returns stands for its *)
(* effect, however the call was retried and whatever landed in between:    *)
(* the new mint can be used and has its hook and its delegate, the wallet  *)
(* that was minted to has an account that is not empty.                    *)
SignatureMeansMint ==
    \A c \in Call : LET r == calls[c].request IN
        calls[c].result = "signature" =>
            /\ r.method = "TokenManager.createCompliantMint" =>
                  /\ ledger.mints[c] # None
                  /\ ledger.mints[c].initialized
                  /\ ledger.mints[c].transferHook /\ ledger.mints[c].permanentDelegate
            /\ r.method = "mintToWallet" => ledger.tokens[r.mint][r.wallet] \in Nat \ {0}

(* No order or failure of the clients' transactions leaves a mint that can *)
(* be used without the compliance hook.  The token manager initialises the *)
(* hook first and in the same transaction; the other order, which the SDK  *)
(* sends, is refused by the cluster as a whole.                            *)
MintHasHook ==
    \A t \in Mint : LET mint == ledger.mints[t] IN
        mint # None => (mint.initialized => mint.transferHook)

Creates(tx, wallet, mint) ==
    \E i \in DOMAIN tx.instructions :
        tx.instructions[i] = Instruction("createTokenAccount", wallet, mint)

(* mintToWallet looks for the recipient's account before it sends: where   *)
(* its instructions do not find what they expect, another transaction      *)
(* created the account after it looked, be it of an earlier attempt that   *)
(* was believed lost.  (What is refused for other reasons is not meant.)   *)
RejectedMintHadRival ==
    \A c \in Call, n \in 1..MaxAttempts :
        LET r == calls[c].request IN
        (n \in DOMAIN transactions[c] /\ transactions[c][n].state = "rejected"
            /\ r.method = "mintToWallet" /\ r.mint = Existing /\ ledger.mints[Existing] # None)
        => \E d \in Call, k \in 1..MaxAttempts :
              /\ k \in DOMAIN transactions[d]
              /\ transactions[d][k].state = "landed"
              /\ Creates(transactions[d][k], r.wallet, Existing)
              /\ <<d, k>> \notin transactions[c][n].before

=============================================================================
