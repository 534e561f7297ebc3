---------------------------- MODULE SolanaLedger ----------------------------
(***************************************************************************)
(* What the TypeScript clients assume of the cluster: accounts of the      *)
(* compliance program (as declared by the IDL in src/types.ts) and of      *)
(* Token-2022, and transactions whose instructions are executed in order   *)
(* and all or none.  An instruction is a record with its operation and the *)
(* accounts it names.                                                      *)
(***************************************************************************)
EXTENDS Integers, Sequences

CONSTANTS Wallet, Mint, None

KycStatus == {"unverified", "pending", "verified", "frozen", "sanctioned"}

(* A mint with extensions is initialised in two phases: its extensions     *)
(* first, if its account has room for them, then the mint itself.          *)
MintAccount == [space : {"plain", "extended"}, permanentDelegate : BOOLEAN,
                transferHook : BOOLEAN, initialized : BOOLEAN]

Ledger == [kycStatus            : [Wallet -> KycStatus \cup {None}],
           circuitBreakerActive : BOOLEAN,
           mints                : [Mint -> MintAccount \cup {None}],
           tokens               : [Mint -> [Wallet -> Nat \cup {None}]]]

Genesis == [kycStatus            |-> [w \in Wallet |-> None],
            circuitBreakerActive |-> FALSE,
            mints                |-> [m \in Mint |-> None],
            tokens               |-> [m \in Mint |-> [w \in Wallet |-> None]]]

Instruction(op, wallet, mint) == [op |-> op, wallet |-> wallet, mint |-> mint]

(* Conditions under which an instruction is accepted, and its effect.      *)
Accepts(i, l) ==
    CASE i.op = "registerUser" -> l.kycStatus[i.wallet] = None
      [] i.op \in {"freezeWallet", "unfreezeWallet"} -> l.kycStatus[i.wallet] # None
      [] i.op \in {"createPlainMint", "createExtendedMint"} -> l.mints[i.mint] = None
      [] i.op \in {"initializePermanentDelegate", "initializeTransferHook"} ->
             /\ l.mints[i.mint] # None
             /\ l.mints[i.mint].space = "extended"
             /\ ~l.mints[i.mint].initialized
      [] i.op = "initializeMint" -> l.mints[i.mint] # None /\ ~l.mints[i.mint].initialized
      [] i.op = "createTokenAccount" ->
             /\ l.mints[i.mint] # None /\ l.mints[i.mint].initialized
             /\ l.tokens[i.mint][i.wallet] = None
      [] i.op = "mintTo" -> l.tokens[i.mint][i.wallet] # None
      [] OTHER -> TRUE

NewMint(space) == [space |-> space, permanentDelegate |-> FALSE,
                   transferHook |-> FALSE, initialized |-> FALSE]

Effect(i, l) ==
    CASE i.op = "registerUser" ->
             [l EXCEPT !.kycStatus[i.wallet] = "verified"]
      [] i.op = "freezeWallet"   -> [l EXCEPT !.kycStatus[i.wallet] = "frozen"]
      [] i.op = "unfreezeWallet" -> [l EXCEPT !.kycStatus[i.wallet] = "verified"]
      [] i.op = "activateCircuitBreaker"   -> [l EXCEPT !.circuitBreakerActive = TRUE]
      [] i.op = "deactivateCircuitBreaker" -> [l EXCEPT !.circuitBreakerActive = FALSE]
      [] i.op = "createPlainMint"    -> [l EXCEPT !.mints[i.mint] = NewMint("plain")]
      [] i.op = "createExtendedMint" -> [l EXCEPT !.mints[i.mint] = NewMint("extended")]
      [] i.op = "initializePermanentDelegate" ->
             [l EXCEPT !.mints[i.mint].permanentDelegate = TRUE]
      [] i.op = "initializeTransferHook" -> [l EXCEPT !.mints[i.mint].transferHook = TRUE]
      [] i.op = "initializeMint"     -> [l EXCEPT !.mints[i.mint].initialized = TRUE]
      [] i.op = "createTokenAccount" -> [l EXCEPT !.tokens[i.mint][i.wallet] = 0]
      [] i.op = "mintTo"             -> [l EXCEPT !.tokens[i.mint][i.wallet] = @ + 1]
      [] OTHER -> l

(* The ledger after a transaction, or None if an instruction is refused.   *)
Executed(tx, l) ==
    LET after[n \in 0..Len(tx)] ==
            IF n = 0 THEN l
            ELSE IF after[n - 1] = None \/ ~Accepts(tx[n], after[n - 1]) THEN None
            ELSE Effect(tx[n], after[n - 1])
    IN  after[Len(tx)]

=============================================================================
