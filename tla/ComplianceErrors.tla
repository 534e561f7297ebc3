-------------------------- MODULE ComplianceErrors --------------------------
(***************************************************************************)
(* The error definitions of the compliance SDK (src/errors.ts): the codes, *)
(* their categories, and what is made of a failed transaction.             *)
(***************************************************************************)
EXTENDS Naturals, Sequences

General      == {"UNKNOWN_ERROR", "INVALID_PARAMETERS", "UNAUTHORIZED",
                 "ACCOUNT_NOT_FOUND", "INSUFFICIENT_FUNDS"}
KYC          == {"WALLET_NOT_REGISTERED", "KYC_EXPIRED", "WALLET_FROZEN", "SANCTIONED",
                 "AMOUNT_EXCEEDS_MAXIMUM", "VELOCITY_LIMIT_EXCEEDED",
                 "INVALID_EXTRA_ACCOUNT_META", "CIRCUIT_BREAKER_ACTIVE",
                 "INVALID_AUTHORITY", "ZKP_VERIFICATION_FAILED",
                 "RECEIVER_NOT_VERIFIED", "SENDER_NOT_VERIFIED"}
Registry     == {"REGISTRY_FULL", "DUPLICATE_REGISTRATION", "INVALID_COUNTRY_CODE"}
TransferHook == {"TRANSFER_HOOK_NOT_INITIALIZED", "INVALID_MINT", "HOOK_PROGRAM_MISMATCH"}
SDK          == {"REGISTRATION_FAILED", "STATUS_CHECK_FAILED", "TRANSFER_APPROVAL_FAILED",
                 "MINT_CREATION_FAILED", "HOOK_UPDATE_FAILED", "HOOK_FETCH_FAILED",
                 "REGISTRY_FETCH_FAILED", "FREEZE_FAILED", "UNFREEZE_FAILED",
                 "CIRCUIT_BREAKER_FAILED", "NETWORK_ERROR", "TIMEOUT_ERROR"}
Arithmetic   == {"OVERFLOW", "UNDERFLOW", "DIVISION_BY_ZERO"}

ErrorCode == General \cup KYC \cup Registry \cup TransferHook \cup SDK \cup Arithmetic

(* The category that ERROR_MESSAGES gives a code.                          *)
getCategory(code) ==
    CASE code \in General      -> "General"
      [] code \in KYC          -> "KYC"
      [] code \in Registry     -> "Registry"
      [] code \in TransferHook -> "Transfer Hook"
      [] code \in SDK          -> "SDK"
      [] code \in Arithmetic   -> "Arithmetic"
      [] OTHER                 -> "Unknown"

isRetryable(code) == code \in {"NETWORK_ERROR", "TIMEOUT_ERROR", "INSUFFICIENT_FUNDS"}

(* The Anchor errors that ERROR_CODE_MAP knows are those of these codes.   *)
ERROR_CODE_MAP == KYC \cup Arithmetic

(* error: the code that an Anchor error carries, or none.                  *)
parseAnchorError(error) == IF error \in ERROR_CODE_MAP THEN error ELSE "UNKNOWN_ERROR"

(* A log line is an Anchor error with its code, the report that a program  *)
(* failed, or anything else.                                               *)
Decisive(line) == line.kind = "failed" \/ (line.kind = "anchor" /\ line.code \in ERROR_CODE_MAP)

(* The first line that says anything decides.                              *)
createErrorFromTransactionFailure(logs) ==
    LET lines == {i \in DOMAIN logs : Decisive(logs[i])}
        first == CHOOSE i \in lines : \A k \in lines : i <= k
    IN  IF lines # {} /\ logs[first].kind = "anchor"
        THEN logs[first].code
        ELSE "UNKNOWN_ERROR"

=============================================================================
