------------------------ MODULE RiskAwareAttestation ------------------------
(***************************************************************************)
(* The on-chain program risk_aware_attestation (risk_engine/policy/        *)
(* actions.rs): one account per attestation, whose risk_status the issuer  *)
(* recorded in the account may overwrite.  Each handler checks the signer  *)
(* and nothing else, so no status is final.                                *)
(***************************************************************************)
CONSTANTS
    Attestation,
    Key,            \* public keys that sign transactions
    issuer          \* the issuer field of each account

VARIABLE risk_status

RiskStatus == {"Active", "Flagged", "Suspended", "Revoked"}

TypeOK == risk_status \in [Attestation -> RiskStatus]

Init == risk_status = [a \in Attestation |-> "Active"]

(* require!(attestation.issuer == risk_engine.key()), then the status is   *)
(* replaced whatever it was.                                               *)
SetStatus(a, signer, status) ==
    /\ issuer[a] = signer
    /\ risk_status' = [risk_status EXCEPT ![a] = status]

flag_attestation(a, signer)    == SetStatus(a, signer, "Flagged")
suspend_attestation(a, signer) == SetStatus(a, signer, "Suspended")
revoke_attestation(a, signer)  == SetStatus(a, signer, "Revoked")

Next ==
    \E a \in Attestation, k \in Key :
        \/ flag_attestation(a, k)
        \/ suspend_attestation(a, k)
        \/ revoke_attestation(a, k)

Spec == Init /\ [][Next]_risk_status

=============================================================================
