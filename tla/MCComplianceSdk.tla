-------------------------- MODULE MCComplianceSdk --------------------------
(***************************************************************************)
(* The clients on an empty cluster and on one where wallets are registered *)
(* and a compliant mint is there.                                          *)
(***************************************************************************)
EXTENDS ComplianceSdk, TLC

CONSTANTS c1, c2, w1, w2, existing, none

MCCall   == {c1, c2}
MCWallet == {w1, w2}

MCUsed == [kycStatus            |-> [w \in MCWallet |-> "verified"],
           circuitBreakerActive |-> FALSE,
           mints  |-> [m \in MCCall \cup {existing} |->
                          IF m # existing THEN none
                          ELSE [space |-> "extended", permanentDelegate |-> TRUE,
                                transferHook |-> TRUE, initialized |-> TRUE]],
           tokens |-> [m \in MCCall \cup {existing} |-> [w \in MCWallet |-> none]]]

MCEmpty == [MCUsed EXCEPT !.kycStatus = [w \in MCWallet |-> none], !.mints[existing] = none]

MCLaunches == {MCEmpty, MCUsed}

Calls == Permutations(MCCall) \cup Permutations(MCWallet)

=============================================================================
