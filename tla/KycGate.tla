------------------------------- MODULE KycGate -------------------------------
(***************************************************************************)
(* The React hook useKyc and the gate withKyc (src/src/consumer/hooks/     *)
(* useKyc.ts) over the adapters of the SDK.  useWallet shows the selected  *)
(* adapter; an effect checks each wallet that it shows; the answer of a    *)
(* check is awaited, and answers come in any order.                        *)
(***************************************************************************)
EXTENDS WalletAdapter, Integers

CONSTANTS Verified,       \* wallets that verifyWalletAccess allows
          MaxChecks       \* bound: unanswered checks of one wallet

VARIABLES selected,       \* the adapter that the user has chosen
          view,           \* publicKey and connected, as useWallet returns them
          deps,           \* the view for which the effect has run
          status,         \* verified, loading
          checks          \* how many checks of each wallet are unanswered

gateVars == <<selected, view, deps, status, checks>>
vars == <<walletVars, gateVars>>

Init ==
    /\ WalletInit
    /\ selected \in Kind
    /\ view = Disconnected
    /\ deps = Disconnected
    /\ status = [verified |-> FALSE, loading |-> FALSE]
    /\ checks = [w \in Wallet \cup MockKey |-> 0]

(* The provider of useWallet listens to the selected adapter only.         *)
emit(k) == view' = IF k = selected THEN adapter'[k] ELSE view

WalletStep(k) ==
    /\ \/ \E key \in MockKey : connectMock(k, key)
       \/ connect(k)
       \/ \E key \in Wallet : Connects(k, key)
       \/ ConnectFails(k)
       \/ disconnect(k)
    /\ emit(k)
    /\ UNCHANGED <<selected, deps, status, checks>>

(* The provider takes its listeners off the old adapter and puts them on   *)
(* the new one.                                                            *)
Select(k) ==
    /\ selected' = k
    /\ view' = adapter[k]
    /\ UNCHANGED <<walletVars, deps, status, checks>>

(* The wallet of a check is the one of the render that made the callback.  *)
checkAccess(wallet) ==
    /\ checks[wallet] < MaxChecks
    /\ status' = [status EXCEPT !.loading = TRUE]
    /\ checks' = [checks EXCEPT ![wallet] = @ + 1]

(* withKyc asks for autoCheck.                                             *)
useEffect ==
    /\ deps # view
    /\ deps' = view
    /\ IF view.connected THEN checkAccess(view.publicKey)
       ELSE UNCHANGED <<status, checks>>
    /\ UNCHANGED <<walletVars, selected, view>>

Answered(wallet) ==
    /\ checks[wallet] > 0
    /\ checks' = [checks EXCEPT ![wallet] = @ - 1]
    /\ UNCHANGED <<walletVars, selected, view, deps>>

(* Whose answer it is, is not asked.                                       *)
CheckAnswers(wallet) ==
    /\ Answered(wallet)
    /\ status' = [verified |-> wallet \in Verified, loading |-> FALSE]

(* verified stays what it was.                                             *)
CheckFails(wallet) ==
    /\ Answered(wallet)
    /\ status' = [status EXCEPT !.loading = FALSE]

Next ==
    \/ \E k \in Kind : WalletStep(k) \/ Select(k)
    \/ useEffect
    \/ \E w \in Wallet \cup MockKey : CheckAnswers(w) \/ CheckFails(w)

Spec == Init /\ [][Next]_vars

-----------------------------------------------------------------------------
(* withKyc renders the component.                                          *)
Shown == ~status.loading /\ status.verified

(* A connected wallet to which the gated component is shown is one that    *)
(* the verifier allows, once the effect for that wallet has run (useKyc.ts *)
(* 76-105).                                                                *)
GateMatchesWallet ==
    Shown /\ deps = view /\ view.connected => view.publicKey \in Verified

=============================================================================
