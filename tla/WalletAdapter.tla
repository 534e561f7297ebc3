---------------------------- MODULE WalletAdapter ----------------------------
(***************************************************************************)
(* The wallet adapters of the SDK (src/interface.ts): Phantom and Solflare *)
(* keep the account that the browser extension gave them and tell their    *)
(* listeners.  connect() awaits the extension, which asks the user.        *)
(***************************************************************************)
CONSTANTS Wallet,         \* accounts of the user
          MockKey,        \* keys that are made up when there is no extension
          None

VARIABLES installed,      \* adapters whose extension is in the window
          adapter,        \* the fields of each adapter
          connecting      \* adapters with a connect() that awaits its extension

walletVars == <<installed, adapter, connecting>>

Kind == {"phantom", "solflare"}

Disconnected == [publicKey |-> None, connected |-> FALSE]
Account(key) == [publicKey |-> key, connected |-> TRUE]

(* createWalletAdapter; eventListeners[k] is the set of listeners that     *)
(* were added with on().                                                   *)
WalletInit ==
    /\ installed \in SUBSET Kind
    /\ adapter = [k \in Kind |-> Disconnected]
    /\ connecting = {}

(* Without an extension an account is made up at once.                     *)
connectMock(k, key) ==
    /\ k \notin installed
    /\ key \in MockKey
    /\ adapter' = [adapter EXCEPT ![k] = Account(key)]
    /\ UNCHANGED <<installed, connecting>>

connect(k) ==
    /\ k \in installed
    /\ connecting' = connecting \cup {k}
    /\ UNCHANGED <<installed, adapter>>

(* The extension answers: for Phantom with a key in the response, for      *)
(* Solflare with one in its own field.  Whether disconnect() was called in *)
(* the meantime is not asked.                                              *)
Connects(k, key) ==
    /\ k \in connecting
    /\ key \in Wallet
    /\ adapter' = [adapter EXCEPT ![k] = Account(key)]
    /\ connecting' = connecting \ {k}
    /\ UNCHANGED installed

(* The user refuses, or the answer has no key.                             *)
ConnectFails(k) ==
    /\ k \in connecting
    /\ connecting' = connecting \ {k}
    /\ UNCHANGED <<installed, adapter>>

disconnect(k) ==
    /\ adapter' = [adapter EXCEPT ![k] = Disconnected]
    /\ UNCHANGED <<installed, connecting>>

=============================================================================
