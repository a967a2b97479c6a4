----------------------------- MODULE XverseWallet -----------------------------
(***************************************************************************)
(* useXverseWallet: the hook through which the deposit page talks to the   *)
(* Xverse extension.  A call of connectWallet asks the extension for a     *)
(* session, then for addresses, and carries a 25 s timer of its own; calls *)
(* overlap, because the timer gives the button back while the extension's  *)
(* popup is still open.                                                    *)
(***************************************************************************)
EXTENDS Naturals

CONSTANT Calls   \* the calls of connectWallet, at most one of them per click

VARIABLES
    isConnected,   \* state.isConnected: a payment address is known
    isConnecting,  \* state.isConnecting: the button is disabled
    isInstalled,   \* state.isInstalled: "unknown" (null), "yes" or "no"
    walletError,   \* state.error is set
    call,          \* where each call of connectWallet is
    timer          \* the calls whose 25 s timer is still armed

walletVars == <<isConnected, isConnecting, isInstalled, walletError, call, timer>>

WalletInit ==
    /\ isConnected = FALSE
    /\ isConnecting = FALSE
    /\ isInstalled = "unknown"
    /\ walletError = FALSE
    /\ call = [c \in Calls |-> "idle"]
    /\ timer = {}

(* 400 ms after the mount the extension is presumed to be there. *)
PresumeInstalled ==
    /\ isInstalled = "unknown"
    /\ isInstalled' = "yes"
    /\ UNCHANGED <<isConnected, isConnecting, walletError, call, timer>>

(* The button is shown while no wallet is connected, and disabled during a *)
(* connection and during the detection.                                    *)
ConnectWallet(c) ==
    /\ ~isConnected /\ ~isConnecting /\ isInstalled = "yes"
    /\ call[c] = "idle"
    /\ call' = [call EXCEPT ![c] = "session"]
    /\ timer' = timer \cup {c}
    /\ isConnecting' = TRUE
    /\ walletError' = FALSE
    /\ UNCHANGED <<isConnected, isInstalled>>

ConnectTimesOut(c) ==
    /\ c \in timer
    /\ timer' = timer \ {c}
    /\ isConnecting' = FALSE
    /\ walletError' = (walletError \/ isConnecting)
    /\ UNCHANGED <<isConnected, isInstalled, call>>

(* The call is over, its timer disarmed, and the page shows an error. *)
CallFails(c) ==
    /\ call' = [call EXCEPT ![c] = "done"]
    /\ timer' = timer \ {c}
    /\ isConnecting' = FALSE
    /\ walletError' = TRUE

SessionGranted(c) ==
    /\ call[c] = "session"
    /\ call' = [call EXCEPT ![c] = "addresses"]
    /\ UNCHANGED <<isConnected, isConnecting, isInstalled, walletError, timer>>

SessionRefused(c) ==
    /\ call[c] = "session"
    /\ CallFails(c)
    /\ UNCHANGED <<isConnected, isInstalled>>

AddressesGranted(c) ==
    /\ call[c] = "addresses"
    /\ call' = [call EXCEPT ![c] = "done"]
    /\ timer' = timer \ {c}
    /\ isConnected' = TRUE
    /\ isConnecting' = FALSE
    /\ walletError' = FALSE
    /\ isInstalled' = "yes"

(* Faulty variant: the timer stays armed. *)
RefusedKeepsTimer(c) ==
    /\ call[c] = "addresses"
    /\ call' = [call EXCEPT ![c] = "done"]
    /\ isConnecting' = FALSE /\ walletError' = TRUE
    /\ UNCHANGED <<isConnected, isInstalled, timer>>

(* Cancelled by the user, or granted without a payment address, or an      *)
(* answer of a status the code does not name.                              *)
AddressesRefused(c) ==
    /\ call[c] = "addresses"
    /\ CallFails(c)
    /\ UNCHANGED <<isConnected, isInstalled>>

(* An answer of status "error" enters the branch of the cancellation,      *)
(* which returns for a cancellation only: the timer is disarmed and no     *)
(* state is set.                                                           *)
AddressesError(c) ==
    /\ call[c] = "addresses"
    /\ call' = [call EXCEPT ![c] = "done"]
    /\ timer' = timer \ {c}
    /\ UNCHANGED <<isConnected, isConnecting, isInstalled, walletError>>

(* request() throws; some messages mean that there is no extension. *)
RequestThrows(c) ==
    /\ call[c] \in {"session", "addresses"}
    /\ CallFails(c)
    /\ isInstalled' \in {isInstalled, "no"}
    /\ UNCHANGED isConnected

DisconnectWallet ==
    /\ isConnected
    /\ isConnected' = FALSE
    /\ isConnecting' = FALSE
    /\ walletError' = FALSE
    /\ UNCHANGED <<isInstalled, call, timer>>

WalletNext ==
    \/ PresumeInstalled \/ DisconnectWallet
    \/ \E c \in Calls :
        \/ ConnectWallet(c) \/ ConnectTimesOut(c)
        \/ SessionGranted(c) \/ SessionRefused(c)
        \/ AddressesGranted(c) \/ AddressesRefused(c) \/ AddressesError(c)
        \/ RequestThrows(c)

WalletTypeOK ==
    /\ isConnected \in BOOLEAN /\ isConnecting \in BOOLEAN /\ walletError \in BOOLEAN
    /\ isInstalled \in {"unknown", "yes", "no"}
    /\ call \in [Calls -> {"idle", "session", "addresses", "done"}]
    /\ timer \subseteq {c \in Calls : call[c] \in {"session", "addresses"}}
=============================================================================
