------------------------------ MODULE BurnToPay ------------------------------
(***************************************************************************)
(* What the withdrawal pipeline promises, whatever its requests, payers    *)
(* and crashes do: bitcoin moves for a vault only after an authorization,  *)
(* an authorization exists only after a burn of that vault was submitted   *)
(* to Starknet, and a withdrawal is reported complete only after a         *)
(* payment.  Nothing of the first three is ever taken back; the report     *)
(* may be.                                                                 *)
(***************************************************************************)
CONSTANTS Vaults

VARIABLES
    submitted,      \* vaults with a withdraw transaction sent to Starknet
    authorized,     \* vaults with a withdrawal_authorizations row
    paid,           \* payments accepted by the Bitcoin network
    completed       \* vaults whose authorization says completed

abstractVars == <<submitted, authorized, paid, completed>>

PaidVaults == {x.vault : x \in paid}

AbstractInit ==
    /\ submitted = {}
    /\ authorized = {}
    /\ paid = {}
    /\ completed = {}

SubmitBurn(v) ==
    /\ submitted' = submitted \cup {v}
    /\ UNCHANGED <<authorized, paid, completed>>

Authorize(v) ==
    /\ v \in submitted
    /\ authorized' = authorized \cup {v}
    /\ UNCHANGED <<submitted, paid, completed>>

PayOut(v) ==
    /\ v \in authorized
    /\ paid \subseteq paid'
    /\ \A x \in paid' \ paid : x.vault = v
    /\ UNCHANGED <<submitted, authorized, completed>>

Complete(v) ==
    /\ v \in PaidVaults
    /\ completed' = completed \cup {v}
    /\ UNCHANGED <<submitted, authorized, paid>>

\* updateStatus overwrites a completed row on several paths.
Reopen(v) ==
    /\ completed' = completed \ {v}
    /\ UNCHANGED <<submitted, authorized, paid>>

AbstractNext ==
    \E v \in Vaults :
        SubmitBurn(v) \/ Authorize(v) \/ PayOut(v) \/ Complete(v) \/ Reopen(v)

AbstractSpec == AbstractInit /\ [][AbstractNext]_abstractVars
=============================================================================
