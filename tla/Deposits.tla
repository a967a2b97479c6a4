------------------------------ MODULE Deposits ------------------------------
(***************************************************************************)
(* The deposit routes of the backend: POST /api/bridge/spv-deposit, the    *)
(* older POST /api/commitment/deposit, and POST /api/vault/prepare-deposit *)
(* with confirm-deposit.  Each of them leads to one Starknet transaction   *)
(* that registers a commitment, waits for its receipt and then writes the  *)
(* row of the vaults table that a later withdrawal starts from.            *)
(*                                                                         *)
(* Node runs one callback at a time: an action is the code between two     *)
(* awaits.  The deposit page sends one vault id with one commitment and    *)
(* one nullifier, so a vault stands for all three.  A request sends at     *)
(* most one transaction, so the request names it.                          *)
(***************************************************************************)
EXTENDS Naturals, Sequences

CONSTANTS
    Vaults,         \* vault ids, each with its commitment
    SpvRequests,    \* POST /api/bridge/spv-deposit calls
    OldRequests,    \* POST /api/commitment/deposit calls
    Confirms,       \* POST /api/vault/confirm-deposit calls
    UserTxs,        \* deposits that users send from their own accounts
    WithdrawTxs,    \* calls of the vault's withdraw, which anybody may make
    RecipientOf,    \* the recipient of such a call, as a felt: a commitment
                    \* of a vault or, for any other address, None
    VaultOf,        \* the vault that a request or a deposit names
    BitcoinTxs,     \* Bitcoin payments to the covenant address
    BitcoinTxOf,    \* the Bitcoin payment that an SPV deposit proves
    AmountSats,     \* the amount in a Deposit event
    None,           \* SQL NULL
    MaxCrashes      \* bound on the crashes of the backend

Senders == SpvRequests \cup OldRequests

Handlers == Senders \cup Confirms

DepositTxs == Senders \cup UserTxs

\* One vault call per transaction.  A transaction without one is verified
\* like a call that concerns another vault.
Txs == DepositTxs \cup WithdrawTxs

\* A commitment is a 251-bit hash, an amount a u64: they do not coincide.
\* The recipient of a withdraw is whatever its caller passes.
ASSUME DepositConstants ==
    /\ VaultOf \in [Handlers \cup UserTxs -> Vaults]
    /\ BitcoinTxOf \in [SpvRequests \cup UserTxs -> BitcoinTxs]
    /\ SpvRequests \cap OldRequests = {}
    /\ Senders \cap Confirms = {}
    /\ Handlers \cap UserTxs = {}
    /\ RecipientOf \in [WithdrawTxs -> Vaults \cup {None}]
    /\ WithdrawTxs \cap (Handlers \cup UserTxs) = {}
    /\ None \notin Txs \cup Vaults
    /\ AmountSats \notin Vaults
    /\ MaxCrashes \in Nat

VARIABLES
    oldVault,       \* the deployed vault takes deposit(commitment), without SPV
    relayed,        \* payments whose block header the HeaderStore holds
    status,         \* vaults.status, "absent" without a row
    depositTx,      \* vaults.deposit_tx_hash
    txState,        \* each transaction on Starknet
    pc,             \* where each handler is
    txHash,         \* the hash a confirm-deposit call was given
    syncDue,        \* the 3 s timer of the auto-sync has not fired
    crashes         \* crashes so far

rows == <<status, depositTx>>
process == <<syncDue, crashes>>
vars == <<oldVault, relayed, status, depositTx, txState, pc, txHash, process>>

RowStatus == {"absent", "pending", "active", "withdrawn"}
\* "sending": account.execute is under way; "rejected": it threw unsent.
TxState == {"none", "sending", "rejected", "submitted", "succeeded", "reverted"}
\* "polling": for the header; "waiting": in waitForTransaction.
Pc == {"idle", "polling", "sending", "waiting", "done"}

OnChain == {"submitted", "succeeded", "reverted"}

Succeeded == {t \in Txs : txState[t] = "succeeded"}

Init ==
    /\ oldVault \in BOOLEAN
    /\ relayed = {}
    /\ status = [v \in Vaults |-> "absent"]
    /\ depositTx = [v \in Vaults |-> None]
    /\ txState = [t \in Txs |-> "none"]
    /\ pc = [h \in Handlers |-> "idle"]
    /\ txHash = [k \in Confirms |-> None]
    /\ syncDue = TRUE
    /\ crashes = 0

Goto(h, label) == pc' = [pc EXCEPT ![h] = label]

-----------------------------------------------------------------------------
(* Starknet                                                                *)

\* The vault whose commitment a vault call has among its arguments.
CarriedBy(t) == IF t \in WithdrawTxs THEN RecipientOf[t] ELSE VaultOf[t]

CommitmentUsed(v) == \E t \in Succeeded \cap DepositTxs : VaultOf[t] = v

TxidSpent(b) == \E t \in Succeeded \cap (SpvRequests \cup UserTxs) : BitcoinTxOf[t] = b

\* Faulty variant: deposit does not look the txid up.
AcceptsSpentTxid(t) ==
    /\ ~CommitmentUsed(VaultOf[t])
    /\ IF oldVault
       THEN t \notin SpvRequests
       ELSE t \notin OldRequests /\ BitcoinTxOf[t] \in relayed

\* The assertions of deposit, and the calldata it can be called with.  The
\* older vault is only known from the calls executeDeposit makes.
AcceptsDeposit(t) ==
    /\ ~CommitmentUsed(VaultOf[t])
    /\ IF oldVault
       THEN t \notin SpvRequests
       ELSE /\ t \notin OldRequests
            /\ BitcoinTxOf[t] \in relayed
            /\ ~TxidSpent(BitcoinTxOf[t])

\* withdraw takes any unused nullifier and, for an amount of zero, needs no
\* balance.
Accepts(t) == t \in DepositTxs => AcceptsDeposit(t)

\* The node takes the transaction, whether or not anybody still waits for its
\* answer: the 8 s timer of withResilience does not stop account.execute.
\* starknet.js estimates the fee first, so a call that would fail is not sent.
TxSubmitted(t) ==
    /\ txState[t] = "sending"
    /\ Accepts(t)
    /\ txState' = [txState EXCEPT ![t] = "submitted"]
    /\ UNCHANGED <<oldVault, relayed, rows, pc, txHash, process>>

TxSucceeds(t) ==
    /\ txState[t] = "submitted"
    /\ Accepts(t)
    /\ txState' = [txState EXCEPT ![t] = "succeeded"]
    /\ UNCHANGED <<oldVault, relayed, rows, pc, txHash, process>>

\* An assertion fails, or the sequencer gives the transaction up.
TxReverts(t) ==
    /\ txState[t] = "submitted"
    /\ txState' = [txState EXCEPT ![t] = "reverted"]
    /\ UNCHANGED <<oldVault, relayed, rows, pc, txHash, process>>

\* The header relay stores the header of the payment's block.
RelayHeader(b) ==
    /\ b \notin relayed
    /\ relayed' = relayed \cup {b}
    /\ UNCHANGED <<oldVault, rows, txState, pc, txHash, process>>

\* A user calls deposit from a wallet, as prepare-deposit instructs, or
\* anybody calls withdraw.
UserSends(t) ==
    /\ txState[t] = "none"
    /\ Accepts(t)
    /\ txState' = [txState EXCEPT ![t] = "submitted"]
    /\ UNCHANGED <<oldVault, relayed, rows, pc, txHash, process>>

-----------------------------------------------------------------------------
(* POST /api/vault/prepare-deposit                                         *)

\* The id and the commitment are drawn at random, so nothing names them yet.
Prepare(v) ==
    /\ status[v] = "absent"
    /\ \A h \in Handlers : VaultOf[h] = v => pc[h] = "idle"
    /\ \A t \in Txs : CarriedBy(t) = v => txState[t] = "none"
    /\ status' = [status EXCEPT ![v] = "pending"]
    /\ UNCHANGED <<oldVault, relayed, depositTx, txState, pc, txHash, process>>

-----------------------------------------------------------------------------
(* POST /api/bridge/spv-deposit and POST /api/commitment/deposit           *)

SpvStart(r) ==
    /\ pc[r] = "idle"
    /\ Goto(r, "polling")
    /\ UNCHANGED <<oldVault, relayed, rows, txState, txHash, process>>

\* account.execute is called and the timer of withResilience starts.
Send(r) ==
    /\ Goto(r, "sending")
    /\ txState' = [txState EXCEPT ![r] = "sending"]
    /\ UNCHANGED <<oldVault, relayed, rows, txHash, process>>

\* isHeaderStored answers true within 24 attempts.
HeaderFound(r) ==
    /\ pc[r] = "polling"
    /\ BitcoinTxOf[r] \in relayed
    /\ Send(r)

\* 24 attempts failed or answered false: 503 HEADER_NOT_RELAYED.
HeaderGivesUp(r) ==
    /\ pc[r] = "polling"
    /\ Goto(r, "done")
    /\ UNCHANGED <<oldVault, relayed, rows, txState, txHash, process>>

\* commitment/deposit sends at once.
OldStart(r) ==
    /\ pc[r] = "idle"
    /\ Send(r)

\* account.execute returned the hash in time.
SendAnswered(r) ==
    /\ pc[r] = "sending"
    /\ txState[r] \in OnChain
    /\ Goto(r, "waiting")
    /\ UNCHANGED <<oldVault, relayed, rows, txState, txHash, process>>

\* account.execute threw and nothing was sent; an error is answered unless
\* the timer has answered already.
SendRejected(r) ==
    /\ txState[r] = "sending"
    /\ txState' = [txState EXCEPT ![r] = "rejected"]
    /\ Goto(r, "done")
    /\ UNCHANGED <<oldVault, relayed, rows, txHash, process>>

\* The 8 s timer, or a broken connection: an error is answered, and what
\* became of the transaction is not looked up.
SendTimesOut(r) ==
    /\ pc[r] = "sending"
    /\ Goto(r, "done")
    /\ UNCHANGED <<oldVault, relayed, rows, txState, txHash, process>>

\* INSERT ... ON CONFLICT(id) DO UPDATE of spv-deposit, and the INSERT that
\* falls back to an UPDATE of commitment/deposit: both end with the row
\* active and the hash in it, whatever the row was.
StoreVault(v, t) ==
    /\ status' = [status EXCEPT ![v] = "active"]
    /\ depositTx' = [depositTx EXCEPT ![v] = t]

\* Faulty variant: any receipt ends the wait as if the transaction had succeeded.
ConfirmedByAnyReceipt(r) ==
    /\ pc[r] = "waiting"
    /\ txState[r] \in {"succeeded", "reverted"}
    /\ StoreVault(VaultOf[r], r)
    /\ Goto(r, "done")
    /\ UNCHANGED <<oldVault, relayed, txState, txHash, process>>

\* waitForTransaction returns a receipt with SUCCEEDED.
Confirmed(r) ==
    /\ pc[r] = "waiting"
    /\ txState[r] = "succeeded"
    /\ StoreVault(VaultOf[r], r)
    /\ Goto(r, "done")
    /\ UNCHANGED <<oldVault, relayed, txState, txHash, process>>

-----------------------------------------------------------------------------
(* POST /api/vault/confirm-deposit                                         *)

TxNamed(h) == IF h \in Confirms THEN txHash[h] ELSE h

\* The vault is not pending: 400.
ConfirmRefused(k) ==
    /\ pc[k] = "idle"
    /\ status[VaultOf[k]] # "pending"
    /\ Goto(k, "done")
    /\ UNCHANGED <<oldVault, relayed, rows, txState, txHash, process>>

\* The body names any transaction hash.
ConfirmStart(k, t) ==
    /\ pc[k] = "idle"
    /\ status[VaultOf[k]] = "pending"
    /\ txHash' = [txHash EXCEPT ![k] = t]
    /\ Goto(k, "waiting")
    /\ UNCHANGED <<oldVault, relayed, rows, txState, process>>

\* The event of a vault call: commitment and nullifier are #[key]s.  Of the
\* older vault only what verifyDepositEvent expects is known: the commitment
\* of a deposit in data[0].
VaultEvent(t) ==
    IF t \in WithdrawTxs
    THEN [keys |-> <<"Withdrawal", t>>, data |-> <<RecipientOf[t], "amount">>]
    ELSE IF oldVault
    THEN [keys |-> <<"Deposit">>, data |-> <<VaultOf[t]>>]
    ELSE [keys |-> <<"Deposit", VaultOf[t]>>, data |-> <<AmountSats, "block_height">>]

\* Faulty variant: the event only has to be there.
EventFound(t, v) == Len(VaultEvent(t).data) > 0

\* verifyDepositEvent takes the first event of the vault, whatever its
\* selector in keys[0], and compares data[0] with the commitment.
EventVerified(t, v) == VaultEvent(t).data[1] = v

\* The receipt is SUCCEEDED; the row is written if the event is verified.
ConfirmReceipt(k) ==
    /\ pc[k] = "waiting"
    /\ txHash[k] \in Succeeded
    /\ IF EventVerified(txHash[k], VaultOf[k])
       THEN StoreVault(VaultOf[k], txHash[k])
       ELSE UNCHANGED rows
    /\ Goto(k, "done")
    /\ UNCHANGED <<oldVault, relayed, txState, txHash, process>>

-----------------------------------------------------------------------------
(* waitForTransaction of all three routes.                                 *)

\* TransactionRevertedError: an error is answered.
WaitReverted(h) ==
    /\ pc[h] = "waiting"
    /\ txState[TxNamed(h)] = "reverted"
    /\ Goto(h, "done")
    /\ UNCHANGED <<oldVault, relayed, rows, txState, txHash, process>>

\* 60 attempts found no receipt, or could not reach the node: an error is
\* answered.
WaitGivesUp(h) ==
    /\ pc[h] = "waiting"
    /\ Goto(h, "done")
    /\ UNCHANGED <<oldVault, relayed, rows, txState, txHash, process>>

-----------------------------------------------------------------------------
(* POST /api/vault/withdraw and restarts                                   *)

\* The withdrawal request, modelled in Withdrawal, closes an active vault.
Withdraw(v) ==
    /\ status[v] = "active"
    /\ status' = [status EXCEPT ![v] = "withdrawn"]
    /\ UNCHANGED <<oldVault, relayed, depositTx, txState, pc, txHash, process>>

\* Rows that the auto-sync of index.ts may activate: its receipt SUCCEEDED or,
\* reverted or not, ACCEPTED_ON_L2.
Syncable(v) ==
    /\ status[v] = "pending"
    /\ depositTx[v] # None
    /\ txState[depositTx[v]] \in {"succeeded", "reverted"}

\* 3 s after the start.  One step stands for the whole pass: the receipt of
\* each listed row is awaited, and a receipt that does not come leaves the row.
AutoSync ==
    /\ syncDue
    /\ syncDue' = FALSE
    /\ \E found \in SUBSET {v \in Vaults : Syncable(v)} :
        status' = [v \in Vaults |-> IF v \in found THEN "active" ELSE status[v]]
    /\ UNCHANGED <<oldVault, relayed, depositTx, txState, pc, txHash, crashes>>

\* The process ends and starts again: requests under way are never answered,
\* and an account.execute under way has reached the node or has not.
Crash ==
    /\ crashes < MaxCrashes
    /\ crashes' = crashes + 1
    /\ syncDue' = TRUE
    /\ pc' = [h \in Handlers |-> IF pc[h] = "idle" THEN "idle" ELSE "done"]
    /\ UNCHANGED <<oldVault, relayed, rows, txState, txHash>>

-----------------------------------------------------------------------------
Next ==
    \/ \E t \in Txs : TxSubmitted(t) \/ TxSucceeds(t) \/ TxReverts(t)
    \/ \E b \in BitcoinTxs : RelayHeader(b)
    \/ \E t \in UserTxs \cup WithdrawTxs : UserSends(t)
    \/ \E v \in Vaults : Prepare(v) \/ Withdraw(v)
    \/ \E r \in SpvRequests : SpvStart(r) \/ HeaderFound(r) \/ HeaderGivesUp(r)
    \/ \E r \in OldRequests : OldStart(r)
    \/ \E r \in Senders :
        SendAnswered(r) \/ SendRejected(r) \/ SendTimesOut(r) \/ Confirmed(r)
    \/ \E k \in Confirms : ConfirmRefused(k) \/ ConfirmReceipt(k)
    \/ \E k \in Confirms, t \in Txs : ConfirmStart(k, t)
    \/ \E h \in Handlers : WaitReverted(h) \/ WaitGivesUp(h)
    \/ AutoSync
    \/ Crash

Spec == Init /\ [][Next]_vars

-----------------------------------------------------------------------------
(***************************************************************************)
(* Types of the vaults columns, the handlers' positions and the            *)
(* transactions of the deposit routes.                                     *)
(***************************************************************************)
DepositTypeOK ==
    /\ oldVault \in BOOLEAN
    /\ relayed \subseteq BitcoinTxs
    /\ status \in [Vaults -> RowStatus]
    /\ depositTx \in [Vaults -> Txs \cup {None}]
    /\ txState \in [Txs -> TxState]
    /\ pc \in [Handlers -> Pc]
    /\ txHash \in [Confirms -> Txs \cup {None}]
    /\ syncDue \in BOOLEAN
    /\ crashes \in 0 .. MaxCrashes

Open == {v \in Vaults : status[v] \in {"active", "withdrawn"}}

\* A confirm-deposit call for the vault named this transaction.
ConfirmNamed(v, t) == \E k \in Confirms : VaultOf[k] = v /\ txHash[k] = t

(***************************************************************************)
(* A vault is open for withdrawal only on a vault call of its own: its     *)
(* deposit_tx_hash names a transaction that succeeded on Starknet and that *)
(* registered the commitment of this vault.  The one exception is what     *)
(* verifyDepositEvent cannot tell apart, because it does not read the      *)
(* selector: a confirm-deposit call that names a withdraw whose recipient  *)
(* is the commitment.                                                      *)
(***************************************************************************)
OpenHasVaultCall ==
    \A v \in Open :
        /\ depositTx[v] \in Succeeded
        /\ CarriedBy(depositTx[v]) = v
        /\ depositTx[v] \in WithdrawTxs => ConfirmNamed(v, depositTx[v])

\* The vaults that an SPV deposit opened.
SpvPaid == {v \in Open : depositTx[v] \in SpvRequests \cup UserTxs}

(***************************************************************************)
(* No two open vaults rest on the same Bitcoin payment, though clients     *)
(* retry, and retry under a new vault id, while an earlier spv-deposit for *)
(* that payment is still under way (the SPV vault).                        *)
(***************************************************************************)
OneVaultPerPayment ==
    ~oldVault =>
        \A v, w \in SpvPaid :
            BitcoinTxOf[depositTx[v]] = BitcoinTxOf[depositTx[w]] => v = w

(***************************************************************************)
(* The hash of a deposit, once in its row, is never overwritten by that of *)
(* another deposit: neither the upsert of spv-deposit nor the UPDATE of    *)
(* confirm-deposit has a guard, so this rests on no second deposit of the  *)
(* commitment ever succeeding.  Two confirmations that both read the row   *)
(* while it was pending may still put the hash of a withdraw over it.      *)
(***************************************************************************)
DepositHashReplaced ==
    [][\A v \in Vaults :
        (depositTx[v] \in DepositTxs /\ depositTx'[v] # depositTx[v]) =>
            depositTx'[v] \in WithdrawTxs /\ ConfirmNamed(v, depositTx'[v])]_vars

\* A transaction that some confirm-deposit call for the vault named passes
\* verifyDepositEvent: a withdraw, or a deposit in the older vault.
ConfirmVerifiable(v) ==
    \E t \in Succeeded :
        /\ ConfirmNamed(v, t)
        /\ CarriedBy(t) = v
        /\ t \in WithdrawTxs \/ oldVault

(***************************************************************************)
(* A late receipt reopens no withdrawn vault: StoreVault sets 'active'     *)
(* whatever the status has become while the route waited, so the receipt   *)
(* of a retried deposit must not come after the withdrawal.  The exception *)
(* takes a confirm-deposit call that verifies something besides the        *)
(* deposit that a request still waits for.                                 *)
(***************************************************************************)
ReopenedOnlyByConfirm ==
    [][\A v \in Vaults :
        (status[v] = "withdrawn" /\ status'[v] # "withdrawn") =>
            ConfirmVerifiable(v)]_vars

(***************************************************************************)
(* No deposit route reopens a withdrawn vault: 'Vault is already withdrawn *)
(* - cannot confirm again', as confirm-deposit answers.                    *)
(***************************************************************************)
WithdrawnStaysWithdrawn ==
    [][\A v \in Vaults : status[v] = "withdrawn" => status'[v] = "withdrawn"]_vars

(***************************************************************************)
(* A vault that a confirmation opened has a Deposit event with its         *)
(* commitment, as the comment above verifyDepositEvent says.               *)
(***************************************************************************)
OpenIsDeposited ==
    \A v \in Open : depositTx[v] \in DepositTxs /\ VaultOf[depositTx[v]] = v

(***************************************************************************)
(* An SPV deposit that went through, and whose request is over, has its    *)
(* vault in the database for withdrawal, as the comment above the INSERT   *)
(* of spv-deposit says.                                                    *)
(***************************************************************************)
DepositIsRecorded ==
    \A r \in SpvRequests :
        (txState[r] = "succeeded" /\ pc[r] = "done") => VaultOf[r] \in Open
=============================================================================
