----------------------------- MODULE Withdrawal -----------------------------
(***************************************************************************)
(* The withdrawal pipeline of the backend: POST /api/vault/withdraw, the   *)
(* withdrawal_authorizations table, the immediate Bitcoin payout that the  *)
(* request starts, the background WithdrawalProcessor, the development     *)
(* route /api/debug/force-withdrawal and POST /api/audit/verify, running   *)
(* against Starknet (where the mBTC is burned) and the Bitcoin network.    *)
(*                                                                         *)
(* Node runs one callback at a time, so an action is the code between two  *)
(* awaits; everything the code does synchronously between them is one      *)
(* step.  A vault stands for its nullifier: vaults.nullifier_hash is       *)
(* UNIQUE, and so is withdrawal_authorizations.nullifier_hash.  A request  *)
(* sends at most one Starknet transaction, so the request names it.        *)
(***************************************************************************)
EXTENDS Naturals, FiniteSets

CONSTANTS
    Vaults,         \* rows of the vaults table, their deposit confirmed
    Requests,       \* POST /api/vault/withdraw calls
    Forces,         \* POST /api/debug/force-withdrawal callers
    VaultOf,        \* the vault a request or a forced payout names
    Proc,           \* the WithdrawalProcessor
    None,           \* SQL NULL
    UseCovenants,   \* process.env.USE_OPCAT_COVENANTS === 'true'
    Funds,          \* payments a wallet can fund at the start
    MaxTopUps,      \* bound on later deposits into a wallet
    MaxCrashes      \* bound on the crashes of the backend

ASSUME ConstantsOK ==
    /\ VaultOf \in [Requests \cup Forces -> Vaults]
    /\ Proc \notin Requests \cup Forces
    /\ Requests \cap Forces = {}
    /\ None \notin Vaults \cup Requests
    /\ UseCovenants \in BOOLEAN
    /\ Funds \in Nat
    /\ MaxTopUps \in Nat
    /\ MaxCrashes \in Nat

VARIABLES
    vaultStatus,    \* vaults.status
    withdrawTx,     \* vaults.withdraw_tx_hash
    authStatus,     \* withdrawal_authorizations.status, "none" without a row
    authTx,         \* withdrawal_authorizations.starknet_tx_hash
    txState,        \* the withdraw transaction of each request on Starknet
    btc,            \* payments the Bitcoin network has accepted
    topUps,         \* deposits into each wallet since the start
    hpc,            \* where the handler of each request is
    ppc,            \* where each payment attempt is
    view,           \* the wallet a payment attempt selected its inputs from
    snapshot,       \* the rest of the list getPendingAuthorizations returned
    procPc,         \* where processAuthorization is
    procCur,        \* the authorization it works on
    crashes         \* crashes so far

db == <<vaultStatus, withdrawTx, authStatus, authTx>>
bitcoin == <<btc, topUps>>
proc == <<snapshot, procPc, procCur>>
vars == <<vaultStatus, withdrawTx, authStatus, authTx, txState, btc,
          topUps, hpc, ppc, view, snapshot, procPc, procCur, crashes>>

Payers == Requests \cup Forces \cup {Proc}

VaultStatus == {"pending", "active", "withdrawn"}
AuthStatus == {"none", "pending", "processing", "completed", "failed"}
\* "sending": account.execute is under way; "rejected": it threw unsent.
TxState == {"none", "sending", "rejected", "submitted", "succeeded", "reverted"}
\* "racing" and "retrying": the handler awaits Promise.race of the payout and
\* the 20 s timer, on a first attempt and on a retry.
HandlerPc == {"idle", "sending", "racing", "retrying", "done"}
PayPc == {"idle", "fetching", "built", "accepted"}

\* SENDER_ADDRESS and the covenant address hold separate funds.
Wallets == {"custodian", "covenant"}

\* A payment is identified by whom it pays and the funds it was built from.
Payment == [vault : Vaults, wallet : Wallets, view : Nat]

PayVault(p) == IF p = Proc THEN procCur ELSE VaultOf[p]

\* The debug route always pays through the covenant.
WalletOf(p) == IF UseCovenants \/ p \in Forces THEN "covenant" ELSE "custodian"

PaymentsOf(v) == {x \in btc : x.vault = v}

PaidFrom(w) == {x \in btc : x.wallet = w}

\* What can be spent changes with every payment and with every deposit.
WalletView(w) == Cardinality(PaidFrom(w)) + topUps[w]

\* The contract accepts a nullifier once.
NullifierUsed(v) ==
    \E r \in Requests : VaultOf[r] = v /\ txState[r] = "succeeded"

\* account.execute has returned a hash for these.
OnChain == {"submitted", "succeeded", "reverted"}

Init ==
    /\ vaultStatus \in [Vaults -> {"pending", "active"}]
    /\ withdrawTx = [v \in Vaults |-> None]
    /\ authStatus = [v \in Vaults |-> "none"]
    /\ authTx = [v \in Vaults |-> None]
    /\ txState = [r \in Requests |-> "none"]
    /\ btc = {}
    /\ topUps = [w \in Wallets |-> 0]
    /\ hpc = [r \in Requests |-> "idle"]
    /\ ppc = [p \in Payers |-> "idle"]
    /\ view = [p \in Payers |-> 0]
    /\ snapshot = {}
    /\ procPc = "idle"
    /\ procCur = None
    /\ crashes = 0

-----------------------------------------------------------------------------
(* The payout gate.                                                        *)

\* verifyAuthorization lets a pending or a processing row pay.  The covenant
\* path never calls it.
MayPay(status) == UseCovenants \/ status \in {"pending", "processing"}

\* sendBitcoinWithAuthorization marks the row before its first await;
\* executeCovenantWithdrawal does not touch it.
StatusWhilePaying(status) == IF UseCovenants THEN status ELSE "processing"

\* Faulty variant: a failed payment goes back to pending at once.
StatusAfterFailurePending(status) == IF UseCovenants THEN status ELSE "pending"

\* What a failed payment writes before it rethrows.
StatusAfterFailure(status) == IF UseCovenants THEN status ELSE "failed"

\* What a successful payment writes before it returns the txid.
StatusAfterSuccess(status) == IF UseCovenants THEN status ELSE "completed"

-----------------------------------------------------------------------------
(* POST /api/vault/withdraw                                                *)

\* vault.withdraw_tx_hash !== null
IsRetry(v) == withdrawTx[v] # None

\* The two status checks of the handler.
Eligible(v) ==
    /\ vaultStatus[v] # "withdrawn"
    /\ vaultStatus[v] = "active" \/ IsRetry(v)

\* The first attempt ends: vault row and transactions row are written.
FinishFirstAttempt(r) ==
    /\ vaultStatus' = [vaultStatus EXCEPT ![VaultOf[r]] = "withdrawn"]
    /\ withdrawTx' = [withdrawTx EXCEPT ![VaultOf[r]] = r]

\* The tail of the handler: only the first attempt writes the vault.
Finish(r) ==
    /\ hpc' = [hpc EXCEPT ![r] = "done"]
    /\ IF hpc[r] = "retrying" THEN UNCHANGED <<vaultStatus, withdrawTx>>
                              ELSE FinishFirstAttempt(r)

\* A request that fails its checks: bad address, bad owner, wrong status.
WithdrawReject(r) ==
    /\ hpc[r] = "idle"
    /\ \E validInput \in BOOLEAN : ~(validInput /\ Eligible(VaultOf[r]))
    /\ hpc' = [hpc EXCEPT ![r] = "done"]
    /\ UNCHANGED <<db, txState, bitcoin, ppc, view, proc, crashes>>

\* A first attempt passes the checks, proves locally (a failure is logged and
\* ignored) and calls StarknetService.withdraw.
WithdrawStart(r) ==
    /\ hpc[r] = "idle"
    /\ Eligible(VaultOf[r])
    /\ ~IsRetry(VaultOf[r])
    /\ hpc' = [hpc EXCEPT ![r] = "sending"]
    /\ txState' = [txState EXCEPT ![r] = "sending"]
    /\ UNCHANGED <<db, bitcoin, ppc, view, proc, crashes>>

\* account.execute reaches the sequencer.  Fee estimation simulates the call
\* and throws when the nullifier is already used.
WithdrawSubmitted(r) ==
    /\ txState[r] = "sending"
    /\ ~NullifierUsed(VaultOf[r])
    /\ txState' = [txState EXCEPT ![r] = "submitted"]
    /\ UNCHANGED <<db, bitcoin, hpc, ppc, view, proc, crashes>>

\* account.execute throws without a transaction; the handler answers 500.
WithdrawNotSent(r) ==
    /\ txState[r] = "sending"
    /\ txState' = [txState EXCEPT ![r] = "rejected"]
    /\ hpc' = [hpc EXCEPT ![r] = "done"]
    /\ UNCHANGED <<db, bitcoin, ppc, view, proc, crashes>>

\* The 8 s RPC timeout wins the race: the handler answers 500, and the call
\* to account.execute goes on without it.
WithdrawSubmitTimeout(r) ==
    /\ hpc[r] = "sending"
    /\ hpc' = [hpc EXCEPT ![r] = "done"]
    /\ UNCHANGED <<db, txState, bitcoin, ppc, view, proc, crashes>>

\* The row after "create it, or reset a failed one".
StatusForPayout(v) ==
    IF authStatus[v] \in {"none", "failed"} THEN "pending" ELSE authStatus[v]

\* Faulty variant: an existing row is updated to the latest transaction.
RecordAuthTxLatest(v, tx) == authTx' = [authTx EXCEPT ![v] = tx]

\* A new row records the transaction; an existing row keeps its own.
RecordAuthTx(v, tx) ==
    authTx' = IF authStatus[v] = "none" THEN [authTx EXCEPT ![v] = tx] ELSE authTx

\* Get or create the authorization and start the immediate payout; pc is the
\* await the handler then stands at.
AuthorizeAndPay(r, tx, pc) ==
    LET v == VaultOf[r] IN
    /\ MayPay(StatusForPayout(v))
    /\ RecordAuthTx(v, tx)
    /\ authStatus' = [authStatus EXCEPT ![v] = StatusWhilePaying(StatusForPayout(v))]
    /\ ppc' = [ppc EXCEPT ![r] = "fetching"]
    /\ hpc' = [hpc EXCEPT ![r] = pc]
    /\ UNCHANGED <<vaultStatus, withdrawTx>>

\* Faulty variant: authorize before the hash is there.
WithdrawAuthorizeEarly(r) ==
    /\ hpc[r] = "sending"
    /\ AuthorizeAndPay(r, r, "racing")
    /\ UNCHANGED <<txState, bitcoin, view, proc, crashes>>

\* The hash arrives: authorize and start paying, with no look at the receipt.
WithdrawAuthorize(r) ==
    /\ hpc[r] = "sending"
    /\ txState[r] \in OnChain
    /\ AuthorizeAndPay(r, r, "racing")
    /\ UNCHANGED <<txState, bitcoin, view, proc, crashes>>

\* The hash arrives but verifyAuthorization refuses the row (it is completed):
\* the payout promise rejects at once and the handler finishes.
WithdrawAlreadySettled(r) ==
    /\ hpc[r] = "sending"
    /\ txState[r] \in OnChain
    /\ ~MayPay(StatusForPayout(VaultOf[r]))
    /\ Finish(r)
    /\ UNCHANGED <<authStatus, authTx, txState, bitcoin, ppc, view, proc, crashes>>

\* createAuthorization throws; the error is caught and the vault is still
\* marked withdrawn.
WithdrawAuthFails(r) ==
    /\ hpc[r] = "sending"
    /\ txState[r] \in OnChain
    /\ authStatus[VaultOf[r]] = "none"
    /\ Finish(r)
    /\ UNCHANGED <<authStatus, authTx, txState, bitcoin, ppc, view, proc, crashes>>

\* A retry: no await between the checks and the payout, and the hash is the
\* one the vault row holds.
WithdrawRetry(r) ==
    /\ hpc[r] = "idle"
    /\ Eligible(VaultOf[r])
    /\ IsRetry(VaultOf[r])
    /\ AuthorizeAndPay(r, withdrawTx[VaultOf[r]], "retrying")
    /\ UNCHANGED <<txState, bitcoin, view, proc, crashes>>

\* A retry whose authorization is completed, or cannot be created.
WithdrawRetryRefused(r) ==
    /\ hpc[r] = "idle"
    /\ Eligible(VaultOf[r])
    /\ IsRetry(VaultOf[r])
    /\ \/ ~MayPay(StatusForPayout(VaultOf[r]))
       \/ authStatus[VaultOf[r]] = "none"
    /\ hpc' = [hpc EXCEPT ![r] = "done"]
    /\ UNCHANGED <<db, txState, bitcoin, ppc, view, proc, crashes>>

Racing(r) == hpc[r] \in {"racing", "retrying"}

\* Faulty variant: no timer, the handler awaits the payout.
WithdrawAwaitsPayout(r) ==
    /\ Racing(r)
    /\ ppc[r] = "idle"
    /\ Finish(r)
    /\ UNCHANGED <<authStatus, authTx, txState, bitcoin, ppc, view, proc, crashes>>

\* The 20 s timer wins: the handler finishes, the payout goes on.
WithdrawPayoutTimeout(r) ==
    /\ Racing(r)
    /\ Finish(r)
    /\ UNCHANGED <<authStatus, authTx, txState, bitcoin, ppc, view, proc, crashes>>

\* Faulty variant: the txid of the signed transaction is taken for a broadcast.
WithdrawPaidUnsent(r) ==
    /\ Racing(r)
    /\ ppc[r] \in {"built", "accepted"}
    /\ ppc' = [ppc EXCEPT ![r] = "idle"]
    /\ authStatus' = [authStatus EXCEPT ![VaultOf[r]] = "completed"]
    /\ Finish(r)
    /\ UNCHANGED <<authTx, txState, bitcoin, view, proc, crashes>>

\* The immediate payout returns its txid while the handler waits.
WithdrawPaid(r) ==
    /\ Racing(r)
    /\ ppc[r] = "accepted"
    /\ ppc' = [ppc EXCEPT ![r] = "idle"]
    /\ authStatus' = [authStatus EXCEPT ![VaultOf[r]] = "completed"]
    /\ Finish(r)
    /\ UNCHANGED <<authTx, txState, bitcoin, view, proc, crashes>>

\* The immediate payout throws while the handler waits.
WithdrawPayFails(r) ==
    /\ Racing(r)
    /\ ppc[r] # "idle"
    /\ ppc' = [ppc EXCEPT ![r] = "idle"]
    /\ authStatus' = [authStatus EXCEPT ![VaultOf[r]] = StatusAfterFailure(@)]
    /\ Finish(r)
    /\ UNCHANGED <<authTx, txState, bitcoin, view, proc, crashes>>

\* The payout ends after the timer won: only what the payment itself writes.
DetachedPaid(r) ==
    /\ hpc[r] = "done"
    /\ ppc[r] = "accepted"
    /\ ppc' = [ppc EXCEPT ![r] = "idle"]
    /\ authStatus' = [authStatus EXCEPT ![VaultOf[r]] = StatusAfterSuccess(@)]
    /\ UNCHANGED <<vaultStatus, withdrawTx, authTx, txState, bitcoin, hpc, view, proc, crashes>>

DetachedPayFails(r) ==
    /\ hpc[r] = "done"
    /\ ppc[r] # "idle"
    /\ ppc' = [ppc EXCEPT ![r] = "idle"]
    /\ authStatus' = [authStatus EXCEPT ![VaultOf[r]] = StatusAfterFailure(@)]
    /\ UNCHANGED <<vaultStatus, withdrawTx, authTx, txState, bitcoin, hpc, view, proc, crashes>>

-----------------------------------------------------------------------------
(* One payment attempt: sendBitcoinToAddress, or executeCovenantWithdrawal. *)

\* The UTXO list arrives and the transaction is built from it.
PayFetch(p) ==
    /\ ppc[p] = "fetching"
    /\ ppc' = [ppc EXCEPT ![p] = "built"]
    /\ view' = [view EXCEPT ![p] = WalletView(WalletOf(p))]
    /\ UNCHANGED <<db, txState, bitcoin, hpc, proc, crashes>>

\* The network accepts the transaction.  Input selection is deterministic, so
\* two payments of one vault built from the same funds conflict, and the
\* network keeps one.
PayBroadcast(p) ==
    LET w == WalletOf(p)
        x == [vault |-> PayVault(p), wallet |-> w, view |-> view[p]]
    IN
    /\ ppc[p] = "built"
    /\ Cardinality(PaidFrom(w)) < Funds + topUps[w]
    /\ x \notin btc
    /\ btc' = btc \cup {x}
    /\ ppc' = [ppc EXCEPT ![p] = "accepted"]
    /\ UNCHANGED <<db, txState, topUps, hpc, view, proc, crashes>>

\* Somebody sends coins to a wallet: a vault deposit, or an operator.
TopUp(w) ==
    /\ topUps[w] < MaxTopUps
    /\ topUps' = [topUps EXCEPT ![w] = @ + 1]
    /\ UNCHANGED <<db, txState, btc, hpc, ppc, view, proc, crashes>>

-----------------------------------------------------------------------------
(* WithdrawalProcessor                                                     *)

\* Faulty variant: rows of withdrawn vaults are skipped.
ProcPollOpenVaults ==
    /\ procPc = "idle" /\ snapshot = {}
    /\ snapshot' = {v \in Vaults : authStatus[v] = "pending" /\ vaultStatus[v] # "withdrawn"}
    /\ snapshot' # {}
    /\ UNCHANGED <<db, txState, bitcoin, hpc, ppc, view, procPc, procCur, crashes>>

\* processAuthorizations reads the pending rows once.
ProcPoll ==
    /\ procPc = "idle" /\ snapshot = {}
    /\ snapshot' = {v \in Vaults : authStatus[v] = "pending"}
    /\ snapshot' # {}
    /\ UNCHANGED <<db, txState, bitcoin, hpc, ppc, view, procPc, procCur, crashes>>

\* Next row of the list: marked processing whatever it says by now.
ProcStart(v) ==
    /\ procPc = "idle"
    /\ v \in snapshot
    /\ snapshot' = snapshot \ {v}
    /\ procCur' = v
    /\ procPc' = "verifying"
    /\ authStatus' = [authStatus EXCEPT ![v] = "processing"]
    /\ UNCHANGED <<vaultStatus, withdrawTx, authTx, txState, bitcoin, hpc, ppc, view, crashes>>

\* Faulty variant: the authorization in hand is not dropped.
ProcDoneKeepsCurrent == procPc' = "idle" /\ UNCHANGED <<procCur, snapshot>>

ProcDone ==
    /\ procPc' = "idle"
    /\ procCur' = None
    /\ UNCHANGED snapshot

\* The receipt does not say SUCCEEDED, or reading it failed or timed out.
ProcNotFinal ==
    /\ procPc = "verifying"
    /\ authStatus' = [authStatus EXCEPT ![procCur] = "pending"]
    /\ ProcDone
    /\ UNCHANGED <<vaultStatus, withdrawTx, authTx, txState, bitcoin, hpc, ppc, view, crashes>>

\* verifyStarknetTransaction returns true only for a SUCCEEDED receipt.  Its
\* 15 s timer would answer true as well, but getTransactionReceipt gives up
\* after 8 s and that error answers false first.
ReceiptAccepted == txState[authTx[procCur]] = "succeeded"

ProcPay ==
    /\ procPc = "verifying"
    /\ ReceiptAccepted
    /\ MayPay(authStatus[procCur])
    /\ authStatus' = [authStatus EXCEPT ![procCur] = StatusWhilePaying(@)]
    /\ ppc' = [ppc EXCEPT ![Proc] = "fetching"]
    /\ procPc' = "paying"
    /\ UNCHANGED <<vaultStatus, withdrawTx, authTx, txState, bitcoin, hpc, view,
                   snapshot, procCur, crashes>>

\* verifyAuthorization refuses the row; the catch block resets it to pending.
ProcPayRefused ==
    /\ procPc = "verifying"
    /\ ReceiptAccepted
    /\ ~MayPay(authStatus[procCur])
    /\ authStatus' = [authStatus EXCEPT ![procCur] = "pending"]
    /\ ProcDone
    /\ UNCHANGED <<vaultStatus, withdrawTx, authTx, txState, bitcoin, hpc, ppc, view, crashes>>

\* Faulty variant: completed is written when the transaction is built.
ProcPaidUnsent ==
    /\ procPc = "paying"
    /\ ppc[Proc] \in {"built", "accepted"}
    /\ ppc' = [ppc EXCEPT ![Proc] = "idle"]
    /\ authStatus' = [authStatus EXCEPT ![procCur] = "completed"]
    /\ ProcDone
    /\ UNCHANGED <<vaultStatus, withdrawTx, authTx, txState, bitcoin, hpc, view, crashes>>

ProcPaid ==
    /\ procPc = "paying"
    /\ ppc[Proc] = "accepted"
    /\ ppc' = [ppc EXCEPT ![Proc] = "idle"]
    /\ authStatus' = [authStatus EXCEPT ![procCur] = "completed"]
    /\ ProcDone
    /\ UNCHANGED <<vaultStatus, withdrawTx, authTx, txState, bitcoin, hpc, view, crashes>>

\* Any error, a lost answer to an accepted broadcast included.
ProcPayFails ==
    /\ procPc = "paying"
    /\ ppc' = [ppc EXCEPT ![Proc] = "idle"]
    /\ authStatus' = [authStatus EXCEPT ![procCur] = "pending"]
    /\ ProcDone
    /\ UNCHANGED <<vaultStatus, withdrawTx, authTx, txState, bitcoin, hpc, view, crashes>>

-----------------------------------------------------------------------------
(* POST /api/debug/force-withdrawal: always the covenant path.              *)

\* Faulty variant: the 404 check is gone.
ForceStartUnchecked(f) ==
    /\ ppc[f] = "idle"
    /\ authStatus[VaultOf[f]] # "completed"
    /\ authStatus' = [authStatus EXCEPT ![VaultOf[f]] = "processing"]
    /\ ppc' = [ppc EXCEPT ![f] = "fetching"]
    /\ UNCHANGED <<vaultStatus, withdrawTx, authTx, txState, bitcoin, hpc, view, proc, crashes>>

ForceStart(f) ==
    /\ ppc[f] = "idle"
    /\ authStatus[VaultOf[f]] \notin {"none", "completed"}
    /\ authStatus' = [authStatus EXCEPT ![VaultOf[f]] = "processing"]
    /\ ppc' = [ppc EXCEPT ![f] = "fetching"]
    /\ UNCHANGED <<vaultStatus, withdrawTx, authTx, txState, bitcoin, hpc, view, proc, crashes>>

ForcePaid(f) ==
    /\ ppc[f] = "accepted"
    /\ ppc' = [ppc EXCEPT ![f] = "idle"]
    /\ authStatus' = [authStatus EXCEPT ![VaultOf[f]] = "completed"]
    /\ UNCHANGED <<vaultStatus, withdrawTx, authTx, txState, bitcoin, hpc, view, proc, crashes>>

ForceFails(f) ==
    /\ ppc[f] # "idle"
    /\ ppc' = [ppc EXCEPT ![f] = "idle"]
    /\ authStatus' = [authStatus EXCEPT ![VaultOf[f]] = "pending"]
    /\ UNCHANGED <<vaultStatus, withdrawTx, authTx, txState, bitcoin, hpc, view, proc, crashes>>

-----------------------------------------------------------------------------
(* POST /api/audit/verify: the deposit receipt decides the status, whatever *)
(* the row says; the deposit of every vault here has SUCCEEDED.             *)

AuditVerify(v) ==
    /\ vaultStatus[v] # "active"
    /\ vaultStatus' = [vaultStatus EXCEPT ![v] = "active"]
    /\ UNCHANGED <<withdrawTx, authStatus, authTx, txState, bitcoin, hpc, ppc, view, proc, crashes>>

-----------------------------------------------------------------------------
(* Starknet executes a submitted transaction; crashes of the backend.       *)

TxSucceeds(r) ==
    /\ txState[r] = "submitted"
    /\ ~NullifierUsed(VaultOf[r])
    /\ txState' = [txState EXCEPT ![r] = "succeeded"]
    /\ UNCHANGED <<db, bitcoin, hpc, ppc, view, proc, crashes>>

\* Nullifier used, vault balance short, or out of gas.
TxReverts(r) ==
    /\ txState[r] = "submitted"
    /\ txState' = [txState EXCEPT ![r] = "reverted"]
    /\ UNCHANGED <<db, bitcoin, hpc, ppc, view, proc, crashes>>

\* What a restart forgets: every handler, every payment under way and the
\* processor's list.  A call on the wire may still arrive.
LoseMemory ==
    /\ crashes < MaxCrashes
    /\ crashes' = crashes + 1
    /\ hpc' = [r \in Requests |-> IF hpc[r] = "idle" THEN "idle" ELSE "done"]
    /\ ppc' = [p \in Payers |-> "idle"]
    /\ view' = [p \in Payers |-> 0]
    /\ snapshot' = {}
    /\ procPc' = "idle"
    /\ procCur' = None

Crash ==
    /\ LoseMemory
    /\ UNCHANGED <<db, txState, bitcoin>>

\* The two statements "insert the row" and "mark it processing" are two
\* SQLite transactions; the crash falls between them.
CrashAfterInsert(r) ==
    /\ hpc[r] = "sending"
    /\ txState[r] \in OnChain
    /\ authStatus[VaultOf[r]] = "none"
    /\ authStatus' = [authStatus EXCEPT ![VaultOf[r]] = "pending"]
    /\ authTx' = [authTx EXCEPT ![VaultOf[r]] = r]
    /\ LoseMemory
    /\ UNCHANGED <<vaultStatus, withdrawTx, txState, bitcoin>>

-----------------------------------------------------------------------------

\* The two timers a handler sets for itself.
HandlerTimer(r) == WithdrawSubmitTimeout(r) \/ WithdrawPayoutTimeout(r)

\* The steps of a handler once it has begun.
Handler(r) ==
    \/ HandlerTimer(r)
    \/ WithdrawAuthorize(r) \/ WithdrawAlreadySettled(r) \/ WithdrawAuthFails(r)
    \/ WithdrawPaid(r) \/ WithdrawPayFails(r)

Arrive(r) ==
    WithdrawReject(r) \/ WithdrawStart(r) \/ WithdrawRetry(r) \/ WithdrawRetryRefused(r)

Detached(r) == DetachedPaid(r) \/ DetachedPayFails(r)

Pay(p) == PayFetch(p) \/ PayBroadcast(p)

ProcSettle == ProcNotFinal \/ ProcPay \/ ProcPayRefused \/ ProcPaid \/ ProcPayFails

Processor == ProcPoll \/ (\E v \in Vaults : ProcStart(v)) \/ ProcSettle

Forced(f) == ForceStart(f) \/ ForcePaid(f) \/ ForceFails(f)

Chain(r) ==
    WithdrawSubmitted(r) \/ WithdrawNotSent(r) \/ TxSucceeds(r) \/ TxReverts(r)

Next ==
    \/ \E r \in Requests : Arrive(r) \/ Handler(r) \/ Detached(r) \/ Chain(r)
    \/ \E p \in Payers : Pay(p)
    \/ Processor
    \/ \E f \in Forces : Forced(f)
    \/ \E v \in Vaults : AuditVerify(v)
    \/ \E w \in Wallets : TopUp(w)
    \/ Crash
    \/ \E r \in Requests : CrashAfterInsert(r)

Spec == Init /\ [][Next]_vars

(***************************************************************************)
(* Fairness.  Timers end every await of the handler (8 s and 20 s) and of  *)
(* the processor: 8 s for the receipt, 10 s aborts on each covenant        *)
(* HTTP call.  The legacy path calls node-fetch without a timeout, so the  *)
(* processor's payment is fair in covenant mode only.  Users, operators,   *)
(* crashes and the networks are not fair.                                  *)
(***************************************************************************)
Fairness ==
    /\ \A r \in Requests : WF_vars(HandlerTimer(r))
    /\ WF_vars(ProcPoll)
    /\ WF_vars(\E v \in Vaults : ProcStart(v))
    /\ WF_vars(ProcNotFinal \/ ProcPay \/ ProcPayRefused)
    /\ UseCovenants => WF_vars(ProcPaid \/ ProcPayFails)

FairSpec == Spec /\ Fairness

-----------------------------------------------------------------------------
(* Properties                                                              *)

(* Types of the tables, the chains and the control state; the processor     *)
(* holds an authorization exactly while processAuthorization runs           *)
(* (WithdrawalProcessor.ts), and it pays only from inside it.               *)
TypeOK ==
    /\ vaultStatus \in [Vaults -> VaultStatus]
    /\ withdrawTx \in [Vaults -> Requests \cup {None}]
    /\ authStatus \in [Vaults -> AuthStatus]
    /\ authTx \in [Vaults -> Requests \cup {None}]
    /\ txState \in [Requests -> TxState]
    /\ btc \subseteq Payment /\ IsFiniteSet(btc)
    /\ topUps \in [Wallets -> Nat]
    /\ hpc \in [Requests -> HandlerPc]
    /\ ppc \in [Payers -> PayPc]
    /\ view \in [Payers -> Nat]
    /\ snapshot \subseteq Vaults
    /\ procPc \in {"idle", "verifying", "paying"}
    /\ procCur \in Vaults \cup {None}
    /\ procCur = None <=> procPc = "idle"
    /\ ppc[Proc] # "idle" => procPc = "paying"
    /\ crashes \in 0..MaxCrashes

(* Every payment the Bitcoin network accepted has an authorization row, and *)
(* that row names a withdraw transaction of the same vault which            *)
(* StarknetService.withdraw really handed to Starknet: neither retries, nor *)
(* restarts, nor late payouts pay a vault that nobody tried to burn.        *)
PaidAfterBurnSubmitted ==
    \A x \in btc :
        /\ authStatus[x.vault] # "none"
        /\ authTx[x.vault] \in Requests
        /\ VaultOf[authTx[x.vault]] = x.vault
        /\ txState[authTx[x.vault]] \in OnChain

(* updateStatus(.., 'completed', txid) is reached only with the txid of a   *)
(* payment the network accepted for this very vault, on every path          *)
(* (request, detached payout, processor, forced payout).                    *)
CompletedIsPaid ==
    \A v \in Vaults : authStatus[v] = "completed" => PaymentsOf(v) # {}

\* One request names the vault, and no forced payout does.
AskedOnce(v) ==
    /\ \A r, s \in Requests : VaultOf[r] = v /\ VaultOf[s] = v => r = s
    /\ \A f \in Forces : VaultOf[f] # v

(* On the legacy path and without a crash, a vault asked for once is paid   *)
(* at most once, although the answer to a broadcast can be lost, the        *)
(* handler can time out before its payout ends, other vaults are paid from  *)
(* the same wallet and the processor polls all the while.                   *)
SingleRequestPaidOnce ==
    (~UseCovenants /\ crashes = 0) =>
        \A v \in Vaults : AskedOnce(v) => \A x, y \in PaymentsOf(v) : x = y

(* A row of withdrawal_authorizations is never deleted, and the Starknet    *)
(* transaction it names is never replaced: a second request or a retry      *)
(* reuses the row createAuthorization made.                                 *)
AuthRowPermanent ==
    [][\A v \in Vaults : authStatus[v] # "none" =>
            authStatus'[v] # "none" /\ authTx'[v] = authTx[v]]_vars

(* Whatever the two networks do, a request is answered: the 8 s timer and   *)
(* the 20 s race bound the handler of POST /api/vault/withdraw.             *)
HandlerTerminates ==
    \A r \in Requests : hpc[r] # "idle" ~> hpc[r] = "done"

(* The processor takes up every pending authorization: it works through     *)
(* its list one row at a time and no row can hold it for ever (covenant     *)
(* mode, where every HTTP call has a timeout).                              *)
PendingIsTaken ==
    \A v \in Vaults : authStatus[v] = "pending" ~> authStatus[v] # "pending"

-----------------------------------------------------------------------------
(* The inductive invariant, in named parts.                                 *)

\* An authorization names a burn of its own vault that reached Starknet.
AuthBacked ==
    \A v \in Vaults : authStatus[v] # "none" =>
        /\ authTx[v] \in Requests
        /\ VaultOf[authTx[v]] = v
        /\ txState[authTx[v]] \in OnChain

\* So does the hash in a vault row, and so will the one a handler at its
\* last await writes there; a request that has not arrived has sent nothing.
VaultRowBacked ==
    /\ \A v \in Vaults : withdrawTx[v] # None =>
            /\ VaultOf[withdrawTx[v]] = v
            /\ txState[withdrawTx[v]] \in OnChain
    /\ \A r \in Requests :
            /\ hpc[r] = "racing" => txState[r] \in OnChain
            /\ hpc[r] = "idle" => txState[r] = "none"

\* Only authorized vaults are listed, worked on, being paid, or paid.
OnlyAuthorizedPaid ==
    /\ \A v \in snapshot : authStatus[v] # "none"
    /\ procCur # None => authStatus[procCur] # "none"
    /\ \A p \in Requests \cup Forces : ppc[p] # "idle" => authStatus[VaultOf[p]] # "none"
    /\ \A x \in btc : authStatus[x.vault] # "none"

\* The payment an attempt waits to be told of is on the network.
AcceptedIsPaid ==
    \A p \in Payers : ppc[p] = "accepted" => \E x \in btc : x.vault = PayVault(p)

\* Why a vault asked for once is paid once: its row is never pending, so the
\* processor never sees it, and its one payment attempt comes first.
OneAttempt ==
    (~UseCovenants /\ crashes = 0) =>
        \A v \in Vaults : AskedOnce(v) =>
            /\ authStatus[v] # "pending"
            /\ v \notin snapshot
            /\ procCur # v
            /\ \A r \in Requests : VaultOf[r] = v =>
                  /\ hpc[r] \in {"idle", "sending"} =>
                        authStatus[v] = "none" /\ ppc[r] = "idle"
                  /\ ppc[r] \in {"fetching", "built"} => PaymentsOf(v) = {}
            /\ \A x, y \in PaymentsOf(v) : x = y

IInv ==
    /\ TypeOK
    /\ AuthBacked
    /\ VaultRowBacked
    /\ OnlyAuthorizedPaid
    /\ AcceptedIsPaid
    /\ CompletedIsPaid
    /\ OneAttempt

-----------------------------------------------------------------------------
(* The pipeline keeps the promise of BurnToPay.                             *)

SubmittedVaults ==
    {v \in Vaults : \E r \in Requests : VaultOf[r] = v /\ txState[r] \in OnChain}
AuthorizedVaults == {v \in Vaults : authStatus[v] # "none"}
CompletedVaults == {v \in Vaults : authStatus[v] = "completed"}

Promise == INSTANCE BurnToPay WITH
    submitted <- SubmittedVaults, authorized <- AuthorizedVaults,
    paid <- btc, completed <- CompletedVaults

(* Each step of the handlers, the processor, the payers and the chains is a *)
(* step of the abstract specification or leaves it unchanged.               *)
KeepsPromise == Promise!AbstractSpec

-----------------------------------------------------------------------------
(* What the repository says of the pipeline and the code does not keep.     *)

(* backend/README.md:11, "Nullifier System: Prevents double withdrawals",   *)
(* and WithdrawalProcessor.ts:154, "Mark as completed so it is NEVER        *)
(* processed again": one nullifier, one payment.                            *)
PaidAtMostOnce ==
    \A v \in Vaults : \A x, y \in PaymentsOf(v) : x = y

(* BitcoinBroadcastService.ts:253-256, "Bitcoin can only be sent when mBTC  *)
(* has been burned on Starknet ... The Starknet transaction is confirmed".  *)
PaidAfterBurnConfirmed ==
    [][\A x \in btc' \ btc : txState[authTx[x.vault]] = "succeeded"]_vars

(* vault.ts:425, "If it fails, the WithdrawalProcessor will retry           *)
(* automatically".                                                          *)
FailedIsRetried ==
    \A v \in Vaults : authStatus[v] = "failed" ~> authStatus[v] # "failed"
=============================================================================
