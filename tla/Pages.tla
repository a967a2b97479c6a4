-------------------------------- MODULE Pages --------------------------------
(***************************************************************************)
(* The dashboard, the audit page and the withdrawal page of the frontend   *)
(* beside the backend they call.  Requests end in any order: answered,     *)
(* refused, or given up by the client's 30 s timer while the backend works *)
(* on.  A page that is left forgets its state, and what its requests still *)
(* bring is dropped.                                                       *)
(*                                                                         *)
(* The backend keeps one vault.  Its withdrawal is taken from module       *)
(* Withdrawal in coarse steps: check, burn handed to Starknet, payout.     *)
(***************************************************************************)
EXTENDS Naturals, FiniteSets

CONSTANTS
    Fetches,        \* requests for the ledger and the health that a page may have under way
    Withdrawals     \* requests for the withdrawal of the vault

ASSUME PagesAssumption == Fetches # {} /\ IsFiniteSet(Fetches)

Unset == "none"
Tests == 1 .. 4     \* backend, block number, vault contract, Bitcoin API

VARIABLES
    \* the backend
    backendUp, rpcUp,
    row,            \* status of the vault and whether its withdraw_tx_hash is set
    burn,           \* the withdraw transaction of each request on Starknet
    paid,           \* what Bitcoin has seen
    handler,        \* POST /api/vault/withdraw, by request
    \* the browser
    page,
    fetch,          \* ledger and health requests of the mounted page
    home,           \* loading, checks and the test under way
    audit,          \* isLoading, isVerifying, the modal, autoRefresh
    proofLoading, proofParams,
    waiting         \* withdrawal requests the page still waits for

backend == <<backendUp, rpcUp, row, burn, paid, handler>>
withdraw == <<proofLoading, proofParams, waiting>>
pagesVars == <<backend, page, fetch, home, audit, withdraw>>

\* getHealth: the handler answers 200 whatever the RPC does, with block
\* number 0 and unreachable contracts when it is down.  What the health and
\* the ledger say besides is shown and not used again.
BlockNumber == IF rpcUp THEN 1 ELSE 0

\* States of a page that has just been mounted.
NewHome == [loading |-> TRUE, checks |-> [i \in Tests |-> "idle"],
            running |-> FALSE, test |-> 0]
NewAudit == [isLoading |-> TRUE, isVerifying |-> FALSE, results |-> Unset,
             showModal |-> FALSE, autoRefresh |-> FALSE, verify |-> Unset]

PagesInit ==
    /\ backendUp = TRUE /\ rpcUp = TRUE
    /\ row \in {[status |-> s, burnTx |-> FALSE] : s \in {"pending", "active"}}
    /\ burn = [q \in Withdrawals |-> "none"] /\ paid = FALSE
    /\ handler = [q \in Withdrawals |-> "idle"]
    /\ page = "withdraw"
    /\ fetch = [f \in Fetches |-> "idle"]
    /\ home = NewHome /\ audit = NewAudit
    /\ proofLoading = FALSE /\ proofParams = Unset /\ waiting = {}

-----------------------------------------------------------------------------
(* Navigation and the environment                                          *)

\* The page mounts and its effect asks for its data; timers and requests of
\* the page before it are forgotten.
Navigate(to) ==
    /\ to # page
    /\ page' = to
    /\ \E first \in Fetches :
         fetch' = [f \in Fetches |->
                     IF f = first /\ to # "withdraw" THEN "asked" ELSE "idle"]
    /\ home' = NewHome /\ audit' = NewAudit
    /\ proofLoading' = FALSE /\ proofParams' = Unset /\ waiting' = {}
    /\ UNCHANGED backend

BackendSwitches ==
    /\ backendUp' = ~backendUp
    /\ UNCHANGED <<rpcUp, row, burn, paid, handler, page, fetch, home, audit, withdraw>>
RpcSwitches ==
    /\ rpcUp' = ~rpcUp
    /\ UNCHANGED <<backendUp, row, burn, paid, handler, page, fetch, home, audit, withdraw>>

-----------------------------------------------------------------------------
(* Ledger and health requests                                              *)

Ask(f) ==
    /\ fetch[f] = "idle"
    /\ fetch' = [fetch EXCEPT ![f] = "asked"]

\* setInterval of the dashboard (12 s), a click on its refresh label, which
\* stays enabled, or the interval of the audit page (30 s) while
\* auto-refresh is on.
HomeRefresh(f) ==
    /\ page = "home"
    /\ Ask(f)
    /\ UNCHANGED <<backend, page, home, audit, withdraw>>
AuditRefresh(f) ==
    /\ page = "audit"
    /\ audit.autoRefresh \/ ~audit.isLoading
    /\ Ask(f)
    /\ audit' = [audit EXCEPT !.isLoading = TRUE]
    /\ UNCHANGED <<backend, page, home, withdraw>>

ToggleAutoRefresh ==
    /\ page = "audit"
    /\ audit' = [audit EXCEPT !.autoRefresh = ~@]
    /\ UNCHANGED <<backend, page, fetch, home, withdraw>>

\* The backend answers; the answer is applied later.
FetchAnswered(f) ==
    /\ backendUp
    /\ fetch[f] = "asked"
    /\ fetch' = [fetch EXCEPT ![f] = "answered"]
    /\ UNCHANGED <<backend, page, home, audit, withdraw>>

\* No answer, or none within 30 s.
FetchFails(f) ==
    /\ fetch[f] = "asked"
    /\ fetch' = [fetch EXCEPT ![f] = "failed"]
    /\ UNCHANGED <<backend, page, home, audit, withdraw>>

\* fetchDashboardData goes on after Promise.all.
HomeApplies(f) ==
    /\ page = "home"
    /\ fetch[f] \in {"answered", "failed"}
    /\ fetch' = [fetch EXCEPT ![f] = "idle"]
    /\ home' = [home EXCEPT !.loading = FALSE]
    /\ UNCHANGED <<backend, page, audit, withdraw>>

\* Faulty variant: only an answer ends the loading state.
AuditAppliesAnswersOnly(f) ==
    /\ page = "audit"
    /\ fetch[f] \in {"answered", "failed"}
    /\ fetch' = [fetch EXCEPT ![f] = "idle"]
    /\ audit' = [audit EXCEPT !.isLoading = @ /\ fetch[f] = "failed"]
    /\ UNCHANGED <<backend, page, home, withdraw>>

\* fetchAudit goes on: isLoading is off in any case.
AuditApplies(f) ==
    /\ page = "audit"
    /\ fetch[f] \in {"answered", "failed"}
    /\ fetch' = [fetch EXCEPT ![f] = "idle"]
    /\ audit' = [audit EXCEPT !.isLoading = FALSE]
    /\ UNCHANGED <<backend, page, home, withdraw>>

-----------------------------------------------------------------------------
(* The dashboard's checklist                                               *)

\* 'Run Checks', disabled while isRunningChecks.
RunChecks ==
    /\ page = "home" /\ ~home.running
    /\ home' = [home EXCEPT !.running = TRUE, !.test = 1, !.checks[1] = "checking"]
    /\ UNCHANGED <<backend, page, fetch, audit, withdraw>>

\* Whether a test throws: the health request fails, or it names no block.
\* getVaultStatus and getBtcStatus only need an answer.
TestPasses(i) == backendUp /\ (i = 2 => BlockNumber # 0)

\* A test ends and the next one starts; after the last isRunningChecks is
\* cleared.  A test may fail by itself: its request is lost.
CheckEnds ==
    /\ page = "home" /\ home.test \in Tests
    /\ \E result \in {"pass", "fail"} :
         /\ result = "pass" => TestPasses(home.test)
         /\ home' = [home EXCEPT
                       !.checks = [i \in Tests |->
                                     IF i = home.test THEN result
                                     ELSE IF i = home.test + 1 THEN "checking" ELSE @[i]],
                       !.test = IF @ = 4 THEN 0 ELSE @ + 1,
                       !.running = home.test # 4]
    /\ UNCHANGED <<backend, page, fetch, audit, withdraw>>

-----------------------------------------------------------------------------
(* Verification from the audit page                                        *)

\* 'Verify On-Chain', disabled while isVerifying.
VerifyClick ==
    /\ page = "audit" /\ ~audit.isVerifying
    /\ audit' = [audit EXCEPT !.isVerifying = TRUE, !.verify = "asked"]
    /\ UNCHANGED <<backend, page, fetch, home, withdraw>>

\* POST /api/audit/verify writes the vault's status from the receipt of its
\* deposit: 'active', or 'pending' when it reverted or is not final.  A
\* missing receipt writes nothing and counts as pending.
VerifyAnswered ==
    /\ backendUp /\ audit.verify = "asked"
    /\ \/ /\ rpcUp
          /\ row' \in {[row EXCEPT !.status = s] : s \in {"active", "pending"}}
          /\ audit' = [audit EXCEPT !.verify =
                         IF row'.status = "active" THEN "verified" ELSE "notVerified"]
       \/ /\ UNCHANGED row
          /\ audit' = [audit EXCEPT !.verify = "notVerified"]
    /\ UNCHANGED <<backendUp, rpcUp, burn, paid, handler, page, fetch, home, withdraw>>

VerifyFails ==
    /\ audit.verify = "asked"
    /\ audit' = [audit EXCEPT !.verify = "failed"]
    /\ UNCHANGED <<backend, page, fetch, home, withdraw>>

\* handleVerify goes on: the modal opens over the results, or a toast.
VerifyApplied ==
    /\ audit.verify \in {"verified", "notVerified", "failed"}
    /\ audit' = [audit EXCEPT !.isVerifying = FALSE, !.verify = Unset,
                   !.results = IF audit.verify = "failed" THEN @ ELSE audit.verify,
                   !.showModal = @ \/ audit.verify # "failed"]
    /\ UNCHANGED <<backend, page, fetch, home, withdraw>>

ModalClosed ==
    /\ audit.showModal
    /\ audit' = [audit EXCEPT !.showModal = FALSE]
    /\ UNCHANGED <<backend, page, fetch, home, withdraw>>

-----------------------------------------------------------------------------
(* The withdrawal page and POST /api/vault/withdraw                        *)

\* handleWithdraw with its three fields filled; the button is disabled by
\* proofLoading and by an earlier success.
WithdrawClick(q) ==
    /\ page = "withdraw" /\ ~proofLoading /\ proofParams = Unset
    /\ handler[q] = "idle" /\ backendUp
    /\ handler' = [handler EXCEPT ![q] = "arrived"]
    /\ waiting' = waiting \cup {q}
    /\ proofLoading' = TRUE
    /\ UNCHANGED <<backendUp, rpcUp, row, burn, paid, page, fetch, home, audit, proofParams>>

\* The request is checked: refused, sent to the prover and the burn, or, with
\* a burn on record, to the payout.
Checked(q) ==
    /\ handler[q] = "arrived"
    /\ handler' = [handler EXCEPT ![q] =
          IF row.status = "withdrawn" \/ (row.status # "active" /\ ~row.burnTx) THEN "error"
          ELSE IF row.burnTx THEN "retrying" ELSE "proving"]
    /\ UNCHANGED <<backendUp, rpcUp, row, burn, paid, page, fetch, home, audit, withdraw>>

\* The prover ends, well or badly, and account.execute is called; or the
\* circuit of withResilience is open, or there is no relayer account.
SendBurn(q) ==
    /\ handler[q] = "proving"
    /\ \/ /\ burn' = [burn EXCEPT ![q] = "sending"]
          /\ handler' = [handler EXCEPT ![q] = "burning"]
       \/ /\ UNCHANGED burn
          /\ handler' = [handler EXCEPT ![q] = "error"]
    /\ UNCHANGED <<backendUp, rpcUp, row, paid, page, fetch, home, audit, withdraw>>

NullifierUsed == \E q \in Withdrawals : burn[q] = "succeeded"

\* The node takes the transaction, whether or not the request still waits.
\* starknet.js estimates the fee first, so a call that would fail is not sent;
\* two of them may be taken before either is executed.
BurnSubmitted(q) ==
    /\ burn[q] = "sending"
    /\ rpcUp /\ ~NullifierUsed
    /\ burn' = [burn EXCEPT ![q] = "submitted"]
    /\ UNCHANGED <<backendUp, rpcUp, row, paid, handler, page, fetch, home, audit, withdraw>>

\* Nothing was sent: 500, unless the timer has answered already.
BurnRejected(q) ==
    /\ burn[q] = "sending"
    /\ burn' = [burn EXCEPT ![q] = "none"]
    /\ handler' = [handler EXCEPT ![q] = "error"]
    /\ UNCHANGED <<backendUp, rpcUp, row, paid, page, fetch, home, audit, withdraw>>

HandedOver == {q \in Withdrawals : burn[q] \in {"submitted", "succeeded", "reverted"}}

\* The hash is back: the handler goes on to the payout without a receipt.
BurnAnswered(q) ==
    /\ handler[q] = "burning" /\ q \in HandedOver
    /\ handler' = [handler EXCEPT ![q] = "paying"]
    /\ UNCHANGED <<backendUp, rpcUp, row, burn, paid, page, fetch, home, audit, withdraw>>

\* The 8 s timer of withResilience: 500, and the transaction goes on.
BurnTimesOut(q) ==
    /\ handler[q] = "burning"
    /\ handler' = [handler EXCEPT ![q] = "error"]
    /\ UNCHANGED <<backendUp, rpcUp, row, burn, paid, page, fetch, home, audit, withdraw>>

\* Starknet executes the transaction: the nullifier is used once, and any
\* assertion may revert it.
BurnExecuted(q) ==
    /\ burn[q] = "submitted"
    /\ \E result \in {"succeeded", "reverted"} :
        /\ result = "succeeded" => ~NullifierUsed
        /\ burn' = [burn EXCEPT ![q] = result]
    /\ UNCHANGED <<backendUp, rpcUp, row, paid, handler, page, fetch, home, audit, withdraw>>

\* The payout succeeds within 20 s, or the timer answers first.  Only a
\* first attempt writes the vault row.
Paid(q) ==
    /\ handler[q] \in {"paying", "retrying"}
    /\ row' = IF handler[q] = "paying" THEN [status |-> "withdrawn", burnTx |-> TRUE] ELSE row
    /\ \/ paid' = TRUE /\ handler' = [handler EXCEPT ![q] = "txid"]
       \/ UNCHANGED paid /\ handler' = [handler EXCEPT ![q] = "queued"]
    /\ UNCHANGED <<backendUp, rpcUp, burn, page, fetch, home, audit, withdraw>>

\* A payout that was slower than its timer, or the processor's.
PaidLate ==
    /\ \E q \in Withdrawals : handler[q] = "queued"
    /\ ~paid /\ paid' = TRUE
    /\ UNCHANGED <<backendUp, rpcUp, row, burn, handler, page, fetch, home, audit, withdraw>>

\* Faulty variant: a refused request counts as complete.
WithdrawAnsweredAny(q) ==
    /\ q \in waiting /\ handler[q] \in {"txid", "queued", "error"}
    /\ waiting' = waiting \ {q}
    /\ proofLoading' = FALSE
    /\ proofParams' = IF handler[q] = "txid" THEN "sent" ELSE "Pending"
    /\ UNCHANGED <<backend, page, fetch, home, audit>>

\* The answer reaches handleWithdraw.  Without a txid the page remembers
\* 'Pending', which it shows like one that was sent.
WithdrawAnswered(q) ==
    /\ q \in waiting /\ handler[q] \in {"txid", "queued", "error"}
    /\ waiting' = waiting \ {q}
    /\ proofLoading' = FALSE
    /\ proofParams' = CASE handler[q] = "txid" -> "sent"
                        [] handler[q] = "queued" -> "Pending"
                        [] OTHER -> proofParams
    /\ UNCHANGED <<backend, page, fetch, home, audit>>

\* axios gives up after 30 s: 'Withdrawal Failed', while the backend, which
\* takes that long to prove alone, goes on.
WithdrawTimesOut(q) ==
    /\ q \in waiting
    /\ waiting' = waiting \ {q}
    /\ proofLoading' = FALSE
    /\ UNCHANGED <<backend, page, fetch, home, audit, proofParams>>

PagesNext ==
    \/ \E to \in {"home", "audit", "withdraw"} : Navigate(to)
    \/ BackendSwitches
    \/ RpcSwitches
    \/ \E f \in Fetches : HomeRefresh(f)
    \/ \E f \in Fetches : AuditRefresh(f)
    \/ ToggleAutoRefresh
    \/ \E f \in Fetches : FetchAnswered(f)
    \/ \E f \in Fetches : FetchFails(f)
    \/ \E f \in Fetches : HomeApplies(f)
    \/ \E f \in Fetches : AuditApplies(f)
    \/ RunChecks
    \/ CheckEnds
    \/ VerifyClick
    \/ VerifyAnswered
    \/ VerifyFails
    \/ VerifyApplied
    \/ ModalClosed
    \/ \E q \in Withdrawals : WithdrawClick(q)
    \/ \E q \in Withdrawals : Checked(q)
    \/ \E q \in Withdrawals : SendBurn(q)
    \/ \E q \in Withdrawals : BurnSubmitted(q)
    \/ \E q \in Withdrawals : BurnRejected(q)
    \/ \E q \in Withdrawals : BurnAnswered(q)
    \/ \E q \in Withdrawals : BurnTimesOut(q)
    \/ \E q \in Withdrawals : BurnExecuted(q)
    \/ \E q \in Withdrawals : Paid(q)
    \/ PaidLate
    \/ \E q \in Withdrawals : WithdrawAnswered(q)
    \/ \E q \in Withdrawals : WithdrawTimesOut(q)

PagesSpec == PagesInit /\ [][PagesNext]_pagesVars

-----------------------------------------------------------------------------
(***************************************************************************)
(* Whatever order answers, refreshes and timeouts come in, a page that     *)
(* shows work in progress has the request it waits for: no spinner, no     *)
(* disabled button and no 'Checking...' outlives its request.              *)
(***************************************************************************)
SpinnersMatchRequests ==
    /\ page = "home" /\ home.loading => \E f \in Fetches : fetch[f] # "idle"
    /\ page = "audit" /\ audit.isLoading => \E f \in Fetches : fetch[f] # "idle"
    /\ audit.isVerifying <=> audit.verify # Unset
    /\ audit.showModal => audit.results # Unset
    /\ home.running <=> home.test # 0
    /\ \A i \in Tests : home.checks[i] = "checking" <=> home.test = i
    /\ proofLoading <=> Cardinality(waiting) = 1

(***************************************************************************)
(* The page announces WITHDRAWAL COMPLETE only over a burn that Starknet   *)
(* accepted, and a transaction id it shows belongs to a payment.  The      *)
(* second request of a page whose first one timed out is included.         *)
(***************************************************************************)
CompleteIsSubmitted ==
    /\ proofParams # Unset => HandedOver # {}
    /\ proofParams = "sent" => paid

(***************************************************************************)
(* 'your MockBTC was burned on Starknet', as the page says: some burn of   *)
(* the vault was executed or may still be.                                 *)
(***************************************************************************)
CompleteIsBurned ==
    proofParams # Unset => \E q \in HandedOver : burn[q] # "reverted"
=============================================================================
