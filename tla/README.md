# TLA+ models of the Bitcoin–Starknet bridge

The repository lets a user lock Bitcoin (Signet) at a covenant address, proves
the payment on Starknet, mints mBTC into a vault contract, and later burns the
mBTC and pays the Bitcoin back out. This directory models the parts of it that
keep state and interact, checks them with TLC on small instances, and proves
the properties that matter most with TLAPS for every value of the constants.

    tlasany M.tla                            parse a module
    tlc -workers 2 -config X.cfg M           model-check (see "Runs")
    tlapm MProofs.tla                        check the proofs of a module

`PROJECT.json` holds the same inventory in machine-readable form: components,
runs, a faulty variant of the code that breaks each property, the source lines of each definition, the
findings, the hazards and the theorems.

## 1. Inventory

Paths are relative to `src/`; `b/` stands for `backend/src/`.

| Component | State | Operations | Correct when |
|---|---|---|---|
| Withdrawal request (`b/routes/vault.ts` 263–508) | the vault row | POST /withdraw: checks, burn on Starknet, authorization row, immediate payout raced against 20 s, vault row | a payout has a burn behind it; one vault is paid once; every request is answered |
| Withdrawal authorizations (`b/services/WithdrawalAuthorizationService.ts`) | one row per nullifier, `pending / processing / completed / failed` | create, verify, update, list pending | completed means paid; the burn a row names never changes |
| WithdrawalProcessor (`b/services/WithdrawalProcessor.ts`) | the list it polled | poll every 30 s, check the receipt, pay, record | takes up every pending row, pays none twice |
| Bitcoin payout (`b/services/BitcoinBroadcastService.ts`, `BitcoinCovenantService.ts`) | UTXOs of two wallets | fetch UTXOs, build, broadcast | a lost answer does not lead to a second payment |
| Debug and audit routes (`b/routes/debug.ts`, `audit.ts`) | the rows above | force-withdrawal, audit/verify | keep the rows true |
| Header relay (`b/services/BitcoinHeaderRelayService.ts`) | a cursor in `kv_store` | a cycle every 30 s: tip, headers, store_header | no height is skipped; the relay catches up |
| Deposit routes (`b/routes/bridge.ts`, `commitment.ts`, `vault.ts` 26–252) | the vault row | spv-deposit, commitment/deposit, prepare-deposit, confirm-deposit | an open vault has a vault call of its own; one payment opens one vault; no deposit is lost |
| Starknet RPC (`b/services/StarknetService.ts`) | the circuit breaker's three fields | withResilience around every call | trips and recovers as it says |
| Contracts (`contracts/src/*.cairo`) | commitments, nullifiers, spent txids, headers, balances, allowances | deposit, withdraw, store_header, ERC-20 | one mint per Bitcoin payment; deposits stay backed |
| SPV proofs (`b/services/BitcoinProofService.ts`, `contracts/src/bitcoin_spv.cairo`) | none | build a Merkle proof; verify it | what the backend builds the contract accepts; what it accepts is in the block |
| HTLC (`htlc_swap/src/lib.cairo`, `b/services/HTLCService.ts`, `b/middleware/lockManager.ts`) | one swap in the contract's storage; rows of the service | fund, withdraw, refund; create, claim, refund | each funding leaves at most once, in its own token |
| STARK proving (`b/services/SharpService.ts`, `b/routes/sharp.ts`) | an arguments file, `sharp_proofs` rows | prove, verify and ask for a status in blocking child processes | rows are of verified proofs; what is left of a secret has a known cause; the blocked process recovers |
| Deposit page (`frontend/src/app/deposit/page.tsx`, `lib/useXverseWallet.ts`) with detect-deposit (`b/services/BitcoinSignetService.ts`) | step, timers, the payment it follows, the wallet | create, pay, scan, poll, submit | it submits the payment it shows, and reports success only of a mint |
| Dashboard, audit and withdrawal pages (`frontend/src/app`) | requests under way and what they showed last | fetch, refresh, verify, withdraw | no spinner outlives its request; "complete" has a burn handed over |
| Deployment scripts (`backend/scripts`, `backend/*.js`, `scripts/*.sh`) | `.env`, address files, the contracts | declare, deploy, print, write | addresses that are used together belong together |
| Proof-token withdrawal (`b/routes/withdraw.ts`, `b/services/ProofVerifier.ts`) | nullifiers table | verify, execute | — |
| Hashing, listings, rate limits | none the others read | — | — |

How they interact. Handlers of the backend run on one Node event loop: between
two awaits a handler is atomic, and everything else may happen at an await. They
share the SQLite tables `vaults`, `withdrawal_authorizations` and `kv_store`, and
the static fields of the circuit breaker. They reach Starknet and Bitcoin through
HTTP calls that may be lost, answered late, or answered after the caller gave up
(`Promise.race` does not cancel). The processor, the relay and the requests know
of each other only through the tables and the chains.

What is hard: a payout started by a request and one started by the processor for
the same row; timers that answer while the work goes on; broadcasts whose answer
is lost; statuses read before an await and overwritten after it; restarts between
two writes; overlapping relay cycles on one cursor; a contract call that is
accepted and reverts; retries of deposits whose first transaction is still under
way. `PROJECT.json` lists them as hazards, each at its line.

## 2. Modules

| Module | Models | Role |
|---|---|---|
| `BurnToPay` | what a withdrawal promises | abstract specification |
| `Withdrawal`, `MCWithdrawal`, `WithdrawalProofs` | the withdrawal pipeline with both chains | implements `BurnToPay` |
| `HeaderRelay`, `HeaderRelayProofs` | the header relay and the HeaderStore transactions it sends | |
| `VaultContract`, `MCVaultContract`, `VaultContractProofs` | PrivateBTCVault, HeaderStore and MockBTC together | |
| `Deposits`, `MCDeposits`, `DepositsProofs` | the deposit routes, with the contract's acceptance rules and the relay as environment | |
| `SpvProof`, `VaultSpv` | the proofs BitcoinProofService builds and `verify_merkle_proof` | pure algorithm; `VaultSpv` states it of the blocks and roots of `VaultContract` |
| `CircuitBreaker` | `StarknetService.withResilience` | |
| `Prover`, `ProverProofs` | SharpService in the event loop of `CircuitBreaker`; the proofs cover both | extends `CircuitBreaker` |
| `Htlc`, `MCHtlc`, `HtlcProofs` | the swap contract and the rows of HTLCService | |
| `XverseWallet` | the wallet hook | part of `DepositPage` |
| `DepositPage`, `MCDepositPage` | the deposit page, the routes it polls, the shared address | extends `XverseWallet` |
| `Pages`, `MCPages` | dashboard, audit page and withdrawal page over a coarse backend | |
| `FrontendProofs` | | proofs of `DepositPage` and `Pages` |
| `Deployment`, `DeploymentProofs` | the deployment scripts, the chain, `.env` and the address files | |

**Withdrawal.** A vault stands for its nullifier (both columns are UNIQUE). `hpc`
is where the handler of each request is, `ppc` where each payment attempt is: an
attempt outlives the handler that started it, as the promise does when the 20 s
timer wins. `Withdraw*` actions are the steps of POST /withdraw, `Detached*` what
an abandoned payout still writes, `Proc*` the processor, `Force*` the debug route,
`AuditVerify` the audit route. A payment is built from a view of a wallet
(`PayFetch`) and accepted later (`PayBroadcast`); two payments with the same
recipient, wallet and view are the same Bitcoin transaction, so a rebroadcast is
not a second payment, while a payment built after other funds moved is.
`UseCovenants` selects between the custodial and the covenant path, which treat
the status of the row differently. `Crash` loses what is in memory at an await,
`CrashAfterInsert` falls between the two synchronous statements that insert the
row and mark it; crashes between other pairs of synchronous statements are not
modelled.

**HeaderRelay.** Each member of `Cycles` is an invocation of `relayCycle` that can
overlap with the others. The account's nonce lets the sequencer hold one of the
relay's transactions at a time (`inflight`); it is stored, or reverts unseen.

**VaultContract.** A Starknet transaction is atomic and assertions undo it, so an
entry point is one action guarded by its assertions. A Merkle root is the set of
txids it commits to; a height can have several, from reorganisations. `pack_u128`
is the arithmetic of the contract, whose words overlap: two txids of the instance
share a key. u256 amounts are bounded by `MaxU` and overflow is refused. `Units` spreads
the balances into single units, so that `SupplyIsBalances` is a statement about how many
there are. Users are finitely many, and a block is a finite set of transactions.

**Deposits.** `pc` is where each handler is: polling for the header, in
`account.execute`, in `waitForTransaction`. A transaction lives on after its
handler has given up. `oldVault` chooses between the SPV vault of this repository
and the older one that `executeDeposit` still calls with `deposit(commitment)`.
A confirmation may name any transaction: a deposit, or a `withdraw` of the vault,
which anybody may call with any recipient (`WithdrawTxs`, `RecipientOf`). `VaultEvent`
keeps the layout of both events, `EventVerified` the one field the backend compares; it
does not read the selector. A transaction makes one call of the vault; one that makes
none is refused like a call for another vault. `AutoSync` is the pass that index.ts runs
3 s after a start, over rows that are pending with a hash. Header polls (24) and receipt polls (60) are bounded in the code
and may be given up at any time in the model. Requests carry the vault id,
commitment and nullifier of one deposit page, as the frontend sends them; bodies
without a vault id store nothing and are left out.

**CircuitBreaker.** Time is in ticks: `left` is the rest of a call's 8 s timer,
`resetIn` the rest of the 60 s. `Tick` cannot pass a timer that is due. The failure
counter is only compared with `THRESHOLD`, so it saturates there. Which errors
count is the code's rule, its fall-through for unknown messages included.

**SpvProof.** A buffer is a sequence of units, with one unit for a fixed-width field and
one or two for a varint; a hash is what it was computed from and its byte order, so
hashing is injective. The reference part (`Legacy`, `Raw`, `Levels`, `MerkleRoot`,
`MerkleAnswer`) is Bitcoin and the explorer; `hexHashToWords`, `stripWitnessData` and
`findVaultOutput` are what the service does with their answers, and `DepositAccepts`
with `verify_merkle_proof` is the contract's loop as a recursive function. The contract
does not bound the position it is given: past the end of the block it stands for one of
the last transactions, past the width of the tree it wraps around, and
`AcceptedProofsNameTheirLeaf` says so. `Transactions`, `MaxBlock` and `SmallBlock` (blocks
tried with every position and with every proof) are constants.

**Prover.** `spawnSync` stops the event loop, for a prover and for the status query of
`checkProofStatus` alike: while `Blocked`, time passes (`BlockedTick` goes past timers
that are due) and no callback runs. `overdue` remembers calls whose timer came due
meanwhile. The arguments file, the row and the job's phase are written in the order of
the code; `Crash` may fall between any two of them. An unlink may fail (`Left`), and
`unlinkFailed` remembers the files whose last unlink did. What scarb writes itself
(`cairo2_proof/target/execute`) is not modelled; it keeps the operands of every run.

**Htlc.** The contract has one slot; `fund` replaces it. `held` is what the
contract owns of each token, `stranded` what it got and will never owe again: fundings
that were overwritten, fundings claimed to the contract itself, and tokens sent to it
past `fund` (`SendTokens`). `fund` checks no receiver, so the model's may be a party,
the zero address or the contract: `PayOut` to the first moves tokens, to the second
reverts, to the third changes no balance. Tokens behave like `mock_btc.cairo`: a transfer
that the balance does not cover reverts; one that only returns false, whose result
lib.cairo ignores, is outside the model, and so are allowances. The rows of HTLCService settle
independently of the contract. No function under `lockManager` awaits, so a lock is never
observed held; it has no action.

**DepositPage.** A handler between two awaits, with the effects that its state
changes trigger, is one action. Closures are kept where they matter: a timer's
callback sees the step of the render that made it. Other users pay to the same
address and may be picked by `detect-deposit`, first by amount, then by freshness.
Confirmations are counted up to `MaxConf`, and a new block may come at any time.

**Pages.** Each page has its requests, in any order of answers; the client's 30 s
timer drops a request while the handler goes on; leaving a page forgets its state.
The withdrawal's backend is the check, the burn and the payout of `Withdrawal`. `burn`
follows the Starknet transaction of each request: submitted whether or not the request
still waits for the 8 s timer, executed later, and perhaps reverted, the second of two
that were accepted for one nullifier always. What the health and the ledger say is shown
and not used again, so the answers carry the block number only.

**Deployment.** Each script is a sequence of steps (`Declare`, `Deploy`, `Print`,
`UpdateEnv`, `WriteFile`) with what the script says about failures; one engine runs
them. Constructors check the number of arguments against the class that was built.
A class is known by network, contract, number of arguments and version: at the beginning
only those of the three contracts that stand are declared, with the seven-argument vault,
and `Builds` holds four older and present vault sources and one later edit of the present
ten-argument one, so that `deploy_p2tr_vault.sh` can declare and deploy either ten-argument one. One
script runs at a time; the operator may paste the whole block printed last, rebuild the
contracts, or restart the backend between runs; `deploy_vault.sh` is given the token that
`deploy_info.sh` holds. Addresses are numbers. A restarted devnet is not modelled.
`deploy_p2tr_vault.sh` has its token and store written in it and prints the vault only, so
a backend can be left with a newer token or store than its vault holds.
`OnlyWrittenVaultsMismatch` says that this is the only way to such a backend; that there
is none at all (`BackendSpeaksOneDeployment`) is refuted by `DeploymentP2tr.cfg`.

## 3. Runs

| Run | Configuration | Shows |
|---|---|---|
| `withdrawal_legacy` | custodial; one vault asked once, one raced by two requests; processor polling | `PaidAfterBurnSubmitted`, `CompletedIsPaid`, `SingleRequestPaidOnce`, `AuthRowPermanent`, and `KeepsPromise` (refinement of `BurnToPay`) |
| `withdrawal_restart` | a request and a forced payout, two crashes, an empty wallet that is topped up | `TypeOK` and the same promises through restarts |
| `withdrawal_progress` | covenant mode, two requests, one crash, fairness | `HandlerTerminates`, `PendingIsTaken` |
| `header_relay` | two overlapping cycles, one crash, failures and lost answers, fairness | `RelayTypeOK`, `PostedUpToCursor`, `BlocksArePosted` |
| `vault_contract` | two users, three Bitcoin transactions, a reorganisation | `ContractTypeOK`, `SupplyIsBalances`, `OneMintPerTransaction`, `VaultHoldsDeposits`; for every stored root and block size `BuiltProofsAreAccepted`, `AcceptedProofsNameTheirLeaf` |
| `deposits` | two SPV requests for one payment under two vaults, one older request, a user's transaction, a withdraw with the commitment as recipient, a confirmation of any of them, one crash | `OpenHasVaultCall`, `OneVaultPerPayment`, `DepositHashReplaced`, `ReopenedOnlyByConfirm` |
| `circuit_breaker` | two calls, threshold 5, 8 s and 60 s in ticks of 8 s, one prover of each route, status queries, one crash | `BreakerTypeOK`, `ClosedBelowThreshold`, `OnlyBlockedCallsAreStale`, `OpenExpires`, `JobsLeaveVerifiedProofs` |
| `deposit_page` | two timers, two payments, two submissions | `PageTypeOK`, `ConfirmationsAreOfShownTx`, `ScanningIsPolled`, `SuccessIsMinted` |
| `htlc` | two parties, two tokens, two units each, any receiver, transfers past `fund` | `HtlcTypeOK`, `HeldIsAccounted`, `SettledForGood` |
| `pages` | two fetches and two withdrawal requests at a time | `SpinnersMatchRequests`, `CompleteIsSubmitted` |
| `deployment` | any three script runs | `FilesNameOneDeployment`, `OnlyWrittenVaultsMismatch` |
| `withdrawal_double` | covenant mode, one request | violates `PaidAtMostOnce` |

Eight further configurations are kept to be run by hand; each shows a finding as a
counterexample:

| Configuration | Module | Violates |
|---|---|---|
| `WithdrawalUnconfirmed.cfg` | `MCWithdrawal` | `PaidAfterBurnConfirmed` |
| `WithdrawalStuck.cfg` | `MCWithdrawal` | `FailedIsRetried` (under fairness) |
| `HeaderRelayHole.cfg` | `HeaderRelay` | `EachBlockIsStored` (under fairness) |
| `DepositsLost.cfg` | `MCDeposits` | `DepositIsRecorded` |
| `DepositsUnpaid.cfg` | `MCDeposits` | `OpenIsDeposited` |
| `DepositsReopened.cfg` | `MCDeposits` | `WithdrawnStaysWithdrawn` |
| `PagesUnburned.cfg` | `MCPages` | `CompleteIsBurned` |
| `DeploymentP2tr.cfg` | `Deployment` | `BackendSpeaksOneDeployment` |

**Findings.** Places where a comment, a document or a message of the repository says
more than the code does. `PROJECT.json` quotes the lines of all of them; the ones
about the system's core are:

- *Double payment.* In covenant mode the row stays `pending` while the immediate
  payout runs, so the processor pays it again.
- *Unconfirmed burn.* The payout follows the submission of the burn; the burn can
  still revert.
- *Stuck row.* A failed custodial payout is marked `failed`, which nothing polls.
- *Hole in the headers.* A `store_header` that reverts after it was accepted is
  never posted again.
- *Lost deposit.* The 8 s timer ends spv-deposit while its transaction goes
  through; no row is written and a retry is refused by the contract.
- *confirm-deposit* looks for the commitment in the data of an event that carries it
  as a key, so it confirms no deposit of the present vault; it does not look at the
  selector, so the recipient of a Withdrawal event passes for a commitment; and it
  writes the row without asking what became of it while it waited.
  `OpenHasVaultCall`, `DepositHashReplaced` and `ReopenedOnlyByConfirm` state what holds
  all the same, `OpenIsDeposited` and `WithdrawnStaysWithdrawn` what does not.
- *Units.* A prepared vault stores satoshis where POST /withdraw reads wei.
- *Deposit page.* A failed submission cannot be tried again
  (`FailedSubmitCanBeRetried` does not hold), and a late poll puts the page back to
  step 3 and submits twice.
- *Withdrawal page.* "Your MockBTC was burned" follows the submission of the burn,
  which may revert.
- *Prover.* The route that answers "instantly" blocks the event loop, and so does a
  status query; `ProbesAreFresh`, proved for the breaker alone, fails beside them. A
  failing unlink is dropped, and the arguments file with the secret stays.
- *HTLC.* The service hashes the preimage differently from the contract, which takes
  receivers it can never pay.
- *Scripts.* Several write names to `.env` that the backend does not read, and all
  but one pass a number of constructor arguments the present vault refuses; that one
  leaves a newer token and store in `.env`.

**Bounds.** Two requests on one vault and one elsewhere are enough for every pair
of actors to meet on one row and on one wallet while a third changes the wallet
under them; the processor and the forced payout are further actors. `Funds` = 1 or
2 and `MaxTopUps` ≤ 1 give an empty wallet, a conflict and a refill. Two crashes
let a restart meet the remains of another. Two cycles with a batch of two meet at
every pair of program points; `MaxTip` lets a block arrive while both run.
`WordBits` = 2 keeps the overlap of `pack_u128`, `MaxU` = 4 reaches overflow and
the unlimited allowance. Users of the contract are interchangeable and declared
symmetric; no liveness property is checked there. Two requests for one payment under two vaults are
a retry with a new page, and the request, the older route and the user's own transaction
for one vault retry the same; the proofs cover any number. All safety and action properties are
proved without these bounds (section 4); they matter for the liveness properties and
for checking that the interesting cases are reached. Blocks of `SpvProof` have up to `MaxBlock` = 6 transactions, and 4 (`SmallBlock`) where
every proof and position is tried, which gives even and odd levels, a duplicated last leaf and every position in them. In the swap,
two tokens and two units let a funding be overwritten in the other token and by a
smaller amount, beside tokens sent past `fund`. In the breaker's ticks of eight seconds the
RPC timeout is 1 and the reset time 7: a call under way at a trip is over long before the
next probe unless the loop is blocked, as in the code. Two timers, two polls in a row and two submissions let a late answer
of the first meet the second; one poll is in flight at a time in the run. Two
withdrawal requests let the one that timed out and its repetition answer in either
order. Three script runs are a deployment that fails, another script, and a third
that reads what both left; `MaxAddress` allows three new contracts, `Builds` one edit of
the present vault. The largest runs are `deployment` (8.7 million states) and `pages`
(4.6 million), one to two minutes each.

**Deadlock.** The withdrawal and deposit runs set `CHECK_DEADLOCK FALSE`: each
request happens once, so the system comes to rest when all are answered. The relay,
the contracts, the breaker, the pages and the scripts never stop, and deadlock is
checked there; the deposit page rests when its bounds are used up, the swap when time
and money are.

**Fairness.** *Withdrawal:* weak fairness of the handler's own timers (8 s in
`withResilience`, 20 s in the race), of the processor's poll and of its receipt
check; of its payment in covenant mode only, where every HTTP call has a 10 s
abort, because the custodial path calls fetch without a timeout. No user, operator,
crash or network is fair. *Relay:* weak fairness of the interval and of the 5 s
pause, strong fairness of calls to the two networks: they may fail any number of
times, not for ever. *Breaker:* time passes and a timer that is due fires; nobody
has to call or answer. Beside blocking commands the fairness of a due timer is strong: each
time the loop runs again it takes its due timers before the next request. Provers and status
queries end: `spawnSync` has no timeout, so this is an assumption about scarb and
cairo-sharp that the code does not enforce, and `OpenExpires` needs it. The other modules state no fairness.

## 4. Proofs

All theorems hold for every value of the constants that satisfies the named
assumptions (`ConstantsOK`, `RelayConstants`, `ContractConstants`, `SpvConstants`,
`DepositConstants`, `BreakerConstants`, `HtlcConstants`, `PageAssumption`,
`NamesAreDistinct`, `PagesAssumption` and `DeploymentAssumption`), in particular any
number of vaults, requests, cycles, calls, provers, timers, script runs and crashes, and
blocks of any size. `ContractConstants` asks for finitely many users and finite blocks.

Every safety and action property of the passing runs is a theorem.

- **`WithdrawalProofs`**: `TypeCorrect`, `PaidAfterBurn`, `CompletedHasPayment`,
  `AskedOncePaidOnce`, `RowsArePermanent` and the refinement `PromiseKept`, from the
  invariant `IInv`.
  `PaidAfterBurnSubmitted` is not inductive: a payment attempt acts on what an
  earlier step checked, so `IInv` follows the authorization from the burn
  (`AuthBacked`, `VaultRowBacked`) through lists, attempts and payments
  (`OnlyAuthorizedPaid`, `AcceptedIsPaid`). `OneAttempt` says why one request is
  one payment: its row is never `pending`, so the processor never sees it.
- **`HeaderRelayProofs`**: `NoHeaderSkipped` and `RelayTypeCorrect` from
  `RelayInv`: each cycle has posted everything below the height it is at
  (`CyclesPost`), so whichever cycle writes the cursor last, and even when it moves
  back, nothing below it is missing.
- **`VaultContractProofs`**, the books: `MintedOnce` and `DepositsAreHeld` from
  `LedgerInv` (what was minted has its key marked spent, and the vault approves nobody);
  `SupplyCountsBalances`, by how many units a call adds to which balance (`UnitsGrow`);
  `ContractTypes`, whose bound on each balance needs that theorem, because only the
  addition to the supply is checked for overflow, and whose `latest` needs
  `LatestIsNewest`.
- **`VaultContractProofs`**, the SPV proofs: `StrippedIsLegacy` (what
  `stripWitnessData` leaves is what the txid hashes), `DepositAcceptsBuilt` (whatever the
  explorer serves for a transaction of the block passes the contract's checks) and
  `AcceptedIsInBlock` (a proof that passes is of a transaction of the block, at the place
  the position stands for), for every block; `BuiltProofsAccepted` and
  `AcceptedProofsExact` state them of the roots the header store holds. The cursor of
  `stripWitnessData` moves by the length of what it skips (`SkipTimes`), so that it stands
  at the witness when inputs and outputs are past. The tree is followed upwards for the
  first direction and downwards for the second: equal hashes have equal parts, so at each
  level the value of the walk is the node above its position.
  Both are inductions over levels of the tree. The library's induction rules take an
  operator as parameter; `Induction` states induction over a set of numbers instead,
  derived from the least element of its complement (`LeastOf`), and the recursive
  functions are unfolded by lemmas of their own.
- **`DepositsProofs`**: `OpenVaultsHaveCall`, `PaymentsOpenOneVault`,
  `DepositsReplaceNone`, `LateReceiptsReopenNothing` from `DepositInv`. The upsert of
  spv-deposit and the update of confirm-deposit have no guard; what protects the row is
  that a commitment is registered once (`OneDeposit`), a payment spent once (`OneMint`),
  and that every hash in a row was put there by a request that is over or by a
  confirmation that named it (`HashHasWriter`). Where a confirmation may name a withdraw, the theorems
  say so in their statement and not by an assumption. `HashIsOpen` also shows that,
  without the audit route, the auto-sync at start-up never finds a row to activate.
  Commitments are assumed different from amounts of satoshis, not from recipients.
- **`ProverProofs`**: for the breaker alone, `StatusMatchesCounter` and
  `OnlyProbesDecide` from `BreakerInv`: `CallsEndBeforeProbe` keeps the distance between
  the timers of calls under way and the next attempt, which uses that the RPC timeout is
  the shorter. Beside provers and status queries, `BlockedBreaker`, `BreakerTypes`,
  `BlockedStatusMatchesCounter` and `ArgumentsFilesExplained`: the invariant is weakened by
  `overdue`, calls that were due behind a blocking command are excluded from the distance
  argument, and the proof shows that no other call needs to be.
- **`HtlcProofs`**: `HtlcTypes`, `HeldAccounted`, `PayoutIsCovered`, `RowsSettleOnce`.
  That `held` equals the outstanding amount plus what is stranded is inductive together
  with the types, whatever the receivers; it is what makes every claim and refund covered.
  `Covered` adds that a refund pays an account, so that only a claim for the zero address
  can fail.
- **`FrontendProofs`**, the deposit page: `PageTypes`, `ConfirmationsMatch`,
  `ScanIsPolled`, `SuccessWasMinted` from `PageInv`. What the page shows comes from
  answers that left earlier: `AnswersHold` says they are still true when they arrive,
  because confirmations only grow, and `AnsweredIsMinted` that a success under way has a
  mint behind it.
- **`FrontendProofs`**, the other pages: `SpinnersHaveRequests` and `AnnouncedIsSubmitted`
  from `PagesInv`. `HandlersKnowBurn` says what each state of a withdrawal handler implies
  about the burn, also after the page has given the request up, and
  `OneWithdrawalAwaited` that the page waits for one request at a time, so an answer is
  never taken for that of another.
- **`DeploymentProofs`**: `FilesNamePairs` and `OnlyTheWrittenVaultMismatches` from `DeploymentInv`.
  What keeps deployments apart is a property of each script's list of steps
  (`SoundScript`): a vault is made after its token and store, a printed block that names
  the vault names every contract that is new with it, a file is appended to only by the
  script that was given its token. `AllScriptsSound` proves it of the 38 scripts, by
  shape; the rest of the proof is about the engine and holds for any list of sound
  scripts. While a script runs, `JobIsSound` relates the addresses it holds to the steps
  it has left, so that wherever it fails, what it has printed or written is a pair.
  `PrintedMatches` says that the block printed last still fits `.env` when it is pasted
  later, and `.env` with its defaults fits the chain (`EnvMatches`) because the scripts
  edit only names the backend does not read.

Only model-checked: the liveness properties (`HandlerTerminates`, `PendingIsTaken`,
`BlocksArePosted`, `OpenExpires`), which TLAPS cannot prove under fairness. What the
violation runs show is shown by their counterexamples.

## 5. Not modelled, and why

Hash functions, encryption, byte parsing and address formats are single-value
computations abstracted to what they decide. Amounts are abstracted in the withdrawal,
so the disagreement about units is a finding without a run. The `commitments` and
`transactions` tables are written beside the vault row and read only by audits.
Privacy and transaction listings, rate limits and body validation keep no state that
the others read. The proof-token withdrawal cannot complete: its token needs
`is_commitment_registered`, which the backend's ABI does not contain, and its last check
looks for the nullifier in the data of an event that carries it as a key.
`StarknetProofService` is imported and never called. `SpvProof` assumes that the service
looks for the script the contract accepts: GET /spv-proof takes it from
`VAULT_BITCOIN_SCRIPT_PUBKEY` and defaults to the P2WPKH script of an earlier vault
(`bridge.ts` 180–184), with which it finds no output of a covenant payment. Scripts that only declare, query,
fund accounts or serve as compiled twins of others, `setup_covenant.js` (which prints a
random placeholder address) and `archive/` are left out.

Crashes in `Withdrawal` fall at awaits and between the insert and the mark of an
authorization; further pairs of synchronous SQLite statements would add states in which
the process dies within microseconds. `Deposits` and `Withdrawal` share the vault row and
are checked apart: `Withdrawal` starts from active rows, which is what `OpenHasVaultCall`
of `Deposits` is about, and the `Withdraw` action of `Deposits` is what `Withdrawal`
does to the row.

## 6. Order of work, and what could follow

The withdrawal pipeline came first, then the relay and the contracts, the deposits and
the breaker; the swap, the prover, SPV, the pages and the scripts after them. What could
follow: an abstract specification of a vault's life
(absent, open, closed) that `Deposits` implements; the composition of both over one row
with audit/verify, which reopens withdrawn vaults; amounts with their two units in
`Withdrawal`.
