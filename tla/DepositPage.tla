------------------------------ MODULE DepositPage ------------------------------
(***************************************************************************)
(* The deposit page of the frontend, with the bridge routes it polls and   *)
(* the Bitcoin address every user of the bridge pays to.                   *)
(*                                                                         *)
(* One page is modelled; the pages of other users are its environment.     *)
(* React batches the state changes of one handler and then runs the        *)
(* effects whose dependencies changed, so a handler between two awaits and *)
(* the effects it triggers are one action.  A handler keeps the values of  *)
(* the render it was created in: the timers of startPolling only ever see  *)
(* step = 2, the only step whose buttons start them.                       *)
(***************************************************************************)
EXTENDS XverseWallet, Sequences, FiniteSets

CONSTANTS
    Txs,           \* Bitcoin transactions that may pay the bridge's address
    Amounts,       \* the denominations
    MaxConf,       \* confirmations are counted up to here
    MaxIntervals,  \* timers the page starts
    MaxPolls,      \* polls in flight at a time
    MaxSubmits     \* submissions the page makes

ASSUME PageAssumption ==
    /\ MaxConf \in Nat \ {0} /\ MaxIntervals \in Nat \ {0}
    /\ MaxPolls \in Nat \ {0} /\ MaxSubmits \in Nat \ {0}

NoTx == "none"
NoAmount == "empty"
Other == "other"     \* the commitment, or the payer, of another user

Timers == 1..MaxIntervals
Slots == 1..MaxPolls

ASSUME NamesAreDistinct ==
    /\ Txs \cap {NoTx, "free", "closed", "open"} = {}
    /\ NoAmount \notin Amounts /\ Other \notin Amounts

VARIABLES
    step, amount, loading, asked, commitment,   \* asked: the amount in the request of step 1
    hasSentBTC, isScanning, bitcoinTx, confirmations, submitError, submitSuccess,
    live,          \* the timers that still tick
    intervalRef,   \* the one timer the page remembers (0: none)
    poller,        \* what each timer captured: the amount, and the transactions older than "since"
    polls,         \* the polls in flight, each with the answer it will bring
    sending,       \* isWalletSending: the promise of sendBitcoin is pending
    popup,         \* the wallet's own state: "closed", "open", or the transaction it sent
    click,         \* what handleWalletSend captured when it was clicked
    broadcasting,  \* isBroadcasting: the amount asked for, or empty
    subs,          \* the submissions of this page, oldest first
    conf,          \* -1: not sent, 0: in the mempool, n: confirmations
    value,         \* the amount of each transaction sent
    minted,        \* the pairs [com, tx] the vault contract has accepted
    known          \* the transactions the backend's vault rows name

form == <<step, amount, loading, asked, commitment>>
scan == <<hasSentBTC, isScanning, live, intervalRef, poller>>
shown == <<bitcoinTx, confirmations>>
outcome == <<submitError, submitSuccess, subs>>
wallet == <<sending, popup, click, broadcasting>>
bitcoin == <<conf, value>>
bridge == <<minted, known>>
vars == <<form, scan, shown, outcome, polls, wallet, bitcoin, bridge, walletVars>>

Answers == [tx : Txs \cup {NoTx}, conf : 0..MaxConf]
None == [tx |-> NoTx, conf |-> 0]
Free == [tx |-> "free", conf |-> 0]
Capture == [amount : Amounts \cup {NoAmount}, old : SUBSET Txs]
Nothing == [amount |-> NoAmount, old |-> {}]

Init ==
    /\ step = 1 /\ amount = NoAmount /\ loading = FALSE
    /\ asked = NoAmount /\ commitment = NoAmount
    /\ hasSentBTC = FALSE /\ isScanning = FALSE /\ live = {} /\ intervalRef = 0
    /\ poller = [i \in Timers |-> Nothing] /\ click = Nothing
    /\ bitcoinTx = NoTx /\ confirmations = 0
    /\ submitError = FALSE /\ submitSuccess = FALSE /\ subs = <<>>
    /\ polls = [s \in Slots |-> Free]
    /\ sending = FALSE /\ popup = "closed" /\ broadcasting = NoAmount
    /\ conf = [t \in Txs |-> 0 - 1] /\ value = [t \in Txs |-> NoAmount]
    /\ minted = {} /\ known = {}
    /\ WalletInit

-----------------------------------------------------------------------------
(* Step 1: the form. *)

SelectAmount(a) ==
    /\ step = 1
    /\ amount' = a
    /\ UNCHANGED <<step, loading, asked, commitment, scan, shown, outcome, polls, wallet,
                   bitcoin, bridge, walletVars>>

(* The fields stay enabled while the request is under way: the request     *)
(* carries the amount of the click.                                        *)
GenerateCommitment ==
    /\ step = 1 /\ amount # NoAmount /\ ~loading
    /\ loading' = TRUE /\ asked' = amount
    /\ UNCHANGED <<step, amount, commitment, scan, shown, outcome, polls, wallet, bitcoin,
                   bridge, walletVars>>

CommitmentGenerated ==
    /\ loading
    /\ commitment' = asked /\ step' = 2
    /\ loading' = FALSE /\ asked' = NoAmount
    /\ UNCHANGED <<amount, scan, shown, outcome, polls, wallet, bitcoin, bridge, walletVars>>

(* The second request, for the address, can fail after the commitment is set. *)
GenerationFails ==
    /\ loading
    /\ commitment' \in {commitment, asked}
    /\ loading' = FALSE /\ asked' = NoAmount
    /\ UNCHANGED <<step, amount, scan, shown, outcome, polls, wallet, bitcoin, bridge, walletVars>>

-----------------------------------------------------------------------------
(* Showing a transaction, and the effect that submits it. *)

(* handleSubmitStarknet runs when step, transaction or confirmations have  *)
(* changed and the page shows a confirmed transaction in step 3.           *)
SubmitEffect ==
    IF /\ step' = 3 /\ bitcoinTx' # NoTx /\ confirmations' >= 1
       /\ <<step, bitcoinTx, confirmations>>' # <<step, bitcoinTx, confirmations>>
    THEN /\ Len(subs) < MaxSubmits
         /\ subs' = Append(subs, [tx |-> bitcoinTx', com |-> commitment, st |-> "sent"])
         /\ submitError' = FALSE
    ELSE UNCHANGED <<subs, submitError>>

ShowTransaction(t, n) == step' = 3 /\ bitcoinTx' = t /\ confirmations' = n

(* The confirmations of the transaction shown before are kept. *)
KeepsConfirmations(t, captured) ==
    /\ intervalRef < MaxIntervals
    /\ intervalRef' = intervalRef + 1
    /\ live' = live \cup {intervalRef + 1}
    /\ poller' = [poller EXCEPT ![intervalRef + 1] = captured]
    /\ hasSentBTC' = TRUE
    /\ isScanning' = (t = NoTx)
    /\ IF t = NoTx THEN UNCHANGED <<step, shown>> ELSE ShowTransaction(t, confirmations)

(* startPolling: a transaction the wallet named is shown at once, without  *)
(* confirmations; the new timer replaces the one the page remembers.       *)
StartPolling(t, captured) ==
    /\ intervalRef < MaxIntervals
    /\ intervalRef' = intervalRef + 1
    /\ live' = live \cup {intervalRef + 1}
    /\ poller' = [poller EXCEPT ![intervalRef + 1] = captured]
    /\ hasSentBTC' = TRUE
    /\ isScanning' = (t = NoTx)
    /\ IF t = NoTx THEN UNCHANGED <<step, shown>> ELSE ShowTransaction(t, 0)

-----------------------------------------------------------------------------
(* Step 2: paying. *)

CanSend == step = 2 /\ ~hasSentBTC

Captures(a, old) == [amount |-> a, old |-> old]

(* Whoever pays: the transaction enters the mempool. *)
Pays(t, a) ==
    /\ conf[t] = 0 - 1
    /\ conf' = [conf EXCEPT ![t] = 0]
    /\ value' = [value EXCEPT ![t] = a]

(* The user pays from any wallet, and says so, in either order. *)
ManualSend(t) ==
    /\ step = 2 /\ Pays(t, amount)
    /\ UNCHANGED <<form, scan, shown, outcome, polls, wallet, bridge, walletVars>>

ManuallySent ==
    /\ CanSend
    /\ StartPolling(NoTx, Captures(amount, {}))
    /\ UNCHANGED <<amount, loading, asked, commitment, outcome, polls, wallet, bitcoin, bridge,
                   walletVars>>

(* handleAutoSend: the backend pays from its own wallet; its answer can be *)
(* lost after the payment.                                                 *)
AutoSend ==
    /\ CanSend /\ broadcasting = NoAmount
    /\ broadcasting' = amount
    /\ UNCHANGED <<form, scan, shown, outcome, polls, sending, popup, click, bitcoin, bridge,
                   walletVars>>

AutoSent(t) ==
    /\ broadcasting # NoAmount /\ broadcasting' = NoAmount
    /\ Pays(t, broadcasting)
    /\ StartPolling(NoTx, Captures(broadcasting, {}))
    /\ UNCHANGED <<amount, loading, asked, commitment, outcome, polls, sending, popup, click,
                   bridge, walletVars>>

AutoSendFails ==
    /\ broadcasting # NoAmount /\ broadcasting' = NoAmount
    /\ UNCHANGED bitcoin \/ \E t \in Txs : Pays(t, broadcasting)
    /\ UNCHANGED <<form, scan, shown, outcome, polls, sending, popup, click, bridge, walletVars>>

(* handleWalletSend: payments mined before the click will not be considered. *)
WalletSend ==
    /\ CanSend /\ isConnected /\ ~sending
    /\ sending' = TRUE /\ popup' = "open"
    /\ click' = Captures(amount, {u \in Txs : conf[u] >= 1})
    /\ UNCHANGED <<form, scan, shown, outcome, polls, broadcasting, bitcoin, bridge, walletVars>>

(* The user approves in the wallet, possibly after the page's 15 s timer. *)
WalletPays(t) ==
    /\ popup = "open" /\ popup' = IF sending THEN t ELSE "closed"
    /\ Pays(t, click.amount)
    /\ UNCHANGED <<form, scan, shown, outcome, polls, sending, click, broadcasting, bridge,
                   walletVars>>

(* The promise of sendBitcoin resolves with the transaction (onFinish), or *)
(* with "pending": by the timer, by a closed popup, or by an answer that   *)
(* names no transaction.                                                   *)
WalletSendResolves ==
    /\ sending /\ sending' = FALSE
    /\ \/ /\ popup \in Txs /\ popup' = "closed"
          /\ StartPolling(popup, click)
       \/ /\ popup' \in {"closed"} \cup ({popup} \cap {"open"})
          /\ StartPolling(NoTx, click)
    /\ UNCHANGED <<amount, loading, asked, commitment, outcome, polls, click, broadcasting,
                   bitcoin, bridge, walletVars>>

WalletSendFails ==
    /\ sending /\ sending' = FALSE
    /\ popup = "open" /\ popup' = "closed"
    /\ UNCHANGED <<form, scan, shown, outcome, polls, click, broadcasting, bitcoin, bridge,
                   walletVars>>

-----------------------------------------------------------------------------
(* The poll: detect-lock on the backend, and its answer on the page. *)

Unused == {t \in Txs : conf[t] >= 0 /\ t \notin known}

(* Step 1 of detectBTCLock: an unconfirmed payment of the right amount. *)
InMempool(c) == {t \in Unused : conf[t] = 0 /\ value[t] = c.amount}

(* Step 2: the unspent outputs that are not too old; those of the right    *)
(* amount when there are any, unconfirmed before confirmed, newest first.  *)
Candidates(c) ==
    LET fresh == {t \in Unused : conf[t] = 0 \/ t \notin c.old}
        matching == {t \in fresh : value[t] = c.amount}
        ranked == IF matching # {} THEN matching ELSE fresh
    IN  {t \in ranked : \A u \in ranked : conf[t] <= conf[u]}

(* The confirmations are 1 when the height of the tip cannot be read. *)
Found(t) == {[tx |-> t, conf |-> n] : n \in IF conf[t] = 0 THEN {0} ELSE {1, conf[t]}}

(* What detectLock can answer: the mempool is looked at first, either      *)
(* look can fail, and an explorer that does not answer finds nothing.      *)
DetectLock(c) ==
    {None} \cup {[tx |-> t, conf |-> 0] : t \in InMempool(c)}
           \cup UNION {Found(t) : t \in Candidates(c)}

Poll(i, s) ==
    /\ i \in live /\ polls[s] = Free
    /\ polls' \in {[polls EXCEPT ![s] = a] : a \in DetectLock(poller[i])}
    /\ UNCHANGED <<form, scan, shown, outcome, wallet, bitcoin, bridge, walletVars>>

(* The page goes on scanning. *)
DetectedStillScanning(s) ==
    /\ polls[s].tx \in Txs
    /\ polls' = [polls EXCEPT ![s] = Free]
    /\ ShowTransaction(polls[s].tx, polls[s].conf)
    /\ live' = IF polls[s].conf >= 1 THEN live \ {intervalRef} ELSE live
    /\ SubmitEffect
    /\ UNCHANGED <<amount, loading, asked, commitment, hasSentBTC, isScanning, intervalRef, poller,
                   submitSuccess, wallet, bitcoin, bridge, walletVars>>

(* An answer that names a transaction is shown, whatever the page shows by *)
(* then: "step < 3" reads the step the timer was started in.  The timer    *)
(* the page remembers stops at the first confirmation.                     *)
PollDetected(s) ==
    /\ polls[s].tx \in Txs
    /\ polls' = [polls EXCEPT ![s] = Free]
    /\ ShowTransaction(polls[s].tx, polls[s].conf)
    /\ isScanning' = FALSE
    /\ live' = IF polls[s].conf >= 1 THEN live \ {intervalRef} ELSE live
    /\ SubmitEffect
    /\ UNCHANGED <<amount, loading, asked, commitment, hasSentBTC, intervalRef, poller,
                   submitSuccess, wallet, bitcoin, bridge, walletVars>>

PollEmpty(s) ==
    /\ polls[s] = None
    /\ polls' = [polls EXCEPT ![s] = Free]
    /\ UNCHANGED <<form, scan, shown, outcome, wallet, bitcoin, bridge, walletVars>>

(* The attempt was the last, or the tenth that met no backend. *)
PollGivesUp(s) ==
    /\ polls[s] = None
    /\ polls' = [polls EXCEPT ![s] = Free]
    /\ live' = live \ {intervalRef}
    /\ isScanning' = FALSE /\ hasSentBTC' = FALSE
    /\ UNCHANGED <<form, intervalRef, poller, shown, outcome, wallet, bitcoin, bridge, walletVars>>

-----------------------------------------------------------------------------
(* Step 3: handleSubmitStarknet, its proof and its spv-deposit. *)

Spent(t) == \E m \in minted : m.tx = t
Registered(c) == \E m \in minted : m.com = c

SetSub(k, st) == [subs EXCEPT ![k].st = st]

(* The vault accepts the proof of a confirmed payment that is not spent,   *)
(* for a commitment that is new.  The row that names the transaction is    *)
(* written after it, when the backend is still waiting and the row fits.   *)
SubmitMints(k) ==
    /\ subs[k].st = "sent"
    /\ conf[subs[k].tx] >= 1 /\ ~Spent(subs[k].tx) /\ ~Registered(subs[k].com)
    /\ minted' = minted \cup {[com |-> subs[k].com, tx |-> subs[k].tx]}
    /\ \/ subs' = SetSub(k, "ok") /\ known' \in {known, known \cup {subs[k].tx}}
       \/ subs' = SetSub(k, "error") /\ known' = known
    /\ UNCHANGED <<form, scan, shown, submitError, submitSuccess, polls, wallet, bitcoin,
                   walletVars>>

(* No proof, no header, a refusal of the contract, a lost answer. *)
SubmitRefused(k) ==
    /\ subs[k].st \in {"sent", "ok"}
    /\ subs' = SetSub(k, "error")
    /\ UNCHANGED <<form, scan, shown, submitError, submitSuccess, polls, wallet, bitcoin, bridge,
                   walletVars>>

(* The status of the response is not looked at. *)
SucceedsWhateverTheStatus(k) ==
    /\ subs[k].st \in {"ok", "error"}
    /\ subs' = SetSub(k, "done")
    /\ submitSuccess' = TRUE /\ step' = 4
    /\ UNCHANGED <<amount, loading, asked, commitment, scan, shown, submitError, polls, wallet,
                   bitcoin, bridge, walletVars>>

SubmitSucceeds(k) ==
    /\ subs[k].st = "ok"
    /\ subs' = SetSub(k, "done")
    /\ submitSuccess' = TRUE /\ step' = 4
    /\ UNCHANGED <<amount, loading, asked, commitment, scan, shown, submitError, polls, wallet,
                   bitcoin, bridge, walletVars>>

SubmitFails(k) ==
    /\ subs[k].st = "error"
    /\ subs' = SetSub(k, "done")
    /\ submitError' = TRUE
    /\ UNCHANGED <<form, scan, shown, submitSuccess, polls, wallet, bitcoin, bridge, walletVars>>

(* "Start New Deposit" keeps the secret, the transaction, its              *)
(* confirmations and hasSentBTC.                                           *)
StartNewDeposit ==
    /\ step = 3 /\ submitSuccess
    /\ step' = 1 /\ submitSuccess' = FALSE /\ commitment' = NoAmount /\ amount' = NoAmount
    /\ UNCHANGED <<loading, asked, scan, shown, submitError, subs, polls, wallet, bitcoin, bridge,
                   walletVars>>

-----------------------------------------------------------------------------
(* The environment: miners, and the pages of other users. *)

Mine ==
    /\ \E mined \in SUBSET {t \in Txs : conf[t] = 0} :
         conf' = [t \in Txs |-> IF conf[t] >= 1 /\ conf[t] < MaxConf THEN conf[t] + 1
                                ELSE IF t \in mined THEN 1 ELSE conf[t]]
    /\ conf' # conf
    /\ UNCHANGED <<value, form, scan, shown, outcome, polls, wallet, bridge, walletVars>>

OtherPays(t, a) ==
    /\ Pays(t, a)
    /\ UNCHANGED <<form, scan, shown, outcome, polls, wallet, bridge, walletVars>>

(* Another page submits a payment it detected, this user's included. *)
OtherMints(t) ==
    /\ conf[t] >= 1 /\ ~Spent(t)
    /\ minted' = minted \cup {[com |-> Other, tx |-> t]}
    /\ known' \in {known, known \cup {t}}
    /\ UNCHANGED <<form, scan, shown, outcome, polls, wallet, bitcoin, walletVars>>

WalletStep == WalletNext /\ UNCHANGED <<form, scan, shown, outcome, polls, wallet, bitcoin, bridge>>

Next ==
    \/ \E a \in Amounts : SelectAmount(a)
    \/ GenerateCommitment \/ CommitmentGenerated \/ GenerationFails
    \/ ManuallySent \/ AutoSend \/ AutoSendFails
    \/ WalletSend \/ WalletSendResolves \/ WalletSendFails
    \/ \E t \in Txs :
        \/ ManualSend(t) \/ AutoSent(t) \/ WalletPays(t) \/ OtherMints(t)
        \/ \E a \in Amounts : OtherPays(t, a)
    \/ \E s \in Slots :
        \/ \E i \in Timers : Poll(i, s)
        \/ PollDetected(s) \/ PollEmpty(s) \/ PollGivesUp(s)
    \/ \E k \in DOMAIN subs :
        SubmitMints(k) \/ SubmitRefused(k) \/ SubmitSucceeds(k) \/ SubmitFails(k)
    \/ StartNewDeposit \/ Mine \/ WalletStep

Spec == Init /\ [][Next]_vars

-----------------------------------------------------------------------------
(* Properties. *)

FormTypeOK ==
    /\ step \in 1..4 /\ loading \in BOOLEAN
    /\ amount \in Amounts \cup {NoAmount} /\ asked \in Amounts \cup {NoAmount}
    /\ commitment \in Amounts \cup {NoAmount} /\ broadcasting \in Amounts \cup {NoAmount}

ScanTypeOK ==
    /\ hasSentBTC \in BOOLEAN /\ isScanning \in BOOLEAN
    /\ bitcoinTx \in Txs \cup {NoTx} /\ confirmations \in 0..MaxConf
    /\ live \subseteq 1..intervalRef /\ intervalRef \in 0..MaxIntervals
    /\ poller \in [Timers -> Capture] /\ click \in Capture
    /\ polls \in [Slots -> Answers \cup {Free}]
    /\ sending \in BOOLEAN /\ popup \in {"closed", "open"} \cup Txs

Submission == [tx : Txs, com : Amounts \cup {NoAmount}, st : {"sent", "ok", "error", "done"}]

SubmitTypeOK ==
    /\ submitError \in BOOLEAN /\ submitSuccess \in BOOLEAN
    /\ subs \in Seq(Submission)
    /\ minted \subseteq [com : Amounts \cup {NoAmount, Other}, tx : Txs]
    /\ known \subseteq Txs

ChainTypeOK == conf \in [Txs -> (0 - 1)..MaxConf] /\ value \in [Txs -> Amounts \cup {NoAmount}]

PageTypeOK == FormTypeOK /\ ScanTypeOK /\ SubmitTypeOK /\ ChainTypeOK /\ WalletTypeOK

(* The confirmations on the page belong to the transaction on the page, in *)
(* whatever order polls, wallet and timers answer: a submission starts     *)
(* from them alone, so no unconfirmed payment is ever submitted.           *)
ConfirmationsAreOfShownTx ==
    bitcoinTx # NoTx => confirmations <= conf[bitcoinTx]

(* While the page says that it scans the mempool, the timer it remembers   *)
(* is running, whichever timer gave up or found something.                 *)
ScanningIsPolled == isScanning => intervalRef \in live

(* "Deposit Successful" is shown for a commitment of this page that the    *)
(* vault has minted for.                                                   *)
SuccessIsMinted ==
    submitSuccess => \E m \in minted, k \in DOMAIN subs :
                        m.com = subs[k].com /\ m.tx = subs[k].tx /\ subs[k].st = "done"

(* The route that refuses a deposit for a missing header asks to wait and  *)
(* retry (bridge.ts): a page whose submission failed has a way to submit   *)
(* again, a poll that is still to come.                                    *)
FailedSubmitCanBeRetried ==
    (step = 3 /\ submitError /\ ~submitSuccess /\ \A k \in DOMAIN subs : subs[k].st = "done")
        => live # {} \/ \E s \in Slots : polls[s] # Free
=============================================================================
