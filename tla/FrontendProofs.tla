---------------------------- MODULE FrontendProofs ----------------------------
(***************************************************************************)
(* Proofs about the frontend.                                              *)
(*                                                                         *)
(* First the deposit page, for any number of timers, polls, submissions,   *)
(* transactions and amounts.                                               *)
(*                                                                         *)
(* Then the dashboard, the audit page and the withdrawal page, for any     *)
(* number of overlapping requests.  A spinner matches its request because  *)
(* every handler that starts one also sets the flag and every ending of a  *)
(* request clears it; that the withdrawal page tells the truth rests on    *)
(* what each state of a withdrawal request says of Starknet and Bitcoin.   *)
(***************************************************************************)
EXTENDS DepositPage, Pages, FiniteSetTheorems, SequenceTheorems, TLAPS

(* The wallet hook keeps its types; a refused, failed or finished call has   *)
(* no timer (useXverseWallet.ts).                                           *)
LEMMA WalletTypes == WalletTypeOK /\ WalletNext => WalletTypeOK'
  <1> USE DEF WalletTypeOK
  <1> SUFFICES ASSUME WalletTypeOK, WalletNext PROVE WalletTypeOK'
    OBVIOUS
  <1>1. ASSUME PresumeInstalled PROVE WalletTypeOK'
    BY <1>1 DEF PresumeInstalled
  <1>2. ASSUME DisconnectWallet PROVE WalletTypeOK'
    BY <1>2 DEF DisconnectWallet
  <1>3. ASSUME NEW c \in Calls, ConnectWallet(c) PROVE WalletTypeOK'
    BY <1>3 DEF ConnectWallet
  <1>4. ASSUME NEW c \in Calls, ConnectTimesOut(c) PROVE WalletTypeOK'
    BY <1>4 DEF ConnectTimesOut
  <1>5. ASSUME NEW c \in Calls, SessionGranted(c) PROVE WalletTypeOK'
    BY <1>5 DEF SessionGranted
  <1>6. ASSUME NEW c \in Calls, SessionRefused(c) PROVE WalletTypeOK'
    BY <1>6 DEF SessionRefused, CallFails
  <1>7. ASSUME NEW c \in Calls, AddressesGranted(c) PROVE WalletTypeOK'
    BY <1>7 DEF AddressesGranted
  <1>8. ASSUME NEW c \in Calls, AddressesRefused(c) PROVE WalletTypeOK'
    BY <1>8 DEF AddressesRefused, CallFails
  <1>9. ASSUME NEW c \in Calls, AddressesError(c) PROVE WalletTypeOK'
    BY <1>9 DEF AddressesError
  <1>10. ASSUME NEW c \in Calls, RequestThrows(c) PROVE WalletTypeOK'
    BY <1>10 DEF RequestThrows, CallFails
  <1> QED
    BY <1>1, <1>2, <1>3, <1>4, <1>5, <1>6, <1>7, <1>8, <1>9, <1>10 DEF WalletNext

(* While the page scans, its timer runs.                                    *)
LEMMA ScanningStep == ScanningIsPolled /\ [Next]_vars => ScanningIsPolled'
  <1> SUFFICES ASSUME ScanningIsPolled, [Next]_vars PROVE ScanningIsPolled'
    OBVIOUS
  <1>1. CASE UNCHANGED scan
    BY <1>1 DEF scan, ScanningIsPolled
  <1>2. ASSUME NEW t, NEW c, StartPolling(t, c) PROVE ScanningIsPolled'
    BY <1>2 DEF StartPolling, ScanningIsPolled
  <1>3. ASSUME NEW s \in Slots, PollDetected(s) PROVE ScanningIsPolled'
    BY <1>3 DEF PollDetected, ScanningIsPolled
  <1>4. ASSUME NEW s \in Slots, PollGivesUp(s) PROVE ScanningIsPolled'
    BY <1>4 DEF PollGivesUp, ScanningIsPolled
  <1> QED
    BY <1>1, <1>2, <1>3, <1>4 DEF Next, vars, SelectAmount, GenerateCommitment,
       CommitmentGenerated, GenerationFails, ManuallySent, AutoSend, AutoSendFails,
       WalletSend, WalletSendResolves, WalletSendFails, ManualSend, AutoSent,
       WalletPays, OtherMints, OtherPays, Poll, PollEmpty, SubmitMints, SubmitRefused,
       SubmitSucceeds, SubmitFails, StartNewDeposit, Mine, WalletStep

(* The form: what a request of step 1 carries is an amount once one has been *)
(* chosen (page.tsx, step 1 and handleAutoSend).                            *)
LEMMA FormTypes == PageTypeOK /\ [Next]_vars => FormTypeOK'
  <1> SUFFICES ASSUME PageTypeOK, [Next]_vars PROVE FormTypeOK'
    OBVIOUS
  <1> USE DEF PageTypeOK, FormTypeOK
  <1>1. CASE UNCHANGED <<form, broadcasting>>
    BY <1>1 DEF form
  <1>2. ASSUME NEW a \in Amounts, SelectAmount(a) PROVE FormTypeOK'
    BY <1>2 DEF SelectAmount, wallet
  <1>3. CASE GenerateCommitment
    BY <1>3 DEF GenerateCommitment, wallet
  <1>4. CASE CommitmentGenerated \/ GenerationFails
    <2>1. /\ asked' = NoAmount /\ loading' = FALSE
          /\ amount' = amount /\ broadcasting' = broadcasting
          /\ step' = step \/ step' = 2
          /\ commitment' = commitment \/ commitment' = asked
      BY <1>4 DEF CommitmentGenerated, GenerationFails, wallet
    <2>2. step' \in 1..4
      BY <2>1
    <2>3. loading' \in BOOLEAN
      BY <2>1, Zenon
    <2>4. commitment' \in Amounts \cup {NoAmount} /\ asked' \in Amounts \cup {NoAmount}
      BY <2>1
    <2> QED
      BY <2>1, <2>2, <2>3, <2>4
  <1>5. ASSUME NEW t, NEW c, StartPolling(t, c), UNCHANGED <<amount, loading, asked, commitment>>,
               broadcasting' \in {broadcasting, NoAmount}
        PROVE  FormTypeOK'
    BY <1>5 DEF StartPolling, ShowTransaction
  <1>6. CASE AutoSend \/ AutoSendFails
    BY <1>6 DEF AutoSend, AutoSendFails, form
  <1>7. ASSUME NEW s \in Slots, PollDetected(s) PROVE FormTypeOK'
    BY <1>7 DEF PollDetected, ShowTransaction, wallet
  <1>8. ASSUME NEW k \in DOMAIN subs, SubmitSucceeds(k) PROVE FormTypeOK'
    BY <1>8 DEF SubmitSucceeds, wallet
  <1>9. CASE StartNewDeposit
    BY <1>9 DEF StartNewDeposit, wallet
  <1> QED
    BY <1>1, <1>2, <1>3, <1>4, <1>5, <1>6, <1>7, <1>8, <1>9 DEF Next, vars, wallet,
       ManuallySent, WalletSend, WalletSendResolves, WalletSendFails, ManualSend, AutoSent,
       WalletPays, OtherMints, OtherPays, Poll, PollEmpty, PollGivesUp, SubmitMints,
       SubmitRefused, SubmitFails, Mine, WalletStep

(* The chain: a transaction is sent, mined and confirmed, never taken back.  *)
LEMMA ChainTypes == PageTypeOK /\ [Next]_vars => ChainTypeOK' /\ \A t \in Txs : conf[t] <= conf'[t]
  <1> DEFINE Grows == ChainTypeOK' /\ \A t \in Txs : conf[t] <= conf'[t]
  <1> SUFFICES ASSUME PageTypeOK, [Next]_vars PROVE Grows
    OBVIOUS
  <1> USE PageAssumption DEF PageTypeOK, ChainTypeOK
  <1>1. CASE UNCHANGED bitcoin
    BY <1>1 DEF bitcoin
  <1>2. ASSUME NEW t \in Txs, NEW a \in Amounts \cup {NoAmount}, Pays(t, a) PROVE Grows
    BY <1>2 DEF Pays
  <1>3. CASE Mine
    BY <1>3 DEF Mine
  <1>4. amount \in Amounts \cup {NoAmount} /\ broadcasting \in Amounts \cup {NoAmount}
          /\ click.amount \in Amounts \cup {NoAmount}
    BY DEF FormTypeOK, ScanTypeOK, Capture
  <1> HIDE DEF Grows
  <1> QED
    BY <1>1, <1>2, <1>3, <1>4 DEF Next, vars, SelectAmount, GenerateCommitment,
       CommitmentGenerated, GenerationFails, ManuallySent, AutoSend, AutoSendFails,
       WalletSend, WalletSendResolves, WalletSendFails, ManualSend, AutoSent,
       WalletPays, OtherMints, OtherPays, Poll, PollDetected, PollEmpty, PollGivesUp,
       SubmitMints, SubmitRefused, SubmitSucceeds, SubmitFails, StartNewDeposit, WalletStep

(* What detect-lock can answer about a payment is true of the chain.        *)
LEMMA AnswersAreTrue ==
    ASSUME PageTypeOK, NEW c \in Capture, NEW a \in DetectLock(c)
    PROVE  a \in Answers /\ (a.tx \in Txs => a.conf <= conf[a.tx])
  <1> USE PageAssumption, NamesAreDistinct DEF PageTypeOK, ChainTypeOK, Answers
  <1>1. CASE a = None
    BY <1>1 DEF None
  <1>2. ASSUME NEW t \in InMempool(c), a = [tx |-> t, conf |-> 0]
        PROVE  a \in Answers /\ (a.tx \in Txs => a.conf <= conf[a.tx])
    BY <1>2 DEF InMempool, Unused
  <1>3. ASSUME NEW t \in Candidates(c), a \in Found(t)
        PROVE  a \in Answers /\ (a.tx \in Txs => a.conf <= conf[a.tx])
    <2>1. t \in Txs /\ conf[t] \in 0..MaxConf
      BY DEF Candidates, Unused
    <2>2. PICK n \in IF conf[t] = 0 THEN {0} ELSE {1, conf[t]} : a = [tx |-> t, conf |-> n]
      BY <1>3 DEF Found
    <2>3. n \in 0..MaxConf /\ n <= conf[t]
      BY <2>1, <2>2
    <2> QED
      BY <2>1, <2>2, <2>3
  <1> QED
    BY <1>1, <1>2, <1>3 DEF DetectLock

(* Timers, polls, the transaction shown and the wallet's popup.             *)
LEMMA ScanTypes == PageTypeOK /\ [Next]_vars => ScanTypeOK'
  <1> SUFFICES ASSUME PageTypeOK, [Next]_vars PROVE ScanTypeOK'
    OBVIOUS
  <1> USE PageAssumption, NamesAreDistinct DEF PageTypeOK, ScanTypeOK
  <1> DEFINE Popup == <<sending, popup, click>>
  <1>1. CASE UNCHANGED <<scan, shown, polls, Popup>>
    BY <1>1 DEF scan, shown
  <1>2. ASSUME NEW t \in Txs \cup {NoTx}, NEW c \in Capture, StartPolling(t, c),
               UNCHANGED <<polls, click>>, sending' \in BOOLEAN,
               popup' \in {"closed", "open"} \cup Txs
        PROVE  ScanTypeOK'
    <2>1. intervalRef' \in 0..MaxIntervals /\ intervalRef + 1 \in Timers
      BY <1>2 DEF StartPolling, Timers
    <2>2. live' \subseteq 1..intervalRef' /\ poller' \in [Timers -> Capture]
      BY <1>2, <2>1 DEF StartPolling
    <2>3. bitcoinTx' \in Txs \cup {NoTx} /\ confirmations' \in 0..MaxConf
      BY <1>2 DEF StartPolling, ShowTransaction, shown
    <2>4. hasSentBTC' \in BOOLEAN /\ isScanning' \in BOOLEAN
      BY <1>2, Zenon DEF StartPolling
    <2> QED
      BY <1>2, <2>1, <2>2, <2>3, <2>4
  <1>3. ASSUME NEW a \in Amounts \cup {NoAmount}, NEW o \in SUBSET Txs PROVE Captures(a, o) \in Capture
    BY DEF Captures, Capture
  <1>4. amount \in Amounts \cup {NoAmount} /\ broadcasting \in Amounts \cup {NoAmount}
    BY DEF FormTypeOK
  <1>5. CASE ManuallySent
    BY <1>2, <1>3, <1>4, <1>5 DEF ManuallySent, wallet
  <1>6. ASSUME NEW t \in Txs, AutoSent(t) PROVE ScanTypeOK'
    BY <1>2, <1>3, <1>4, <1>6 DEF AutoSent
  <1>7. CASE WalletSend
    <2>1. click' \in Capture
      BY <1>3, <1>4, <1>7 DEF WalletSend
    <2> QED
      BY <1>7, <2>1 DEF WalletSend, scan, shown
  <1>8. CASE WalletSendResolves
    BY <1>2, <1>8 DEF WalletSendResolves
  <1>9. CASE WalletSendFails
    BY <1>9 DEF WalletSendFails, scan, shown
  <1>10. ASSUME NEW t \in Txs, WalletPays(t) PROVE ScanTypeOK'
    BY <1>10 DEF WalletPays, scan, shown
  <1>11. ASSUME NEW s \in Slots, NEW i \in Timers, Poll(i, s) PROVE ScanTypeOK'
    <2>1. PICK a \in DetectLock(poller[i]) : polls' = [polls EXCEPT ![s] = a]
      BY <1>11 DEF Poll
    <2>2. a \in Answers
      BY <2>1, AnswersAreTrue
    <2> QED
      BY <1>11, <2>1, <2>2 DEF Poll, scan, shown, wallet
  <1>12. ASSUME NEW s \in Slots, PollDetected(s) PROVE ScanTypeOK'
    <2>1. polls[s] \in Answers
      BY <1>12 DEF PollDetected, Free
    <2>2. bitcoinTx' \in Txs \cup {NoTx} /\ confirmations' \in 0..MaxConf
      BY <1>12, <2>1 DEF PollDetected, ShowTransaction, Answers
    <2>3. polls' \in [Slots -> Answers \cup {Free}]
      BY <1>12 DEF PollDetected
    <2>4. live' \subseteq 1..intervalRef
      BY <1>12 DEF PollDetected
    <2>5. isScanning' \in BOOLEAN
      BY <1>12, Zenon DEF PollDetected
    <2> QED
      BY <1>12, <2>2, <2>3, <2>4, <2>5 DEF PollDetected, wallet
  <1>13. ASSUME NEW s \in Slots, PollEmpty(s) PROVE ScanTypeOK'
    BY <1>13 DEF PollEmpty, scan, shown, wallet
  <1>14. ASSUME NEW s \in Slots, PollGivesUp(s) PROVE ScanTypeOK'
    <2>1. isScanning' \in BOOLEAN /\ hasSentBTC' \in BOOLEAN
      BY <1>14, Zenon DEF PollGivesUp
    <2> QED
      BY <1>14, <2>1 DEF PollGivesUp, shown, wallet
  <1> QED
    BY <1>1, <1>5, <1>6, <1>7, <1>8, <1>9, <1>10, <1>11, <1>12, <1>13, <1>14 DEF Next, vars,
       wallet, SelectAmount, GenerateCommitment, CommitmentGenerated, GenerationFails, AutoSend,
       AutoSendFails, ManualSend, OtherMints, OtherPays, SubmitMints, SubmitRefused,
       SubmitSucceeds, SubmitFails, StartNewDeposit, Mine, WalletStep

(* A submission keeps its place, its transaction and its commitment.        *)
LEMMA StatusOnly ==
    ASSUME SubmitTypeOK, NEW k \in DOMAIN subs,
           NEW st \in {"sent", "ok", "error", "done"}, subs' = SetSub(k, st)
    PROVE  /\ subs' \in Seq(Submission) /\ DOMAIN subs' = DOMAIN subs
           /\ subs'[k] = [subs[k] EXCEPT !.st = st]
           /\ \A j \in DOMAIN subs : j # k => subs'[j] = subs[j]
           /\ subs[k] \in Submission
  <1>1. k \in 1..Len(subs) /\ subs[k] \in Submission
    BY DEF SubmitTypeOK
  <1>2. [subs[k] EXCEPT !.st = st] \in Submission
    BY <1>1 DEF Submission
  <1>3. subs' = [subs EXCEPT ![k] = [subs[k] EXCEPT !.st = st]]
    BY DEF SetSub
  <1>4. subs' \in Seq(Submission) /\ Len(subs') = Len(subs)
    BY <1>1, <1>2, <1>3, ExceptSeq DEF SubmitTypeOK
  <1>5. DOMAIN subs' = DOMAIN subs
    BY <1>3
  <1>6. subs'[k] = [subs[k] EXCEPT !.st = st] /\ \A j \in DOMAIN subs : j # k => subs'[j] = subs[j]
    BY <1>3
  <1> QED
    BY <1>1, <1>4, <1>5, <1>6

(* The effect of a poll appends a submission of the transaction shown, or    *)
(* leaves the submissions alone.                                            *)
LEMMA EffectAppends ==
    ASSUME SubmitTypeOK, FormTypeOK, bitcoinTx' \in Txs, SubmitEffect
    PROVE  /\ subs' \in Seq(Submission) /\ submitError' \in BOOLEAN
           /\ DOMAIN subs \subseteq DOMAIN subs'
           /\ \A j \in DOMAIN subs : subs'[j] = subs[j]
           /\ \A j \in DOMAIN subs' \ DOMAIN subs : subs'[j].st = "sent"
  <1>1. CASE UNCHANGED <<subs, submitError>>
    BY <1>1 DEF SubmitTypeOK
  <1>2. ASSUME subs' = Append(subs, [tx |-> bitcoinTx', com |-> commitment, st |-> "sent"]),
               submitError' = FALSE
        PROVE  /\ subs' \in Seq(Submission) /\ submitError' \in BOOLEAN
               /\ DOMAIN subs \subseteq DOMAIN subs'
               /\ \A j \in DOMAIN subs : subs'[j] = subs[j]
               /\ \A j \in DOMAIN subs' \ DOMAIN subs : subs'[j].st = "sent"
    <2> DEFINE new == [tx |-> bitcoinTx', com |-> commitment, st |-> "sent"]
    <2>1. new \in Submission
      BY DEF FormTypeOK, Submission
    <2>2. /\ subs' \in Seq(Submission) /\ Len(subs') = Len(subs) + 1
          /\ \A j \in 1..Len(subs) : subs'[j] = subs[j]
          /\ subs'[Len(subs) + 1] = new
      BY <1>2, <2>1, AppendProperties DEF SubmitTypeOK
    <2>3. DOMAIN subs = 1..Len(subs) /\ DOMAIN subs' = 1..(Len(subs) + 1) /\ Len(subs) \in Nat
      BY <2>2 DEF SubmitTypeOK
    <2>4. submitError' \in BOOLEAN
      BY <1>2, Zenon
    <2> QED
      BY <2>2, <2>3, <2>4
  <1> QED
    BY <1>1, <1>2 DEF SubmitEffect

(* Submissions, mints and the rows of the backend.                          *)
LEMMA SubmitTypes == PageTypeOK /\ [Next]_vars => SubmitTypeOK'
  <1> SUFFICES ASSUME PageTypeOK, [Next]_vars PROVE SubmitTypeOK'
    OBVIOUS
  <1> USE DEF PageTypeOK
  <1>1. CASE UNCHANGED <<outcome, bridge>>
    BY <1>1 DEF outcome, bridge, SubmitTypeOK
  <1>2. ASSUME NEW s \in Slots, PollDetected(s) PROVE SubmitTypeOK'
    <2>1. bitcoinTx' \in Txs /\ SubmitEffect
      BY <1>2 DEF PollDetected, ShowTransaction
    <2> QED
      BY <1>2, <2>1, EffectAppends DEF PollDetected, bridge, SubmitTypeOK
  <1>3. ASSUME NEW k \in DOMAIN subs, SubmitMints(k) PROVE SubmitTypeOK'
    <2>1. PICK st \in {"ok", "error"} : subs' = SetSub(k, st)
      BY <1>3 DEF SubmitMints
    <2>2. subs' \in Seq(Submission) /\ subs[k] \in Submission
      BY <2>1, StatusOnly
    <2>3. [com |-> subs[k].com, tx |-> subs[k].tx] \in [com : Amounts \cup {NoAmount, Other}, tx : Txs]
      BY <2>2 DEF Submission
    <2>4. known' \subseteq Txs
      BY <1>3, <2>2 DEF SubmitMints, Submission, SubmitTypeOK
    <2> QED
      BY <1>3, <2>2, <2>3, <2>4 DEF SubmitMints, SubmitTypeOK
  <1>4. ASSUME NEW k \in DOMAIN subs, SubmitRefused(k) PROVE SubmitTypeOK'
    BY <1>4, StatusOnly DEF SubmitRefused, bridge, SubmitTypeOK
  <1>5. ASSUME NEW k \in DOMAIN subs, SubmitSucceeds(k) PROVE SubmitTypeOK'
    <2>1. subs' \in Seq(Submission)
      BY <1>5, StatusOnly DEF SubmitSucceeds
    <2>2. submitSuccess' \in BOOLEAN
      BY <1>5, Zenon DEF SubmitSucceeds
    <2> QED
      BY <1>5, <2>1, <2>2 DEF SubmitSucceeds, bridge, SubmitTypeOK
  <1>6. ASSUME NEW k \in DOMAIN subs, SubmitFails(k) PROVE SubmitTypeOK'
    <2>1. subs' \in Seq(Submission)
      BY <1>6, StatusOnly DEF SubmitFails
    <2>2. submitError' \in BOOLEAN
      BY <1>6, Zenon DEF SubmitFails
    <2> QED
      BY <1>6, <2>1, <2>2 DEF SubmitFails, bridge, SubmitTypeOK
  <1>7. CASE StartNewDeposit
    <2>1. submitSuccess' \in BOOLEAN
      BY <1>7, Zenon DEF StartNewDeposit
    <2> QED
      BY <1>7, <2>1 DEF StartNewDeposit, bridge, SubmitTypeOK
  <1>8. ASSUME NEW t \in Txs, OtherMints(t) PROVE SubmitTypeOK'
    BY <1>8 DEF OtherMints, outcome, SubmitTypeOK
  <1> QED
    BY <1>1, <1>2, <1>3, <1>4, <1>5, <1>6, <1>7, <1>8 DEF Next, vars, SelectAmount,
       GenerateCommitment, CommitmentGenerated, GenerationFails, ManuallySent, AutoSend,
       AutoSendFails, WalletSend, WalletSendResolves, WalletSendFails, ManualSend, AutoSent,
       WalletPays, OtherPays, Poll, PollEmpty, PollGivesUp, Mine, WalletStep

-----------------------------------------------------------------------------
(* The answers under way were true when they left, and confirmations only    *)
(* grow; the wallet names transactions that it has sent.                    *)
AnswersHold ==
    /\ \A s \in Slots : polls[s].tx \in Txs => polls[s].conf <= conf[polls[s].tx]
    /\ popup \in Txs => conf[popup] >= 0

(* A submission that the backend answers with success has been minted.      *)
AnsweredIsMinted ==
    \A k \in DOMAIN subs :
        subs[k].st = "ok" => [com |-> subs[k].com, tx |-> subs[k].tx] \in minted

PageInv ==
    /\ PageTypeOK /\ AnswersHold /\ ConfirmationsAreOfShownTx
    /\ ScanningIsPolled /\ AnsweredIsMinted /\ SuccessIsMinted

(* Every step keeps the types, the wallet's included.                       *)
LEMMA TypeStep == PageTypeOK /\ [Next]_vars => PageTypeOK'
  <1>1. PageTypeOK /\ [Next]_vars => WalletTypeOK'
    <2>1. UNCHANGED walletVars /\ WalletTypeOK => WalletTypeOK'
      BY DEF walletVars, WalletTypeOK
    <2> QED
      BY <2>1, WalletTypes DEF PageTypeOK, Next, vars, SelectAmount, GenerateCommitment,
         CommitmentGenerated, GenerationFails, ManuallySent, AutoSend, AutoSendFails,
         WalletSend, WalletSendResolves, WalletSendFails, ManualSend, AutoSent, WalletPays,
         OtherMints, OtherPays, Poll, PollDetected, PollEmpty, PollGivesUp, SubmitMints,
         SubmitRefused, SubmitSucceeds, SubmitFails, StartNewDeposit, Mine, WalletStep
  <1> QED
    BY <1>1, FormTypes, ScanTypes, SubmitTypes, ChainTypes DEF PageTypeOK

(* What is under way stays true while the chain grows.                      *)
LEMMA AnswersStep == PageTypeOK /\ AnswersHold /\ [Next]_vars => AnswersHold'
  <1> SUFFICES ASSUME PageTypeOK, AnswersHold, [Next]_vars PROVE AnswersHold'
    OBVIOUS
  <1>1. /\ \A t \in Txs : conf[t] \in Int /\ conf'[t] \in Int /\ conf[t] <= conf'[t]
        /\ \A s \in Slots : polls[s] \in Answers \cup {Free}
    BY PageAssumption, ChainTypes DEF PageTypeOK, ChainTypeOK, ScanTypeOK
  <1>2. \A a \in Answers : a.conf \in Int
    BY PageAssumption DEF Answers
  <1>3. Free.tx \notin Txs
    BY NamesAreDistinct DEF Free
  <1> USE NamesAreDistinct DEF AnswersHold
  <1>4. CASE polls' = polls /\ popup' = popup
    BY <1>1, <1>2, <1>3, <1>4
  <1>5. ASSUME polls' = polls, popup' \notin Txs PROVE AnswersHold'
    BY <1>1, <1>2, <1>3, <1>5
  <1>6. ASSUME NEW t \in Txs, WalletPays(t) PROVE AnswersHold'
    <2>1. conf'[t] = 0
      BY <1>6 DEF WalletPays, Pays, PageTypeOK, ChainTypeOK
    <2> QED
      BY <1>1, <1>2, <1>3, <1>6, <2>1 DEF WalletPays
  <1>7. ASSUME NEW s \in Slots, NEW i \in Timers, Poll(i, s) PROVE AnswersHold'
    <2>1. PICK a \in DetectLock(poller[i]) : polls' = [polls EXCEPT ![s] = a]
      BY <1>7 DEF Poll
    <2>2. a \in Answers /\ (a.tx \in Txs => a.conf <= conf[a.tx])
      BY <2>1, AnswersAreTrue DEF PageTypeOK, ScanTypeOK
    <2>3. conf' = conf /\ popup' = popup /\ DOMAIN polls = Slots
      BY <1>7 DEF Poll, bitcoin, wallet, PageTypeOK, ScanTypeOK
    <2> QED
      BY <2>1, <2>2, <2>3
  <1>8. ASSUME NEW s \in Slots, polls' = [polls EXCEPT ![s] = Free], popup' = popup
        PROVE  AnswersHold'
    BY <1>1, <1>2, <1>3, <1>8 DEF PageTypeOK, ScanTypeOK
  <1> QED
    BY <1>4, <1>5, <1>6, <1>7, <1>8 DEF Next, vars, wallet, SelectAmount,
       GenerateCommitment, CommitmentGenerated, GenerationFails, ManuallySent, AutoSend,
       AutoSendFails, WalletSend, WalletSendResolves, WalletSendFails, ManualSend, AutoSent,
       OtherMints, OtherPays, PollDetected, PollEmpty, PollGivesUp, SubmitMints,
       SubmitRefused, SubmitSucceeds, SubmitFails, StartNewDeposit, Mine, WalletStep

(* Every way the page comes to show a transaction sets its confirmations.   *)
LEMMA ShownStep ==
    PageTypeOK /\ AnswersHold /\ ConfirmationsAreOfShownTx /\ [Next]_vars
      => ConfirmationsAreOfShownTx'
  <1> SUFFICES ASSUME PageTypeOK, AnswersHold, ConfirmationsAreOfShownTx, [Next]_vars
               PROVE  ConfirmationsAreOfShownTx'
    OBVIOUS
  <1>1. /\ \A t \in Txs : conf[t] \in Int /\ conf'[t] \in Int /\ conf[t] <= conf'[t]
        /\ bitcoinTx \in Txs \cup {NoTx} /\ confirmations \in Int
    BY PageAssumption, ChainTypes DEF PageTypeOK, ChainTypeOK, ScanTypeOK
  <1> USE DEF ConfirmationsAreOfShownTx
  <1>2. CASE UNCHANGED shown
    BY <1>1, <1>2 DEF shown
  <1>3. ASSUME NEW c, StartPolling(NoTx, c) PROVE ConfirmationsAreOfShownTx'
    BY <1>1, <1>3 DEF StartPolling, shown
  <1>4. CASE WalletSendResolves
    <2>1. CASE popup \in Txs /\ StartPolling(popup, click)
      <3>1. popup # NoTx /\ conf[popup] >= 0
        BY <2>1, NamesAreDistinct DEF AnswersHold
      <3>2. bitcoinTx' = popup /\ confirmations' = 0
        BY <2>1, <3>1 DEF StartPolling, ShowTransaction
      <3> QED
        BY <1>1, <2>1, <3>1, <3>2
    <2> QED
      BY <1>3, <1>4, <2>1 DEF WalletSendResolves
  <1>5. ASSUME NEW s \in Slots, PollDetected(s) PROVE ConfirmationsAreOfShownTx'
    BY <1>1, <1>5 DEF PollDetected, ShowTransaction, AnswersHold, bitcoin
  <1> QED
    BY <1>2, <1>3, <1>4, <1>5 DEF Next, vars, SelectAmount, GenerateCommitment,
       CommitmentGenerated, GenerationFails, ManuallySent, AutoSend, AutoSendFails,
       WalletSend, WalletSendFails, ManualSend, AutoSent, WalletPays, OtherMints,
       OtherPays, Poll, PollEmpty, PollGivesUp, SubmitMints, SubmitRefused,
       SubmitSucceeds, SubmitFails, StartNewDeposit, Mine, WalletStep

(* What is minted stays minted, and a success that is under way or shown     *)
(* keeps the submission it is about.                                        *)
LEMMA MintedStep ==
    PageTypeOK /\ AnsweredIsMinted /\ SuccessIsMinted /\ [Next]_vars
      => AnsweredIsMinted' /\ SuccessIsMinted'
  <1> DEFINE Kept == AnsweredIsMinted' /\ SuccessIsMinted'
  <1> SUFFICES ASSUME PageTypeOK, AnsweredIsMinted, SuccessIsMinted, [Next]_vars PROVE Kept
    OBVIOUS
  <1> USE DEF AnsweredIsMinted, SuccessIsMinted
  <1>t. SubmitTypeOK /\ FormTypeOK
    BY DEF PageTypeOK
  <1>1. CASE UNCHANGED <<subs, submitSuccess>> /\ minted \subseteq minted'
    BY <1>1
  <1>2. ASSUME NEW s \in Slots, PollDetected(s) PROVE Kept
    <2>1. bitcoinTx' \in Txs /\ SubmitEffect /\ minted' = minted
            /\ submitSuccess' = submitSuccess
      BY <1>2 DEF PollDetected, ShowTransaction, bridge
    <2>2. /\ DOMAIN subs \subseteq DOMAIN subs'
          /\ \A j \in DOMAIN subs : subs'[j] = subs[j]
          /\ \A j \in DOMAIN subs' \ DOMAIN subs : subs'[j].st = "sent"
      BY <2>1, <1>t, EffectAppends
    <2> QED
      BY <2>1, <2>2
  <1>3. ASSUME NEW k \in DOMAIN subs, NEW st \in {"ok", "error", "done"}, subs' = SetSub(k, st),
               st = "ok" => [com |-> subs[k].com, tx |-> subs[k].tx] \in minted',
               subs[k].st # "done", minted \subseteq minted'
        PROVE  /\ AnsweredIsMinted'
               /\ submitSuccess' = submitSuccess => SuccessIsMinted'
    <2>1. /\ DOMAIN subs' = DOMAIN subs
          /\ subs'[k] = [subs[k] EXCEPT !.st = st]
          /\ \A j \in DOMAIN subs : j # k => subs'[j] = subs[j]
          /\ subs[k] \in Submission
      BY <1>t, <1>3, StatusOnly
    <2>2. subs'[k].st = st /\ subs'[k].com = subs[k].com /\ subs'[k].tx = subs[k].tx
      BY <2>1 DEF Submission
    <2>3. AnsweredIsMinted'
      <3> SUFFICES ASSUME NEW j \in DOMAIN subs, subs'[j].st = "ok"
                   PROVE  [com |-> subs'[j].com, tx |-> subs'[j].tx] \in minted'
        BY <2>1
      <3>1. CASE j = k
        BY <1>3, <2>2, <3>1
      <3>2. CASE j # k
        <4>1. subs'[j] = subs[j]
          BY <2>1, <3>2
        <4>2. [com |-> subs[j].com, tx |-> subs[j].tx] \in minted
          BY <4>1
        <4> QED
          BY <1>3, <4>1, <4>2
      <3> QED
        BY <3>1, <3>2
    <2>4. ASSUME submitSuccess' = submitSuccess, submitSuccess
          PROVE  SuccessIsMinted'
      <3>1. PICK m \in minted, j \in DOMAIN subs :
                m.com = subs[j].com /\ m.tx = subs[j].tx /\ subs[j].st = "done"
        BY <2>4
      <3> QED
        BY <1>3, <2>1, <3>1
    <2> QED
      BY <2>3, <2>4
  <1>4. ASSUME NEW k \in DOMAIN subs, SubmitMints(k) PROVE Kept
    <2>1. /\ subs[k].st = "sent" /\ submitSuccess' = submitSuccess
          /\ minted \subseteq minted' /\ [com |-> subs[k].com, tx |-> subs[k].tx] \in minted'
          /\ \E st \in {"ok", "error"} : subs' = SetSub(k, st)
      BY <1>4 DEF SubmitMints
    <2> QED
      BY <1>3, <2>1
  <1>5. ASSUME NEW k \in DOMAIN subs, SubmitRefused(k) PROVE Kept
    <2>1. /\ subs[k].st # "done" /\ submitSuccess' = submitSuccess
          /\ minted' = minted /\ subs' = SetSub(k, "error")
      BY <1>5 DEF SubmitRefused, bridge
    <2> QED
      BY <1>3, <2>1
  <1>6. ASSUME NEW k \in DOMAIN subs, SubmitSucceeds(k) PROVE Kept
    <2>1. /\ subs[k].st = "ok" /\ minted' = minted /\ subs' = SetSub(k, "done")
      BY <1>6 DEF SubmitSucceeds, bridge
    <2>2. AnsweredIsMinted'
      BY <1>3, <2>1
    <2>3. /\ DOMAIN subs' = DOMAIN subs /\ subs[k] \in Submission
          /\ subs'[k] = [subs[k] EXCEPT !.st = "done"]
      BY <1>t, <2>1, StatusOnly
    <2>4. subs'[k].st = "done" /\ subs'[k].com = subs[k].com /\ subs'[k].tx = subs[k].tx
      BY <2>3 DEF Submission
    <2>5. [com |-> subs[k].com, tx |-> subs[k].tx] \in minted
      BY <2>1
    <2>6. SuccessIsMinted'
      BY <2>1, <2>3, <2>4, <2>5
    <2> QED
      BY <2>2, <2>6
  <1>7. ASSUME NEW k \in DOMAIN subs, SubmitFails(k) PROVE Kept
    <2>1. /\ subs[k].st # "done" /\ submitSuccess' = submitSuccess
          /\ minted' = minted /\ subs' = SetSub(k, "done")
      BY <1>7 DEF SubmitFails, bridge
    <2> QED
      BY <1>3, <2>1
  <1>8. CASE StartNewDeposit
    BY <1>8 DEF StartNewDeposit, bridge
  <1>9. ASSUME NEW t \in Txs, OtherMints(t) PROVE Kept
    BY <1>1, <1>9 DEF OtherMints, outcome
  <1> HIDE DEF Kept
  <1> QED
    BY <1>1, <1>2, <1>4, <1>5, <1>6, <1>7, <1>8, <1>9 DEF Next, vars, outcome, bridge,
       SelectAmount, GenerateCommitment, CommitmentGenerated, GenerationFails, ManuallySent,
       AutoSend, AutoSendFails, WalletSend, WalletSendResolves, WalletSendFails, ManualSend,
       AutoSent, WalletPays, OtherPays, Poll, PollEmpty, PollGivesUp, Mine, WalletStep

-----------------------------------------------------------------------------
(* The inductive invariant of the page: its types, and what timers, polls,   *)
(* wallet and backend still have to say is true.                            *)
THEOREM PageInvariance == Spec => []PageInv
  <1>1. Init => PageInv
    <2> SUFFICES ASSUME Init PROVE PageInv
      OBVIOUS
    <2> USE PageAssumption, NamesAreDistinct DEF Init
    <2>0. /\ loading \in BOOLEAN /\ hasSentBTC \in BOOLEAN /\ isScanning \in BOOLEAN
          /\ sending \in BOOLEAN
      BY Zenon
    <2>1. FormTypeOK /\ ChainTypeOK
      BY <2>0 DEF FormTypeOK, ChainTypeOK
    <2>2. ScanTypeOK /\ ScanningIsPolled
      <3>1. Nothing \in Capture /\ 0 \in 0..MaxConf /\ 0 \in 0..MaxIntervals
        BY DEF Nothing, Capture
      <3>2. poller \in [Timers -> Capture] /\ polls \in [Slots -> Answers \cup {Free}]
        BY <3>1
      <3> QED
        BY <2>0, <3>1, <3>2 DEF ScanTypeOK, ScanningIsPolled
    <2>3. SubmitTypeOK
      BY EmptySeq DEF SubmitTypeOK
    <2>4. WalletTypeOK
      BY DEF WalletInit, WalletTypeOK
    <2>5. AnswersHold /\ ConfirmationsAreOfShownTx
      BY DEF AnswersHold, ConfirmationsAreOfShownTx, Free
    <2>6. AnsweredIsMinted /\ SuccessIsMinted
      BY DEF AnsweredIsMinted, SuccessIsMinted
    <2> QED
      BY <2>1, <2>2, <2>3, <2>4, <2>5, <2>6 DEF PageInv, PageTypeOK
  <1>2. PageInv /\ [Next]_vars => PageInv'
    BY TypeStep, AnswersStep, ShownStep, ScanningStep, MintedStep DEF PageInv
  <1> QED
    BY <1>1, <1>2, PTL DEF Spec

(* Types of the deposit page, the wallet hook and the backend it talks to.  *)
THEOREM PageTypes == Spec => []PageTypeOK
  <1>1. PageInv => PageTypeOK
    BY DEF PageInv
  <1> QED
    BY <1>1, PageInvariance, PTL

(* In every order of polls, timers, wallet answers and new deposits, the     *)
(* confirmations on the page are of the transaction on the page.            *)
THEOREM ConfirmationsMatch == Spec => []ConfirmationsAreOfShownTx
  <1>1. PageInv => ConfirmationsAreOfShownTx
    BY DEF PageInv
  <1> QED
    BY <1>1, PageInvariance, PTL

(* A page that says it scans has a running timer, however many it started.  *)
THEOREM ScanIsPolled == Spec => []ScanningIsPolled
  <1>1. PageInv => ScanningIsPolled
    BY DEF PageInv
  <1> QED
    BY <1>1, PageInvariance, PTL

(* A success on the page is a mint of one of its submissions, although other *)
(* pages submit the same payments.                                          *)
THEOREM SuccessWasMinted == Spec => []SuccessIsMinted
  <1>1. PageInv => SuccessIsMinted
    BY DEF PageInv
  <1> QED
    BY <1>1, PageInvariance, PTL

-----------------------------------------------------------------------------
(***************************************************************************)
(* The dashboard, the audit page and the withdrawal page.                  *)
(***************************************************************************)
\* What a handler of POST /api/vault/withdraw may be doing.
HandlerStates ==
    {"idle", "arrived", "error", "proving", "burning", "retrying", "paying",
     "queued", "txid"}

BurnStates == {"none", "sending", "submitted", "succeeded", "reverted"}

FetchStates == {"idle", "asked", "answered", "failed"}

BackendTypeOK ==
    /\ rpcUp \in BOOLEAN
    /\ row \in [status : {"pending", "active", "withdrawn"}, burnTx : BOOLEAN]
    /\ handler \in [Withdrawals -> HandlerStates]
    /\ burn \in [Withdrawals -> BurnStates]

FetchTypeOK == fetch \in [Fetches -> FetchStates]

HomeTypeOK ==
    home \in [loading : BOOLEAN, checks : [Tests -> {"idle", "checking", "pass", "fail"}],
              running : BOOLEAN, test : 0 .. 4]

AuditTypeOK ==
    audit \in [isLoading : BOOLEAN, isVerifying : BOOLEAN,
               results : {Unset, "verified", "notVerified"},
               showModal : BOOLEAN, autoRefresh : BOOLEAN,
               verify : {Unset, "asked", "verified", "notVerified", "failed"}]

PagesTypeOK == BackendTypeOK /\ FetchTypeOK /\ HomeTypeOK /\ AuditTypeOK

\* A loading page has a request under way.
LoadingIsFetching ==
    /\ page = "home" /\ home.loading => \E f \in Fetches : fetch[f] # "idle"
    /\ page = "audit" /\ audit.isLoading => \E f \in Fetches : fetch[f] # "idle"

\* The verification button and the modal follow their request.
VerifyIsAsked ==
    /\ audit.isVerifying <=> audit.verify # Unset
    /\ audit.showModal => audit.results # Unset

\* One test of the checklist is being checked, the one that runs.
ChecksFollowTest ==
    /\ home.running <=> home.test # 0
    /\ \A i \in Tests : home.checks[i] = "checking" <=> home.test = i

\* The page waits for one withdrawal while its button spins, else for none.
OneWithdrawalAwaited ==
    IF proofLoading THEN \E q \in Withdrawals : waiting = {q} ELSE waiting = {}

\* A handler that has not left the prover has sent no burn.
UnsentWhileProving ==
    \A q \in Withdrawals :
        handler[q] \in {"idle", "arrived", "proving"} => burn[q] = "none"

\* Whoever pays, retries or answers knows of a burn that Starknet accepted; a
\* txid is of a payment.
HandlersKnowBurn ==
    /\ row.burnTx => HandedOver # {}
    /\ \A q \in Withdrawals :
          /\ handler[q] \in {"retrying", "paying", "queued", "txid"} => HandedOver # {}
          /\ handler[q] = "txid" => paid

SpinnerInv == LoadingIsFetching /\ VerifyIsAsked /\ ChecksFollowTest /\ OneWithdrawalAwaited

PagesInv ==
    PagesTypeOK /\ SpinnerInv /\ UnsentWhileProving /\ HandlersKnowBurn /\ CompleteIsSubmitted

-----------------------------------------------------------------------------
(* Types                                                                   *)

(* The vault's row and the handlers keep their states.                      *)
LEMMA BackendTyped == BackendTypeOK /\ [PagesNext]_pagesVars => BackendTypeOK'
<1> SUFFICES ASSUME BackendTypeOK, [PagesNext]_pagesVars PROVE BackendTypeOK'
  OBVIOUS
<1>1. CASE UNCHANGED <<rpcUp, row, handler, burn>>
  BY <1>1 DEF BackendTypeOK
<1>2. CASE RpcSwitches
  BY <1>2 DEF RpcSwitches, BackendTypeOK
<1>3. CASE VerifyAnswered
  BY <1>3 DEF VerifyAnswered, BackendTypeOK
<1>4. ASSUME NEW q \in Withdrawals, WithdrawClick(q) PROVE BackendTypeOK'
  BY <1>4 DEF WithdrawClick, BackendTypeOK, HandlerStates
<1>5. ASSUME NEW q \in Withdrawals, Checked(q) PROVE BackendTypeOK'
  BY <1>5 DEF Checked, BackendTypeOK, HandlerStates
<1>6. ASSUME NEW q \in Withdrawals,
             SendBurn(q) \/ BurnSubmitted(q) \/ BurnRejected(q) \/ BurnAnswered(q)
             \/ BurnTimesOut(q) \/ BurnExecuted(q)
      PROVE  BackendTypeOK'
  BY <1>6 DEF SendBurn, BurnSubmitted, BurnRejected, BurnAnswered, BurnTimesOut, BurnExecuted,
              BackendTypeOK, HandlerStates, BurnStates
<1>7. ASSUME NEW q \in Withdrawals, Paid(q) PROVE BackendTypeOK'
  BY <1>7 DEF Paid, BackendTypeOK, HandlerStates
<1> QED BY <1>1, <1>2, <1>3, <1>4, <1>5, <1>6, <1>7
     DEF PagesNext, pagesVars, backend, withdraw, Navigate, BackendSwitches, RpcSwitches, HomeRefresh,
         AuditRefresh, ToggleAutoRefresh, FetchAnswered, FetchFails, HomeApplies,
         AuditApplies, RunChecks, CheckEnds, VerifyClick, VerifyAnswered, VerifyFails,
         VerifyApplied, ModalClosed, WithdrawClick, Checked, SendBurn, BurnSubmitted,
         BurnRejected, BurnAnswered, BurnTimesOut, BurnExecuted, Paid, PaidLate,
         WithdrawAnswered, WithdrawTimesOut

(* Requests for data keep their states.                                     *)
LEMMA FetchTyped == FetchTypeOK /\ [PagesNext]_pagesVars => FetchTypeOK'
<1> SUFFICES ASSUME FetchTypeOK, [PagesNext]_pagesVars PROVE FetchTypeOK'
  OBVIOUS
<1>1. CASE UNCHANGED fetch
  BY <1>1 DEF FetchTypeOK
<1>2. ASSUME NEW to \in {"home", "audit", "withdraw"}, Navigate(to) PROVE FetchTypeOK'
  BY <1>2 DEF Navigate, FetchTypeOK, FetchStates
<1>3. ASSUME NEW f \in Fetches, Ask(f) PROVE FetchTypeOK'
  BY <1>3 DEF Ask, FetchTypeOK, FetchStates
<1>4. ASSUME NEW f \in Fetches, FetchAnswered(f) PROVE FetchTypeOK'
  BY <1>4 DEF FetchAnswered, FetchTypeOK, FetchStates
<1>5. ASSUME NEW f \in Fetches, FetchFails(f) PROVE FetchTypeOK'
  BY <1>5 DEF FetchFails, FetchTypeOK, FetchStates
<1>6. ASSUME NEW f \in Fetches, HomeApplies(f) PROVE FetchTypeOK'
  BY <1>6 DEF HomeApplies, FetchTypeOK, FetchStates
<1>7. ASSUME NEW f \in Fetches, AuditApplies(f) PROVE FetchTypeOK'
  BY <1>7 DEF AuditApplies, FetchTypeOK, FetchStates
<1> QED BY <1>1, <1>2, <1>3, <1>4, <1>5, <1>6, <1>7
     DEF PagesNext, pagesVars, backend, withdraw, Navigate, BackendSwitches, RpcSwitches, HomeRefresh,
         AuditRefresh, ToggleAutoRefresh, FetchAnswered, FetchFails, HomeApplies,
         AuditApplies, RunChecks, CheckEnds, VerifyClick, VerifyAnswered, VerifyFails,
         VerifyApplied, ModalClosed, WithdrawClick, Checked, SendBurn, BurnSubmitted,
         BurnRejected, BurnAnswered, BurnTimesOut, BurnExecuted, Paid, PaidLate,
         WithdrawAnswered, WithdrawTimesOut

(* The dashboard keeps its fields.                                          *)
LEMMA HomeTyped == FetchTypeOK /\ HomeTypeOK /\ [PagesNext]_pagesVars => HomeTypeOK'
<1> SUFFICES ASSUME FetchTypeOK, HomeTypeOK, [PagesNext]_pagesVars PROVE HomeTypeOK'
  OBVIOUS
<1>1. CASE UNCHANGED home
  BY <1>1 DEF HomeTypeOK
<1>2. ASSUME NEW to \in {"home", "audit", "withdraw"}, Navigate(to) PROVE HomeTypeOK'
  BY <1>2 DEF Navigate, HomeTypeOK, NewHome, Tests
<1>3. ASSUME NEW f \in Fetches, HomeApplies(f) PROVE HomeTypeOK'
  BY <1>3 DEF HomeApplies, HomeTypeOK
<1>4. CASE RunChecks
  <2> DEFINE checks == [home.checks EXCEPT ![1] = "checking"]
  <2>1. checks \in [Tests -> {"idle", "checking", "pass", "fail"}] /\ 1 \in 0 .. 4
    BY DEF HomeTypeOK, Tests
  <2>2. home' = [home EXCEPT !.running = TRUE, !.test = 1, !.checks = checks]
    BY <1>4 DEF RunChecks
  <2> HIDE DEF checks
  <2> QED BY <2>1, <2>2 DEF HomeTypeOK
<1>5. CASE CheckEnds
  <2>1. PICK result \in {"pass", "fail"} :
          home' = [home EXCEPT
                     !.checks = [i \in Tests |->
                                   IF i = home.test THEN result
                                   ELSE IF i = home.test + 1 THEN "checking" ELSE home.checks[i]],
                     !.test = IF home.test = 4 THEN 0 ELSE home.test + 1,
                     !.running = home.test # 4]
    BY <1>5 DEF CheckEnds, HomeTypeOK
  <2>2. (IF home.test = 4 THEN 0 ELSE home.test + 1) \in 0 .. 4
    BY <1>5 DEF CheckEnds, Tests
  <2>3. [i \in Tests |-> IF i = home.test THEN result
                         ELSE IF i = home.test + 1 THEN "checking" ELSE home.checks[i]]
          \in [Tests -> {"idle", "checking", "pass", "fail"}]
    BY DEF HomeTypeOK
  <2>4. (home.test # 4) \in BOOLEAN
    OBVIOUS
  <2> QED BY <2>1, <2>2, <2>3, <2>4 DEF HomeTypeOK
<1> QED BY <1>1, <1>2, <1>3, <1>4, <1>5
     DEF PagesNext, pagesVars, backend, withdraw, Navigate, BackendSwitches, RpcSwitches, HomeRefresh,
         AuditRefresh, ToggleAutoRefresh, FetchAnswered, FetchFails, HomeApplies,
         AuditApplies, RunChecks, CheckEnds, VerifyClick, VerifyAnswered, VerifyFails,
         VerifyApplied, ModalClosed, WithdrawClick, Checked, SendBurn, BurnSubmitted,
         BurnRejected, BurnAnswered, BurnTimesOut, BurnExecuted, Paid, PaidLate,
         WithdrawAnswered, WithdrawTimesOut

(* The audit page keeps its fields.                                         *)
LEMMA AuditTyped == FetchTypeOK /\ AuditTypeOK /\ [PagesNext]_pagesVars => AuditTypeOK'
<1> SUFFICES ASSUME FetchTypeOK, AuditTypeOK, [PagesNext]_pagesVars PROVE AuditTypeOK'
  OBVIOUS
<1>1. CASE UNCHANGED audit
  BY <1>1 DEF AuditTypeOK
<1>2. ASSUME NEW to \in {"home", "audit", "withdraw"}, Navigate(to) PROVE AuditTypeOK'
  BY <1>2 DEF Navigate, AuditTypeOK, NewAudit, Unset
<1>3. ASSUME NEW f \in Fetches, AuditRefresh(f) PROVE AuditTypeOK'
  BY <1>3 DEF AuditRefresh, AuditTypeOK
<1>4. CASE ToggleAutoRefresh
  BY <1>4 DEF ToggleAutoRefresh, AuditTypeOK
<1>5. ASSUME NEW f \in Fetches, AuditApplies(f) PROVE AuditTypeOK'
  BY <1>5 DEF AuditApplies, AuditTypeOK, FetchTypeOK
<1>6. CASE VerifyClick
  BY <1>6 DEF VerifyClick, AuditTypeOK
<1>7. CASE VerifyAnswered
  BY <1>7 DEF VerifyAnswered, AuditTypeOK
<1>8. CASE VerifyFails
  BY <1>8 DEF VerifyFails, AuditTypeOK
<1>9. CASE VerifyApplied
  BY <1>9 DEF VerifyApplied, AuditTypeOK, Unset
<1>10. CASE ModalClosed
  BY <1>10 DEF ModalClosed, AuditTypeOK
<1> QED BY <1>1, <1>2, <1>3, <1>4, <1>5, <1>6, <1>7, <1>8, <1>9, <1>10
     DEF PagesNext, pagesVars, backend, withdraw, Navigate, BackendSwitches, RpcSwitches, HomeRefresh,
         AuditRefresh, ToggleAutoRefresh, FetchAnswered, FetchFails, HomeApplies,
         AuditApplies, RunChecks, CheckEnds, VerifyClick, VerifyAnswered, VerifyFails,
         VerifyApplied, ModalClosed, WithdrawClick, Checked, SendBurn, BurnSubmitted,
         BurnRejected, BurnAnswered, BurnTimesOut, BurnExecuted, Paid, PaidLate,
         WithdrawAnswered, WithdrawTimesOut

-----------------------------------------------------------------------------
(* Spinners                                                                *)

(* Loading begins with a request and ends with the answer to any.           *)
LEMMA LoadingStep == FetchTypeOK /\ HomeTypeOK /\ AuditTypeOK /\ LoadingIsFetching /\ [PagesNext]_pagesVars => LoadingIsFetching'
<1> SUFFICES ASSUME FetchTypeOK, HomeTypeOK, AuditTypeOK, LoadingIsFetching, [PagesNext]_pagesVars PROVE LoadingIsFetching'
  OBVIOUS
<1>1. CASE UNCHANGED <<page, fetch, home, audit>>
  BY <1>1 DEF LoadingIsFetching
<1>2. ASSUME NEW to \in {"home", "audit", "withdraw"}, Navigate(to) PROVE LoadingIsFetching'
  BY <1>2 DEF Navigate, LoadingIsFetching
<1>3. ASSUME NEW f \in Fetches, HomeRefresh(f) PROVE LoadingIsFetching'
  BY <1>3 DEF HomeRefresh, Ask, LoadingIsFetching, FetchTypeOK
<1>4. ASSUME NEW f \in Fetches, AuditRefresh(f) PROVE LoadingIsFetching'
  BY <1>4 DEF AuditRefresh, Ask, LoadingIsFetching, FetchTypeOK
<1>5. ASSUME NEW f \in Fetches, FetchAnswered(f) PROVE LoadingIsFetching'
  BY <1>5 DEF FetchAnswered, LoadingIsFetching, FetchTypeOK
<1>6. ASSUME NEW f \in Fetches, FetchFails(f) PROVE LoadingIsFetching'
  BY <1>6 DEF FetchFails, LoadingIsFetching, FetchTypeOK
<1>7. ASSUME NEW f \in Fetches, HomeApplies(f) PROVE LoadingIsFetching'
  BY <1>7 DEF HomeApplies, LoadingIsFetching, HomeTypeOK
<1>8. ASSUME NEW f \in Fetches, AuditApplies(f) PROVE LoadingIsFetching'
  BY <1>8 DEF AuditApplies, LoadingIsFetching, AuditTypeOK
<1>9. CASE RunChecks
  BY <1>9 DEF RunChecks, LoadingIsFetching, HomeTypeOK
<1>10. CASE CheckEnds
  BY <1>10 DEF CheckEnds, LoadingIsFetching, HomeTypeOK
<1>11. CASE ToggleAutoRefresh
  BY <1>11 DEF ToggleAutoRefresh, LoadingIsFetching, AuditTypeOK
<1>12. CASE VerifyClick
  BY <1>12 DEF VerifyClick, LoadingIsFetching, AuditTypeOK
<1>13. CASE VerifyAnswered
  BY <1>13 DEF VerifyAnswered, LoadingIsFetching, AuditTypeOK
<1>14. CASE VerifyFails
  BY <1>14 DEF VerifyFails, LoadingIsFetching, AuditTypeOK
<1>15. CASE VerifyApplied
  BY <1>15 DEF VerifyApplied, LoadingIsFetching, AuditTypeOK
<1>16. CASE ModalClosed
  BY <1>16 DEF ModalClosed, LoadingIsFetching, AuditTypeOK
<1> QED BY <1>1, <1>2, <1>3, <1>4, <1>5, <1>6, <1>7, <1>8, <1>9, <1>10, <1>11, <1>12,
           <1>13, <1>14, <1>15, <1>16
     DEF PagesNext, pagesVars, backend, withdraw, Navigate, BackendSwitches, RpcSwitches, HomeRefresh,
         AuditRefresh, ToggleAutoRefresh, FetchAnswered, FetchFails, HomeApplies,
         AuditApplies, RunChecks, CheckEnds, VerifyClick, VerifyAnswered, VerifyFails,
         VerifyApplied, ModalClosed, WithdrawClick, Checked, SendBurn, BurnSubmitted,
         BurnRejected, BurnAnswered, BurnTimesOut, BurnExecuted, Paid, PaidLate,
         WithdrawAnswered, WithdrawTimesOut

(* The verify button spins while its request is under way; the modal opens  *)
(* over results.                                                            *)
LEMMA VerifyStep == AuditTypeOK /\ VerifyIsAsked /\ [PagesNext]_pagesVars => VerifyIsAsked'
<1> SUFFICES ASSUME AuditTypeOK, VerifyIsAsked, [PagesNext]_pagesVars PROVE VerifyIsAsked'
  OBVIOUS
<1>1. CASE UNCHANGED audit
  BY <1>1 DEF VerifyIsAsked
<1>2. ASSUME NEW to \in {"home", "audit", "withdraw"}, Navigate(to) PROVE VerifyIsAsked'
  BY <1>2 DEF Navigate, VerifyIsAsked, NewAudit, Unset
<1>3. ASSUME NEW f \in Fetches, AuditRefresh(f) PROVE VerifyIsAsked'
  BY <1>3 DEF AuditRefresh, VerifyIsAsked, AuditTypeOK
<1>4. CASE ToggleAutoRefresh
  BY <1>4 DEF ToggleAutoRefresh, VerifyIsAsked, AuditTypeOK
<1>5. ASSUME NEW f \in Fetches, AuditApplies(f) PROVE VerifyIsAsked'
  BY <1>5 DEF AuditApplies, VerifyIsAsked, AuditTypeOK
<1>6. CASE VerifyClick
  BY <1>6 DEF VerifyClick, VerifyIsAsked, AuditTypeOK, Unset
<1>7. CASE VerifyAnswered
  BY <1>7 DEF VerifyAnswered, VerifyIsAsked, AuditTypeOK, Unset
<1>8. CASE VerifyFails
  BY <1>8 DEF VerifyFails, VerifyIsAsked, AuditTypeOK, Unset
<1>9. CASE VerifyApplied
  BY <1>9 DEF VerifyApplied, VerifyIsAsked, AuditTypeOK, Unset
<1>10. CASE ModalClosed
  BY <1>10 DEF ModalClosed, VerifyIsAsked, AuditTypeOK
<1> QED BY <1>1, <1>2, <1>3, <1>4, <1>5, <1>6, <1>7, <1>8, <1>9, <1>10
     DEF PagesNext, pagesVars, backend, withdraw, Navigate, BackendSwitches, RpcSwitches, HomeRefresh,
         AuditRefresh, ToggleAutoRefresh, FetchAnswered, FetchFails, HomeApplies,
         AuditApplies, RunChecks, CheckEnds, VerifyClick, VerifyAnswered, VerifyFails,
         VerifyApplied, ModalClosed, WithdrawClick, Checked, SendBurn, BurnSubmitted,
         BurnRejected, BurnAnswered, BurnTimesOut, BurnExecuted, Paid, PaidLate,
         WithdrawAnswered, WithdrawTimesOut

(* The checklist moves its mark with the test that runs.                    *)
LEMMA ChecksStep == HomeTypeOK /\ ChecksFollowTest /\ [PagesNext]_pagesVars => ChecksFollowTest'
<1> SUFFICES ASSUME HomeTypeOK, ChecksFollowTest, [PagesNext]_pagesVars PROVE ChecksFollowTest'
  OBVIOUS
<1>1. CASE UNCHANGED home
  BY <1>1 DEF ChecksFollowTest
<1>2. ASSUME NEW to \in {"home", "audit", "withdraw"}, Navigate(to) PROVE ChecksFollowTest'
  BY <1>2 DEF Navigate, ChecksFollowTest, NewHome, Tests
<1>3. ASSUME NEW f \in Fetches, HomeApplies(f) PROVE ChecksFollowTest'
  BY <1>3 DEF HomeApplies, HomeTypeOK, ChecksFollowTest
<1>4. CASE RunChecks
  BY <1>4 DEF RunChecks, ChecksFollowTest, HomeTypeOK, Tests
<1>5. CASE CheckEnds
  <2>1. PICK result \in {"pass", "fail"} :
          home' = [home EXCEPT
                     !.checks = [i \in Tests |->
                                   IF i = home.test THEN result
                                   ELSE IF i = home.test + 1 THEN "checking" ELSE home.checks[i]],
                     !.test = IF home.test = 4 THEN 0 ELSE home.test + 1,
                     !.running = home.test # 4]
    BY <1>5 DEF CheckEnds, HomeTypeOK
  <2>2. /\ home'.test = IF home.test = 4 THEN 0 ELSE home.test + 1
        /\ home'.running = (home.test # 4)
        /\ \A i \in Tests : home'.checks[i] =
              IF i = home.test THEN result
              ELSE IF i = home.test + 1 THEN "checking" ELSE home.checks[i]
    BY <2>1 DEF HomeTypeOK
  <2>3. home.test \in Tests
    BY <1>5 DEF CheckEnds
  <2>4. home'.running <=> home'.test # 0
    <3>1. home'.test = 0 <=> home.test = 4
      BY <2>2, <2>3 DEF Tests
    <3> QED BY <2>2, <3>1, Zenon
  <2>5. ASSUME NEW i \in Tests PROVE home'.checks[i] = "checking" <=> home'.test = i
    BY <2>2, <2>3 DEF ChecksFollowTest, Tests
  <2> QED BY <2>4, <2>5 DEF ChecksFollowTest
<1> QED BY <1>1, <1>2, <1>3, <1>4, <1>5
     DEF PagesNext, pagesVars, backend, withdraw, Navigate, BackendSwitches, RpcSwitches, HomeRefresh,
         AuditRefresh, ToggleAutoRefresh, FetchAnswered, FetchFails, HomeApplies,
         AuditApplies, RunChecks, CheckEnds, VerifyClick, VerifyAnswered, VerifyFails,
         VerifyApplied, ModalClosed, WithdrawClick, Checked, SendBurn, BurnSubmitted,
         BurnRejected, BurnAnswered, BurnTimesOut, BurnExecuted, Paid, PaidLate,
         WithdrawAnswered, WithdrawTimesOut

(* The button is disabled while a withdrawal is awaited, so there is never a *)
(* second one to wait for.                                                  *)
LEMMA AwaitedStep == OneWithdrawalAwaited /\ [PagesNext]_pagesVars => OneWithdrawalAwaited'
<1> SUFFICES ASSUME OneWithdrawalAwaited, [PagesNext]_pagesVars PROVE OneWithdrawalAwaited'
  OBVIOUS
<1>1. CASE UNCHANGED <<proofLoading, waiting>>
  BY <1>1 DEF OneWithdrawalAwaited
<1>2. ASSUME NEW to \in {"home", "audit", "withdraw"}, Navigate(to) PROVE OneWithdrawalAwaited'
  BY <1>2 DEF Navigate, OneWithdrawalAwaited
<1>3. ASSUME NEW q \in Withdrawals, WithdrawClick(q) PROVE OneWithdrawalAwaited'
  BY <1>3 DEF WithdrawClick, OneWithdrawalAwaited
<1>4. ASSUME NEW q \in Withdrawals, WithdrawAnswered(q) PROVE OneWithdrawalAwaited'
  BY <1>4 DEF WithdrawAnswered, OneWithdrawalAwaited
<1>5. ASSUME NEW q \in Withdrawals, WithdrawTimesOut(q) PROVE OneWithdrawalAwaited'
  BY <1>5 DEF WithdrawTimesOut, OneWithdrawalAwaited
<1> QED BY <1>1, <1>2, <1>3, <1>4, <1>5
     DEF PagesNext, pagesVars, backend, withdraw, Navigate, BackendSwitches, RpcSwitches, HomeRefresh,
         AuditRefresh, ToggleAutoRefresh, FetchAnswered, FetchFails, HomeApplies,
         AuditApplies, RunChecks, CheckEnds, VerifyClick, VerifyAnswered, VerifyFails,
         VerifyApplied, ModalClosed, WithdrawClick, Checked, SendBurn, BurnSubmitted,
         BurnRejected, BurnAnswered, BurnTimesOut, BurnExecuted, Paid, PaidLate,
         WithdrawAnswered, WithdrawTimesOut

-----------------------------------------------------------------------------
(* What the withdrawal page announces                                      *)

(* A burn is sent from the prover, and what was handed over stays so.       *)
LEMMA BurnStep ==
  ASSUME BackendTypeOK, UnsentWhileProving, [PagesNext]_pagesVars
  PROVE  UnsentWhileProving' /\ HandedOver \subseteq HandedOver'
<1> USE DEF UnsentWhileProving, HandedOver, BackendTypeOK
<1>1. CASE UNCHANGED <<burn, handler>>
  BY <1>1
<1>2. ASSUME NEW q \in Withdrawals, WithdrawClick(q) \/ Checked(q) \/ Paid(q)
      PROVE  UnsentWhileProving' /\ HandedOver \subseteq HandedOver'
  BY <1>2 DEF WithdrawClick, Checked, Paid
<1>3. ASSUME NEW q \in Withdrawals, SendBurn(q) \/ BurnAnswered(q) \/ BurnTimesOut(q)
      PROVE  UnsentWhileProving' /\ HandedOver \subseteq HandedOver'
  BY <1>3 DEF SendBurn, BurnAnswered, BurnTimesOut
<1>4. ASSUME NEW q \in Withdrawals, BurnSubmitted(q) \/ BurnRejected(q) \/ BurnExecuted(q)
      PROVE  UnsentWhileProving' /\ HandedOver \subseteq HandedOver'
  BY <1>4 DEF BurnSubmitted, BurnRejected, BurnExecuted
<1> QED BY <1>1, <1>2, <1>3, <1>4
     DEF PagesNext, pagesVars, backend, withdraw, Navigate, BackendSwitches, RpcSwitches, HomeRefresh,
         AuditRefresh, ToggleAutoRefresh, FetchAnswered, FetchFails, HomeApplies,
         AuditApplies, RunChecks, CheckEnds, VerifyClick, VerifyAnswered, VerifyFails,
         VerifyApplied, ModalClosed, WithdrawClick, Checked, SendBurn, BurnSubmitted,
         BurnRejected, BurnAnswered, BurnTimesOut, BurnExecuted, Paid, PaidLate,
         WithdrawAnswered, WithdrawTimesOut

(* A handler pays or retries only with a burn that was handed over, and     *)
(* answers a txid only with a payment.                                      *)
LEMMA KnowledgeStep ==
  ASSUME BackendTypeOK, UnsentWhileProving, HandlersKnowBurn, [PagesNext]_pagesVars
  PROVE  HandlersKnowBurn'
<1>0. HandedOver \subseteq HandedOver'
  BY BurnStep
<1>1. CASE UNCHANGED <<row, paid, handler>>
  BY <1>0, <1>1 DEF HandlersKnowBurn
<1>2. CASE VerifyAnswered
  BY <1>0, <1>2 DEF VerifyAnswered, HandlersKnowBurn, BackendTypeOK
<1>3. ASSUME NEW q \in Withdrawals, WithdrawClick(q) PROVE HandlersKnowBurn'
  BY <1>0, <1>3 DEF WithdrawClick, HandlersKnowBurn, BackendTypeOK
<1>4. ASSUME NEW q \in Withdrawals, Checked(q) PROVE HandlersKnowBurn'
  BY <1>0, <1>4 DEF Checked, HandlersKnowBurn, BackendTypeOK
<1>5. ASSUME NEW q \in Withdrawals,
             SendBurn(q) \/ BurnRejected(q) \/ BurnAnswered(q) \/ BurnTimesOut(q)
      PROVE  HandlersKnowBurn'
  BY <1>0, <1>5 DEF SendBurn, BurnRejected, BurnAnswered, BurnTimesOut, HandlersKnowBurn,
                    BackendTypeOK
<1>6. ASSUME NEW q \in Withdrawals, Paid(q) PROVE HandlersKnowBurn'
  BY <1>0, <1>6 DEF Paid, HandlersKnowBurn, BackendTypeOK
<1>7. CASE PaidLate
  BY <1>0, <1>7 DEF PaidLate, HandlersKnowBurn
<1> QED BY <1>1, <1>2, <1>3, <1>4, <1>5, <1>6, <1>7
     DEF PagesNext, pagesVars, backend, withdraw, Navigate, BackendSwitches, RpcSwitches, HomeRefresh,
         AuditRefresh, ToggleAutoRefresh, FetchAnswered, FetchFails, HomeApplies,
         AuditApplies, RunChecks, CheckEnds, VerifyClick, VerifyAnswered, VerifyFails,
         VerifyApplied, ModalClosed, WithdrawClick, Checked, SendBurn, BurnSubmitted,
         BurnRejected, BurnAnswered, BurnTimesOut, BurnExecuted, Paid, PaidLate,
         WithdrawAnswered, WithdrawTimesOut

(* The page announces what the answering handler knew; no payment is taken  *)
(* back.                                                                    *)
LEMMA AnnouncedStep ==
  ASSUME BackendTypeOK, UnsentWhileProving, HandlersKnowBurn, CompleteIsSubmitted,
         [PagesNext]_pagesVars
  PROVE  CompleteIsSubmitted'
<1>0. HandedOver \subseteq HandedOver'
  BY BurnStep
<1>1. CASE UNCHANGED <<proofParams, paid>>
  BY <1>0, <1>1 DEF CompleteIsSubmitted
<1>2. ASSUME NEW to \in {"home", "audit", "withdraw"}, Navigate(to) PROVE CompleteIsSubmitted'
  BY <1>2 DEF Navigate, CompleteIsSubmitted, Unset
<1>3. ASSUME NEW q \in Withdrawals, Paid(q) PROVE CompleteIsSubmitted'
  BY <1>0, <1>3 DEF Paid, CompleteIsSubmitted, withdraw
<1>4. CASE PaidLate
  BY <1>0, <1>4 DEF PaidLate, CompleteIsSubmitted, withdraw
<1>5. ASSUME NEW q \in Withdrawals, WithdrawAnswered(q) PROVE CompleteIsSubmitted'
  BY <1>0, <1>5 DEF WithdrawAnswered, CompleteIsSubmitted, HandlersKnowBurn, backend, Unset
<1> QED BY <1>1, <1>2, <1>3, <1>4, <1>5
     DEF PagesNext, pagesVars, backend, withdraw, Navigate, BackendSwitches, RpcSwitches, HomeRefresh,
         AuditRefresh, ToggleAutoRefresh, FetchAnswered, FetchFails, HomeApplies,
         AuditApplies, RunChecks, CheckEnds, VerifyClick, VerifyAnswered, VerifyFails,
         VerifyApplied, ModalClosed, WithdrawClick, Checked, SendBurn, BurnSubmitted,
         BurnRejected, BurnAnswered, BurnTimesOut, BurnExecuted, Paid, PaidLate,
         WithdrawAnswered, WithdrawTimesOut

-----------------------------------------------------------------------------

\* Freshly mounted pages have asked for nothing and announce nothing.
LEMMA PagesStart == PagesInit => PagesInv
<1> SUFFICES ASSUME PagesInit PROVE PagesInv
  OBVIOUS
<1>1. BackendTypeOK
  <2>1. PICK s \in {"pending", "active"} : row = [status |-> s, burnTx |-> FALSE]
    BY DEF PagesInit
  <2>2. row \in [status : {"pending", "active", "withdrawn"}, burnTx : BOOLEAN]
    BY <2>1
  <2>3. handler \in [Withdrawals -> HandlerStates]
    BY DEF PagesInit, HandlerStates
  <2>4. rpcUp \in BOOLEAN
    BY DEF PagesInit
  <2>5. burn \in [Withdrawals -> BurnStates]
    BY DEF PagesInit, BurnStates
  <2> QED BY <2>2, <2>3, <2>4, <2>5 DEF BackendTypeOK
<1>2. FetchTypeOK
  BY DEF PagesInit, FetchTypeOK, FetchStates
<1>3. HomeTypeOK /\ AuditTypeOK
  BY DEF PagesInit, HomeTypeOK, AuditTypeOK, NewHome, NewAudit, Tests, Unset
<1>4. SpinnerInv
  BY DEF PagesInit, SpinnerInv, LoadingIsFetching, VerifyIsAsked, ChecksFollowTest,
         OneWithdrawalAwaited, NewHome, NewAudit, Tests, Unset
<1>5. UnsentWhileProving /\ HandlersKnowBurn /\ CompleteIsSubmitted
  BY DEF PagesInit, UnsentWhileProving, HandlersKnowBurn, CompleteIsSubmitted, Unset
<1> QED BY <1>1, <1>2, <1>3, <1>4, <1>5 DEF PagesInv, PagesTypeOK

(* The pages' invariant is inductive: whichever of the handlers, timers,    *)
(* answers and the backend's steps comes next.                              *)
THEOREM PagesInvariance == PagesSpec => []PagesInv
<1>1. PagesInv /\ [PagesNext]_pagesVars => PagesInv'
  BY BackendTyped, FetchTyped, HomeTyped, AuditTyped, LoadingStep, VerifyStep, ChecksStep,
     AwaitedStep, BurnStep, KnowledgeStep, AnnouncedStep DEF PagesInv, PagesTypeOK, SpinnerInv
<1> QED BY <1>1, PagesStart, PTL DEF PagesSpec

(* No spinner, no disabled button and no 'Checking...' of the three pages   *)
(* outlives the request it stands for, whatever the order of answers,       *)
(* refreshes and 30 s timeouts.                                             *)
THEOREM SpinnersHaveRequests == PagesSpec => []SpinnersMatchRequests
<1>1. OneWithdrawalAwaited => (proofLoading <=> Cardinality(waiting) = 1)
  <2>1. CASE proofLoading
    BY <2>1, FS_Singleton DEF OneWithdrawalAwaited
  <2>2. CASE ~proofLoading
    BY <2>2, FS_EmptySet DEF OneWithdrawalAwaited
  <2> QED BY <2>1, <2>2
<1>2. PagesInv => SpinnersMatchRequests
  BY <1>1 DEF PagesInv, SpinnerInv, LoadingIsFetching, VerifyIsAsked, ChecksFollowTest,
              SpinnersMatchRequests
<1> QED BY <1>2, PagesInvariance, PTL

(* WITHDRAWAL COMPLETE is announced only after Starknet accepted a burn,    *)
(* and a transaction id only of a payment, also when the first request of   *)
(* the page timed out and a second one was answered.                        *)
THEOREM AnnouncedIsSubmitted == PagesSpec => []CompleteIsSubmitted
<1>1. PagesInv => CompleteIsSubmitted
  BY DEF PagesInv
<1> QED BY <1>1, PagesInvariance, PTL
=============================================================================
