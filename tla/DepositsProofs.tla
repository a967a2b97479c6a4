--------------------------- MODULE DepositsProofs ---------------------------
(***************************************************************************)
(* What the deposit routes guarantee for any sets of vaults, requests,     *)
(* confirmations and users' transactions, and any number of crashes.       *)
(***************************************************************************)
EXTENDS Deposits, TLAPS

\* The contract registers a commitment once.
OneDeposit ==
    \A t, u \in Succeeded \cap DepositTxs : VaultOf[t] = VaultOf[u] => t = u

\* The SPV vault mints a Bitcoin payment once, and takes no call of
\* executeDeposit.
OneMint ==
    ~oldVault =>
        /\ Succeeded \cap OldRequests = {}
        /\ \A t, u \in Succeeded \cap DepositTxs :
              BitcoinTxOf[t] = BitcoinTxOf[u] => t = u

\* deposit_tx_hash and the status are written together, so the auto-sync
\* finds no pending row with a hash.
HashIsOpen == \A v \in Vaults : depositTx[v] # None => v \in Open

\* The hash in a row was written by the request that sent the transaction,
\* which is then over, or by a confirmation that named and verified it: a
\* withdraw, or a deposit in the older vault.
StoredBy(v, t) ==
    \/ t \in Senders /\ pc[t] = "done"
    \/ ConfirmNamed(v, t) /\ (t \in WithdrawTxs \/ oldVault)

HashHasWriter ==
    \A v \in Vaults : depositTx[v] # None => StoredBy(v, depositTx[v])

\* A handler that has not called account.execute has no transaction.
UnsentBeforeSend ==
    \A r \in Senders : pc[r] \in {"idle", "polling"} => txState[r] = "none"


\* A confirmation that has not read its row was given no hash yet.
NamedOnce == \A k \in Confirms : pc[k] = "idle" => txHash[k] = None

DepositInv ==
    /\ DepositTypeOK
    /\ OpenHasVaultCall
    /\ OneDeposit
    /\ OneMint
    /\ HashIsOpen
    /\ HashHasWriter
    /\ NamedOnce

\* What the constants say of requests, confirmations and transactions.
LEMMA Roles ==
    /\ Senders \subseteq Handlers /\ Confirms \subseteq Handlers
    /\ SpvRequests \subseteq Senders /\ OldRequests \subseteq Senders
    /\ Senders \subseteq DepositTxs /\ UserTxs \subseteq DepositTxs
    /\ DepositTxs \subseteq Txs /\ WithdrawTxs \subseteq Txs
    /\ Confirms \cap Senders = {} /\ DepositTxs \cap WithdrawTxs = {}
    /\ None \notin Txs
    /\ \A h \in Handlers : VaultOf[h] \in Vaults
  BY DepositConstants DEF Handlers, Senders, Txs, DepositTxs

\* The vault of a deposit is the one it names.
LEMMA CarriedByDeposit == \A t \in DepositTxs : CarriedBy(t) = VaultOf[t]
  BY Roles DEF CarriedBy

\* The parts that speak of the rows and of what succeeded stay when neither
\* changes, no handler comes back to life and no confirmation changes its hash.
LEMMA QuietStep ==
    ASSUME DepositInv, DepositTypeOK', NamedOnce',
           UNCHANGED <<oldVault, depositTx, Open, Succeeded>>,
           \A r \in Senders : pc[r] = "done" => pc'[r] = "done",
           \A k \in Confirms : txHash[k] # None => txHash'[k] = txHash[k]
    PROVE  DepositInv'
  <1>1. ASSUME NEW v \in Vaults, NEW t \in Txs, ConfirmNamed(v, t)
        PROVE  ConfirmNamed(v, t)'
    BY <1>1, Roles DEF ConfirmNamed
  <1>2. OpenHasVaultCall'
    <2> SUFFICES ASSUME NEW v \in Open
                 PROVE  /\ depositTx[v] \in Succeeded
                        /\ CarriedBy(depositTx[v]) = v
                        /\ depositTx[v] \in WithdrawTxs => ConfirmNamed(v, depositTx[v])'
      BY DEF OpenHasVaultCall, CarriedBy, ConfirmNamed
    <2>1. v \in Vaults /\ (depositTx[v] \in WithdrawTxs => depositTx[v] \in Txs)
      BY Roles DEF Open
    <2>2. QED
      BY <1>1, <2>1 DEF DepositInv, OpenHasVaultCall
  <1>3. OneDeposit' /\ OneMint' /\ HashIsOpen'
    BY DEF DepositInv, OneDeposit, OneMint, HashIsOpen
  <1>4. HashHasWriter'
    <2> SUFFICES ASSUME NEW v \in Vaults, depositTx[v] # None
                 PROVE  StoredBy(v, depositTx[v])'
      BY DEF HashHasWriter, StoredBy, ConfirmNamed
    <2>1. StoredBy(v, depositTx[v]) /\ depositTx[v] \in Txs
      BY DEF DepositInv, HashHasWriter, DepositTypeOK
    <2>2. QED
      BY <1>1, <2>1 DEF StoredBy
  <1>5. QED
    BY <1>2, <1>3, <1>4 DEF DepositInv

\* Initially there is no row and no transaction.
LEMMA InitDeposits == Init => DepositInv /\ UnsentBeforeSend
  <1> SUFFICES ASSUME Init PROVE DepositInv /\ UnsentBeforeSend
    OBVIOUS
  <1>1. DepositTypeOK
    BY DepositConstants
       DEF Init, DepositTypeOK, RowStatus, TxState, Pc
  <1>2. Succeeded = {} /\ Open = {}
    BY DEF Init, Succeeded, Open
  <1>3. OpenHasVaultCall /\ OneDeposit /\ OneMint
    BY <1>2 DEF OpenHasVaultCall, OneDeposit, OneMint
  <1>4. HashIsOpen /\ HashHasWriter /\ NamedOnce
    BY DEF Init, HashIsOpen, HashHasWriter, NamedOnce
  <1>5. UnsentBeforeSend
    BY Roles DEF Init, UnsentBeforeSend
  <1>6. QED
    BY <1>1, <1>3, <1>4, <1>5 DEF DepositInv

\* A transaction that passes verifyDepositEvent carries the commitment, and in
\* the SPV vault it is no deposit: there the commitment is not in the data.
LEMMA VerifiedCall ==
    ASSUME NEW t \in Txs, NEW v \in Vaults, EventVerified(t, v)
    PROVE  CarriedBy(t) = v /\ (t \in WithdrawTxs \/ oldVault)
  BY DepositConstants DEF EventVerified, VaultEvent, CarriedBy

\* A transaction that succeeds finds its commitment and, in the SPV vault,
\* its payment unused.
LEMMA SucceedsPreserves ==
    ASSUME DepositInv, NEW t \in Txs, TxSucceeds(t)
    PROVE  DepositInv'
  <1> USE DEF rows, process
  <1>1. DepositTypeOK' /\ NamedOnce'
    BY DEF DepositInv, DepositTypeOK, NamedOnce, TxSucceeds, TxState
  <1>2. Succeeded' = Succeeded \cup {t}
    BY DEF DepositInv, DepositTypeOK, TxSucceeds, Succeeded
  <1>3. UNCHANGED <<oldVault, status, depositTx, pc, txHash>> /\ Open' = Open
    BY DEF TxSucceeds, Open
  <1>4. OpenHasVaultCall'
    <2>1. \A v, u : ConfirmNamed(v, u) => ConfirmNamed(v, u)'
      BY <1>3 DEF ConfirmNamed
    <2>2. QED
      BY <1>2, <1>3, <2>1 DEF DepositInv, OpenHasVaultCall, ConfirmNamed, CarriedBy
  <1>5. HashIsOpen' /\ HashHasWriter'
    BY <1>3 DEF DepositInv, HashIsOpen, HashHasWriter, StoredBy, ConfirmNamed
  <1>6. OneDeposit'
    <2>1. CASE t \in DepositTxs
      BY <1>2, <2>1
         DEF DepositInv, OneDeposit, TxSucceeds, Accepts, AcceptsDeposit, CommitmentUsed
    <2>2. CASE t \notin DepositTxs
      BY <1>2, <2>2 DEF DepositInv, OneDeposit
    <2>3. QED
      BY <2>1, <2>2
  <1>7. OneMint'
    <2> SUFFICES ASSUME ~oldVault
                 PROVE  /\ Succeeded' \cap OldRequests = {}
                        /\ \A a, b \in Succeeded' \cap DepositTxs :
                              BitcoinTxOf[a] = BitcoinTxOf[b] => a = b
      BY <1>3 DEF OneMint
    <2>1. CASE t \notin DepositTxs
      BY <1>2, <2>1, Roles DEF DepositInv, OneMint
    <2>2. CASE t \in DepositTxs
      <3>1. t \notin OldRequests /\ ~TxidSpent(BitcoinTxOf[t])
        BY <2>2 DEF TxSucceeds, Accepts, AcceptsDeposit
      <3>2. Succeeded \cap DepositTxs \subseteq SpvRequests \cup UserTxs
        BY DEF DepositInv, OneMint, DepositTxs, Senders
      <3>3. \A a \in Succeeded \cap DepositTxs : BitcoinTxOf[a] # BitcoinTxOf[t]
        BY <3>1, <3>2 DEF TxidSpent
      <3>4. QED
        BY <1>2, <3>1, <3>3 DEF DepositInv, OneMint
    <2>3. QED
      BY <2>1, <2>2
  <1>8. QED
    BY <1>1, <1>4, <1>5, <1>6, <1>7 DEF DepositInv

\* A handler that is over has written a row: with the hash of its own deposit
\* or with one that its confirmation verified.
LEMMA StorePreserves ==
    ASSUME DepositInv, NEW h \in Handlers, NEW v \in Vaults, NEW t \in Succeeded,
           CarriedBy(t) = v,
           \/ h \in Senders /\ t = h
           \/ ConfirmNamed(v, t) /\ (t \in WithdrawTxs \/ oldVault),
           StoreVault(v, t), Goto(h, "done"),
           UNCHANGED <<oldVault, relayed, txState, txHash, process>>
    PROVE  DepositInv'
  <1> USE DEF process
  <1>1. t \in Txs /\ t # None
    BY Roles DEF Succeeded
  <1>2. /\ status' = [status EXCEPT ![v] = "active"]
        /\ depositTx' = [depositTx EXCEPT ![v] = t]
        /\ pc' = [pc EXCEPT ![h] = "done"]
    BY DEF StoreVault, Goto
  <1>3. DepositTypeOK'
    BY <1>1, <1>2 DEF DepositInv, DepositTypeOK, RowStatus, Pc
  <1>4. Succeeded' = Succeeded
    BY DEF Succeeded
  <1>5. Open' = Open \cup {v}
    BY <1>2 DEF DepositInv, DepositTypeOK, Open
  <1>6. /\ depositTx'[v] = t
        /\ \A w \in Vaults : w # v => depositTx'[w] = depositTx[w]
        /\ \A g \in Handlers : pc[g] = "done" => pc'[g] = "done"
        /\ pc'[h] = "done"
    BY <1>2 DEF DepositInv, DepositTypeOK
  <1>7. \A w, u : ConfirmNamed(w, u)' <=> ConfirmNamed(w, u)
    BY DEF ConfirmNamed
  <1>8. OpenHasVaultCall'
    <2>1. t \in WithdrawTxs => ConfirmNamed(v, t)
      BY Roles
    <2>2. \A w \in Open : w \in Vaults
      BY DEF Open
    <2>3. QED
      BY <1>4, <1>5, <1>6, <1>7, <2>1, <2>2
         DEF DepositInv, OpenHasVaultCall, CarriedBy
  <1>9. OneDeposit' /\ OneMint'
    BY <1>4 DEF DepositInv, OneDeposit, OneMint
  <1>10. HashIsOpen'
    BY <1>5, <1>6 DEF DepositInv, HashIsOpen
  <1>11. HashHasWriter'
    <2> SUFFICES ASSUME NEW w \in Vaults, depositTx'[w] # None
                 PROVE  \/ depositTx'[w] \in Senders /\ pc'[depositTx'[w]] = "done"
                        \/ /\ ConfirmNamed(w, depositTx'[w])
                           /\ depositTx'[w] \in WithdrawTxs \/ oldVault
      BY <1>7 DEF HashHasWriter, StoredBy
    <2>1. CASE w = v
      BY <1>6, <2>1
    <2>2. CASE w # v
      <3>1. depositTx'[w] = depositTx[w]
        BY <1>6, <2>2
      <3>2. StoredBy(w, depositTx[w])
        BY <3>1 DEF DepositInv, HashHasWriter
      <3>3. QED
        BY <1>6, <3>1, <3>2, Roles DEF StoredBy
    <2>3. QED
      BY <2>1, <2>2
  <1>12. NamedOnce'
    BY <1>2, Roles DEF DepositInv, NamedOnce, DepositTypeOK
  <1>13. QED
    BY <1>3, <1>8, <1>9, <1>10, <1>11, <1>12 DEF DepositInv

\* The row is written with the hash of a deposit of this vault.
LEMMA ConfirmedPreserves ==
    ASSUME DepositInv, NEW r \in Senders, Confirmed(r)
    PROVE  DepositInv'
  <1>1. r \in Handlers /\ r \in Succeeded /\ VaultOf[r] \in Vaults
        /\ CarriedBy(r) = VaultOf[r]
    BY Roles, CarriedByDeposit DEF Confirmed, Succeeded
  <1>2. QED
    BY <1>1, StorePreserves DEF Confirmed

\* A confirmation that verifies its transaction.
LEMMA ReceiptVerified ==
    ASSUME DepositInv, NEW k \in Confirms, ConfirmReceipt(k),
           EventVerified(txHash[k], VaultOf[k])
    PROVE  /\ txHash[k] \in Succeeded
           /\ CarriedBy(txHash[k]) = VaultOf[k]
           /\ ConfirmNamed(VaultOf[k], txHash[k])
           /\ txHash[k] \in WithdrawTxs \/ oldVault
           /\ StoreVault(VaultOf[k], txHash[k])
  <1>1. txHash[k] \in Succeeded /\ txHash[k] \in Txs /\ VaultOf[k] \in Vaults
    BY Roles DEF ConfirmReceipt, Succeeded
  <1>2. StoreVault(VaultOf[k], txHash[k])
    BY DEF ConfirmReceipt
  <1>3. QED
    BY <1>1, <1>2, VerifiedCall DEF ConfirmNamed

LEMMA ReceiptPreserves ==
    ASSUME DepositInv, NEW k \in Confirms, ConfirmReceipt(k)
    PROVE  DepositInv'
  <1> USE DEF rows, process
  <1>1. k \in Handlers /\ VaultOf[k] \in Vaults
    BY Roles
  <1>2. CASE EventVerified(txHash[k], VaultOf[k])
    BY <1>1, <1>2, ReceiptVerified, StorePreserves DEF ConfirmReceipt
  <1>3. CASE ~EventVerified(txHash[k], VaultOf[k])
    <2>1. UNCHANGED <<oldVault, status, depositTx, txState, txHash>>
      BY <1>3 DEF ConfirmReceipt
    <2>2. DepositTypeOK' /\ NamedOnce'
      BY <1>1, <1>3
         DEF DepositInv, DepositTypeOK, NamedOnce, ConfirmReceipt, Goto, Pc
    <2>3. Succeeded' = Succeeded /\ Open' = Open
      BY <2>1 DEF Succeeded, Open
    <2>4. \A s \in Senders : pc[s] = "done" => pc'[s] = "done"
      BY <1>1 DEF DepositInv, DepositTypeOK, ConfirmReceipt, Goto
    <2>5. QED
      BY <2>1, <2>2, <2>3, <2>4, QuietStep
  <1>4. QED
    BY <1>2, <1>3

\* A restart forgets the requests.
LEMMA CrashPreserves ==
    ASSUME DepositInv, Crash
    PROVE  DepositInv'
  <1> USE DEF rows, process
  <1>1. DepositTypeOK' /\ NamedOnce'
    BY Roles, DepositConstants DEF Crash, DepositInv, DepositTypeOK, NamedOnce, Pc
  <1>2. UNCHANGED <<oldVault, depositTx, txHash>> /\ Open' = Open /\ Succeeded' = Succeeded
    BY DEF Crash, Open, Succeeded
  <1>3. \A r \in Senders : pc[r] = "done" => pc'[r] = "done"
    BY Roles DEF Crash
  <1>4. QED
    BY <1>1, <1>2, <1>3, QuietStep

\* The auto-sync finds nothing to do.
LEMMA SyncPreserves ==
    ASSUME DepositInv, AutoSync
    PROVE  DepositInv' /\ status' = status
  <1>1. \A v \in Vaults : ~Syncable(v)
    BY DEF Syncable, DepositInv, HashIsOpen, Open
  <1>2. status' = status
    BY <1>1 DEF AutoSync, DepositInv, DepositTypeOK
  <1>3. DepositTypeOK' /\ NamedOnce'
    BY <1>2 DEF AutoSync, DepositInv, DepositTypeOK, NamedOnce
  <1>4. UNCHANGED <<oldVault, depositTx, txHash>> /\ Open' = Open /\ Succeeded' = Succeeded
    BY <1>2 DEF AutoSync, Open, Succeeded
  <1>5. QED
    BY <1>2, <1>3, <1>4, QuietStep DEF AutoSync

\* A handler calls account.execute once, on its way from "idle" or "polling"
\* to "sending".
LEMMA NextUnsent == DepositInv /\ UnsentBeforeSend /\ [Next]_vars => UnsentBeforeSend'
  <1> SUFFICES ASSUME DepositInv, UnsentBeforeSend, [Next]_vars,
                      NEW r \in Senders, pc'[r] \in {"idle", "polling"}
               PROVE  txState'[r] = "none"
    BY DEF UnsentBeforeSend
  <1>t. pc \in [Handlers -> Pc] /\ txState \in [Txs -> TxState] /\ r \in Handlers
        /\ r \notin UserTxs /\ r \notin WithdrawTxs /\ r \notin Confirms /\ r \in Txs
    BY Roles, DepositConstants DEF DepositInv, DepositTypeOK
  <1>1. pc[r] \in {"idle", "polling"}
    BY <1>t DEF Next, vars, TxSubmitted, TxSucceeds, TxReverts, RelayHeader, UserSends,
           Prepare, Withdraw, SpvStart, HeaderFound, HeaderGivesUp, OldStart, Send,
           SendAnswered, SendRejected, SendTimesOut, Confirmed, ConfirmRefused,
           ConfirmStart, ConfirmReceipt, WaitReverted, WaitGivesUp, AutoSync, Crash, Goto
  <1>2. txState[r] = "none"
    BY <1>1 DEF UnsentBeforeSend
  <1>3. QED
    BY <1>t, <1>2, Roles
       DEF Next, vars, TxSubmitted, TxSucceeds, TxReverts, RelayHeader, UserSends,
           Prepare, Withdraw, SpvStart, HeaderFound, HeaderGivesUp, OldStart, Send,
           SendAnswered, SendRejected, SendTimesOut, Confirmed, ConfirmRefused,
           ConfirmStart, ConfirmReceipt, WaitReverted, WaitGivesUp, AutoSync, Crash, Goto

\* Every step keeps the inductive invariant.
LEMMA NextDeposits == DepositInv /\ UnsentBeforeSend /\ [Next]_vars => DepositInv'
  <1> SUFFICES ASSUME DepositInv, UnsentBeforeSend, [Next]_vars
               PROVE  DepositInv'
    OBVIOUS
  <1> USE DEF rows, process
  <1>t. DepositTypeOK /\ NamedOnce
    BY DEF DepositInv
  <1>1. ASSUME NEW t \in Txs, TxSubmitted(t) \/ TxReverts(t)
        PROVE  DepositInv'
    <2>1. DepositTypeOK' /\ NamedOnce'
      BY <1>1, <1>t DEF DepositTypeOK, NamedOnce, TxSubmitted, TxReverts, TxState
    <2>2. Succeeded' = Succeeded /\ Open' = Open
      BY <1>1, <1>t DEF DepositTypeOK, TxSubmitted, TxReverts, Succeeded, Open
    <2>3. QED
      BY <1>1, <2>1, <2>2, QuietStep DEF TxSubmitted, TxReverts
  <1>2. ASSUME NEW t \in Txs, TxSucceeds(t)
        PROVE  DepositInv'
    BY <1>2, SucceedsPreserves
  <1>3. ASSUME NEW b \in BitcoinTxs, RelayHeader(b)
        PROVE  DepositInv'
    <2>1. DepositTypeOK' /\ NamedOnce'
      BY <1>3, <1>t DEF DepositTypeOK, NamedOnce, RelayHeader
    <2>2. Succeeded' = Succeeded /\ Open' = Open
      BY <1>3 DEF RelayHeader, Succeeded, Open
    <2>3. QED
      BY <1>3, <2>1, <2>2, QuietStep DEF RelayHeader
  <1>4. ASSUME NEW t \in UserTxs \cup WithdrawTxs, UserSends(t)
        PROVE  DepositInv'
    <2>1. DepositTypeOK' /\ NamedOnce'
      BY <1>4, <1>t DEF DepositTypeOK, NamedOnce, UserSends, TxState
    <2>2. Succeeded' = Succeeded /\ Open' = Open
      BY <1>4, <1>t DEF DepositTypeOK, UserSends, Succeeded, Open
    <2>3. QED
      BY <1>4, <2>1, <2>2, QuietStep DEF UserSends
  <1>5. ASSUME NEW v \in Vaults, Prepare(v) \/ Withdraw(v)
        PROVE  DepositInv'
    <2>1. DepositTypeOK' /\ NamedOnce'
      BY <1>5, <1>t DEF DepositTypeOK, NamedOnce, Prepare, Withdraw, RowStatus
    <2>2. Succeeded' = Succeeded
      BY <1>5 DEF Prepare, Withdraw, Succeeded
    <2>3. Open' = Open
      BY <1>5, <1>t DEF DepositTypeOK, Prepare, Withdraw, Open
    <2>4. QED
      BY <1>5, <2>1, <2>2, <2>3, QuietStep DEF Prepare, Withdraw
  <1>6. ASSUME NEW r \in Senders,
               \/ r \in SpvRequests /\ (HeaderFound(r) \/ SpvStart(r) \/ HeaderGivesUp(r))
               \/ r \in OldRequests /\ OldStart(r)
               \/ SendAnswered(r) \/ SendRejected(r) \/ SendTimesOut(r)
        PROVE  DepositInv'
    <2>1. DepositTypeOK' /\ NamedOnce'
      BY <1>6, <1>t, Roles
         DEF DepositTypeOK, NamedOnce, Pc, TxState, HeaderFound, SpvStart, HeaderGivesUp,
             OldStart, SendAnswered, SendRejected, SendTimesOut, Send, Goto
    <2>2. /\ \A s \in Senders : pc[s] = "done" => pc'[s] = "done"
          /\ UNCHANGED <<oldVault, depositTx, status, txHash>> /\ Open' = Open
      BY <1>6, <1>t, Roles
         DEF DepositTypeOK, HeaderFound, SpvStart, HeaderGivesUp,
             OldStart, SendAnswered, SendRejected, SendTimesOut, Send, Goto, Open
    <2>3. Succeeded' = Succeeded
      <3>1. CASE SpvStart(r) \/ HeaderGivesUp(r) \/ SendAnswered(r) \/ SendTimesOut(r)
        BY <3>1 DEF SpvStart, HeaderGivesUp, SendAnswered, SendTimesOut, Succeeded
      <3>2. CASE SendRejected(r)
        BY <3>2, <1>t, Roles DEF DepositTypeOK, SendRejected, Succeeded
      <3>3. CASE HeaderFound(r) \/ OldStart(r)
        <4>1. txState[r] = "none"
          BY <3>3 DEF UnsentBeforeSend, HeaderFound, OldStart
        <4>2. QED
          BY <3>3, <4>1, <1>t, Roles
             DEF DepositTypeOK, HeaderFound, OldStart, Send, Succeeded
      <3>4. QED
        BY <1>6, <3>1, <3>2, <3>3
    <2>4. QED
      BY <2>1, <2>2, <2>3, QuietStep
  <1>7. ASSUME NEW r \in Senders, Confirmed(r)
        PROVE  DepositInv'
    BY <1>7, ConfirmedPreserves
  <1>8. ASSUME NEW k \in Confirms, ConfirmReceipt(k)
        PROVE  DepositInv'
    BY <1>8, ReceiptPreserves
  <1>9. ASSUME NEW k \in Confirms, NEW t \in Txs, ConfirmStart(k, t)
        PROVE  DepositInv'
    <2>1. DepositTypeOK' /\ NamedOnce'
      BY <1>9, <1>t, Roles DEF DepositTypeOK, NamedOnce, ConfirmStart, Goto, Pc
    <2>2. Succeeded' = Succeeded /\ Open' = Open
      BY <1>9 DEF ConfirmStart, Succeeded, Open
    <2>3. \A s \in Senders : pc[s] = "done" => pc'[s] = "done"
      BY <1>9, <1>t, Roles DEF DepositTypeOK, ConfirmStart, Goto
    <2>4. \A l \in Confirms : txHash[l] # None => txHash'[l] = txHash[l]
      BY <1>9, <1>t DEF DepositTypeOK, NamedOnce, ConfirmStart
    <2>5. QED
      BY <1>9, <2>1, <2>2, <2>3, <2>4, QuietStep DEF ConfirmStart
  <1>10. ASSUME NEW h \in Handlers,
                \/ WaitReverted(h) \/ WaitGivesUp(h)
                \/ h \in Confirms /\ ConfirmRefused(h)
         PROVE  DepositInv'
    <2>1. DepositTypeOK' /\ NamedOnce'
      BY <1>10, <1>t, Roles
         DEF DepositTypeOK, NamedOnce, WaitReverted, WaitGivesUp, ConfirmRefused, Goto, Pc
    <2>2. Succeeded' = Succeeded /\ Open' = Open
      BY <1>10 DEF WaitReverted, WaitGivesUp, ConfirmRefused, Succeeded, Open
    <2>3. \A s \in Senders : pc[s] = "done" => pc'[s] = "done"
      BY <1>10, <1>t, Roles
         DEF DepositTypeOK, WaitReverted, WaitGivesUp, ConfirmRefused, Goto
    <2>4. QED
      BY <1>10, <2>1, <2>2, <2>3, QuietStep DEF WaitReverted, WaitGivesUp, ConfirmRefused
  <1>11. CASE AutoSync
    BY <1>11, SyncPreserves
  <1>12. CASE Crash
    BY <1>12, CrashPreserves
  <1>13. CASE UNCHANGED vars
    <2>1. DepositTypeOK' /\ NamedOnce' /\ Succeeded' = Succeeded /\ Open' = Open
      BY <1>13, <1>t DEF vars, DepositTypeOK, NamedOnce, Succeeded, Open
    <2>2. QED
      BY <1>13, <2>1, QuietStep DEF vars
  <1>14. QED
    BY <1>1, <1>2, <1>3, <1>4, <1>5, <1>6, <1>7, <1>8, <1>9, <1>10, <1>11,
       <1>12, <1>13, Roles DEF Next

\* The inductive invariant of the deposit routes.
THEOREM DepositInvariance == Spec => [](DepositInv /\ UnsentBeforeSend)
  BY InitDeposits, NextDeposits, NextUnsent, PTL DEF Spec

\* A vault is open only on a succeeded vault call that carries its commitment,
\* and a withdraw is such a call only when a confirm-deposit named it.
THEOREM OpenVaultsHaveCall == Spec => []OpenHasVaultCall
  BY DepositInvariance, PTL DEF DepositInv

\* Two vaults opened by SPV deposits never rest on one Bitcoin payment.
THEOREM PaymentsOpenOneVault == Spec => []OneVaultPerPayment
  <1>1. DepositInv => OneVaultPerPayment
    <2> SUFFICES ASSUME DepositInv, ~oldVault, NEW v \in SpvPaid, NEW w \in SpvPaid,
                        BitcoinTxOf[depositTx[v]] = BitcoinTxOf[depositTx[w]]
                 PROVE  v = w
      BY DEF OneVaultPerPayment
    <2>1. \A x \in SpvPaid : x \in Open /\ depositTx[x] \in Succeeded \cap DepositTxs
                             /\ CarriedBy(depositTx[x]) = x
      BY Roles DEF SpvPaid, DepositInv, OpenHasVaultCall
    <2>2. depositTx[v] = depositTx[w]
      BY <2>1 DEF DepositInv, OneMint
    <2>3. QED
      BY <2>1, <2>2
  <1>2. QED
    BY <1>1, DepositInvariance, PTL

\* A request that sees its transaction succeed, and a confirmation that
\* verifies a deposit, find no other deposit in the row.
LEMMA OnlyDepositOf ==
    ASSUME DepositInv, NEW v \in Vaults, NEW t \in Succeeded \cap DepositTxs,
           CarriedBy(t) = v, depositTx[v] \in DepositTxs
    PROVE  depositTx[v] = t
  <1>1. v \in Open
    BY Roles DEF DepositInv, HashIsOpen
  <1>2. depositTx[v] \in Succeeded /\ CarriedBy(depositTx[v]) = v
    BY <1>1 DEF DepositInv, OpenHasVaultCall
  <1>3. QED
    BY <1>2, CarriedByDeposit DEF DepositInv, OneDeposit

\* Only a withdraw that a confirmation named replaces the hash of a deposit.
LEMMA HashStep ==
    ASSUME DepositInv, [Next]_vars, NEW v \in Vaults,
           depositTx[v] \in DepositTxs, depositTx'[v] # depositTx[v]
    PROVE  depositTx'[v] \in WithdrawTxs /\ ConfirmNamed(v, depositTx'[v])
  <1> USE DEF rows, process
  <1>1. ASSUME NEW r \in Senders, Confirmed(r)
        PROVE  FALSE
    <2>1. v = VaultOf[r] /\ depositTx'[v] = r
      BY <1>1 DEF Confirmed, StoreVault, DepositInv, DepositTypeOK
    <2>2. r \in Succeeded \cap DepositTxs /\ CarriedBy(r) = v
      BY <1>1, <2>1, Roles, CarriedByDeposit DEF Confirmed, Succeeded
    <2>3. QED
      BY <2>1, <2>2, OnlyDepositOf
  <1>2. ASSUME NEW k \in Confirms, ConfirmReceipt(k)
        PROVE  depositTx'[v] \in WithdrawTxs /\ ConfirmNamed(v, depositTx'[v])
    <2>1. EventVerified(txHash[k], VaultOf[k])
      BY <1>2 DEF ConfirmReceipt
    <2>2. v = VaultOf[k] /\ depositTx'[v] = txHash[k]
      BY <1>2, <2>1 DEF ConfirmReceipt, StoreVault, DepositInv, DepositTypeOK
    <2>3. txHash[k] \in Succeeded /\ CarriedBy(txHash[k]) = v
      BY <1>2, <2>1, <2>2, ReceiptVerified
    <2>4. txHash[k] \notin DepositTxs
      BY <2>2, <2>3, OnlyDepositOf
    <2>5. txHash[k] \in WithdrawTxs
      BY <2>3, <2>4 DEF Succeeded, Txs
    <2>6. QED
      BY <2>2, <2>5 DEF ConfirmNamed
  <1>3. QED
    BY <1>1, <1>2
       DEF Next, vars, TxSubmitted, TxSucceeds, TxReverts, RelayHeader, UserSends,
           Prepare, Withdraw, SpvStart, HeaderFound, HeaderGivesUp, OldStart, Send,
           SendAnswered, SendRejected, SendTimesOut, ConfirmRefused, ConfirmStart,
           WaitReverted, WaitGivesUp, AutoSync, Crash

\* The unguarded writes never put one deposit over another.
THEOREM DepositsReplaceNone == Spec => DepositHashReplaced
  <1>1. DepositInv /\ [Next]_vars =>
          [\A v \in Vaults :
             (depositTx[v] \in DepositTxs /\ depositTx'[v] # depositTx[v]) =>
               depositTx'[v] \in WithdrawTxs /\ ConfirmNamed(v, depositTx'[v])]_vars
    BY HashStep
  <1>2. QED
    BY <1>1, DepositInvariance, PTL DEF Spec, DepositHashReplaced

\* A withdrawn vault is only reopened when a confirmation of it verifies.
LEMMA ReopenStep ==
    ASSUME DepositInv, [Next]_vars, NEW v \in Vaults,
           status[v] = "withdrawn", status'[v] # "withdrawn"
    PROVE  ConfirmVerifiable(v)
  <1> USE DEF rows, process
  <1>1. ASSUME NEW r \in Senders, Confirmed(r)
        PROVE  ConfirmVerifiable(v)
    <2>1. v = VaultOf[r] /\ v \in Open
      BY <1>1 DEF Confirmed, StoreVault, DepositInv, DepositTypeOK, Open
    <2>2. r \in Succeeded \cap DepositTxs /\ CarriedBy(r) = v /\ pc[r] # "done"
      BY <1>1, <2>1, Roles, CarriedByDeposit DEF Confirmed, Succeeded
    <2> DEFINE t == depositTx[v]
    <2>3. t \in Succeeded /\ t # None /\ CarriedBy(t) = v
      BY <2>1, Roles DEF DepositInv, OpenHasVaultCall, Succeeded
    <2>4. StoredBy(v, t)
      BY <2>3 DEF DepositInv, HashHasWriter
    <2>5. ~(t \in Senders /\ pc[t] = "done")
      BY <2>2, OnlyDepositOf, Roles
    <2>6. QED
      BY <2>3, <2>4, <2>5 DEF StoredBy, ConfirmVerifiable
  <1>2. ASSUME NEW k \in Confirms, ConfirmReceipt(k)
        PROVE  ConfirmVerifiable(v)
    <2>1. EventVerified(txHash[k], VaultOf[k])
      BY <1>2 DEF ConfirmReceipt
    <2>2. v = VaultOf[k]
      BY <1>2, <2>1 DEF ConfirmReceipt, StoreVault, DepositInv, DepositTypeOK
    <2>3. QED
      BY <1>2, <2>1, <2>2, ReceiptVerified DEF ConfirmVerifiable
  <1>3. ASSUME NEW w \in Vaults, Prepare(w) \/ Withdraw(w)
        PROVE  FALSE
    BY <1>3 DEF Prepare, Withdraw, DepositInv, DepositTypeOK
  <1>4. CASE AutoSync
    BY <1>4, SyncPreserves
  <1>5. QED
    BY <1>1, <1>2, <1>3, <1>4
       DEF Next, vars, TxSubmitted, TxSucceeds, TxReverts, RelayHeader, UserSends,
           SpvStart, HeaderFound, HeaderGivesUp, OldStart, Send,
           SendAnswered, SendRejected, SendTimesOut, ConfirmRefused, ConfirmStart,
           WaitReverted, WaitGivesUp, Crash

\* The late receipt of a deposit reopens no withdrawn vault.
THEOREM LateReceiptsReopenNothing == Spec => ReopenedOnlyByConfirm
  <1>1. DepositInv /\ [Next]_vars =>
          [\A v \in Vaults :
             (status[v] = "withdrawn" /\ status'[v] # "withdrawn") =>
               ConfirmVerifiable(v)]_vars
    BY ReopenStep
  <1>2. QED
    BY <1>1, DepositInvariance, PTL DEF Spec, ReopenedOnlyByConfirm
=============================================================================
