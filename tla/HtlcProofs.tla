----------------------------- MODULE HtlcProofs -----------------------------
(***************************************************************************)
(* For any parties, tokens, secrets, amounts and bounds: types, what the   *)
(* contract's balance consists of, that it always covers the funding it    *)
(* owes, and that the off-chain rows settle once.                          *)
(***************************************************************************)
EXTENDS Htlc, TLAPS

\* The empty slot and the service without rows have their types.
LEMMA InitTypes == Init => HtlcTypeOK
<1> SUFFICES ASSUME Init PROVE HtlcTypeOK
    OBVIOUS
<1> USE HtlcConstants DEF Init
<1>1. rows \in [Secrets -> [status : RowStatus, sender : Parties \cup {Nobody}, timelock : Nat]]
    BY DEF NoRow, RowStatus
<1>2. EmptySlot \in [sender : Parties \cup {Nobody}, receiver : Parties \cup {Nobody, Contract},
                     amount : Nat, hashlock : Hashlocks \cup {ZeroFelt},
                     timelock : Nat, token : Tokens \cup {Nobody}]
    BY DEF EmptySlot
<1>3. slot = EmptySlot /\ slot.amount = 0
    BY DEF EmptySlot
<1>4. /\ purse \in [Tokens -> [Parties -> Nat]]
      /\ held \in [Tokens -> Nat] /\ stranded \in [Tokens -> Nat]
    OBVIOUS
<1>5. told \subseteq Secrets /\ now \in Nat /\ blockTime \in Nat
    OBVIOUS
<1>6. withdrawn \in BOOLEAN /\ refunded \in BOOLEAN
    OBVIOUS
<1> QED BY <1>1, <1>2, <1>3, <1>4, <1>5, <1>6 DEF HtlcTypeOK

\* Every entry point and handler keeps the types of slot, rows and balances.
LEMMA StepTypes == HtlcTypeOK /\ [Next]_htlcVars => HtlcTypeOK'
<1> SUFFICES ASSUME HtlcTypeOK, [Next]_htlcVars PROVE HtlcTypeOK'
    OBVIOUS
<1> USE HtlcConstants
<1>1. ASSUME NEW s \in Secrets, NEW by \in Parties, NEW t \in 1 .. MaxTime,
             NEW reached \in BOOLEAN, CreateRow(s, by, t, reached)
      PROVE  HtlcTypeOK'
    <2>1. rows' \in [Secrets -> [status : RowStatus, sender : Parties \cup {Nobody}, timelock : Nat]]
        BY <1>1 DEF CreateRow, HtlcTypeOK, RowStatus
    <2>2. told' \subseteq Secrets
        BY <1>1 DEF CreateRow, HtlcTypeOK
    <2> QED BY <1>1, <2>1, <2>2 DEF CreateRow, HtlcTypeOK, storageVars, tokenVars, Outstanding
<1>2. ASSUME NEW s \in Secrets, NEW p \in Secrets, ClaimRow(s, p)
      PROVE  HtlcTypeOK'
    <2>1. rows' \in [Secrets -> [status : RowStatus, sender : Parties \cup {Nobody}, timelock : Nat]]
        BY <1>2 DEF ClaimRow, HtlcTypeOK, RowStatus
    <2> QED BY <1>2, <2>1 DEF ClaimRow, HtlcTypeOK, storageVars, tokenVars
<1>3. ASSUME NEW s \in Secrets, NEW by \in Parties, RefundRow(s, by)
      PROVE  HtlcTypeOK'
    <2>1. rows' \in [Secrets -> [status : RowStatus, sender : Parties \cup {Nobody}, timelock : Nat]]
        BY <1>3 DEF RefundRow, HtlcTypeOK, RowStatus
    <2> QED BY <1>3, <2>1 DEF RefundRow, HtlcTypeOK, storageVars, tokenVars
<1>4. ASSUME NEW by \in Parties, NEW to \in Parties \cup {Nobody, Contract},
             NEW h \in Hashlocks, NEW t \in 1 .. MaxTime, NEW tok \in Tokens,
             NEW n \in Amounts, Fund(by, to, h, t, tok, n)
      PROVE  HtlcTypeOK'
    <2>1. n \in Nat /\ n > 0 /\ t \in Nat
        BY <1>4 DEF Fund
    <2>2. purse' \in [Tokens -> [Parties -> Nat]]
        BY <1>4, <2>1 DEF Fund, HtlcTypeOK
    <2>3. held' \in [Tokens -> Nat]
        BY <1>4, <2>1 DEF Fund, HtlcTypeOK
    <2>4. stranded' \in [Tokens -> Nat]
        BY <1>4 DEF Fund, HtlcTypeOK, Outstanding, LeftBehind
    <2>5. /\ slot' = [sender |-> by, receiver |-> to, amount |-> n,
                      hashlock |-> h, timelock |-> t, token |-> tok]
          /\ withdrawn' \in BOOLEAN /\ refunded' \in BOOLEAN
        BY <1>4 DEF Fund
    <2>6. /\ slot' \in [sender : Parties \cup {Nobody}, receiver : Parties \cup {Nobody, Contract},
                        amount : Nat, hashlock : Hashlocks \cup {ZeroFelt},
                        timelock : Nat, token : Tokens \cup {Nobody}]
          /\ slot'.amount > 0
          /\ slot'.sender \in Parties /\ slot'.token \in Tokens
        BY <2>1, <2>5
    <2> QED BY <1>4, <2>2, <2>3, <2>4, <2>5, <2>6 DEF Fund, HtlcTypeOK, rowVars
<1>5. ASSUME NEW to \in Parties \cup {Nobody, Contract}, PayOut(to), slot.token \in Tokens
      PROVE  /\ purse' \in [Tokens -> [Parties -> Nat]]
             /\ held' \in [Tokens -> Nat] /\ stranded' \in [Tokens -> Nat]
    <2>1. slot.amount \in Nat
        BY DEF HtlcTypeOK
    <2>2. CASE to = Contract
        BY <1>5, <2>1, <2>2 DEF PayOut, LeftBehind, HtlcTypeOK
    <2>3. CASE to # Contract
        <3>1. /\ held' = [held EXCEPT ![slot.token] = @ - slot.amount]
              /\ held[slot.token] >= slot.amount /\ stranded' = stranded
            BY <1>5, <2>3 DEF PayOut
        <3>2. purse' = [purse EXCEPT ![slot.token][to] = @ + slot.amount] /\ to \in Parties
            BY <1>5, <2>3 DEF PayOut
        <3>3. held' \in [Tokens -> Nat] /\ stranded' \in [Tokens -> Nat]
            BY <1>5, <2>1, <3>1 DEF HtlcTypeOK
        <3>4. purse' \in [Tokens -> [Parties -> Nat]]
            BY <1>5, <2>1, <3>2 DEF HtlcTypeOK
        <3> QED BY <3>3, <3>4
    <2> QED BY <2>2, <2>3
<1>6. ASSUME NEW p \in Secrets, Withdraw(p)
      PROVE  HtlcTypeOK'
    <2>1. slot.amount > 0
        BY <1>6 DEF Withdraw, HtlcTypeOK, ContractHash, EmptySlot, ZeroFelt
    <2>2. slot.token \in Tokens /\ slot.receiver \in Parties \cup {Nobody, Contract}
        BY <2>1 DEF HtlcTypeOK
    <2>3. PayOut(slot.receiver) /\ withdrawn' = TRUE
          /\ UNCHANGED <<rows, told, now, slot, refunded, blockTime>>
        BY <1>6 DEF Withdraw, rowVars
    <2>4. /\ purse' \in [Tokens -> [Parties -> Nat]]
          /\ held' \in [Tokens -> Nat] /\ stranded' \in [Tokens -> Nat]
        BY <1>5, <2>2, <2>3
    <2> QED BY <2>3, <2>4 DEF HtlcTypeOK
<1>7. ASSUME NEW by \in Parties, Refund(by)
      PROVE  HtlcTypeOK'
    <2>1. slot.amount > 0
        BY <1>7 DEF Refund, HtlcTypeOK, EmptySlot
    <2>2. slot.token \in Tokens /\ slot.sender \in Parties \cup {Nobody, Contract}
        BY <2>1 DEF HtlcTypeOK
    <2>3. PayOut(slot.sender) /\ refunded' = TRUE
          /\ UNCHANGED <<rows, told, now, slot, withdrawn, blockTime>>
        BY <1>7 DEF Refund, rowVars
    <2>4. /\ purse' \in [Tokens -> [Parties -> Nat]]
          /\ held' \in [Tokens -> Nat] /\ stranded' \in [Tokens -> Nat]
        BY <1>5, <2>2, <2>3
    <2> QED BY <2>3, <2>4 DEF HtlcTypeOK
<1>11. ASSUME NEW by \in Parties, NEW tok \in Tokens, NEW n \in Amounts, SendTokens(by, tok, n)
       PROVE  HtlcTypeOK'
    <2>1. n \in Nat
        OBVIOUS
    <2>2. purse' \in [Tokens -> [Parties -> Nat]]
        BY <1>11, <2>1 DEF SendTokens, HtlcTypeOK
    <2>3. held' \in [Tokens -> Nat] /\ stranded' \in [Tokens -> Nat]
        BY <1>11, <2>1 DEF SendTokens, HtlcTypeOK
    <2> QED BY <1>11, <2>2, <2>3 DEF SendTokens, HtlcTypeOK, rowVars, storageVars
<1>8. CASE Tick
    BY <1>8 DEF Tick, HtlcTypeOK, storageVars, tokenVars
<1>9. CASE NewBlock
    BY <1>9 DEF NewBlock, HtlcTypeOK, rowVars, storageVars, tokenVars
<1>10. CASE UNCHANGED htlcVars
    BY <1>10 DEF htlcVars, HtlcTypeOK
<1> QED BY <1>1, <1>2, <1>3, <1>4, <1>6, <1>7, <1>8, <1>9, <1>10, <1>11 DEF Next

(* Types of the table, the storage and the balances.                        *)
THEOREM HtlcTypes == Spec => []HtlcTypeOK
BY InitTypes, StepTypes, PTL DEF Spec

\* At first the contract holds nothing and owes nothing.
LEMMA InitAccounts == Init => HeldIsAccounted
BY DEF Init, HeldIsAccounted, Outstanding, EmptySlot

\* A payment out of the contract settles the funding it pays: what it owed
\* leaves, or stays behind when the contract pays itself.
LEMMA PayOutSettles ==
    ASSUME HtlcTypeOK, HeldIsAccounted, Outstanding, slot.token \in Tokens,
           NEW to, PayOut(to), UNCHANGED slot, withdrawn' \/ refunded'
    PROVE  HeldIsAccounted'
<1>0. stranded' \in [Tokens -> Nat]
    <2>1. stranded \in [Tokens -> Nat] /\ slot.amount \in Nat
        BY DEF HtlcTypeOK
    <2>2. stranded' = stranded \/ stranded' = [stranded EXCEPT ![slot.token] = @ + slot.amount]
        BY DEF PayOut, LeftBehind
    <2> QED BY <2>1, <2>2
<1> SUFFICES ASSUME NEW t \in Tokens PROVE held'[t] = stranded'[t]
    BY <1>0 DEF HeldIsAccounted, Outstanding
<1>1. held[t] = stranded[t] + IF t = slot.token THEN slot.amount ELSE 0
    BY DEF HeldIsAccounted
<1>2. /\ held \in [Tokens -> Nat] /\ stranded \in [Tokens -> Nat] /\ slot.amount \in Nat
    BY DEF HtlcTypeOK
<1>3. CASE to # Contract
    BY <1>1, <1>2, <1>3 DEF PayOut
<1>4. CASE to = Contract
    BY <1>1, <1>2, <1>4 DEF PayOut, LeftBehind
<1> QED BY <1>3, <1>4

\* A funding adds to what is held what it adds to what is owed or stranded;
\* a claim or refund takes from both (lib.cairo:67-133).
LEMMA StepAccounts == HtlcTypeOK /\ HeldIsAccounted /\ [Next]_htlcVars => HeldIsAccounted'
<1> SUFFICES ASSUME HtlcTypeOK, HeldIsAccounted, [Next]_htlcVars PROVE HeldIsAccounted'
    OBVIOUS
<1> USE HtlcConstants
<1>1. ASSUME UNCHANGED storageVars, UNCHANGED tokenVars PROVE HeldIsAccounted'
    BY <1>1 DEF storageVars, tokenVars, HeldIsAccounted, Outstanding
<1>2. ASSUME NEW by \in Parties, NEW to \in Parties \cup {Nobody, Contract},
             NEW h \in Hashlocks, NEW t \in 1 .. MaxTime, NEW tok \in Tokens,
             NEW n \in Amounts, Fund(by, to, h, t, tok, n)
      PROVE  HeldIsAccounted'
    <2>1. n \in Nat /\ n > 0
        BY <1>2 DEF Fund
    <2>2. slot'.amount = n /\ slot'.token = tok /\ Outstanding'
        BY <1>2 DEF Fund, Outstanding
    <2>3. ASSUME NEW u \in Tokens
          PROVE  stranded'[u] = stranded[u] + IF Outstanding /\ slot.token = u THEN slot.amount ELSE 0
        BY <1>2 DEF Fund, HtlcTypeOK, Outstanding, LeftBehind
    <2>4. ASSUME NEW u \in Tokens
          PROVE  held'[u] = held[u] + IF u = tok THEN n ELSE 0
        BY <1>2, <2>1 DEF Fund, HtlcTypeOK
    <2>5. ASSUME NEW u \in Tokens
          PROVE  held'[u] = stranded'[u] + IF u = tok THEN n ELSE 0
        BY <2>3, <2>4 DEF HeldIsAccounted
    <2> QED BY <2>2, <2>5 DEF HeldIsAccounted
<1>3. ASSUME NEW p \in Secrets, Withdraw(p)
      PROVE  HeldIsAccounted'
    <2>1. Outstanding
        BY <1>3 DEF Withdraw, HtlcTypeOK, ContractHash, EmptySlot, ZeroFelt, Outstanding
    <2> QED BY <1>3, <2>1, PayOutSettles DEF Withdraw, HtlcTypeOK, Outstanding
<1>4. ASSUME NEW by \in Parties, Refund(by)
      PROVE  HeldIsAccounted'
    <2>1. Outstanding
        BY <1>4 DEF Refund, HtlcTypeOK, EmptySlot, Outstanding
    <2> QED BY <1>4, <2>1, PayOutSettles DEF Refund, HtlcTypeOK, Outstanding
<1>5. ASSUME NEW s \in Secrets, NEW by \in Parties, NEW t \in 1 .. MaxTime,
             NEW reached \in BOOLEAN, CreateRow(s, by, t, reached)
      PROVE  HeldIsAccounted'
    BY <1>1, <1>5 DEF CreateRow
<1>6. ASSUME NEW s \in Secrets, NEW p \in Secrets, ClaimRow(s, p)
      PROVE  HeldIsAccounted'
    BY <1>1, <1>6 DEF ClaimRow
<1>7. ASSUME NEW s \in Secrets, NEW by \in Parties, RefundRow(s, by)
      PROVE  HeldIsAccounted'
    BY <1>1, <1>7 DEF RefundRow
<1>8. CASE Tick
    BY <1>1, <1>8 DEF Tick
<1>9. CASE NewBlock
    BY <1>1, <1>9 DEF NewBlock
<1>11. ASSUME NEW by \in Parties, NEW tok \in Tokens, NEW n \in Amounts, SendTokens(by, tok, n)
       PROVE  HeldIsAccounted'
    <2>1. n \in Nat /\ held \in [Tokens -> Nat] /\ stranded \in [Tokens -> Nat]
        BY DEF HtlcTypeOK
    <2>2. UNCHANGED <<slot, withdrawn, refunded>>
        BY <1>11 DEF SendTokens, storageVars
    <2>3. ASSUME NEW u \in Tokens
          PROVE  /\ held'[u] = held[u] + IF u = tok THEN n ELSE 0
                 /\ stranded'[u] = stranded[u] + IF u = tok THEN n ELSE 0
        BY <1>11, <2>1 DEF SendTokens
    <2>4. ASSUME NEW u \in Tokens
          PROVE  held'[u] = stranded'[u] + IF Outstanding /\ slot.token = u THEN slot.amount ELSE 0
        <3>1. held[u] = stranded[u] + IF Outstanding /\ slot.token = u THEN slot.amount ELSE 0
            BY DEF HeldIsAccounted
        <3>2. slot.amount \in Nat
            BY DEF HtlcTypeOK
        <3> QED BY <2>1, <2>3, <3>1, <3>2
    <2> QED BY <2>2, <2>4 DEF HeldIsAccounted, Outstanding
<1>10. CASE UNCHANGED htlcVars
    BY <1>1, <1>10 DEF htlcVars, storageVars, tokenVars
<1> QED BY <1>2, <1>3, <1>4, <1>5, <1>6, <1>7, <1>8, <1>9, <1>10, <1>11 DEF Next

(* The contract's balance is the outstanding funding and what is stranded,  *)
(* for each token, whoever the receivers are and whatever is sent to it.    *)
THEOREM HeldAccounted == Spec => []HeldIsAccounted
<1>1. HtlcTypeOK /\ HeldIsAccounted /\ [Next]_htlcVars => HeldIsAccounted'
    BY StepAccounts
<1> QED BY HtlcTypes, InitAccounts, <1>1, PTL DEF Spec

(* The contract can always pay the funding it owes, and whom refund pays is *)
(* an account: a claim of an outstanding funding (lib.cairo:96-114) fails   *)
(* in the token only when fund was given the zero address as the receiver,  *)
(* and a refund (lib.cairo:116-133) never does.                             *)
Covered ==
    Outstanding => /\ held[slot.token] >= slot.amount
                   /\ slot.sender \in Parties
                   /\ slot.receiver \in Parties \cup {Nobody, Contract}

\* Every claim and refund of an outstanding funding is covered, and a refund
\* has somebody to pay (lib.cairo:104-133, mock_btc.cairo:132).
THEOREM PayoutIsCovered == Spec => []Covered
<1>1. HtlcTypeOK /\ HeldIsAccounted => Covered
    <2> SUFFICES ASSUME HtlcTypeOK, HeldIsAccounted, Outstanding
                 PROVE  held[slot.token] >= slot.amount
        BY DEF Covered, HtlcTypeOK, Outstanding
    <2>1. slot.token \in Tokens /\ slot.amount \in Nat
        BY DEF HtlcTypeOK, Outstanding
    <2>2. held[slot.token] = stranded[slot.token] + slot.amount
        BY <2>1 DEF HeldIsAccounted
    <2>3. stranded[slot.token] \in Nat
        BY <2>1 DEF HtlcTypeOK
    <2> QED BY <2>1, <2>2, <2>3
<1> QED BY HtlcTypes, HeldAccounted, <1>1, PTL

(* An off-chain row that is claimed or refunded stays as it is.             *)
THEOREM RowsSettleOnce == Spec => SettledForGood
<1>1. HtlcTypeOK /\ [Next]_htlcVars =>
        [\A s \in Secrets : rows[s].status \in {"claimed", "refunded"} => rows'[s] = rows[s]]_htlcVars
    <2> SUFFICES ASSUME HtlcTypeOK, Next,
                        NEW s \in Secrets, rows[s].status \in {"claimed", "refunded"}
                 PROVE  rows'[s] = rows[s]
        OBVIOUS
    <2>1. CASE UNCHANGED rows
        BY <2>1
    <2>2. ASSUME NEW u \in Secrets, NEW by \in Parties, NEW t \in 1 .. MaxTime,
                 NEW reached \in BOOLEAN, CreateRow(u, by, t, reached)
          PROVE  rows'[s] = rows[s]
        BY <2>2 DEF CreateRow, HtlcTypeOK
    <2>3. ASSUME NEW u \in Secrets, NEW p \in Secrets, ClaimRow(u, p)
          PROVE  rows'[s] = rows[s]
        BY <2>3 DEF ClaimRow, HtlcTypeOK
    <2>4. ASSUME NEW u \in Secrets, NEW by \in Parties, RefundRow(u, by)
          PROVE  rows'[s] = rows[s]
        BY <2>4 DEF RefundRow, HtlcTypeOK
    <2> QED BY <2>1, <2>2, <2>3, <2>4
            DEF Next, Fund, Withdraw, Refund, SendTokens, Tick, NewBlock, rowVars
<1> QED BY HtlcTypes, <1>1, PTL DEF Spec, SettledForGood
=============================================================================
