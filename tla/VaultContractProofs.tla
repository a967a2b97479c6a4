------------------------ MODULE VaultContractProofs ------------------------
(***************************************************************************)
(* Proofs about the contracts, for any finite set of users and any         *)
(* transactions, blocks and reorganisations.                               *)
(*   - The ledger: the induction needs two facts the code never states, a  *)
(*     transaction that minted has its key in spent_txids, and the vault   *)
(*     never approves anybody.                                             *)
(*   - The supply: the sum of the balances is counted as a set of units,   *)
(*     so that adding to a balance adds as many units.  That a balance     *)
(*     fits a u256 follows from the supply doing so.                       *)
(*   - The header store: what latest_height says of the stored roots.      *)
(*   - The proof of a payment.  Two arguments by induction.  Up and down   *)
(*     the Merkle tree: a hash that a turn of verify_merkle_proof combines *)
(*     into a node of a level is a node of the level below, and the        *)
(*     explorer's path goes through the nodes above its transaction.  And  *)
(*     along the bytes of a transaction: where a buffer holds what was     *)
(*     written, the cursor of the parsers moves by its length.             *)
(***************************************************************************)
EXTENDS VaultSpv, FiniteSetTheorems, SequenceTheorems, WellFoundedInduction, TLAPS

\* The part of the type invariant the arithmetic rests on.
LedgerTypes ==
    /\ balances \in [Accounts -> Nat]
    /\ allowances \in [Accounts \X Accounts -> 0..MaxU]
    /\ minted \in [Txids -> Nat]
    /\ deposited \in Nat
    /\ withdrawn \in Nat

\* A transaction that minted is marked spent.
MintedIsSpent == \A t \in Txids : minted[t] # 0 => TxidKey(t) \in spentTxids

\* The vault has no call that approves a spender.
VaultNeverApproves == \A a \in Accounts : allowances[<<Vault, a>>] = 0

LedgerInv ==
    /\ LedgerTypes
    /\ MintedIsSpent
    /\ OneMintPerTransaction
    /\ VaultNeverApproves
    /\ VaultHoldsDeposits

ledger == <<balances, allowances, minted, deposited, withdrawn, spentTxids>>

-----------------------------------------------------------------------------

(* What an output is worth in mBTC is a natural number.                     *)
LEMMA WeiIsNat ==
    ASSUME NEW t \in Txids, NEW o \in DOMAIN Outputs[t]
    PROVE  WeiOf(t, o) \in Nat
BY ContractConstants DEF WeiOf

(* Minting raises one balance by the amount minted and leaves the others.   *)
LEMMA MintTokensEffect ==
    ASSUME NEW to \in Accounts, NEW amount \in Nat,
           balances \in [Accounts -> Nat], MintTokens(to, amount)
    PROVE  /\ balances' \in [Accounts -> Nat]
           /\ balances'[to] = balances[to] + amount
           /\ \A a \in Accounts \ {to} : balances'[a] = balances[a]
BY DEF MintTokens

(* _transfer keeps every balance natural; an account other than the sender  *)
(* never loses, and the sender loses at most the amount.                    *)
LEMMA MoveTokensEffect ==
    ASSUME NEW from \in Accounts, NEW to \in Accounts, NEW amount \in Nat,
           balances \in [Accounts -> Nat], MoveTokens(from, to, amount)
    PROVE  /\ balances' \in [Accounts -> Nat]
           /\ balances'[from] + amount >= balances[from]
           /\ \A a \in Accounts \ {from} : balances'[a] >= balances[a]
<1>1. CASE from = to
  BY <1>1 DEF MoveTokens
<1>2. CASE from # to
  BY <1>2 DEF MoveTokens
<1> QED BY <1>1, <1>2

(* _spend_allowance never lets more through than was approved: without an   *)
(* approval only the amount zero passes.                                    *)
LEMMA SpendAllowanceEffect ==
    ASSUME NEW owner \in Accounts, NEW spender \in Accounts, NEW amount \in 0..MaxU,
           allowances \in [Accounts \X Accounts -> 0..MaxU],
           SpendAllowance(owner, spender, amount)
    PROVE  /\ allowances' \in [Accounts \X Accounts -> 0..MaxU]
           /\ \A a, b \in Accounts : allowances'[<<a, b>>] <= allowances[<<a, b>>]
           /\ allowances[<<owner, spender>>] = 0 => amount = 0
<1> DEFINE p == <<owner, spender>>
<1>0. p \in Accounts \X Accounts /\ allowances[p] \in 0..MaxU /\ MaxU \in Nat
  BY ContractConstants
<1>1. CASE allowances[p] = MaxU
  BY <1>0, <1>1 DEF SpendAllowance
<1>2. CASE allowances[p] # MaxU
  <2>1. allowances[p] >= amount /\ allowances' = [allowances EXCEPT ![p] = allowances[p] - amount]
    BY <1>2 DEF SpendAllowance
  <2>2. allowances[p] - amount \in 0..MaxU
    BY <1>0, <2>1
  <2> QED BY <1>0, <2>1, <2>2
<1> QED BY <1>1, <1>2

-----------------------------------------------------------------------------

\* The ledger invariant holds of the contracts as deployed.
LEMMA LedgerInit == Init => LedgerInv
<1> SUFFICES ASSUME Init PROVE LedgerInv
  OBVIOUS
<1>1. PICK u \in Users : balances = [a \in Accounts |-> IF a = u THEN InitialSupply ELSE 0]
  BY DEF Init
<1>2. LedgerTypes
  BY <1>1, ContractConstants DEF Init, LedgerTypes
<1>3. balances[Vault] = 0
  BY <1>1, ContractConstants DEF Accounts
<1>4. MintedIsSpent /\ OneMintPerTransaction
  BY DEF Init, MintedIsSpent, OneMintPerTransaction
<1>5. VaultNeverApproves
  BY DEF Init, VaultNeverApproves, Accounts
<1>6. VaultHoldsDeposits
  BY <1>3 DEF Init, VaultHoldsDeposits
<1> QED BY <1>2, <1>4, <1>5, <1>6 DEF LedgerInv

(* Steps that only move tokens: they keep the invariant when the vault's    *)
(* balance does not shrink and its allowances stay zero.                    *)
LEMMA TokensOnly ==
    ASSUME LedgerInv, UNCHANGED <<minted, deposited, withdrawn, spentTxids>>,
           balances' \in [Accounts -> Nat],
           allowances' \in [Accounts \X Accounts -> 0..MaxU],
           balances'[Vault] >= balances[Vault],
           \A a \in Accounts : allowances'[<<Vault, a>>] = 0
    PROVE  LedgerInv'
<1> USE DEF LedgerInv
<1>1. LedgerTypes'
  BY DEF LedgerTypes
<1>2. MintedIsSpent' /\ OneMintPerTransaction'
  BY DEF MintedIsSpent, OneMintPerTransaction, TxidKey, pack_u128, PaysCovenant, WeiOf
<1>3. VaultNeverApproves'
  BY DEF VaultNeverApproves
<1>4. VaultHoldsDeposits'
  BY DEF VaultHoldsDeposits, LedgerTypes, Accounts
<1> QED BY <1>1, <1>2, <1>3, <1>4

\* Users calling MockBTC themselves cannot move what the vault holds.
LEMMA TokenCallStep == LedgerInv /\ TokenCall => LedgerInv'
<1> SUFFICES ASSUME LedgerInv, TokenCall PROVE LedgerInv'
  OBVIOUS
<1> USE DEF LedgerInv
<1>0. /\ Vault \in Accounts /\ Users \subseteq Accounts /\ Vault \notin Users
      /\ Amounts \subseteq 0..MaxU /\ MaxU \in Nat
  BY ContractConstants DEF Accounts
<1>t. /\ balances \in [Accounts -> Nat]
      /\ allowances \in [Accounts \X Accounts -> 0..MaxU]
      /\ \A a \in Accounts : allowances[<<Vault, a>>] = 0
  BY DEF LedgerTypes, VaultNeverApproves
<1>1. ASSUME NEW a \in Accounts, NEW amount \in Amounts, Mint(a, amount)
      PROVE  LedgerInv'
  <2>1. balances' \in [Accounts -> Nat] /\ balances'[Vault] >= balances[Vault]
    <3>1. amount \in Nat /\ MintTokens(a, amount)
      BY <1>0, <1>1 DEF Mint
    <3> QED BY <1>0, <1>t, <3>1, MintTokensEffect
  <2>2. UNCHANGED <<allowances, minted, deposited, withdrawn, spentTxids>>
    BY <1>1 DEF Mint, vault, events
  <2> QED BY <1>t, <2>1, <2>2, TokensOnly
<1>2. ASSUME NEW u \in Users, NEW a \in Accounts, NEW amount \in Amounts,
             Transfer(u, a, amount)
      PROVE  LedgerInv'
  <2>1. balances' \in [Accounts -> Nat] /\ balances'[Vault] >= balances[Vault]
    <3>1. amount \in Nat /\ u \in Accounts /\ Vault \in Accounts \ {u} /\ MoveTokens(u, a, amount)
      BY <1>0, <1>2 DEF Transfer
    <3> QED BY <1>t, <3>1, MoveTokensEffect
  <2>2. UNCHANGED <<allowances, minted, deposited, withdrawn, spentTxids>>
    BY <1>2 DEF Transfer, vault, events
  <2> QED BY <1>t, <2>1, <2>2, TokensOnly
<1>3. ASSUME NEW u \in Users, NEW s \in Users, NEW amount \in Amounts,
             Approve(u, s, amount)
      PROVE  LedgerInv'
  <2>1. allowances' = [allowances EXCEPT ![<<u, s>>] = amount] /\ amount \in 0..MaxU
    BY <1>0, <1>3 DEF Approve
  <2>2. allowances' \in [Accounts \X Accounts -> 0..MaxU]
    BY <1>t, <2>1
  <2>3. \A a \in Accounts : allowances'[<<Vault, a>>] = 0
    <3> SUFFICES ASSUME NEW a \in Accounts PROVE allowances'[<<Vault, a>>] = 0
      OBVIOUS
    <3>1. <<Vault, a>> # <<u, s>> /\ <<Vault, a>> \in Accounts \X Accounts
      BY <1>0
    <3> QED BY <1>t, <2>1, <3>1
  <2>4. balances' \in [Accounts -> Nat] /\ balances'[Vault] >= balances[Vault]
        /\ UNCHANGED <<minted, deposited, withdrawn, spentTxids>>
    BY <1>0, <1>3, <1>t DEF Approve, vault, events
  <2> QED BY <2>2, <2>3, <2>4, TokensOnly
<1>4. ASSUME NEW u \in Users, NEW from \in Accounts, NEW a \in Accounts,
             NEW amount \in Amounts, TransferFrom(u, from, a, amount)
      PROVE  LedgerInv'
  <2>1. /\ amount \in 0..MaxU /\ amount \in Nat /\ u \in Accounts
        /\ SpendAllowance(from, u, amount) /\ MoveTokens(from, a, amount)
    BY <1>0, <1>4 DEF TransferFrom
  <2>2. /\ allowances' \in [Accounts \X Accounts -> 0..MaxU]
        /\ \A x, y \in Accounts : allowances'[<<x, y>>] <= allowances[<<x, y>>]
        /\ allowances[<<from, u>>] = 0 => amount = 0
    BY <1>t, <2>1, SpendAllowanceEffect
  <2>3. \A x \in Accounts : allowances'[<<Vault, x>>] = 0
    <3> SUFFICES ASSUME NEW x \in Accounts PROVE allowances'[<<Vault, x>>] = 0
      OBVIOUS
    <3>1. allowances'[<<Vault, x>>] \in 0..MaxU /\ allowances'[<<Vault, x>>] <= 0
      BY <1>0, <1>t, <2>2
    <3> QED BY <1>0, <3>1
  <2>4. /\ balances' \in [Accounts -> Nat]
        /\ balances'[from] + amount >= balances[from]
        /\ \A x \in Accounts \ {from} : balances'[x] >= balances[x]
    BY <1>t, <2>1, MoveTokensEffect
  <2>5. balances'[Vault] >= balances[Vault]
    <3>1. CASE from = Vault
      <4>1. amount = 0
        BY <1>t, <2>1, <2>2, <3>1
      <4> QED BY <1>0, <1>t, <2>4, <3>1, <4>1
    <3>2. CASE from # Vault
      BY <1>0, <2>4, <3>2
    <3> QED BY <3>1, <3>2
  <2>6. UNCHANGED <<minted, deposited, withdrawn, spentTxids>>
    BY <1>4 DEF TransferFrom, vault, events
  <2> QED BY <2>2, <2>3, <2>4, <2>5, <2>6, TokensOnly
<1> QED BY <1>1, <1>2, <1>3, <1>4 DEF TokenCall

\* A deposit mints against a key that was free and marks it spent.
LEMMA DepositStep ==
    ASSUME LedgerInv, NEW c \in Commitments, NEW h \in Heights, NEW t \in Txids,
           NEW o \in DOMAIN Outputs[t], Deposit(c, h, t, o)
    PROVE  LedgerInv'
<1> USE DEF LedgerInv
<1> DEFINE wei == WeiOf(t, o)
<1>0. wei \in Nat /\ Vault \in Accounts
  BY WeiIsNat DEF Accounts
<1>1. /\ TxidKey(t) \notin spentTxids
      /\ spentTxids' = spentTxids \cup {TxidKey(t)}
      /\ PaysCovenant(t, o)
      /\ MintTokens(Vault, wei)
      /\ minted' = [minted EXCEPT ![t] = minted[t] + wei]
      /\ deposited' = deposited + wei
      /\ allowances' = allowances /\ withdrawn' = withdrawn
  BY DEF Deposit
<1>2. minted[t] = 0
  BY <1>1 DEF MintedIsSpent
<1>3. balances' \in [Accounts -> Nat] /\ balances'[Vault] = balances[Vault] + wei
  BY <1>0, <1>1, MintTokensEffect DEF LedgerTypes
<1> HIDE DEF wei
<1>4. minted'[t] = wei /\ \A s \in Txids \ {t} : minted'[s] = minted[s]
  BY <1>0, <1>1, <1>2 DEF LedgerTypes
<1>5. LedgerTypes'
  BY <1>0, <1>1, <1>3 DEF LedgerTypes
<1>6. MintedIsSpent'
  <2>1. \A s \in Txids : minted'[s] # 0 => TxidKey(s) \in spentTxids'
    BY <1>1, <1>4 DEF MintedIsSpent
  <2> QED BY <2>1 DEF MintedIsSpent, TxidKey, pack_u128
<1>7. OneMintPerTransaction'
  <2>1. ASSUME NEW s \in Txids, minted'[s] # 0
        PROVE  \E p \in DOMAIN Outputs[s] : PaysCovenant(s, p) /\ minted'[s] = WeiOf(s, p)
    <3>1. CASE s = t
      BY <1>1, <1>4, <3>1 DEF wei
    <3>2. CASE s # t
      BY <1>4, <2>1, <3>2 DEF OneMintPerTransaction
    <3> QED BY <3>1, <3>2
  <2> QED BY <2>1 DEF OneMintPerTransaction, PaysCovenant, WeiOf
<1>8. VaultNeverApproves'
  BY <1>1 DEF VaultNeverApproves
<1>9. VaultHoldsDeposits'
  BY <1>0, <1>1, <1>3 DEF VaultHoldsDeposits, LedgerTypes
<1> QED BY <1>5, <1>6, <1>7, <1>8, <1>9

\* A withdrawal pays from the vault what the contract counts as withdrawn.
LEMMA WithdrawStep ==
    ASSUME LedgerInv, NEW n \in Nullifiers, NEW l \in 0..1, NEW a \in Accounts,
           NEW amount \in Amounts, Withdraw(n, l, a, amount)
    PROVE  LedgerInv'
<1> USE DEF LedgerInv
<1>0. amount \in Nat /\ Vault \in Accounts
  BY ContractConstants DEF Accounts
<1>1. /\ MoveTokens(Vault, a, amount)
      /\ withdrawn' = withdrawn + amount
      /\ UNCHANGED <<allowances, spentTxids, minted, deposited>>
  BY DEF Withdraw
<1>2. balances' \in [Accounts -> Nat] /\ balances'[Vault] + amount >= balances[Vault]
  BY <1>0, <1>1, MoveTokensEffect DEF LedgerTypes
<1>3. LedgerTypes'
  BY <1>0, <1>1, <1>2 DEF LedgerTypes
<1>4. MintedIsSpent' /\ OneMintPerTransaction' /\ VaultNeverApproves'
  BY <1>1 DEF MintedIsSpent, OneMintPerTransaction, VaultNeverApproves,
              TxidKey, pack_u128, PaysCovenant, WeiOf
<1>5. VaultHoldsDeposits'
  BY <1>0, <1>1, <1>2 DEF VaultHoldsDeposits, LedgerTypes
<1> QED BY <1>3, <1>4, <1>5

\* Steps that touch neither token nor vault.
LEMMA LedgerStutter ==
    ASSUME LedgerInv, UNCHANGED ledger
    PROVE  LedgerInv'
BY DEF ledger, LedgerInv, LedgerTypes, MintedIsSpent, OneMintPerTransaction,
       VaultNeverApproves, VaultHoldsDeposits, TxidKey, pack_u128, PaysCovenant, WeiOf

(* Every entry point of the three contracts keeps the ledger invariant.     *)
THEOREM LedgerInvariance == Spec => []LedgerInv
<1>1. ASSUME LedgerInv, [Next]_vars PROVE LedgerInv'
  <2>1. CASE TokenCall
    BY <1>1, <2>1, TokenCallStep
  <2>2. CASE Relay
    <3>1. UNCHANGED ledger
      BY <2>2 DEF Relay, StoreHeader, token, vault, events, ledger
    <3> QED BY <1>1, <3>1, LedgerStutter
  <2>3. CASE VaultCall
    BY <1>1, <2>3, DepositStep, WithdrawStep DEF VaultCall
  <2>4. CASE UNCHANGED vars
    <3>1. UNCHANGED ledger
      BY <2>4 DEF vars, ledger
    <3> QED BY <1>1, <3>1, LedgerStutter
  <2> QED BY <1>1, <2>1, <2>2, <2>3, <2>4 DEF Next
<1> QED BY <1>1, LedgerInit, PTL DEF Spec

(* deposit() mints at most once for a Bitcoin transaction, and then the     *)
(* value of a covenant output of it, whatever blocks and reorganisations    *)
(* the relayer posts.                                                       *)
THEOREM MintedOnce == Spec => []OneMintPerTransaction
<1>1. LedgerInv => OneMintPerTransaction
  BY DEF LedgerInv
<1> QED BY <1>1, LedgerInvariance, PTL

(* No sequence of token calls by users takes deposited mBTC out of the      *)
(* vault; only withdraw() does, and it is counted.                          *)
THEOREM DepositsAreHeld == Spec => []VaultHoldsDeposits
<1>1. LedgerInv => VaultHoldsDeposits
  BY DEF LedgerInv
<1> QED BY <1>1, LedgerInvariance, PTL

-----------------------------------------------------------------------------
(* The sum of the balances                                                 *)

(* The units of any balances over finitely many accounts can be counted.    *)
LEMMA UnitsAreFinite ==
    ASSUME NEW A, IsFiniteSet(A), NEW b \in [A -> Nat]
    PROVE  IsFiniteSet(Units(b)) /\ Cardinality(Units(b)) \in Nat
<1> DEFINE own == [a \in A |-> {a} \X (1 .. b[a])]
           piles == {{a} \X (1 .. b[a]) : a \in A}
<1>1. IsFiniteSet(piles)
  <2>1. own \in Surjection(A, piles)
    BY DEF Surjection
  <2> HIDE DEF own, piles
  <2> QED BY <2>1, FS_Surjection
<1>2. \A T \in piles : IsFiniteSet(T)
  <2> SUFFICES ASSUME NEW a \in A PROVE IsFiniteSet({a} \X (1 .. b[a]))
    OBVIOUS
  <2>1. b[a] \in Int
    OBVIOUS
  <2>2. IsFiniteSet(1 .. b[a])
    BY <2>1, FS_Interval
  <2>3. IsFiniteSet({a})
    BY FS_Singleton
  <2> QED BY <2>2, <2>3, FS_Product
<1>3. Units(b) = UNION piles
  BY DEF Units
<1> HIDE DEF piles
<1>4. IsFiniteSet(Units(b))
  BY <1>1, <1>2, <1>3, FS_UNION
<1> QED BY <1>4, FS_CardinalityType

(* No account holds more than everybody together.                           *)
LEMMA BalanceIsBounded ==
    ASSUME NEW A, IsFiniteSet(A), NEW b \in [A -> Nat], NEW a \in A
    PROVE  b[a] <= Cardinality(Units(b))
<1> DEFINE mine == {a} \X (1 .. b[a])
<1>1. IsFiniteSet(1 .. b[a]) /\ Cardinality(1 .. b[a]) = b[a]
  BY FS_Interval
<1>2. IsFiniteSet({a}) /\ Cardinality({a}) = 1
  BY FS_Singleton
<1>3. IsFiniteSet(mine) /\ Cardinality(mine) = 1 * b[a]
  BY <1>1, <1>2, FS_Product
<1>4. mine \in SUBSET Units(b)
  BY DEF Units
<1> HIDE DEF mine
<1>5. Cardinality(mine) <= Cardinality(Units(b))
  BY <1>4, UnitsAreFinite, FS_Subset
<1> QED BY <1>3, <1>5

(* Adding to one balance adds as many units.                                *)
LEMMA UnitsGrow ==
    ASSUME NEW A, IsFiniteSet(A), NEW b \in [A -> Nat], NEW a \in A, NEW n \in Nat,
           NEW c \in [A -> Nat], c[a] = b[a] + n, \A x \in A \ {a} : c[x] = b[x]
    PROVE  Cardinality(Units(c)) = Cardinality(Units(b)) + n
<1> DEFINE new == (b[a] + 1) .. (b[a] + n)
           added == {a} \X new
<1>1. c[a] = b[a] + n /\ \A x \in A \ {a} : c[x] = b[x]
  OBVIOUS
<1>2. IsFiniteSet(new) /\ Cardinality(new) = n
  <2> DEFINE lo == b[a] + 1
             hi == b[a] + n
  <2>1. lo \in Int /\ hi \in Int /\ (IF lo > hi THEN 0 ELSE hi - lo + 1) = n
    OBVIOUS
  <2> HIDE DEF lo, hi
  <2>2. IsFiniteSet(lo .. hi) /\ Cardinality(lo .. hi) = n
    BY <2>1, FS_Interval
  <2> QED BY <2>2 DEF lo, hi
<1>3. IsFiniteSet(added) /\ Cardinality(added) = n
  <2>1. IsFiniteSet({a}) /\ Cardinality({a}) = 1
    BY FS_Singleton
  <2> HIDE DEF new
  <2>2. IsFiniteSet({a} \X new) /\ Cardinality({a} \X new) = 1 * n
    BY <1>2, <2>1, FS_Product
  <2> QED BY <2>2
<1>4. Units(c) = Units(b) \cup added
  <2>1. \A x \in A : {x} \X (1 .. c[x]) = ({x} \X (1 .. b[x])) \cup (IF x = a THEN added ELSE {})
    <3> SUFFICES ASSUME NEW x \in A
                 PROVE  {x} \X (1 .. c[x]) = ({x} \X (1 .. b[x])) \cup (IF x = a THEN added ELSE {})
      OBVIOUS
    <3>1. CASE x = a
      <4>1. 1 .. c[a] = (1 .. b[a]) \cup new
        BY <1>1
      <4> QED BY <3>1, <4>1
    <3>2. CASE x # a
      BY <1>1, <3>2
    <3> QED BY <3>1, <3>2
  <2>2. DOMAIN c = A /\ DOMAIN b = A
    BY <1>1
  <2> HIDE DEF added
  <2> QED BY <2>1, <2>2 DEF Units
<1>5. Units(b) \cap added = {}
  BY DEF Units
<1> HIDE DEF added
<1>6. Cardinality(Units(b) \cup added)
        = Cardinality(Units(b)) + Cardinality(added) - Cardinality(Units(b) \cap added)
  BY <1>3, UnitsAreFinite, FS_Union
<1>7. Cardinality(Units(b)) \in Nat /\ Cardinality({}) = 0
  BY UnitsAreFinite, FS_EmptySet
<1>8. Cardinality(Units(c)) = Cardinality(Units(b)) + n
  <2>1. Cardinality(Units(c)) = Cardinality(Units(b)) + n - Cardinality(Units(b) \cap added)
    BY <1>3, <1>4, <1>6
  <2>2. Cardinality(Units(b) \cap added) = 0
    BY <1>5, <1>7
  <2> QED BY <1>7, <2>1, <2>2
<1> QED BY <1>8

-----------------------------------------------------------------------------
(* The supply                                                              *)

\* There are finitely many accounts to add up.
LEMMA AccountsAreFinite == IsFiniteSet(Accounts)
BY ContractConstants, FS_AddElement DEF Accounts

(* Minting counts the same amount into the supply and into one balance.     *)
LEMMA MintKeepsSupply ==
    ASSUME NEW to \in Accounts, NEW amount \in Nat,
           balances \in [Accounts -> Nat], SupplyIsBalances, MintTokens(to, amount)
    PROVE  SupplyIsBalances'
<1>1. /\ balances' \in [Accounts -> Nat]
      /\ balances'[to] = balances[to] + amount
      /\ \A a \in Accounts \ {to} : balances'[a] = balances[a]
  BY MintTokensEffect
<1>2. Cardinality(Units(balances')) = Cardinality(Units(balances)) + amount
  BY <1>1, AccountsAreFinite, UnitsGrow
<1>3. supply' = supply + amount
  BY DEF MintTokens
<1> QED BY <1>2, <1>3 DEF SupplyIsBalances, Units

(* A transfer, to oneself too, takes as many units as it gives.             *)
LEMMA MoveKeepsSupply ==
    ASSUME NEW from \in Accounts, NEW to \in Accounts, NEW amount \in Nat,
           balances \in [Accounts -> Nat], SupplyIsBalances, UNCHANGED supply,
           MoveTokens(from, to, amount)
    PROVE  SupplyIsBalances'
<1> DEFINE taken == [balances EXCEPT ![from] = balances[from] - amount]
<1>1. /\ taken \in [Accounts -> Nat]
      /\ balances[from] = taken[from] + amount
      /\ \A a \in Accounts \ {from} : balances[a] = taken[a]
  BY DEF MoveTokens
<1>2. balances' = [taken EXCEPT ![to] = taken[to] + amount]
  BY DEF MoveTokens
<1> HIDE DEF taken
<1>3. /\ balances' \in [Accounts -> Nat]
      /\ balances'[to] = taken[to] + amount
      /\ \A a \in Accounts \ {to} : balances'[a] = taken[a]
  BY <1>1, <1>2
<1>4. Cardinality(Units(balances)) = Cardinality(Units(taken)) + amount
  BY <1>1, AccountsAreFinite, UnitsGrow
<1>5. Cardinality(Units(balances')) = Cardinality(Units(taken)) + amount
  BY <1>1, <1>3, AccountsAreFinite, UnitsGrow
<1> QED BY <1>4, <1>5 DEF SupplyIsBalances, Units

(* What every call keeps of the token's books: the supply fits a u256 and   *)
(* counts the balances.                                                     *)
SupplyInv == supply \in 0..MaxU /\ SupplyIsBalances

\* At first one user holds the whole supply.
LEMMA SupplyInit == Init => SupplyInv
<1> SUFFICES ASSUME Init PROVE SupplyInv
  OBVIOUS
<1> DEFINE zero == [a \in Accounts |-> 0]
<1>1. PICK u \in Users : balances = [a \in Accounts |-> IF a = u THEN InitialSupply ELSE 0]
  BY DEF Init
<1>2. /\ u \in Accounts /\ InitialSupply \in Nat
      /\ balances \in [Accounts -> Nat] /\ zero \in [Accounts -> Nat]
      /\ balances[u] = zero[u] + InitialSupply
      /\ \A a \in Accounts \ {u} : balances[a] = zero[a]
  BY <1>1, ContractConstants DEF Accounts
<1>3. Units(zero) = {}
  BY DEF Units
<1> HIDE DEF zero
<1>4. Cardinality(Units(balances)) = Cardinality(Units(zero)) + InitialSupply
  BY <1>2, AccountsAreFinite, UnitsGrow
<1>5. Cardinality(Units(balances)) = InitialSupply
  BY <1>2, <1>3, <1>4, FS_EmptySet
<1> QED BY <1>5, ContractConstants DEF Init, SupplyInv, SupplyIsBalances

\* A mint adds its units to one balance and to the supply,
LEMMA SupplyMint ==
    ASSUME NEW to \in Accounts, NEW amount \in Nat, LedgerTypes, SupplyInv,
           MintTokens(to, amount)
    PROVE  SupplyInv'
<1>1. SupplyIsBalances'
  BY MintKeepsSupply DEF LedgerTypes, SupplyInv
<1>2. supply' \in 0..MaxU
  BY ContractConstants DEF SupplyInv, MintTokens
<1> QED BY <1>1, <1>2 DEF SupplyInv

\* a transfer adds none,
LEMMA SupplyMove ==
    ASSUME NEW from \in Accounts, NEW to \in Accounts, NEW amount \in Nat,
           LedgerTypes, SupplyInv, UNCHANGED supply, MoveTokens(from, to, amount)
    PROVE  SupplyInv'
<1>1. SupplyIsBalances'
  BY MoveKeepsSupply DEF LedgerTypes, SupplyInv
<1> QED BY <1>1 DEF SupplyInv

\* and steps that leave the token alone add none either.
LEMMA SupplySame ==
    ASSUME SupplyInv, UNCHANGED <<supply, balances>>
    PROVE  SupplyInv'
BY DEF SupplyInv, SupplyIsBalances, Units

\* Every step keeps the supply equal to the number of units.
LEMMA SupplyStep == LedgerTypes /\ SupplyInv /\ [Next]_vars => SupplyInv'
<1> SUFFICES ASSUME LedgerTypes, SupplyInv, [Next]_vars PROVE SupplyInv'
  OBVIOUS
<1>0. Vault \in Accounts /\ Users \subseteq Accounts /\ Amounts \subseteq Nat
  BY ContractConstants DEF Accounts
<1>1. ASSUME NEW a \in Accounts, NEW amount \in Amounts, Mint(a, amount)
      PROVE  SupplyInv'
  <2>1. amount \in Nat /\ MintTokens(a, amount)
    BY <1>0, <1>1 DEF Mint
  <2> QED BY <2>1, SupplyMint
<1>2. ASSUME NEW u \in Users, NEW a \in Accounts, NEW amount \in Amounts,
             Transfer(u, a, amount)
      PROVE  SupplyInv'
  <2>1. u \in Accounts /\ amount \in Nat /\ UNCHANGED supply /\ MoveTokens(u, a, amount)
    BY <1>0, <1>2 DEF Transfer
  <2> QED BY <2>1, SupplyMove
<1>3. ASSUME NEW u \in Users, NEW s \in Users, NEW amount \in Amounts, Approve(u, s, amount)
      PROVE  SupplyInv'
  BY <1>3, SupplySame DEF Approve
<1>4. ASSUME NEW u \in Users, NEW from \in Accounts, NEW a \in Accounts,
             NEW amount \in Amounts, TransferFrom(u, from, a, amount)
      PROVE  SupplyInv'
  <2>1. amount \in Nat /\ UNCHANGED supply /\ MoveTokens(from, a, amount)
    BY <1>0, <1>4 DEF TransferFrom
  <2> QED BY <2>1, SupplyMove
<1>5. CASE Relay
  <2>1. UNCHANGED <<supply, balances>>
    BY <1>5 DEF Relay, StoreHeader, token
  <2> QED BY <2>1, SupplySame
<1>6. ASSUME NEW c \in Commitments, NEW h \in Heights, NEW t \in Txids,
             NEW o \in DOMAIN Outputs[t], Deposit(c, h, t, o)
      PROVE  SupplyInv'
  <2>1. WeiOf(t, o) \in Nat /\ MintTokens(Vault, WeiOf(t, o))
    BY <1>6, WeiIsNat DEF Deposit
  <2> QED BY <1>0, <2>1, SupplyMint
<1>7. ASSUME NEW n \in Nullifiers, NEW l \in 0..1, NEW a \in Accounts,
             NEW amount \in Amounts, Withdraw(n, l, a, amount)
      PROVE  SupplyInv'
  <2>1. amount \in Nat /\ UNCHANGED supply /\ MoveTokens(Vault, a, amount)
    BY <1>0, <1>7 DEF Withdraw
  <2> QED BY <1>0, <2>1, SupplyMove
<1>8. CASE UNCHANGED vars
  <2>1. UNCHANGED <<supply, balances>>
    BY <1>8 DEF vars
  <2> QED BY <2>1, SupplySame
<1>9. TokenCall => SupplyInv'
  BY <1>1, <1>2, <1>3, <1>4 DEF TokenCall
<1>10. VaultCall => SupplyInv'
  BY <1>6, <1>7 DEF VaultCall
<1> QED BY <1>5, <1>8, <1>9, <1>10 DEF Next

\* So it is in every reachable state.
LEMMA SupplyInvariance == Spec => []SupplyInv
<1>1. LedgerInv => LedgerTypes
  BY DEF LedgerInv
<1> QED BY <1>1, LedgerInvariance, SupplyInit, SupplyStep, PTL DEF Spec

(* Through every mint, transfer (to oneself too), deposit and withdrawal,   *)
(* MockBTC's total_supply stays the sum of the balances.                    *)
THEOREM SupplyCountsBalances == Spec => []SupplyIsBalances
<1>1. SupplyInv => SupplyIsBalances
  BY DEF SupplyInv
<1> QED BY <1>1, SupplyInvariance, PTL

-----------------------------------------------------------------------------
(* The header store and the storage types                                  *)

HeaderTypes ==
    /\ roots \in [Heights -> [set : SUBSET Txids, stored : BOOLEAN]]
    /\ \A h \in Heights : roots[h] = NotStored \/
          (roots[h].stored /\ roots[h].set \in Mined[h])

\* latest_height is the highest stored height, zero while none is stored.
LatestIsNewest ==
    /\ \A h \in Heights : roots[h].stored => h <= latest
    /\ latest # 0 => \E h \in Heights : h = latest /\ roots[h].stored

HeaderInv == HeaderTypes /\ LatestIsNewest

\* The store begins empty, with height 0.
LEMMA HeaderInit == Init => HeaderInv
BY DEF Init, HeaderInv, HeaderTypes, LatestIsNewest, NotStored

\* Storing a header, old or new, leaves latest_height the highest stored.
LEMMA StoreHeaderStep ==
    ASSUME HeaderInv, NEW h \in Heights, NEW block \in Mined[h], StoreHeader(h, block)
    PROVE  HeaderInv'
<1>0. /\ roots' = [roots EXCEPT ![h] = [set |-> block, stored |-> TRUE]]
      /\ latest' = IF h > latest THEN h ELSE latest
      /\ block \in SUBSET Txids /\ h \in Nat
  BY ContractConstants DEF StoreHeader, NewestHeight
<1>1. roots'[h].stored /\ roots'[h].set = block /\ \A g \in Heights \ {h} : roots'[g] = roots[g]
  BY <1>0 DEF HeaderInv, HeaderTypes
<1>2. HeaderTypes'
  <2>1. roots' \in [Heights -> [set : SUBSET Txids, stored : BOOLEAN]]
    BY <1>0 DEF HeaderInv, HeaderTypes
  <2>2. \A g \in Heights : roots'[g] = NotStored \/
            (roots'[g].stored /\ roots'[g].set \in Mined[g])
    BY <1>1 DEF HeaderInv, HeaderTypes
  <2> QED BY <2>1, <2>2 DEF HeaderTypes, NotStored
<1>3. latest \in Nat
  BY ContractConstants DEF HeaderInv, LatestIsNewest
<1>4. \A g \in Heights : roots'[g].stored => g <= latest'
  <2> SUFFICES ASSUME NEW g \in Heights, roots'[g].stored PROVE g <= latest'
    OBVIOUS
  <2>1. g \in Nat
    BY ContractConstants
  <2>2. CASE g = h
    BY <1>0, <1>3, <2>2
  <2>3. CASE g # h
    <3>1. g <= latest
      BY <1>1, <2>3 DEF HeaderInv, LatestIsNewest
    <3> QED BY <1>0, <1>3, <2>1, <3>1
  <2> QED BY <2>2, <2>3
<1>5. latest' # 0 => \E g \in Heights : g = latest' /\ roots'[g].stored
  <2>1. CASE h > latest
    BY <1>0, <1>1, <2>1
  <2>2. CASE ~(h > latest)
    <3>1. latest' = latest
      BY <1>0, <2>2
    <3>2. \A g \in Heights : roots[g].stored => roots'[g].stored
      BY <1>1
    <3> QED BY <3>1, <3>2 DEF HeaderInv, LatestIsNewest
  <2> QED BY <2>1, <2>2
<1> QED BY <1>2, <1>4, <1>5 DEF HeaderInv, LatestIsNewest

\* No other entry point writes to the store.
LEMMA HeaderStep == HeaderInv /\ [Next]_vars => HeaderInv'
<1> SUFFICES ASSUME HeaderInv, [Next]_vars PROVE HeaderInv'
  OBVIOUS
<1>1. CASE Relay
  BY <1>1, StoreHeaderStep DEF Relay
<1>2. CASE UNCHANGED headers
  BY <1>2 DEF headers, HeaderInv, HeaderTypes, LatestIsNewest, NotStored
<1>3. TokenCall => UNCHANGED headers
  BY DEF TokenCall, Mint, Transfer, Approve, TransferFrom
<1>4. VaultCall => UNCHANGED headers
  BY DEF VaultCall, Deposit, Withdraw
<1>5. UNCHANGED vars => UNCHANGED headers
  BY DEF vars, headers
<1> QED BY <1>1, <1>2, <1>3, <1>4, <1>5 DEF Next

\* The vault only records commitments and nullifiers callers passed it.
KeyTypes == commitments \subseteq Commitments /\ nullifiers \subseteq Nullifiers

\* No call changes that.
LEMMA KeyStep == KeyTypes /\ [Next]_vars => KeyTypes'
<1> SUFFICES ASSUME KeyTypes, [Next]_vars PROVE KeyTypes'
  OBVIOUS
<1>1. TokenCall => UNCHANGED vault
  BY DEF TokenCall, Mint, Transfer, Approve, TransferFrom
<1>2. Relay => UNCHANGED vault
  BY DEF Relay, StoreHeader
<1>3. VaultCall => KeyTypes'
  BY DEF VaultCall, Deposit, Withdraw, KeyTypes
<1>4. UNCHANGED vault \/ UNCHANGED vars => KeyTypes'
  BY DEF vault, vars, KeyTypes
<1> QED BY <1>1, <1>2, <1>3, <1>4 DEF Next

(* The storage types, for any number of calls: adding to a balance in _mint *)
(* or _transfer never passes a u256, because the supply, whose addition is  *)
(* the guard, is the sum of the balances; and latest_height is the highest  *)
(* stored height however headers were posted.                               *)
THEOREM ContractTypes == Spec => []ContractTypeOK
<1>1. LedgerInv /\ SupplyInv => balances \in [Accounts -> 0..MaxU]
  <2> SUFFICES ASSUME LedgerInv, SupplyInv PROVE balances \in [Accounts -> 0..MaxU]
    OBVIOUS
  <2>1. balances \in [Accounts -> Nat]
    BY DEF LedgerInv, LedgerTypes
  <2>2. ASSUME NEW a \in Accounts PROVE balances[a] \in 0..MaxU
    <3>1. balances[a] \in Nat /\ balances[a] <= supply
      BY <2>1, AccountsAreFinite, BalanceIsBounded DEF SupplyInv, SupplyIsBalances
    <3> QED BY <3>1, ContractConstants DEF SupplyInv
  <2> QED BY <2>1, <2>2
<1>2. LedgerInv /\ SupplyInv /\ HeaderInv /\ KeyTypes => ContractTypeOK
  BY <1>1 DEF LedgerInv, LedgerTypes, SupplyInv, HeaderInv, HeaderTypes, LatestIsNewest,
              KeyTypes, ContractTypeOK
<1>3. Init => KeyTypes
  BY DEF Init, KeyTypes
<1> QED BY <1>2, <1>3, LedgerInvariance, SupplyInvariance, HeaderInit, HeaderStep, KeyStep,
           PTL DEF Spec

-----------------------------------------------------------------------------
(* Induction over the naturals, from the least element of a set of them.   *)

(* A set of naturals has a least element.                                   *)
LEMMA LeastOf ==
    ASSUME NEW A, A \subseteq Nat, A # {}
    PROVE  \E v \in A : \A w \in A : v <= w
<1> DEFINE R == OpToRel(<, Nat)
<1>1. IsWellFoundedOn(R, Nat)
    BY NatLessThanWellFounded
<1>2. \A a, b \in Nat : a < b => <<a, b>> \in R
    BY Zenon DEF R, OpToRel
<1> HIDE DEF R
<1>3. PICK v \in A : \A w \in A : ~ (<<w, v>> \in R)
    BY <1>1, WFMin
<1>4. \A w \in A : v <= w
  <2> SUFFICES ASSUME NEW w \in A PROVE v <= w
      OBVIOUS
  <2>1. ~ (w < v)
      BY Zenon, <1>2, <1>3
  <2>2. v \in Nat /\ w \in Nat
      OBVIOUS
  <2> QED
      BY <2>1, <2>2
<1> QED
    BY <1>4

(* A set that holds 0 and the successor of each of its members holds every  *)
(* natural.                                                                 *)
LEMMA Induction ==
    ASSUME NEW S, 0 \in S, \A n \in Nat : n \in S => n + 1 \in S
    PROVE  \A n \in Nat : n \in S
<1> DEFINE T == Nat \ S
<1> SUFFICES ASSUME T # {} PROVE FALSE
    OBVIOUS
<1>1. PICK x \in T : \A y \in T : x <= y
    BY LeastOf
<1>2. x - 1 \in Nat /\ x = (x - 1) + 1 /\ ~ (x <= x - 1)
    OBVIOUS
<1>3. x - 1 \in T
    BY <1>2
<1> QED
    BY <1>1, <1>2, <1>3

-----------------------------------------------------------------------------
(* verify_merkle_proof and the Merkle tree.                                *)

\* The functions of SpvProof that are defined by recursion, as their
\* definitions read.
Walks(txid, proof, pos, n, at) ==
    at = [i \in 0 .. n |-> IF i = 0 THEN [current |-> txid, idx |-> pos]
                           ELSE Combine(at[i - 1], proof[i])]
Halves(pos, n, place) ==
    place = [d \in 0 .. n |-> IF d = 0 THEN pos ELSE place[d - 1] \div 2]
Doubles(n, span) == span = [d \in 0 .. n |-> IF d = 0 THEN 1 ELSE 2 * span[d - 1]]
Rises(leaves, n, level) ==
    level = [d \in 0 .. n |-> IF d = 0 THEN leaves ELSE Parents(level[d - 1])]

(* The loop of verify_merkle_proof has the values its recursive definition  *)
(* names.                                                                   *)
LEMMA WalkIs ==
    ASSUME NEW txid, NEW proof, NEW pos, Len(proof) \in Nat
    PROVE  Walks(txid, proof, pos, Len(proof), Walk(txid, proof, pos))
<1> DEFINE S == {n \in Nat : \E at : Walks(txid, proof, pos, n, at)}
<1>1. 0 \in S
  <2>1. Walks(txid, proof, pos, 0, [i \in 0 .. 0 |-> [current |-> txid, idx |-> pos]])
      BY DEF Walks
  <2> QED
      BY <2>1
<1>2. ASSUME NEW n \in Nat, n \in S PROVE n + 1 \in S
  <2>1. PICK at : Walks(txid, proof, pos, n, at)
      BY <1>2
  <2> DEFINE more == [i \in 0 .. n + 1 |-> IF i = n + 1 THEN Combine(at[n], proof[n + 1])
                                           ELSE at[i]]
  <2>2. Walks(txid, proof, pos, n + 1, more)
      BY <2>1 DEF Walks
  <2> QED
      BY <2>2
<1> HIDE DEF S
<1>3. Len(proof) \in S
    BY <1>1, <1>2, Induction
<1>4. \E at : Walks(txid, proof, pos, Len(proof), at)
    BY <1>3 DEF S
<1>5. Walk(txid, proof, pos) = CHOOSE at : Walks(txid, proof, pos, Len(proof), at)
    BY Zenon DEF Walk, Walks
<1> QED
    BY Zenon, <1>4, <1>5

(* The loop starts from the txid and the position.                          *)
LEMMA WalkStarts ==
    ASSUME NEW txid, NEW proof, NEW pos, Len(proof) \in Nat
    PROVE  Walk(txid, proof, pos)[0] = [current |-> txid, idx |-> pos]
    BY WalkIs DEF Walks

(* Each turn of the loop takes the next hash of the proof.                  *)
LEMMA WalkSteps ==
    ASSUME NEW txid, NEW proof, NEW pos, Len(proof) \in Nat, NEW i \in 1 .. Len(proof)
    PROVE  Walk(txid, proof, pos)[i] = Combine(Walk(txid, proof, pos)[i - 1], proof[i])
    BY WalkIs DEF Walks

(* The positions above a position are natural numbers, each half the one    *)
(* below.                                                                   *)
LEMMA PathSteps ==
    ASSUME NEW pos \in Nat, NEW depth \in Nat
    PROVE  /\ Path(pos, depth) \in [0 .. depth -> Nat]
           /\ Path(pos, depth)[0] = pos
           /\ \A d \in 1 .. depth : Path(pos, depth)[d] = Path(pos, depth)[d - 1] \div 2
<1> DEFINE S == {n \in Nat : \E place \in [0 .. n -> Nat] : Halves(pos, n, place)}
<1>1. 0 \in S
  <2>1. Halves(pos, 0, [d \in 0 .. 0 |-> pos])
      BY DEF Halves
  <2> QED
      BY <2>1
<1>2. ASSUME NEW n \in Nat, n \in S PROVE n + 1 \in S
  <2>1. PICK place \in [0 .. n -> Nat] : Halves(pos, n, place)
      BY <1>2
  <2> DEFINE more == [d \in 0 .. n + 1 |-> IF d = n + 1 THEN place[n] \div 2 ELSE place[d]]
  <2>2. Halves(pos, n + 1, more)
      BY <2>1 DEF Halves
  <2>3. more \in [0 .. n + 1 -> Nat]
      OBVIOUS
  <2> QED
      BY <2>2, <2>3
<1> HIDE DEF S
<1>3. depth \in S
    BY <1>1, <1>2, Induction
<1>4. PICK place \in [0 .. depth -> Nat] : Halves(pos, depth, place)
    BY <1>3 DEF S
<1>5. Path(pos, depth) = CHOOSE p : Halves(pos, depth, p)
    BY Zenon DEF Path, Halves
<1>6. Halves(pos, depth, Path(pos, depth))
    BY Zenon, <1>4, <1>5
<1> DEFINE T == {d \in Nat : d <= depth => Path(pos, depth)[d] \in Nat}
<1>7. \A d \in Nat : d \in T
  <2>1. 0 \in T
      BY <1>6 DEF Halves
  <2>2. ASSUME NEW d \in Nat, d \in T PROVE d + 1 \in T
      BY <2>2, <1>6 DEF Halves
  <2> HIDE DEF T
  <2> QED
      BY <2>1, <2>2, Induction
<1> HIDE DEF T
<1>8. DOMAIN Path(pos, depth) = 0 .. depth
    BY <1>6 DEF Halves
<1>9. \A d \in 0 .. depth : Path(pos, depth)[d] \in Nat
    BY <1>7 DEF T
<1>10. Path(pos, depth) = [d \in 0 .. depth |-> Path(pos, depth)[d]]
    BY <1>6 DEF Halves
<1>11. Path(pos, depth) \in [0 .. depth -> Nat]
    BY <1>9, <1>10
<1> QED
    BY <1>6, <1>11 DEF Halves

(* The width of a full tree of a depth is a power of two.                   *)
LEMMA SpanSteps ==
    ASSUME NEW depth \in Nat
    PROVE  \E span \in [0 .. depth -> Nat \ {0}] :
              /\ Span(depth) = span[depth] /\ span[0] = 1
              /\ \A d \in 1 .. depth : span[d] = 2 * span[d - 1]
<1> DEFINE S == {n \in Nat : \E span \in [0 .. n -> Nat \ {0}] : Doubles(n, span)}
<1>1. 0 \in S
  <2>1. Doubles(0, [d \in 0 .. 0 |-> 1])
      BY DEF Doubles
  <2> QED
      BY <2>1
<1>2. ASSUME NEW n \in Nat, n \in S PROVE n + 1 \in S
  <2>1. PICK span \in [0 .. n -> Nat \ {0}] : Doubles(n, span)
      BY <1>2
  <2> DEFINE more == [d \in 0 .. n + 1 |-> IF d = n + 1 THEN 2 * span[n] ELSE span[d]]
  <2>2. Doubles(n + 1, more)
      BY <2>1 DEF Doubles
  <2>3. more \in [0 .. n + 1 -> Nat \ {0}]
      OBVIOUS
  <2> QED
      BY <2>2, <2>3
<1> HIDE DEF S
<1>3. depth \in S
    BY <1>1, <1>2, Induction
<1>4. \E span : Doubles(depth, span)
    BY <1>3 DEF S
<1> DEFINE span == CHOOSE f : Doubles(depth, f)
<1>5. Doubles(depth, span)
    BY <1>4
<1>6. Span(depth) = span[depth]
    BY Zenon DEF Span, Doubles
<1> HIDE DEF span
<1> DEFINE T == {d \in Nat : d <= depth => span[d] \in Nat \ {0}}
<1>7. \A d \in Nat : d \in T
  <2>1. 0 \in T
      BY <1>5 DEF Doubles
  <2>2. ASSUME NEW d \in Nat, d \in T PROVE d + 1 \in T
      BY <2>2, <1>5 DEF Doubles
  <2> HIDE DEF T
  <2> QED
      BY <2>1, <2>2, Induction
<1> HIDE DEF T
<1>8. \A d \in 0 .. depth : span[d] \in Nat \ {0}
    BY <1>7 DEF T
<1>9. span = [d \in 0 .. depth |-> span[d]]
    BY <1>5 DEF Doubles
<1>10. span \in [0 .. depth -> Nat \ {0}]
    BY <1>8, <1>9
<1> QED
    BY <1>5, <1>6, <1>10 DEF Doubles

(* The levels of a tree begin with its leaves, and each is made of the one  *)
(* below.                                                                   *)
LEMMA LevelSteps ==
    ASSUME NEW block, Len(block) \in Nat
    PROVE  /\ DOMAIN Levels(block) = 0 .. Len(block)
           /\ Levels(block)[0] = Leaves(block)
           /\ \A d \in 1 .. Len(block) : Levels(block)[d] = Parents(Levels(block)[d - 1])
<1> DEFINE leaves == Leaves(block)
<1> DEFINE S == {n \in Nat : \E level : Rises(leaves, n, level)}
<1> HIDE DEF leaves
<1>1. 0 \in S
  <2>1. Rises(leaves, 0, [d \in 0 .. 0 |-> leaves])
      BY DEF Rises
  <2> QED
      BY <2>1
<1>2. ASSUME NEW n \in Nat, n \in S PROVE n + 1 \in S
  <2>1. PICK level : Rises(leaves, n, level)
      BY <1>2
  <2> DEFINE more == [d \in 0 .. n + 1 |-> IF d = n + 1 THEN Parents(level[n]) ELSE level[d]]
  <2>2. Rises(leaves, n + 1, more)
      BY <2>1 DEF Rises
  <2> QED
      BY <2>2
<1> HIDE DEF S
<1>3. Len(block) \in S
    BY <1>1, <1>2, Induction
<1>4. \E level : Rises(leaves, Len(block), level)
    BY <1>3 DEF S
<1>5. Levels(block) = CHOOSE level : Rises(leaves, Len(block), level)
    BY Zenon DEF Levels, Rises, leaves
<1>6. Rises(leaves, Len(block), Levels(block))
    BY Zenon, <1>4, <1>5
<1> QED
    BY <1>6 DEF Rises, leaves

(* Half of a number, rounded up.                                            *)
LEMMA HalfRoundedUp ==
    ASSUME NEW k \in Nat \ {0}
    PROVE  /\ (k + 1) \div 2 \in Nat \ {0}
           /\ (k + 1) \div 2 = 1 \/ (k + 1) \div 2 <= k - 1
           /\ k <= 2 * ((k + 1) \div 2) /\ 2 * ((k + 1) \div 2) <= k + 1
    OBVIOUS

(* Every level is a sequence, about half as long as the level below it.     *)
LEMMA LevelLengths ==
    ASSUME NEW S, NEW block \in Seq(S), block # <<>>
    PROVE  \A d \in 0 .. Len(block) :
              /\ Len(Levels(block)[d]) \in Nat \ {0}
              /\ DOMAIN Levels(block)[d] = 1 .. Len(Levels(block)[d])
              /\ Len(Levels(block)[d]) = 1 \/ Len(Levels(block)[d]) <= Len(block) - d
              /\ d > 0 => Len(Levels(block)[d]) = (Len(Levels(block)[d - 1]) + 1) \div 2
<1> DEFINE n == Len(block)
<1> DEFINE level == Levels(block)
<1>0. n \in Nat \ {0} /\ DOMAIN block = 1 .. n
    OBVIOUS
<1>1. /\ level[0] = Leaves(block)
      /\ \A d \in 1 .. n : level[d] = Parents(level[d - 1])
    BY <1>0, LevelSteps
<1> HIDE DEF level, n
<1> DEFINE Good(d) == /\ Len(level[d]) \in Nat \ {0}
                      /\ DOMAIN level[d] = 1 .. Len(level[d])
                      /\ Len(level[d]) = 1 \/ Len(level[d]) <= n - d
                      /\ d > 0 => Len(level[d]) = (Len(level[d - 1]) + 1) \div 2
<1> DEFINE T == {d \in Nat : d <= n => Good(d)}
<1>2. Good(0)
  <2>1. level[0] = [i \in 1 .. n |-> TxHash(block[i])]
      BY <1>0, <1>1 DEF Leaves
  <2>2. DOMAIN level[0] = 1 .. n
      BY <2>1
  <2>3. Len(level[0]) = n
      BY <2>1, <1>0
  <2> QED
      BY <2>2, <2>3, <1>0
<1>3. ASSUME NEW d \in Nat, d + 1 <= n, Good(d) PROVE Good(d + 1)
  <2> DEFINE m == (Len(level[d]) + 1) \div 2
  <2>1. d + 1 \in 1 .. n /\ (d + 1) - 1 = d
      BY <1>3, <1>0
  <2>2. m \in Nat \ {0} /\ (m = 1 \/ m <= Len(level[d]) - 1)
      BY <1>3, HalfRoundedUp
  <2>3. level[d + 1] = [i \in 1 .. m |-> hash_pair(level[d][2 * i - 1], Paired(level[d], i))]
      BY <1>1, <2>1 DEF Parents
  <2> HIDE DEF m
  <2>4. DOMAIN level[d + 1] = 1 .. m
      BY <2>3
  <2>5. Len(level[d + 1]) = m
      BY <2>2, <2>3
  <2>6. Len(level[d + 1]) = (Len(level[(d + 1) - 1]) + 1) \div 2
      BY <2>1, <2>5 DEF m
  <2>7. m = 1 \/ m <= n - (d + 1)
    <3> DEFINE len == Len(level[d])
    <3>1. len \in Nat \ {0} /\ (len = 1 \/ len <= n - d) /\ (m = 1 \/ m <= len - 1)
        BY <1>3, <2>2
    <3> HIDE DEF len
    <3> QED
        BY <3>1, <2>2, <1>0
  <2> QED
      BY <2>2, <2>4, <2>5, <2>6, <2>7
<1> HIDE DEF Good
<1>4. \A d \in Nat : d \in T
  <2>1. 0 \in T
      BY <1>2
  <2>2. ASSUME NEW d \in Nat, d \in T PROVE d + 1 \in T
      BY <2>2, <1>0, <1>3
  <2> HIDE DEF T
  <2> QED
      BY <2>1, <2>2, Induction
<1>5. \A d \in 0 .. n : Good(d)
    BY <1>0, <1>4
<1> QED
    BY <1>5 DEF Good, level, n

(* The tree has a root: Depth is the first level that is one hash.          *)
LEMMA DepthIs ==
    ASSUME NEW S, NEW block \in Seq(S), block # <<>>
    PROVE  /\ Depth(block) \in 0 .. Len(block)
           /\ Len(Levels(block)[Depth(block)]) = 1
           /\ \A e \in 0 .. Depth(block) - 1 : Len(Levels(block)[e]) # 1
<1> DEFINE Top(d) == Len(Levels(block)[d]) = 1
<1> DEFINE First(d) == Top(d) /\ \A e \in 0 .. d - 1 : ~ Top(e)
<1>0. Len(block) \in Nat
    OBVIOUS
<1>1. Top(Len(block))
  <2> DEFINE len == Len(Levels(block)[Len(block)])
  <2>0. Len(block) \in 0 .. Len(block)
      BY <1>0
  <2>1. len \in Nat \ {0} /\ (len = 1 \/ len <= Len(block) - Len(block))
      BY <2>0, LevelLengths
  <2> HIDE DEF len
  <2>2. len = 1
      BY <1>0, <2>1
  <2> QED
      BY <2>2 DEF len
<1>2. Depth(block) = CHOOSE d \in 0 .. Len(block) : First(d)
    BY Zenon DEF Depth
<1> HIDE DEF Top
<1>3. \E d \in 0 .. Len(block) : First(d)
  <2> SUFFICES ASSUME \A d \in 0 .. Len(block) : ~ First(d) PROVE FALSE
      OBVIOUS
  <2> DEFINE T == {d \in Nat : d <= Len(block) => \A e \in 0 .. d : ~ Top(e)}
  <2>1. 0 \in T
      BY <1>0
  <2>2. ASSUME NEW d \in Nat, d \in T PROVE d + 1 \in T
      BY <1>0, <2>2
  <2> HIDE DEF T
  <2>3. Len(block) \in T
      BY <1>0, <2>1, <2>2, Induction
  <2> QED
      BY <1>0, <1>1, <2>3 DEF T
<1> HIDE DEF First
<1>4. Depth(block) \in 0 .. Len(block) /\ First(Depth(block))
    BY <1>2, <1>3
<1> QED
    BY <1>4 DEF First, Top

(* Equal pairs are made of equal hashes.                                    *)
LEMMA HashesAreOneToOne ==
    ASSUME NEW l, NEW r, NEW x, NEW y, hash_pair(l, r) = hash_pair(x, y)
    PROVE  l = x /\ r = y
    BY DEF hash_pair, double_sha256

IsPair(h) == \E l, r : h = hash_pair(l, r)

(* A hash of a level above the first is the hash of the two below it.       *)
LEMMA ParentIs ==
    ASSUME NEW S, NEW block \in Seq(S), block # <<>>,
           NEW d \in 1 .. Len(block), NEW x \in 1 .. Len(Levels(block)[d])
    PROVE  /\ 2 * x - 1 \in 1 .. Len(Levels(block)[d - 1])
           /\ Levels(block)[d][x] =
                hash_pair(Levels(block)[d - 1][2 * x - 1], Paired(Levels(block)[d - 1], x))
<1> DEFINE low == Levels(block)[d - 1]
<1>1. d - 1 \in 0 .. Len(block) /\ d \in 0 .. Len(block) /\ d > 0 /\ Len(block) \in Nat
    OBVIOUS
<1>2. Len(low) \in Nat \ {0} /\ Len(Levels(block)[d]) = (Len(low) + 1) \div 2
    BY <1>1, LevelLengths
<1>3. Levels(block)[d] = Parents(low)
    BY <1>1, LevelSteps
<1> HIDE DEF low
<1>4. x \in 1 .. (Len(low) + 1) \div 2
    BY <1>2
<1>5. 2 * x - 1 \in 1 .. Len(low)
    BY <1>2, <1>4
<1>6. Parents(low)[x] = hash_pair(low[2 * x - 1], Paired(low, x))
    BY <1>4 DEF Parents
<1> QED
    BY <1>3, <1>5, <1>6 DEF low

\* One turn of the loop backwards: the hash before it is a node one level
\* down, on the side the bit of idx says.
IsBelow(low, x, at) ==
    \E y \in 1 .. Len(low) :
       /\ at.current = low[y]
       /\ 2 * (x - 1) + (at.idx % 2) < Len(low) => y = 2 * (x - 1) + (at.idx % 2) + 1

(* One turn of the loop backwards: a hash combined into a node of the tree  *)
(* is below it.                                                             *)
LEMMA Descend ==
    ASSUME NEW S, NEW block \in Seq(S), block # <<>>,
           NEW d \in 1 .. Len(block), NEW x \in 1 .. Len(Levels(block)[d]),
           NEW at, at.idx \in Nat, NEW sibling,
           Combine(at, sibling).current = Levels(block)[d][x]
    PROVE  IsBelow(Levels(block)[d - 1], x, at)
<1> USE DEF IsBelow
<1> DEFINE low == Levels(block)[d - 1]
<1>1. d - 1 \in 0 .. Len(block) /\ d \in 0 .. Len(block) /\ d > 0 /\ Len(block) \in Nat
    OBVIOUS
<1>2. Len(low) \in Nat \ {0} /\ Len(Levels(block)[d]) = (Len(low) + 1) \div 2
    BY <1>1, LevelLengths
<1>3. Levels(block)[d][x] = hash_pair(low[2 * x - 1], Paired(low, x)) /\ 2 * x - 1 \in 1 .. Len(low)
    BY ParentIs
<1> HIDE DEF low
<1>4. CASE at.idx % 2 = 0
  <2>1. hash_pair(at.current, sibling) = hash_pair(low[2 * x - 1], Paired(low, x))
      BY <1>3, <1>4 DEF Combine
  <2>2. at.current = low[2 * x - 1]
      BY <2>1, HashesAreOneToOne
  <2>3. 2 * x - 1 = 2 * (x - 1) + (at.idx % 2) + 1
      BY <1>4, <1>2
  <2> QED
      BY <1>3, <2>2, <2>3 DEF low
<1>5. CASE at.idx % 2 = 1
  <2>1. hash_pair(sibling, at.current) = hash_pair(low[2 * x - 1], Paired(low, x))
      BY <1>3, <1>5 DEF Combine
  <2>2. at.current = Paired(low, x)
      BY <2>1, HashesAreOneToOne
  <2>3. CASE 2 * x <= Len(low)
    <3>1. at.current = low[2 * x]
        BY <2>2, <2>3 DEF Paired
    <3>2. 2 * x \in 1 .. Len(low) /\ 2 * x = 2 * (x - 1) + (at.idx % 2) + 1
        BY <1>2, <1>5, <2>3
    <3> QED
        BY <3>1, <3>2 DEF low
  <2>4. CASE ~ (2 * x <= Len(low))
    <3>1. at.current = low[2 * x - 1]
        BY <2>2, <2>4 DEF Paired
    <3>2. ~ (2 * (x - 1) + (at.idx % 2) < Len(low))
        BY <1>2, <1>5, <2>4
    <3> QED
        BY <1>3, <3>1, <3>2 DEF low
  <2> QED
      BY <2>3, <2>4
<1> QED
    BY <1>4, <1>5

(* One turn of the loop with the sibling the explorer sends reaches the     *)
(* node above.                                                              *)
LEMMA Climb ==
    ASSUME NEW S, NEW block \in Seq(S), block # <<>>,
           NEW d \in 1 .. Len(block), NEW i \in Nat, i < Len(Levels(block)[d - 1]),
           NEW at, at.idx = i, at.current = Levels(block)[d - 1][i + 1]
    PROVE  /\ i \div 2 < Len(Levels(block)[d])
           /\ Combine(at, Sibling(Levels(block)[d - 1], i)).current =
                Levels(block)[d][(i \div 2) + 1]
<1> DEFINE low == Levels(block)[d - 1]
<1> DEFINE x == (i \div 2) + 1
<1>1. d - 1 \in 0 .. Len(block) /\ d \in 0 .. Len(block) /\ d > 0 /\ Len(block) \in Nat
    OBVIOUS
<1>2. Len(low) \in Nat \ {0} /\ Len(Levels(block)[d]) = (Len(low) + 1) \div 2
    BY <1>1, LevelLengths
<1>3. x \in 1 .. Len(Levels(block)[d]) /\ i \div 2 < Len(Levels(block)[d])
  <2> DEFINE m == Len(low)
  <2>1. m \in Nat \ {0} /\ i < m
      BY <1>2
  <2> HIDE DEF m
  <2>2. x \in 1 .. (m + 1) \div 2 /\ i \div 2 < (m + 1) \div 2
      BY <2>1
  <2> QED
      BY <1>2, <2>2 DEF m
<1>4. Levels(block)[d][x] = hash_pair(low[2 * x - 1], Paired(low, x))
    BY <1>3, ParentIs
<1>5. CASE i % 2 = 0
  <2>1. 2 * x - 1 = i + 1 /\ 2 * x = (i + 1) + 1
      BY <1>5
  <2>2. Sibling(low, i) = Paired(low, x)
      BY <1>2, <1>5, <2>1 DEF Sibling, Paired
  <2>3. Combine(at, Sibling(low, i)).current = hash_pair(at.current, Sibling(low, i))
      BY <1>5 DEF Combine
  <2> QED
      BY <1>3, <1>4, <2>1, <2>2, <2>3
<1>6. CASE i % 2 = 1
  <2>1. 2 * x - 1 = i /\ 2 * x = i + 1 /\ (i - 1) + 1 = i
      BY <1>6
  <2>2. i - 1 < Len(low) /\ ~ (i % 2 = 0)
      BY <1>2, <1>6
  <2>5. Sibling(low, i) = low[i]
      BY <2>1, <2>2 DEF Sibling
  <2>3. Paired(low, x) = low[i + 1]
      BY <1>2, <2>1 DEF Paired
  <2>4. Combine(at, Sibling(low, i)).current = hash_pair(Sibling(low, i), at.current)
      BY <1>6 DEF Combine
  <2> QED
      BY <1>3, <1>4, <2>1, <2>3, <2>4, <2>5
<1> QED
    BY <1>5, <1>6

(* Each turn drops the last bit of the position.                            *)
LEMMA CombineHalves == \A at, sibling : Combine(at, sibling).idx = at.idx \div 2
    BY DEF Combine

(* The index of every turn is a natural number, half the one before.        *)
LEMMA WalkIndices ==
    ASSUME NEW txid, NEW proof, Len(proof) \in Nat, NEW pos \in Nat
    PROVE  \A i \in 0 .. Len(proof) :
              /\ Walk(txid, proof, pos)[i].idx \in Nat
              /\ i > 0 => Walk(txid, proof, pos)[i].idx =
                             Walk(txid, proof, pos)[i - 1].idx \div 2
<1> DEFINE at == Walk(txid, proof, pos)
<1> DEFINE n == Len(proof)
<1>0. \A i \in 1 .. n : at[i] = Combine(at[i - 1], proof[i])
    BY WalkSteps
<1>1. at[0] = [current |-> txid, idx |-> pos]
    BY WalkStarts
<1> HIDE DEF at
<1>2. \A i \in 1 .. n : at[i].idx = at[i - 1].idx \div 2
    BY <1>0, CombineHalves
<1> DEFINE T == {i \in Nat : i <= n => at[i].idx \in Nat}
<1>3. n \in Nat
    OBVIOUS
<1> HIDE DEF n
<1>4. 0 \in T
    BY <1>1
<1>5. ASSUME NEW i \in Nat, i \in T PROVE i + 1 \in T
  <2> SUFFICES ASSUME i + 1 <= n PROVE at[i + 1].idx \in Nat
      OBVIOUS
  <2>1. at[i].idx \in Nat
      BY <1>3, <1>5
  <2>2. i + 1 \in 1 .. n /\ (i + 1) - 1 = i
      BY <1>3
  <2>3. at[i + 1].idx = at[i].idx \div 2
      BY <1>2, <2>2
  <2> QED
      BY <2>1, <2>3
<1> HIDE DEF T
<1>6. \A i \in Nat : i \in T
    BY <1>4, <1>5, Induction
<1>7. \A i \in 0 .. n : at[i].idx \in Nat
    BY <1>3, <1>6 DEF T
<1> QED
    BY <1>2, <1>3, <1>7 DEF at, n

(* A proof that leads from a hash which is no pair to the root is as long   *)
(* as the tree is deep.                                                     *)
LEMMA AcceptedIsLeaf ==
    ASSUME NEW S, NEW block \in Seq(S), block # <<>>,
           NEW txid, ~ IsPair(txid), \A x \in 1 .. Len(block) : ~ IsPair(Leaves(block)[x]),
           NEW proof, Len(proof) \in Nat, NEW pos \in Nat,
           verify_merkle_proof(txid, proof, pos, MerkleRoot(block))
    PROVE  Len(proof) = Depth(block)
<1> DEFINE at == Walk(txid, proof, pos)
<1> DEFINE level == Levels(block)
<1> DEFINE L == Len(proof)
<1> DEFINE D == Depth(block)
<1>1. /\ L \in Nat /\ D \in 0 .. Len(block) /\ Len(block) \in Nat
      /\ Len(level[D]) = 1 /\ at[L].current = level[D][1]
      /\ at[0] = [current |-> txid, idx |-> pos]
  <2>1. D \in 0 .. Len(block) /\ Len(level[D]) = 1
      BY Zenon, DepthIs
  <2>2. at[L].current = level[D][1]
      BY Zenon DEF verify_merkle_proof, MerkleRoot
  <2>3. at[0] = [current |-> txid, idx |-> pos]
      BY WalkStarts
  <2> QED
      BY <2>1, <2>2, <2>3
<1>2. \A i \in 1 .. L : at[i] = Combine(at[i - 1], proof[i])
    BY WalkSteps
<1>3. \A i \in 0 .. L : at[i].idx \in Nat
    BY WalkIndices
<1>4. \A a, s : IsPair(Combine(a, s).current)
    BY DEF Combine, IsPair
<1>5. \A d \in 1 .. Len(block) : \A x \in 1 .. Len(level[d]) : IsPair(level[d][x])
  <2> SUFFICES ASSUME NEW d \in 1 .. Len(block), NEW x \in 1 .. Len(level[d])
               PROVE  IsPair(level[d][x])
      OBVIOUS
  <2>1. level[d][x] = hash_pair(level[d - 1][2 * x - 1], Paired(level[d - 1], x))
      BY Zenon, ParentIs
  <2> QED
      BY <2>1 DEF IsPair
<1>6. /\ Len(level[0]) = Len(block)
      /\ \A x \in 1 .. Len(block) : ~ IsPair(level[0][x])
  <2>1. level[0] = [i \in 1 .. Len(block) |-> TxHash(block[i])]
      BY LevelSteps DEF Leaves
  <2> QED
      BY <2>1, <1>1, LevelSteps
<1>7. \A d \in 1 .. Len(block) : \A x \in 1 .. Len(level[d]) : \A a, s :
         a.idx \in Nat /\ Combine(a, s).current = level[d][x] => IsBelow(level[d - 1], x, a)
    BY Zenon, Descend
<1> HIDE DEF at, level, L, D
<1> DEFINE T == {i \in Nat : i <= L /\ i <= D =>
                    \E x \in 1 .. Len(level[D - i]) : at[L - i].current = level[D - i][x]}
<1>8. 0 \in T
    BY <1>1
<1>9. ASSUME NEW i \in Nat, i \in T PROVE i + 1 \in T
  <2> SUFFICES ASSUME i + 1 <= L, i + 1 <= D
               PROVE  \E x \in 1 .. Len(level[D - (i + 1)]) :
                         at[L - (i + 1)].current = level[D - (i + 1)][x]
      OBVIOUS
  <2>1. PICK x \in 1 .. Len(level[D - i]) : at[L - i].current = level[D - i][x]
      BY <1>1, <1>9
  <2>2. /\ L - i \in 1 .. L /\ (L - i) - 1 = L - (i + 1) /\ L - (i + 1) \in 0 .. L
        /\ D - i \in 1 .. Len(block) /\ (D - i) - 1 = D - (i + 1)
      BY <1>1
  <2>3. at[L - i] = Combine(at[L - (i + 1)], proof[L - i])
      BY <1>2, <2>2
  <2>4. at[L - (i + 1)].idx \in Nat
      BY <1>3, <2>2
  <2>5. Combine(at[L - (i + 1)], proof[L - i]).current = level[D - i][x]
      BY <2>1, <2>3
  <2>6. IsBelow(level[D - (i + 1)], x, at[L - (i + 1)])
      BY <1>7, <2>1, <2>2, <2>4, <2>5
  <2> QED
      BY Zenon, <2>6 DEF IsBelow
<1> HIDE DEF T
<1>10. \A i \in Nat : i \in T
    BY <1>8, <1>9, Induction
<1>11. CASE L < D
  <2>0. L \in T /\ L <= D /\ L <= L
      BY <1>1, <1>10, <1>11
  <2>1. PICK x \in 1 .. Len(level[D - L]) : at[L - L].current = level[D - L][x]
      BY Zenon, <2>0 DEF T
  <2>2. D - L \in 1 .. Len(block) /\ L - L = 0
      BY <1>1, <1>11
  <2>3. IsPair(txid)
      BY <1>1, <1>5, <2>1, <2>2
  <2> QED
      BY <2>3
<1>12. CASE D < L
  <2>0. D \in T /\ D <= L /\ D <= D
      BY <1>1, <1>10, <1>12
  <2>1. PICK x \in 1 .. Len(level[D - D]) : at[L - D].current = level[D - D][x]
      BY Zenon, <2>0 DEF T
  <2>2. D - D = 0 /\ L - D \in 1 .. L
      BY <1>1, <1>12
  <2>3. ~ IsPair(at[L - D].current)
      BY <1>6, <2>1, <2>2
  <2> QED
      BY <1>2, <1>4, <2>2, <2>3
<1> QED
    BY <1>1, <1>11, <1>12 DEF L, D

\* A position modulo the width of the tree, and what it becomes when its last
\* bits are dropped one by one.
Bits(idx, depth, p) ==
    /\ p[depth] = 0
    /\ \A i \in 1 .. depth : p[i - 1] = 2 * p[i] + (idx[i - 1] % 2)

(* A number is twice its half and its last bit.                             *)
LEMMA LastBit ==
    ASSUME NEW k \in Nat
    PROVE  k \div 2 \in Nat /\ k % 2 \in {0, 1} /\ k = 2 * (k \div 2) + (k % 2)
    OBVIOUS

(* The remainder is what is left of a multiple.                             *)
LEMMA Remainder ==
    ASSUME NEW a \in Nat, NEW w \in Nat \ {0}, NEW q \in Nat, NEW r \in Nat, r < w, a = q * w + r
    PROVE  a % w = r
    OBVIOUS

(* What is left of a position modulo the width of the tree loses its last   *)
(* bit in each turn too, and is 0 at the root.                              *)
LEMMA Positions ==
    ASSUME NEW depth \in Nat, NEW idx \in [0 .. depth -> Nat],
           \A i \in 1 .. depth : idx[i] = idx[i - 1] \div 2
    PROVE  \E p \in [0 .. depth -> Nat] :
              Bits(idx, depth, p) /\ p[0] = idx[0] % Span(depth)
<1>1. PICK span \in [0 .. depth -> Nat \ {0}] :
              /\ Span(depth) = span[depth] /\ span[0] = 1
              /\ \A d \in 1 .. depth : span[d] = 2 * span[d - 1]
    BY SpanSteps
<1> DEFINE q == idx[depth]
<1> DEFINE t == [i \in 0 .. depth |-> q * span[depth - i]]
<1> DEFINE p == [i \in 0 .. depth |-> idx[i] - t[i]]
<1>2. q \in Nat
    OBVIOUS
<1> HIDE DEF q
<1>3. \A i \in 0 .. depth : t[i] \in Nat
  <2> SUFFICES ASSUME NEW i \in 0 .. depth PROVE t[i] \in Nat
      OBVIOUS
  <2>1. span[depth - i] \in Nat
      OBVIOUS
  <2> QED
      BY <1>2, <2>1
<1>4. t[depth] = q
    BY <1>1, <1>2
<1>5. \A i \in 1 .. depth : t[i - 1] = 2 * t[i]
  <2> SUFFICES ASSUME NEW i \in 1 .. depth PROVE t[i - 1] = 2 * t[i]
      OBVIOUS
  <2> DEFINE s == span[depth - i]
  <2>1. s \in Nat /\ span[depth - (i - 1)] = 2 * s
    <3>1. depth - (i - 1) \in 1 .. depth /\ (depth - (i - 1)) - 1 = depth - i
        OBVIOUS
    <3> QED
        BY <1>1, <3>1
  <2>2. t[i - 1] = q * (2 * s) /\ t[i] = q * s
      BY <2>1
  <2> HIDE DEF s, t
  <2> QED
      BY <1>2, <2>1, <2>2
<1>6. DOMAIN t = 0 .. depth
    OBVIOUS
<1>7. t[0] = q * span[depth]
    OBVIOUS
<1> HIDE DEF t
<1>8. p[depth] = 0
    BY <1>2, <1>4 DEF q
<1>9. \A i \in 1 .. depth : p[i - 1] = 2 * p[i] + (idx[i - 1] % 2)
  <2> SUFFICES ASSUME NEW i \in 1 .. depth PROVE p[i - 1] = 2 * p[i] + (idx[i - 1] % 2)
      OBVIOUS
  <2>1. /\ idx[i - 1] \in Nat /\ idx[i] = idx[i - 1] \div 2
        /\ t[i] \in Nat /\ t[i - 1] = 2 * t[i]
        /\ p[i - 1] = idx[i - 1] - t[i - 1] /\ p[i] = idx[i] - t[i]
      BY <1>3, <1>5
  <2>2. idx[i - 1] = 2 * idx[i] + (idx[i - 1] % 2) /\ idx[i] \in Nat /\ idx[i - 1] % 2 \in {0, 1}
      BY <2>1, LastBit
  <2> DEFINE bit == idx[i - 1] % 2
  <2> DEFINE pp == p[i - 1]
  <2> DEFINE pi == p[i]
  <2> DEFINE ti == t[i]
  <2> DEFINE ii == idx[i]
  <2>3. /\ ii \in Nat /\ ti \in Nat /\ bit \in {0, 1}
        /\ pp = (2 * ii + bit) - 2 * ti /\ pi = ii - ti
      BY <2>1, <2>2
  <2>4. pp = 2 * pi + bit
    <3> HIDE DEF pp, pi, ti, ii, bit
    <3> QED
        BY <2>3
  <2> QED
      BY <2>4
<1>10. \A i \in 0 .. depth : p[i] \in Int
    BY <1>3
<1>11. idx[0] = q * span[depth] + p[0] /\ p[0] \in Int
    BY <1>2, <1>3, <1>7
<1>12. p = [i \in 0 .. depth |-> p[i]]
    OBVIOUS
<1> HIDE DEF p
<1> DEFINE T == {i \in Nat : i <= depth => p[depth - i] \in Nat /\ p[depth - i] < span[i]}
<1>13. 0 \in T
    BY <1>1, <1>8
<1>14. ASSUME NEW i \in Nat, i \in T PROVE i + 1 \in T
  <2> SUFFICES ASSUME i + 1 <= depth
               PROVE  p[depth - (i + 1)] \in Nat /\ p[depth - (i + 1)] < span[i + 1]
      OBVIOUS
  <2>1. p[depth - i] \in Nat /\ p[depth - i] < span[i]
      BY <1>14
  <2>2. /\ depth - i \in 1 .. depth /\ (depth - i) - 1 = depth - (i + 1)
        /\ i + 1 \in 1 .. depth /\ (i + 1) - 1 = i
      OBVIOUS
  <2>3. p[depth - (i + 1)] = 2 * p[depth - i] + (idx[depth - (i + 1)] % 2)
      BY <1>9, <2>2
  <2>4. span[i + 1] = 2 * span[i] /\ span[i] \in Nat
      BY <1>1, <2>2
  <2>5. idx[depth - (i + 1)] % 2 \in {0, 1}
    <3>1. idx[depth - (i + 1)] \in Nat
        BY <2>2
    <3> QED
        BY <3>1, LastBit
  <2> DEFINE bit == idx[depth - (i + 1)] % 2
  <2> HIDE DEF bit
  <2>6. bit \in {0, 1} /\ p[depth - (i + 1)] = 2 * p[depth - i] + bit
      BY <2>3, <2>5 DEF bit
  <2> DEFINE high == p[depth - i]
  <2> DEFINE low == p[depth - (i + 1)]
  <2> DEFINE w == span[i]
  <2>7. high \in Nat /\ high < w /\ w \in Nat /\ low = 2 * high + bit /\ span[i + 1] = 2 * w
      BY <2>1, <2>4, <2>6
  <2>8. low \in Nat /\ low < 2 * w
    <3> HIDE DEF high, low, w
    <3> QED
        BY <2>6, <2>7
  <2> QED
      BY <2>7, <2>8
<1> HIDE DEF T
<1>15. \A i \in Nat : i \in T
    BY <1>13, <1>14, Induction
<1>16. p \in [0 .. depth -> Nat]
  <2>1. ASSUME NEW i \in 0 .. depth PROVE p[i] \in Nat
    <3>1. depth - i \in Nat /\ depth - i <= depth /\ depth - (depth - i) = i /\ depth - i \in T
        BY <1>15
    <3> QED
        BY <3>1 DEF T
  <2> QED
      BY <1>12, <2>1
<1>17. p[0] \in Nat /\ p[0] < span[depth]
  <2>1. depth \in T /\ depth - depth = 0
      BY <1>15
  <2> QED
      BY <2>1 DEF T
<1>18. p[0] = idx[0] % Span(depth)
  <2>1. span[depth] \in Nat \ {0} /\ idx[0] \in Nat
      OBVIOUS
  <2> QED
      BY <1>1, <1>2, <1>11, <1>17, <2>1, Remainder
<1> QED
    BY <1>8, <1>9, <1>16, <1>18 DEF Bits

(* The node above a node of a level is a node of the level above.           *)
LEMMA HalfIsBelow ==
    ASSUME NEW n \in Nat, NEW k \in Nat, NEW j \in Nat, NEW b \in {0, 1}, k = 2 * j + b, k < n
    PROVE  j < (n + 1) \div 2
    OBVIOUS

(* The leaf an accepted proof leads to, when it is as long as the tree is   *)
(* deep.                                                                    *)
LEMMA AcceptedPosition ==
    ASSUME NEW S, NEW block \in Seq(S), block # <<>>,
           NEW txid, NEW proof, Len(proof) = Depth(block), NEW pos \in Nat,
           verify_merkle_proof(txid, proof, pos, MerkleRoot(block))
    PROVE  \E x \in 1 .. Len(block) :
              /\ txid = Leaves(block)[x]
              /\ pos % Span(Depth(block)) < Len(block) => x = (pos % Span(Depth(block))) + 1
<1> DEFINE at == Walk(txid, proof, pos)
<1> DEFINE level == Levels(block)
<1> DEFINE D == Depth(block)
<1> DEFINE n == Len(block)
<1> DEFINE r == pos % Span(D)
<1>0. n \in Nat
    OBVIOUS
<1>1. D \in 0 .. n /\ n \in Nat /\ Len(level[D]) = 1
    BY Zenon, <1>0, DepthIs
<1>2. D \in Nat /\ Len(proof) \in Nat
    BY <1>1
<1>3. at[D].current = level[D][1]
    BY Zenon DEF verify_merkle_proof, MerkleRoot
<1>4. at[0] = [current |-> txid, idx |-> pos]
    BY <1>2, WalkStarts
<1>5. \A i \in 1 .. D : at[i] = Combine(at[i - 1], proof[i])
    BY <1>2, WalkSteps
<1>6. \A i \in 0 .. D : at[i].idx \in Nat /\ (i > 0 => at[i].idx = at[i - 1].idx \div 2)
    BY <1>2, WalkIndices
<1>7. level[0] = Leaves(block)
    BY <1>1, LevelSteps
<1>8. \A d \in 1 .. n : \A x \in 1 .. Len(level[d]) : \A a, s :
         a.idx \in Nat /\ Combine(a, s).current = level[d][x] => IsBelow(level[d - 1], x, a)
    BY Zenon, Descend
<1>9. \A d \in 0 .. n : /\ Len(level[d]) \in Nat \ {0}
                        /\ d > 0 => Len(level[d]) = (Len(level[d - 1]) + 1) \div 2
    BY LevelLengths
<1>10. Len(level[0]) = n
  <2>1. level[0] = [i \in 1 .. n |-> TxHash(block[i])]
      BY <1>7 DEF Leaves
  <2> QED
      BY <1>1, <2>1
<1> HIDE DEF at, level, D, n
<1> DEFINE idx == [i \in 0 .. D |-> at[i].idx]
<1>11. PICK p \in [0 .. D -> Nat] : Bits(idx, D, p) /\ p[0] = r
  <2>1. idx \in [0 .. D -> Nat]
      BY <1>6
  <2>2. \A i \in 1 .. D : idx[i] = idx[i - 1] \div 2
      BY <1>2, <1>6
  <2>3. idx[0] = pos
      BY <1>2, <1>4
  <2> HIDE DEF idx
  <2> QED
      BY <1>2, <2>1, <2>2, <2>3, Positions
<1>12. p[D] = 0 /\ \A i \in 1 .. D : p[i - 1] = 2 * p[i] + (at[i - 1].idx % 2)
  <2>1. p[D] = 0 /\ \A i \in 1 .. D : p[i - 1] = 2 * p[i] + (idx[i - 1] % 2)
      BY Zenon, <1>11 DEF Bits
  <2>2. \A i \in 1 .. D : idx[i - 1] = at[i - 1].idx
      BY <1>2
  <2> HIDE DEF idx
  <2> QED
      BY <2>1, <2>2
<1> DEFINE Fits(i) == p[i] < Len(level[i])
<1>13. ASSUME r < n PROVE \A i \in 0 .. D : Fits(i)
  <2> DEFINE T == {i \in Nat : i <= D => Fits(i)}
  <2>1. 0 \in T
      BY <1>10, <1>11, <1>13
  <2>2. ASSUME NEW i \in Nat, i \in T PROVE i + 1 \in T
    <3> SUFFICES ASSUME i + 1 <= D PROVE Fits(i + 1)
        OBVIOUS
    <3> DEFINE b == at[i].idx % 2
    <3> DEFINE len == Len(level[i])
    <3>1. i + 1 \in 1 .. D /\ (i + 1) - 1 = i /\ i \in 0 .. D /\ i + 1 \in 0 .. n
        BY <1>1, <1>2
    <3>2. b \in {0, 1}
        BY <1>6, <3>1, LastBit
    <3>3. p[i] = 2 * p[i + 1] + b
        BY <1>12, <3>1
    <3>4. len \in Nat /\ Len(level[i + 1]) = (len + 1) \div 2
      <4>1. i + 1 > 0 /\ i \in 0 .. n
          BY <1>1, <3>1
      <4>2. Len(level[i + 1]) = (Len(level[(i + 1) - 1]) + 1) \div 2
          BY Zenon, <1>9, <3>1, <4>1
      <4> QED
          BY <1>9, <3>1, <4>1, <4>2
    <3>5. p[i] \in Nat /\ p[i + 1] \in Nat /\ p[i] < len
        BY <2>2, <3>1
    <3> HIDE DEF b, len
    <3> QED
        BY <3>2, <3>3, <3>4, <3>5, HalfIsBelow
  <2> HIDE DEF T
  <2>3. \A i \in Nat : i \in T
      BY <2>1, <2>2, Induction
  <2> QED
      BY <1>2, <2>3 DEF T
<1> HIDE DEF Fits
<1> DEFINE Reached(i) ==
       \E x \in 1 .. Len(level[D - i]) :
          /\ at[D - i].current = level[D - i][x]
          /\ r < n => x = p[D - i] + 1
<1> DEFINE T == {i \in Nat : i <= D => Reached(i)}
<1>14. 0 \in T
    BY <1>1, <1>2, <1>3, <1>12
<1>15. ASSUME NEW i \in Nat, i \in T PROVE i + 1 \in T
  <2> SUFFICES ASSUME i + 1 <= D PROVE Reached(i + 1)
      OBVIOUS
  <2> DEFINE d == D - i
  <2> DEFINE low == D - (i + 1)
  <2>1. PICK x \in 1 .. Len(level[d]) : at[d].current = level[d][x] /\ (r < n => x = p[d] + 1)
      BY <1>2, <1>15
  <2>2. d \in 1 .. D /\ d \in 1 .. n /\ d - 1 = low /\ low \in 0 .. D /\ low \in 0 .. n
      BY <1>1, <1>2
  <2> HIDE DEF d, low
  <2>3. at[d] = Combine(at[low], proof[d])
      BY <1>5, <2>2
  <2>4. at[low].idx \in Nat
      BY <1>6, <2>2
  <2>5. IsBelow(level[low], x, at[low])
      BY <1>8, <2>1, <2>2, <2>3, <2>4
  <2> DEFINE b == at[low].idx % 2
  <2>6. PICK y \in 1 .. Len(level[low]) :
           /\ at[low].current = level[low][y]
           /\ 2 * (x - 1) + b < Len(level[low]) => y = 2 * (x - 1) + b + 1
      BY <2>5 DEF IsBelow
  <2>7. r < n => y = p[low] + 1
    <3> SUFFICES ASSUME r < n PROVE y = p[low] + 1
        OBVIOUS
    <3>1. p[low] = 2 * p[d] + b /\ p[d] \in Nat /\ p[low] \in Nat
        BY <1>12, <2>2
    <3>2. x = p[d] + 1
        BY <2>1
    <3>3. p[low] < Len(level[low])
        BY <1>13, <2>2 DEF Fits
    <3>4. b \in {0, 1}
        BY <2>4, LastBit
    <3> HIDE DEF b
    <3>5. 2 * (x - 1) + b = p[low]
        BY <3>1, <3>2, <3>4
    <3> QED
        BY <2>6, <3>3, <3>5
  <2> QED
      BY <2>6, <2>7 DEF low
<1> HIDE DEF T
<1>16. \A i \in Nat : i \in T
    BY <1>14, <1>15, Induction
<1>17. PICK x \in 1 .. Len(level[D - D]) :
          at[D - D].current = level[D - D][x] /\ (r < n => x = p[D - D] + 1)
  <2>1. D \in T /\ D <= D
      BY <1>2, <1>16
  <2> QED
      BY Zenon, <2>1 DEF T
<1>18. D - D = 0
    BY <1>2
<1>19. x \in 1 .. n /\ txid = Leaves(block)[x] /\ (r < n => x = r + 1)
    BY <1>4, <1>7, <1>10, <1>11, <1>17, <1>18
<1> QED
    BY <1>19 DEF D, n

\* hexHashToWords undoes the order in which hashes are displayed.
IsHash(h) == \E v : h = double_sha256(v)

(* hexHashToWords undoes the order in which hashes are displayed.           *)
LEMMA WordsOfDisplayed ==
    ASSUME NEW h, IsHash(h)
    PROVE  hexHashToWords(Display(h)) = h
<1>1. PICK v : h = [of |-> v, reversed |-> FALSE]
    BY DEF IsHash, double_sha256
<1>2. \A x, y \in BOOLEAN : [[of |-> v, reversed |-> x] EXCEPT !.reversed = y] =
                                [of |-> v, reversed |-> y]
    OBVIOUS
<1>3. \A x \in BOOLEAN : Display([of |-> v, reversed |-> x]) = [of |-> v, reversed |-> ~ x]
  <2> SUFFICES ASSUME NEW x \in BOOLEAN
               PROVE  Display([of |-> v, reversed |-> x]) = [of |-> v, reversed |-> ~ x]
      OBVIOUS
  <2>1. [of |-> v, reversed |-> x].reversed = x
      OBVIOUS
  <2>2. Display([of |-> v, reversed |-> x]) =
          [[of |-> v, reversed |-> x] EXCEPT !.reversed = ~ x]
      BY Zenon, <2>1 DEF Display
  <2>3. (~ x) \in BOOLEAN
      OBVIOUS
  <2> QED
      BY Zenon, <1>2, <2>2, <2>3
<1>4. Display([of |-> v, reversed |-> FALSE]) = [of |-> v, reversed |-> TRUE]
    BY Zenon, <1>3
<1>5. Display([of |-> v, reversed |-> TRUE]) = [of |-> v, reversed |-> FALSE]
    BY Zenon, <1>3
<1> QED
    BY Zenon, <1>1, <1>4, <1>5 DEF hexHashToWords

(* What the explorer sends at every level is a hash.                        *)
LEMMA SiblingIsHash ==
    ASSUME NEW S, NEW block \in Seq(S), block # <<>>,
           NEW d \in 0 .. Len(block), NEW i \in Nat, i < Len(Levels(block)[d])
    PROVE  IsHash(Sibling(Levels(block)[d], i))
<1> DEFINE low == Levels(block)[d]
<1>1. Len(low) \in Nat
    BY LevelLengths
<1>2. \A x \in 1 .. Len(low) : IsHash(low[x])
  <2>1. CASE d = 0
    <3>1. low = [j \in 1 .. Len(block) |-> TxHash(block[j])]
        BY <2>1, LevelSteps DEF Leaves
    <3>2. Len(low) = Len(block)
        BY <3>1
    <3> QED
        BY <3>1, <3>2 DEF IsHash, TxHash
  <2>2. CASE d \in 1 .. Len(block)
    <3> SUFFICES ASSUME NEW x \in 1 .. Len(low) PROVE IsHash(low[x])
        OBVIOUS
    <3>1. low[x] = hash_pair(Levels(block)[d - 1][2 * x - 1], Paired(Levels(block)[d - 1], x))
        BY Zenon, <2>2, ParentIs
    <3> QED
        BY <3>1 DEF IsHash, hash_pair
  <2> QED
      BY <2>1, <2>2
<1> HIDE DEF low
<1>3. \E x \in 1 .. Len(low) : Sibling(low, i) = low[x]
  <2>1. i + 1 \in 1 .. Len(low)
      BY <1>1 DEF low
  <2>2. CASE i % 2 = 0
      BY <1>1, <2>1, <2>2 DEF Sibling
  <2>3. CASE ~ (i % 2 = 0)
    <3>1. i > 0 /\ i - 1 < Len(low) /\ (i - 1) + 1 = i /\ i \in 1 .. Len(low)
        BY <1>1, <2>1, <2>3
    <3> QED
        BY <2>3, <3>1 DEF Sibling
  <2> QED
      BY <2>2, <2>3
<1> QED
    BY <1>2, <1>3 DEF low

(* The path the explorer sends leads from every transaction of the block    *)
(* to the root.                                                             *)
LEMMA BuiltPathIsAccepted ==
    ASSUME NEW S, NEW block \in Seq(S), block # <<>>, NEW pos \in 0 .. Len(block) - 1,
           NEW proof,
           proof = [i \in DOMAIN MerkleAnswer(block, pos) |->
                      hexHashToWords(MerkleAnswer(block, pos)[i])]
    PROVE  verify_merkle_proof(Leaves(block)[pos + 1], proof, pos, MerkleRoot(block))
<1> DEFINE txid == Leaves(block)[pos + 1]
<1> DEFINE at == Walk(txid, proof, pos)
<1> DEFINE level == Levels(block)
<1> DEFINE D == Depth(block)
<1> DEFINE n == Len(block)
<1> DEFINE place == Path(pos, D)
<1>0. n \in Nat
    OBVIOUS
<1>1. D \in 0 .. n /\ D \in Nat /\ Len(level[D]) = 1
  <2>1. D \in 0 .. n /\ Len(level[D]) = 1
      BY Zenon, DepthIs
  <2> QED
      BY <1>0, <2>1
<1> pos \in Nat
    BY <1>0
<1>2. place \in [0 .. D -> Nat] /\ place[0] = pos
    BY <1>1, PathSteps
<1>3. \A d \in 1 .. D : place[d] = place[d - 1] \div 2
    BY <1>1, PathSteps
<1>4. /\ DOMAIN proof = 1 .. D
      /\ \A d \in 1 .. D : proof[d] = hexHashToWords(Display(Sibling(level[d - 1], place[d - 1])))
    BY DEF MerkleAnswer
<1>5. Len(proof) = D
  <2>1. proof = [d \in 1 .. D |-> proof[d]]
      BY <1>4
  <2> QED
      BY <1>1, <2>1
<1>6. at[0] = [current |-> txid, idx |-> pos]
    BY <1>1, <1>5, WalkStarts
<1>7. \A i \in 1 .. D : at[i] = Combine(at[i - 1], proof[i])
    BY <1>1, <1>5, WalkSteps
<1>8. level[0] = Leaves(block) /\ Len(level[0]) = n
  <2>1. level[0] = Leaves(block)
      BY <1>0, LevelSteps
  <2>2. level[0] = [i \in 1 .. n |-> TxHash(block[i])]
      BY <2>1 DEF Leaves
  <2> QED
      BY <1>0, <2>1, <2>2
<1>9. \A d \in 1 .. n : \A i \in Nat : \A a :
         i < Len(level[d - 1]) /\ a.idx = i /\ a.current = level[d - 1][i + 1] =>
            /\ i \div 2 < Len(level[d])
            /\ Combine(a, Sibling(level[d - 1], i)).current = level[d][(i \div 2) + 1]
    BY Zenon, Climb
<1>10. \A d \in 0 .. n : \A i \in Nat : i < Len(level[d]) => IsHash(Sibling(level[d], i))
    BY Zenon, SiblingIsHash
<1> HIDE DEF at, level, D, n, place, txid
<1> DEFINE OnPath(i) == /\ at[i].idx = place[i] /\ place[i] < Len(level[i])
                        /\ at[i].current = level[i][place[i] + 1]
<1> DEFINE T == {i \in Nat : i <= D => OnPath(i)}
<1>11. 0 \in T
    BY <1>0, <1>2, <1>6, <1>8 DEF n, txid
<1>12. ASSUME NEW i \in Nat, i \in T PROVE i + 1 \in T
  <2> SUFFICES ASSUME i + 1 <= D PROVE OnPath(i + 1)
      OBVIOUS
  <2>1. OnPath(i) /\ place[i] \in Nat
      BY <1>1, <1>2, <1>12
  <2>2. i + 1 \in 1 .. D /\ i + 1 \in 1 .. n /\ (i + 1) - 1 = i /\ i \in 0 .. n
      BY <1>0, <1>1
  <2>3. place[i + 1] = place[i] \div 2
      BY <1>3, <2>2
  <2>4. proof[i + 1] = Sibling(level[i], place[i])
    <3>1. IsHash(Sibling(level[i], place[i]))
        BY <1>10, <2>1, <2>2
    <3>2. proof[i + 1] = hexHashToWords(Display(Sibling(level[i], place[i])))
        BY <1>4, <2>2
    <3> QED
        BY <3>1, <3>2, WordsOfDisplayed
  <2>5. at[i + 1] = Combine(at[i], Sibling(level[i], place[i]))
      BY <1>7, <2>2, <2>4
  <2>6. /\ place[i] \div 2 < Len(level[i + 1])
        /\ Combine(at[i], Sibling(level[i], place[i])).current = level[i + 1][(place[i] \div 2) + 1]
      BY <1>9, <2>1, <2>2
  <2>7. at[i + 1].idx = place[i + 1]
      BY <2>1, <2>3, <2>5, CombineHalves
  <2> QED
      BY <2>3, <2>5, <2>6, <2>7
<1> HIDE DEF OnPath
<1>13. OnPath(D)
  <2> HIDE DEF T
  <2>1. \A i \in Nat : i \in T
      BY <1>11, <1>12, Induction
  <2> QED
      BY <1>1, <2>1 DEF T
<1>14. at[D].current = level[D][1]
    BY <1>1, <1>2, <1>13 DEF OnPath
<1> QED
    BY <1>5, <1>14 DEF verify_merkle_proof, MerkleRoot, at, level, D, n, place, txid

-----------------------------------------------------------------------------
(* Where the bytes of a transaction stand in its two formats.              *)

Bytes == Seq(Nat)

\* The bytes s stand in a buffer from an offset on.
Holds(buf, o, s) ==
    /\ o + Len(s) <= Len(buf)
    /\ \A i \in 1 .. Len(s) : buf[o + i] = s[i]

(* A buffer holds itself.                                                   *)
LEMMA HoldsItself ==
    ASSUME NEW s \in Bytes
    PROVE  Holds(s, 0, s)
    BY DEF Holds, Bytes

(* What holds a concatenation holds both parts, one behind the other.       *)
LEMMA HoldsBoth ==
    ASSUME NEW buf \in Bytes, NEW o \in Nat, NEW s \in Bytes, NEW t \in Bytes,
           Holds(buf, o, s \o t)
    PROVE  Holds(buf, o, s) /\ Holds(buf, o + Len(s), t)
<1>1. s \o t \in Bytes /\ Len(s \o t) = Len(s) + Len(t) /\ Len(s) \in Nat /\ Len(t) \in Nat
    BY DEF Bytes
<1>2. \A i \in 1 .. Len(s) : (s \o t)[i] = s[i]
    BY DEF Bytes
<1>3. \A i \in 1 .. Len(t) : (s \o t)[Len(s) + i] = t[i]
    BY DEF Bytes
<1>4. Len(buf) \in Nat
    BY DEF Bytes
<1> DEFINE st == s \o t
<1> HIDE DEF st
<1>5. o + (Len(s) + Len(t)) <= Len(buf) /\ \A i \in 1 .. Len(s) + Len(t) : buf[o + i] = st[i]
    BY <1>1 DEF Holds, st
<1>6. Holds(buf, o, s)
  <2>1. o + Len(s) <= Len(buf)
      BY <1>1, <1>4, <1>5
  <2>2. \A i \in 1 .. Len(s) : i \in 1 .. Len(s) + Len(t) /\ st[i] = s[i]
      BY <1>1, <1>2 DEF st
  <2>3. \A i \in 1 .. Len(s) : buf[o + i] = s[i]
      BY Zenon, <1>5, <2>2
  <2> QED
      BY <2>1, <2>3 DEF Holds
<1>7. \A i \in 1 .. Len(t) : buf[(o + Len(s)) + i] = t[i]
  <2> SUFFICES ASSUME NEW i \in 1 .. Len(t) PROVE buf[(o + Len(s)) + i] = t[i]
      OBVIOUS
  <2>1. Len(s) + i \in 1 .. Len(s) + Len(t) /\ o + (Len(s) + i) = (o + Len(s)) + i
      BY <1>1
  <2>2. buf[o + (Len(s) + i)] = st[Len(s) + i]
      BY <1>5, <2>1
  <2> QED
      BY <1>3, <2>1, <2>2 DEF st
<1>8. (o + Len(s)) + Len(t) <= Len(buf)
    BY <1>1, <1>4, <1>5
<1> QED
    BY <1>6, <1>7, <1>8 DEF Holds

(* The slice where bytes are held is those bytes.                           *)
LEMMA SliceIs ==
    ASSUME NEW buf \in Bytes, NEW o \in Nat, NEW s \in Bytes, Holds(buf, o, s)
    PROVE  Slice(buf, o, o + Len(s)) = s
<1> DEFINE r == SubSeq(buf, o + 1, o + Len(s))
<1>1. Len(s) \in Nat /\ Len(buf) \in Nat /\ o + Len(s) <= Len(buf)
    BY DEF Bytes, Holds
<1>2. r \in Seq(Nat)
    BY <1>1 DEF Bytes
<1>3. Len(r) = Len(s)
    BY <1>1 DEF Bytes
<1>4. \A i \in 1 .. Len(s) : r[i] = s[i]
    BY <1>1 DEF Bytes, Holds
<1>5. r = s
    BY <1>2, <1>3, <1>4, SeqEqual DEF Bytes
<1> QED
    BY <1>5 DEF Slice

(* A varint takes one unit or two, and does not begin with 0 unless it is   *)
(* 0.                                                                       *)
LEMMA VarIntIsBytes ==
    ASSUME NEW n \in Nat
    PROVE  /\ VarInt(n) \in Bytes /\ Len(VarInt(n)) \in 1 .. 2
           /\ n > 0 => VarInt(n)[1] # 0
    BY DEF VarInt, Wide, Bytes

(* readVarInt reads what a varint says and how long it is.                  *)
LEMMA VarIntIsRead ==
    ASSUME NEW buf \in Bytes, NEW o \in Nat, NEW n \in Nat, Holds(buf, o, VarInt(n))
    PROVE  /\ readVarInt(buf, o).value = n /\ readVarInt(buf, o).size = Len(VarInt(n))
           /\ PastVarInt(buf, o) = o + Len(VarInt(n))
<1>1. CASE n < Wide
  <2>1. VarInt(n) = <<n>> /\ Len(<<n>>) = 1 /\ <<n>>[1] = n
      BY <1>1 DEF VarInt
  <2>2. buf[o + 1] = n
      BY <2>1 DEF Holds
  <2>3. readVarInt(buf, o) = [value |-> n, size |-> 1]
      BY <1>1, <2>2 DEF readVarInt, At
  <2> QED
      BY <2>1, <2>3 DEF PastVarInt
<1>2. CASE ~ (n < Wide)
  <2>1. VarInt(n) = <<Wide, n>> /\ Len(<<Wide, n>>) = 2 /\ <<Wide, n>>[1] = Wide /\ <<Wide, n>>[2] = n
      BY <1>2 DEF VarInt
  <2>2. buf[o + 1] = Wide /\ buf[o + 2] = n /\ (o + 1) + 1 = o + 2
      BY <2>1 DEF Holds
  <2>3. readVarInt(buf, o) = [value |-> n, size |-> 2]
      BY <1>2, <2>2 DEF readVarInt, At, Wide
  <2> QED
      BY <2>1, <2>3 DEF PastVarInt
<1> QED
    BY <1>1, <1>2

PrefixRule(f, n, upTo) ==
    upTo = [i \in 0 .. n |-> IF i = 0 THEN <<>> ELSE upTo[i - 1] \o f[i]]
CursorRule(n, start, past, cursor) ==
    cursor = [i \in 0 .. n |-> IF i = 0 THEN start ELSE past[cursor[i - 1]]]

(* Prefixes has the values its recursive definition names.                  *)
LEMMA PrefixesAre ==
    ASSUME NEW f \in Seq(Bytes)
    PROVE  PrefixRule(f, Len(f), Prefixes(f))
<1> DEFINE S == {n \in Nat : \E upTo : PrefixRule(f, n, upTo)}
<1>1. 0 \in S
  <2>1. PrefixRule(f, 0, [i \in 0 .. 0 |-> <<>>])
      BY DEF PrefixRule
  <2> QED
      BY <2>1
<1>2. ASSUME NEW n \in Nat, n \in S PROVE n + 1 \in S
  <2>1. PICK upTo : PrefixRule(f, n, upTo)
      BY <1>2
  <2> DEFINE more == [i \in 0 .. n + 1 |-> IF i = n + 1 THEN upTo[n] \o f[n + 1] ELSE upTo[i]]
  <2>2. PrefixRule(f, n + 1, more)
      BY <2>1 DEF PrefixRule
  <2> QED
      BY <2>2
<1> HIDE DEF S
<1>3. Len(f) \in S
    BY <1>1, <1>2, Induction
<1>4. \E upTo : PrefixRule(f, Len(f), upTo)
    BY <1>3 DEF S
<1>5. Prefixes(f) = CHOOSE upTo : PrefixRule(f, Len(f), upTo)
    BY Zenon DEF Prefixes, PrefixRule
<1> QED
    BY Zenon, <1>4, <1>5

(* The concatenation of no sequence is empty.                               *)
LEMMA PrefixZero ==
    ASSUME NEW f \in Seq(Bytes)
    PROVE  Prefixes(f)[0] = <<>>
<1>1. Len(f) \in Nat /\ PrefixRule(f, Len(f), Prefixes(f))
    BY PrefixesAre
<1> QED
    BY <1>1 DEF PrefixRule

(* Each prefix adds one sequence.                                           *)
LEMMA PrefixStep ==
    ASSUME NEW f \in Seq(Bytes), NEW i \in 1 .. Len(f)
    PROVE  Prefixes(f)[i] = Prefixes(f)[i - 1] \o f[i]
<1>1. Len(f) \in Nat /\ PrefixRule(f, Len(f), Prefixes(f))
    BY PrefixesAre
<1> QED
    BY <1>1 DEF PrefixRule

(* Concatenations of bytes are bytes.                                       *)
LEMMA PrefixesAreBytes ==
    ASSUME NEW f \in Seq(Bytes)
    PROVE  \A i \in 0 .. Len(f) : Prefixes(f)[i] \in Bytes
<1> DEFINE T == {i \in Nat : i <= Len(f) => Prefixes(f)[i] \in Bytes}
<1>1. 0 \in T
    BY PrefixZero, EmptySeq DEF Bytes
<1>2. ASSUME NEW i \in Nat, i \in T PROVE i + 1 \in T
  <2> SUFFICES ASSUME i + 1 <= Len(f) PROVE Prefixes(f)[i + 1] \in Bytes
      OBVIOUS
  <2>1. i + 1 \in 1 .. Len(f) /\ (i + 1) - 1 = i /\ f[i + 1] \in Bytes /\ Prefixes(f)[i] \in Bytes
      BY <1>2
  <2>2. Prefixes(f)[i + 1] = Prefixes(f)[i] \o f[i + 1]
      BY <2>1, PrefixStep
  <2> QED
      BY <2>1, <2>2 DEF Bytes
<1> HIDE DEF T
<1>3. \A i \in Nat : i \in T
    BY <1>1, <1>2, Induction
<1> QED
    BY <1>3 DEF T

(* A concatenation of bytes is bytes.                                       *)
LEMMA ConcatIsBytes ==
    ASSUME NEW f \in Seq(Bytes)
    PROVE  Concat(f) \in Bytes
    BY PrefixesAreBytes DEF Concat

(* A concatenation holds every item after the items before it.              *)
LEMMA ItemsAreHeld ==
    ASSUME NEW f \in Seq(Bytes), NEW buf \in Bytes, NEW o \in Nat, Holds(buf, o, Concat(f))
    PROVE  \A i \in 1 .. Len(f) : Holds(buf, o + Len(Prefixes(f)[i - 1]), f[i])
<1> DEFINE n == Len(f)
<1> DEFINE P == Prefixes(f)
<1>0. n \in Nat
    OBVIOUS
<1>1. \A i \in 0 .. n : P[i] \in Bytes
    BY PrefixesAreBytes
<1>2. \A i \in 1 .. n : P[i] = P[i - 1] \o f[i]
    BY PrefixStep
<1>3. \A i \in 1 .. n : f[i] \in Bytes
    OBVIOUS
<1>4. Holds(buf, o, P[n])
    BY DEF Concat
<1> HIDE DEF n, P
<1>5. \A i \in 1 .. n : Holds(buf, o, P[i]) =>
         Holds(buf, o, P[i - 1]) /\ Holds(buf, o + Len(P[i - 1]), f[i])
  <2> SUFFICES ASSUME NEW i \in 1 .. n, Holds(buf, o, P[i])
               PROVE  Holds(buf, o, P[i - 1]) /\ Holds(buf, o + Len(P[i - 1]), f[i])
      OBVIOUS
  <2>1. i - 1 \in 0 .. n
      BY <1>0
  <2>2. P[i - 1] \in Bytes /\ f[i] \in Bytes /\ Holds(buf, o, P[i - 1] \o f[i])
      BY <1>1, <1>2, <1>3, <2>1
  <2> QED
      BY <2>2, HoldsBoth
<1> DEFINE T == {k \in Nat : k <= n => Holds(buf, o, P[n - k])}
<1>6. 0 \in T
    BY <1>0, <1>4
<1>7. ASSUME NEW k \in Nat, k \in T PROVE k + 1 \in T
  <2> SUFFICES ASSUME k + 1 <= n PROVE Holds(buf, o, P[n - (k + 1)])
      OBVIOUS
  <2>1. n - k \in 1 .. n /\ (n - k) - 1 = n - (k + 1) /\ Holds(buf, o, P[n - k])
      BY <1>0, <1>7
  <2> QED
      BY <1>5, <2>1
<1> HIDE DEF T
<1>8. \A k \in Nat : k \in T
    BY <1>6, <1>7, Induction
<1>9. \A i \in 1 .. n : Holds(buf, o, P[i])
  <2> SUFFICES ASSUME NEW i \in 1 .. n PROVE Holds(buf, o, P[i])
      OBVIOUS
  <2>1. n - i \in Nat /\ n - i <= n /\ n - (n - i) = i /\ n - i \in T
      BY <1>0, <1>8
  <2> QED
      BY <2>1 DEF T
<1> QED
    BY <1>5, <1>9 DEF n, P

(* SkipTimes has the value its recursive definition names.                  *)
LEMMA SkipIs ==
    ASSUME NEW n \in Nat, NEW start, NEW past
    PROVE  \E cursor : CursorRule(n, start, past, cursor) /\ SkipTimes(n, start, past) = cursor[n]
<1> DEFINE S == {k \in Nat : \E cursor : CursorRule(k, start, past, cursor)}
<1>1. 0 \in S
  <2>1. CursorRule(0, start, past, [i \in 0 .. 0 |-> start])
      BY DEF CursorRule
  <2> QED
      BY <2>1
<1>2. ASSUME NEW k \in Nat, k \in S PROVE k + 1 \in S
  <2>1. PICK cursor : CursorRule(k, start, past, cursor)
      BY <1>2
  <2> DEFINE more == [i \in 0 .. k + 1 |-> IF i = k + 1 THEN past[cursor[k]] ELSE cursor[i]]
  <2>2. \A i \in 0 .. k : cursor[i] = IF i = 0 THEN start ELSE past[cursor[i - 1]]
      BY <2>1 DEF CursorRule
  <2>3. \A i \in 0 .. k + 1 : more[i] = IF i = 0 THEN start ELSE past[more[i - 1]]
    <3> SUFFICES ASSUME NEW i \in 0 .. k + 1
                 PROVE  more[i] = IF i = 0 THEN start ELSE past[more[i - 1]]
        OBVIOUS
    <3>1. CASE i = k + 1
      <4>1. more[i - 1] = cursor[k] /\ more[i] = past[cursor[k]]
          BY <3>1
      <4> QED
          BY <3>1, <4>1
    <3>2. CASE i \in 1 .. k
      <4>1. more[i - 1] = cursor[i - 1] /\ more[i] = cursor[i]
          BY <3>2
      <4> QED
          BY <2>2, <3>2, <4>1
    <3>3. CASE i = 0
        BY <2>2, <3>3
    <3> QED
        BY <3>1, <3>2, <3>3
  <2>4. DOMAIN more = 0 .. k + 1 /\ more = [i \in 0 .. k + 1 |-> more[i]]
      OBVIOUS
  <2> HIDE DEF more
  <2>5. CursorRule(k + 1, start, past, more)
      BY <2>3, <2>4 DEF CursorRule
  <2> QED
      BY <2>5
<1> HIDE DEF S
<1>3. n \in S
    BY <1>1, <1>2, Induction
<1>4. \E cursor : CursorRule(n, start, past, cursor)
    BY <1>3 DEF S
<1> DEFINE cursor == CHOOSE c : CursorRule(n, start, past, c)
<1>5. CursorRule(n, start, past, cursor)
    BY <1>4
<1>6. SkipTimes(n, start, past) = cursor[n]
    BY Zenon DEF SkipTimes, CursorRule
<1> HIDE DEF cursor
<1> QED
    BY <1>5, <1>6

\* Where the cursor stands after some of the items.
Passes(past, buf, s) == \A c \in Nat : Holds(buf, c, s) => past[c] = c + Len(s)

(* A cursor that passes items lands behind the bytes of those it passed.    *)
LEMMA SkipLands ==
    ASSUME NEW f \in Seq(Bytes), NEW buf \in Bytes, NEW o \in Nat, Holds(buf, o, Concat(f)),
           NEW past, \A i \in 1 .. Len(f) : Passes(past, buf, f[i]),
           NEW n \in 0 .. Len(f)
    PROVE  SkipTimes(n, o, past) = o + Len(Prefixes(f)[n])
<1> DEFINE P == Prefixes(f)
<1>0. n \in Nat /\ Len(f) \in Nat
    OBVIOUS
<1>1. PICK cursor : CursorRule(n, o, past, cursor) /\ SkipTimes(n, o, past) = cursor[n]
    BY <1>0, SkipIs
<1>2. cursor[0] = o /\ \A i \in 1 .. n : cursor[i] = past[cursor[i - 1]]
    BY <1>0, <1>1 DEF CursorRule
<1>3. P[0] = <<>>
    BY PrefixZero
<1>4. \A i \in 1 .. Len(f) : P[i] = P[i - 1] \o f[i]
    BY PrefixStep
<1>5. \A i \in 0 .. Len(f) : P[i] \in Bytes
    BY PrefixesAreBytes
<1>6. \A i \in 1 .. Len(f) : Holds(buf, o + Len(P[i - 1]), f[i])
    BY ItemsAreHeld
<1>7. \A i \in 1 .. Len(f) : f[i] \in Bytes
    OBVIOUS
<1> HIDE DEF P
<1> DEFINE T == {i \in Nat : i <= n => cursor[i] = o + Len(P[i])}
<1>8. 0 \in T
    BY <1>2, <1>3
<1>9. ASSUME NEW i \in Nat, i \in T PROVE i + 1 \in T
  <2> SUFFICES ASSUME i + 1 <= n PROVE cursor[i + 1] = o + Len(P[i + 1])
      OBVIOUS
  <2>1. i + 1 \in 1 .. n /\ i + 1 \in 1 .. Len(f) /\ (i + 1) - 1 = i /\ i \in 0 .. Len(f)
      BY <1>0
  <2>2. cursor[i] = o + Len(P[i])
      BY <1>9, <2>1
  <2>3. Holds(buf, o + Len(P[i]), f[i + 1])
      BY <1>6, <2>1
  <2>4. Len(P[i]) \in Nat /\ P[i] \in Bytes /\ f[i + 1] \in Bytes /\ Len(f[i + 1]) \in Nat
      BY <1>5, <1>7, <2>1 DEF Bytes
  <2>5. past[o + Len(P[i])] = (o + Len(P[i])) + Len(f[i + 1])
    <3> DEFINE c == o + Len(P[i])
    <3>1. c \in Nat
        BY <2>4
    <3>2. Passes(past, buf, f[i + 1])
        BY <2>1
    <3> HIDE DEF c
    <3>3. Holds(buf, c, f[i + 1]) => past[c] = c + Len(f[i + 1])
        BY Zenon, <3>1, <3>2 DEF Passes
    <3> QED
        BY <2>3, <3>3 DEF c
  <2>6. cursor[i + 1] = past[cursor[i]]
      BY <1>2, <2>1
  <2>7. Len(P[i + 1]) = Len(P[i]) + Len(f[i + 1])
    <3>1. P[i + 1] = P[i] \o f[i + 1]
        BY <1>4, <2>1
    <3> QED
        BY <2>4, <3>1, ConcatProperties DEF Bytes
  <2> DEFINE len == Len(P[i])
  <2> DEFINE more == Len(f[i + 1])
  <2>8. /\ len \in Nat /\ more \in Nat
        /\ cursor[i + 1] = (o + len) + more /\ Len(P[i + 1]) = len + more
      BY <2>2, <2>4, <2>5, <2>6, <2>7
  <2> HIDE DEF len, more
  <2> QED
      BY <2>8
<1> HIDE DEF T
<1>10. \A i \in Nat : i \in T
    BY <1>8, <1>9, Induction
<1> QED
    BY <1>0, <1>1, <1>10 DEF T, P

(* A count and the items it counts are passed together.                     *)
LEMMA ItemsArePassed ==
    ASSUME NEW f \in Seq(Bytes), NEW buf \in Bytes, NEW o \in Nat,
           Holds(buf, o, VarInt(Len(f)) \o Concat(f)),
           NEW past, \A i \in 1 .. Len(f) : Passes(past, buf, f[i])
    PROVE  /\ PastItems(buf, o, past) = o + Len(VarInt(Len(f)) \o Concat(f))
           /\ readVarInt(buf, o).value = Len(f)
           /\ PastVarInt(buf, o) = o + Len(VarInt(Len(f)))
           /\ Holds(buf, o + Len(VarInt(Len(f))), Concat(f))
<1> DEFINE v == VarInt(Len(f))
<1>0. Len(f) \in Nat /\ Len(f) \in 0 .. Len(f)
    OBVIOUS
<1>1. v \in Bytes /\ Concat(f) \in Bytes /\ Len(v) \in Nat /\ Len(Concat(f)) \in Nat
  <2>1. v \in Bytes
      BY <1>0, VarIntIsBytes
  <2>2. Concat(f) \in Bytes
      BY ConcatIsBytes
  <2> HIDE DEF v
  <2> QED
      BY <2>1, <2>2, LenProperties DEF Bytes
<1>2. Holds(buf, o, v) /\ Holds(buf, o + Len(v), Concat(f))
    BY <1>1, HoldsBoth
<1>3. readVarInt(buf, o).value = Len(f) /\ PastVarInt(buf, o) = o + Len(v)
    BY <1>0, <1>2, VarIntIsRead
<1>4. SkipTimes(Len(f), o + Len(v), past) = (o + Len(v)) + Len(Prefixes(f)[Len(f)])
  <2>1. o + Len(v) \in Nat
      BY <1>1
  <2> HIDE DEF v
  <2> QED
      BY <1>0, <1>2, <2>1, SkipLands
<1>5. Len(v \o Concat(f)) = Len(v) + Len(Concat(f))
    BY <1>1 DEF Bytes
<1> HIDE DEF v
<1>6. PastItems(buf, o, past) = (o + Len(v)) + Len(Concat(f))
    BY <1>3, <1>4 DEF PastItems, Concat
<1> QED
    BY <1>1, <1>2, <1>3, <1>5, <1>6 DEF v

(* A script is passed, and is what is between its length and the end.       *)
LEMMA ScriptIsPassed ==
    ASSUME NEW buf \in Bytes, NEW o \in Nat, NEW s \in Bytes, Holds(buf, o, ScriptBytes(s))
    PROVE  /\ PastScript(buf, o) = o + Len(ScriptBytes(s))
           /\ Slice(buf, PastVarInt(buf, o), PastScript(buf, o)) = s
<1> DEFINE v == VarInt(Len(s))
<1>1. Len(s) \in Nat
    BY LenProperties DEF Bytes
<1>2. v \in Bytes
    BY <1>1, VarIntIsBytes
<1>3. Holds(buf, o, v \o s)
    BY DEF ScriptBytes
<1>4. readVarInt(buf, o).value = Len(s) /\ readVarInt(buf, o).size = Len(v)
      /\ PastVarInt(buf, o) = o + Len(v) /\ Holds(buf, o + Len(v), s)
  <2>1. Holds(buf, o, v) /\ Holds(buf, o + Len(v), s)
    <3> HIDE DEF v
    <3> QED
        BY <1>2, <1>3, HoldsBoth
  <2> QED
      BY <1>1, <2>1, VarIntIsRead
<1> HIDE DEF v
<1>5. Len(v) \in Nat /\ Len(v \o s) = Len(v) + Len(s)
    BY <1>2, LenProperties, ConcatProperties DEF Bytes
<1>6. PastScript(buf, o) = (o + Len(v)) + Len(s)
    BY <1>4 DEF PastScript
<1>7. PastScript(buf, o) = o + Len(v \o s)
    BY <1>1, <1>5, <1>6
<1>8. o + Len(v) \in Nat
    BY <1>5
<1>9. Slice(buf, o + Len(v), (o + Len(v)) + Len(s)) = s
    BY <1>4, <1>8, SliceIs
<1> QED
    BY <1>4, <1>6, <1>7, <1>9 DEF ScriptBytes, v

(* A script with its length is bytes.                                       *)
LEMMA ScriptIsBytes ==
    ASSUME NEW s \in Bytes
    PROVE  ScriptBytes(s) \in Bytes
<1>1. Len(s) \in Nat
    BY LenProperties DEF Bytes
<1>2. VarInt(Len(s)) \in Bytes
    BY <1>1, VarIntIsBytes
<1> QED
    BY <1>2, ConcatProperties DEF ScriptBytes, Bytes

(* One unit is bytes.                                                       *)
LEMMA OneByte ==
    ASSUME NEW b \in Nat
    PROVE  <<b>> \in Bytes /\ Len(<<b>>) = 1 /\ <<b>>[1] = b
    BY DEF Bytes

Output == [sats : Nat, script : Bytes]

(* An output is passed, and its value and script are read from it.          *)
LEMMA OutputIsPassed ==
    ASSUME NEW buf \in Bytes, NEW o \in Nat,
           NEW output \in Output, Holds(buf, o, OutputItem(output))
    PROVE  /\ OutputItem(output) \in Bytes
           /\ PastOutput(buf, o) = o + Len(OutputItem(output))
           /\ At(buf, o) = output.sats
           /\ Slice(buf, PastVarInt(buf, o + 1), PastScript(buf, o + 1)) = output.script
<1> DEFINE one == <<output.sats>>
<1> DEFINE rest == ScriptBytes(output.script)
<1>1. one \in Bytes /\ Len(one) = 1 /\ one[1] = output.sats
    BY OneByte DEF Output
<1>2. rest \in Bytes
    BY ScriptIsBytes DEF Output
<1>3. OutputItem(output) = one \o rest
    BY DEF OutputItem
<1> HIDE DEF one, rest
<1>4. Holds(buf, o, one) /\ Holds(buf, o + 1, rest)
  <2>1. Holds(buf, o, one \o rest)
      BY <1>3
  <2>2. Holds(buf, o, one) /\ Holds(buf, o + Len(one), rest)
      BY <1>1, <1>2, <2>1, HoldsBoth
  <2> QED
      BY <1>1, <2>2
<1>5. At(buf, o) = output.sats
    BY <1>1, <1>4 DEF At, Holds
<1>6. PastScript(buf, o + 1) = (o + 1) + Len(rest)
      /\ Slice(buf, PastVarInt(buf, o + 1), PastScript(buf, o + 1)) = output.script
    BY <1>4, ScriptIsPassed DEF rest, Output
<1>7. OutputItem(output) \in Bytes /\ Len(OutputItem(output)) = 1 + Len(rest) /\ Len(rest) \in Nat
  <2>1. one \o rest \in Bytes /\ Len(one \o rest) = Len(one) + Len(rest)
      BY <1>1, <1>2, ConcatProperties DEF Bytes
  <2>2. Len(rest) \in Nat
      BY <1>2, LenProperties DEF Bytes
  <2> QED
      BY <1>1, <1>3, <2>1, <2>2
<1>8. PastOutput(buf, o) = o + Len(OutputItem(output))
    BY <1>6, <1>7 DEF PastOutput
<1> QED
    BY <1>5, <1>6, <1>7, <1>8

(* An output is bytes.                                                      *)
LEMMA OutputIsBytes ==
    ASSUME NEW output \in Output
    PROVE  OutputItem(output) \in Bytes
<1>1. <<output.sats>> \in Bytes /\ ScriptBytes(output.script) \in Bytes
    BY OneByte, ScriptIsBytes DEF Output
<1> QED
    BY <1>1, ConcatProperties DEF OutputItem, Bytes

(* An input is passed.                                                      *)
LEMMA InputIsPassed ==
    ASSUME NEW buf \in Bytes, NEW o \in Nat, NEW input \in Bytes,
           Holds(buf, o, InputItem(input))
    PROVE  PastInput(buf, o) = o + Len(InputItem(input))
<1> DEFINE s == ScriptBytes(input)
<1>1. s \in Bytes /\ Len(s) \in Nat
    BY ScriptIsBytes, LenProperties DEF Bytes
<1>2. Field \in Bytes /\ Len(Field) = 1
    BY OneByte DEF Field
<1>3. InputItem(input) = (Field \o s) \o Field
    BY DEF InputItem
<1> HIDE DEF s
<1>4. Field \o s \in Bytes /\ Len(Field \o s) = 1 + Len(s)
    BY <1>1, <1>2, ConcatProperties DEF Bytes
<1>5. Len(InputItem(input)) = (1 + Len(s)) + 1
    BY <1>2, <1>3, <1>4, ConcatProperties DEF Bytes
<1>6. Holds(buf, o, Field \o s)
    BY <1>2, <1>3, <1>4, HoldsBoth
<1>7. Holds(buf, o + 1, s)
    BY <1>1, <1>2, <1>6, HoldsBoth
<1>8. PastScript(buf, o + 1) = (o + 1) + Len(s)
    BY <1>7, ScriptIsPassed DEF s
<1> QED
    BY <1>1, <1>5, <1>8 DEF PastInput

(* An input is bytes.                                                       *)
LEMMA InputIsBytes ==
    ASSUME NEW input \in Bytes
    PROVE  InputItem(input) \in Bytes
<1>1. ScriptBytes(input) \in Bytes /\ Field \in Bytes
    BY ScriptIsBytes, OneByte DEF Field
<1>2. Field \o ScriptBytes(input) \in Bytes
    BY <1>1, ConcatProperties DEF Bytes
<1> QED
    BY <1>1, <1>2, ConcatProperties DEF InputItem, Bytes

(* A witness stack is bytes.                                                *)
LEMMA WitnessIsBytes ==
    ASSUME NEW stack \in Seq(Bytes)
    PROVE  /\ [j \in DOMAIN stack |-> ScriptBytes(stack[j])] \in Seq(Bytes)
           /\ WitnessItem(stack) \in Bytes
<1> DEFINE f == [j \in DOMAIN stack |-> ScriptBytes(stack[j])]
<1>1. Len(stack) \in Nat /\ DOMAIN stack = 1 .. Len(stack)
    BY LenProperties
<1>2. \A j \in 1 .. Len(stack) : ScriptBytes(stack[j]) \in Bytes
  <2> SUFFICES ASSUME NEW j \in 1 .. Len(stack) PROVE ScriptBytes(stack[j]) \in Bytes
      OBVIOUS
  <2>1. stack[j] \in Bytes
      BY ElementOfSeq
  <2> QED
      BY <2>1, ScriptIsBytes
<1>3. f \in Seq(Bytes)
    BY <1>1, <1>2
<1> HIDE DEF f
<1>4. Concat(f) \in Bytes
    BY <1>3, ConcatIsBytes
<1>5. VarInt(Len(stack)) \in Bytes
    BY <1>1, VarIntIsBytes
<1>6. VarInt(Len(stack)) \o Concat(f) \in Bytes
    BY <1>4, <1>5, ConcatProperties DEF Bytes
<1> QED
    BY <1>3, <1>6 DEF WitnessItem, f

(* A witness stack, which is a count and its items, is passed.              *)
LEMMA WitnessIsPassed ==
    ASSUME NEW buf \in Bytes, NEW o \in Nat, NEW stack \in Seq(Bytes),
           Holds(buf, o, WitnessItem(stack))
    PROVE  PastWitness(buf, o) = o + Len(WitnessItem(stack))
<1> DEFINE f == [j \in DOMAIN stack |-> ScriptBytes(stack[j])]
<1> DEFINE past == [c \in 0 .. Len(buf) |-> PastScript(buf, c)]
<1>1. f \in Seq(Bytes)
    BY WitnessIsBytes
<1>2. Len(stack) \in Nat /\ DOMAIN stack = 1 .. Len(stack) /\ Len(f) = Len(stack)
    BY LenProperties
<1>3. Len(buf) \in Nat
    BY LenProperties DEF Bytes
<1>4. \A j \in 1 .. Len(f) : Passes(past, buf, f[j])
  <2> SUFFICES ASSUME NEW j \in 1 .. Len(f), NEW c \in Nat, Holds(buf, c, f[j])
               PROVE  past[c] = c + Len(f[j])
      BY DEF Passes
  <2>1. stack[j] \in Bytes /\ f[j] = ScriptBytes(stack[j])
      BY <1>2, ElementOfSeq
  <2>2. PastScript(buf, c) = c + Len(f[j])
      BY <2>1, ScriptIsPassed
  <2>3. c \in 0 .. Len(buf)
    <3>1. Len(f[j]) \in Nat
        BY <2>1, ScriptIsBytes, LenProperties DEF Bytes
    <3> QED
        BY <1>3, <3>1 DEF Holds
  <2> QED
      BY <2>2, <2>3
<1>5. WitnessItem(stack) = VarInt(Len(f)) \o Concat(f)
    BY <1>2 DEF WitnessItem
<1>6. PastWitness(buf, o) = PastItems(buf, o, past)
    BY DEF PastWitness
<1> HIDE DEF f, past
<1>7. Holds(buf, o, VarInt(Len(f)) \o Concat(f))
    BY <1>5
<1>8. PastItems(buf, o, past) = o + Len(VarInt(Len(f)) \o Concat(f))
    BY <1>1, <1>4, <1>7, ItemsArePassed
<1> QED
    BY <1>5, <1>6, <1>8

(* What is held begins in the buffer.                                       *)
LEMMA InBuffer ==
    ASSUME NEW buf \in Bytes, NEW c \in Nat, NEW s \in Bytes, Holds(buf, c, s)
    PROVE  c \in 0 .. Len(buf)
<1>1. Len(buf) \in Nat /\ Len(s) \in Nat
    BY LenProperties DEF Bytes
<1> QED
    BY <1>1 DEF Holds

(* PastInputs passes the inputs of a transaction and reads their number.    *)
LEMMA InputsArePassed ==
    ASSUME NEW tx, tx.inputs \in Seq(Bytes), NEW buf \in Bytes, NEW o \in Nat,
           Holds(buf, o, InputBytes(tx))
    PROVE  /\ PastInputs(buf, o) = o + Len(InputBytes(tx))
           /\ readVarInt(buf, o).value = Len(tx.inputs)
<1> DEFINE ins == tx.inputs
<1> DEFINE f == [i \in DOMAIN ins |-> InputItem(ins[i])]
<1> DEFINE past == [c \in 0 .. Len(buf) |-> PastInput(buf, c)]
<1>1. Len(ins) \in Nat /\ DOMAIN ins = 1 .. Len(ins) /\ \A i \in 1 .. Len(ins) : ins[i] \in Bytes
    BY LenProperties, ElementOfSeq
<1>0. \A i \in 1 .. Len(ins) : InputItem(ins[i]) \in Bytes
    BY <1>1, InputIsBytes
<1>2. \A i \in 1 .. Len(ins) : f[i] = InputItem(ins[i]) /\ f[i] \in Bytes
    BY <1>0, <1>1
<1>3. Len(f) = Len(ins) /\ DOMAIN f = 1 .. Len(ins)
    BY <1>1
<1>4. f \in Seq(Bytes)
    BY <1>0, <1>1
<1>5. \A i \in 1 .. Len(f) : Passes(past, buf, f[i])
  <2> SUFFICES ASSUME NEW i \in 1 .. Len(f), NEW c \in Nat, Holds(buf, c, f[i])
               PROVE  past[c] = c + Len(f[i])
      BY DEF Passes
  <2>1. ins[i] \in Bytes /\ f[i] = InputItem(ins[i]) /\ f[i] \in Bytes
      BY <1>1, <1>2, <1>3
  <2>2. PastInput(buf, c) = c + Len(f[i])
      BY <2>1, InputIsPassed
  <2>3. c \in 0 .. Len(buf)
      BY <2>1, InBuffer
  <2> QED
      BY <2>2, <2>3
<1>6. InputBytes(tx) = VarInt(Len(f)) \o Concat(f)
    BY <1>3 DEF InputBytes
<1>7. PastInputs(buf, o) = PastItems(buf, o, past)
    BY DEF PastInputs
<1> HIDE DEF f, past
<1>8. Holds(buf, o, VarInt(Len(f)) \o Concat(f))
    BY <1>6
<1>9. /\ PastItems(buf, o, past) = o + Len(VarInt(Len(f)) \o Concat(f))
      /\ readVarInt(buf, o).value = Len(f)
    BY <1>4, <1>5, <1>8, ItemsArePassed
<1> QED
    BY <1>3, <1>6, <1>7, <1>9

(* PastOutputs passes the outputs, and each of them can be read.            *)
LEMMA OutputsArePassed ==
    ASSUME NEW tx, tx.outputs \in Seq(Output), NEW buf \in Bytes, NEW o \in Nat,
           Holds(buf, o, OutputBytes(tx))
    PROVE  /\ PastOutputs(buf, o) = o + Len(OutputBytes(tx))
           /\ readVarInt(buf, o).value = Len(tx.outputs)
           /\ \A vout \in 0 .. Len(tx.outputs) - 1 :
                 LET cursor == SkipTimes(vout, PastVarInt(buf, o),
                                         [c \in 0 .. Len(buf) |-> PastOutput(buf, c)])
                 IN  /\ At(buf, cursor) = tx.outputs[vout + 1].sats
                     /\ Slice(buf, PastVarInt(buf, cursor + 1), PastScript(buf, cursor + 1)) =
                           tx.outputs[vout + 1].script
<1> DEFINE outs == tx.outputs
<1> DEFINE f == [i \in DOMAIN outs |-> OutputItem(outs[i])]
<1> DEFINE past == [c \in 0 .. Len(buf) |-> PastOutput(buf, c)]
<1>1. Len(outs) \in Nat /\ DOMAIN outs = 1 .. Len(outs) /\ \A i \in 1 .. Len(outs) : outs[i] \in Output
    BY LenProperties, ElementOfSeq
<1>0. \A i \in 1 .. Len(outs) : OutputItem(outs[i]) \in Bytes
    BY <1>1, OutputIsBytes
<1>2. \A i \in 1 .. Len(outs) : f[i] = OutputItem(outs[i]) /\ f[i] \in Bytes
    BY <1>0, <1>1
<1>3. Len(f) = Len(outs) /\ DOMAIN f = 1 .. Len(outs)
    BY <1>1
<1>4. f \in Seq(Bytes)
    BY <1>0, <1>1
<1>5. \A i \in 1 .. Len(f) : Passes(past, buf, f[i])
  <2> SUFFICES ASSUME NEW i \in 1 .. Len(f), NEW c \in Nat, Holds(buf, c, f[i])
               PROVE  past[c] = c + Len(f[i])
      BY DEF Passes
  <2>1. outs[i] \in Output /\ f[i] = OutputItem(outs[i]) /\ f[i] \in Bytes
      BY <1>1, <1>2, <1>3
  <2>2. PastOutput(buf, c) = c + Len(f[i])
      BY <2>1, OutputIsPassed
  <2>3. c \in 0 .. Len(buf)
      BY <2>1, InBuffer
  <2> QED
      BY <2>2, <2>3
<1>6. OutputBytes(tx) = VarInt(Len(f)) \o Concat(f)
    BY <1>3 DEF OutputBytes
<1>7. PastOutputs(buf, o) = PastItems(buf, o, past)
    BY DEF PastOutputs
<1> HIDE DEF f
<1>8. Holds(buf, o, VarInt(Len(f)) \o Concat(f))
    BY <1>6
<1> DEFINE start == o + Len(VarInt(Len(f)))
<1> HIDE DEF past
<1>9. /\ PastItems(buf, o, past) = o + Len(VarInt(Len(f)) \o Concat(f))
      /\ readVarInt(buf, o).value = Len(f)
      /\ PastVarInt(buf, o) = start
      /\ Holds(buf, start, Concat(f))
    BY <1>4, <1>5, <1>8, ItemsArePassed
<1>10. start \in Nat
  <2>1. Len(f) \in Nat
      BY <1>1, <1>3
  <2>2. VarInt(Len(f)) \in Bytes
      BY <2>1, VarIntIsBytes
  <2> QED
      BY <2>2, LenProperties DEF Bytes
<1> HIDE DEF start
<1>11. ASSUME NEW vout \in 0 .. Len(outs) - 1
       PROVE  LET cursor == SkipTimes(vout, PastVarInt(buf, o), past)
              IN  /\ At(buf, cursor) = outs[vout + 1].sats
                  /\ Slice(buf, PastVarInt(buf, cursor + 1), PastScript(buf, cursor + 1)) =
                        outs[vout + 1].script
  <2> DEFINE cursor == SkipTimes(vout, PastVarInt(buf, o), past)
  <2> DEFINE before == Prefixes(f)[vout]
  <2>1. vout \in 0 .. Len(f) /\ vout + 1 \in 1 .. Len(f) /\ (vout + 1) - 1 = vout
      BY <1>1, <1>3
  <2>2. cursor = start + Len(before)
      BY <1>4, <1>5, <1>9, <1>10, <2>1, SkipLands
  <2>3. Holds(buf, start + Len(before), f[vout + 1])
      BY <1>4, <1>9, <1>10, <2>1, ItemsAreHeld
  <2>4. before \in Bytes
      BY <1>4, <2>1, PrefixesAreBytes
  <2>5. Len(before) \in Nat
      BY <2>4, LenProperties DEF Bytes
  <2> HIDE DEF before, cursor
  <2>6. cursor \in Nat /\ Holds(buf, cursor, OutputItem(outs[vout + 1])) /\ outs[vout + 1] \in Output
      BY <1>1, <1>2, <1>3, <1>10, <2>1, <2>2, <2>3, <2>5
  <2>7. /\ At(buf, cursor) = outs[vout + 1].sats
        /\ Slice(buf, PastVarInt(buf, cursor + 1), PastScript(buf, cursor + 1)) = outs[vout + 1].script
      BY <2>6, OutputIsPassed
  <2> QED
      BY <2>7 DEF cursor
<1> QED
    BY <1>3, <1>6, <1>7, <1>9, <1>11 DEF past

(* The stacks of a transaction are passed, as many as it has inputs.        *)
LEMMA WitnessesArePassed ==
    ASSUME NEW tx, tx.witness \in Seq(Seq(Bytes)), NEW buf \in Bytes, NEW o \in Nat,
           Holds(buf, o, WitnessBytes(tx))
    PROVE  SkipTimes(Len(tx.witness), o, [c \in 0 .. Len(buf) |-> PastWitness(buf, c)]) =
              o + Len(WitnessBytes(tx))
<1> DEFINE wit == tx.witness
<1> DEFINE f == [i \in DOMAIN wit |-> WitnessItem(wit[i])]
<1> DEFINE past == [c \in 0 .. Len(buf) |-> PastWitness(buf, c)]
<1>1. Len(wit) \in Nat /\ DOMAIN wit = 1 .. Len(wit) /\ \A i \in 1 .. Len(wit) : wit[i] \in Seq(Bytes)
    BY LenProperties, ElementOfSeq
<1>0. \A i \in 1 .. Len(wit) : WitnessItem(wit[i]) \in Bytes
    BY <1>1, WitnessIsBytes
<1>2. \A i \in 1 .. Len(wit) : f[i] = WitnessItem(wit[i]) /\ f[i] \in Bytes
    BY <1>0, <1>1
<1>3. Len(f) = Len(wit) /\ DOMAIN f = 1 .. Len(wit)
    BY <1>1
<1>4. f \in Seq(Bytes)
    BY <1>0, <1>1
<1>5. \A i \in 1 .. Len(f) : Passes(past, buf, f[i])
  <2> SUFFICES ASSUME NEW i \in 1 .. Len(f), NEW c \in Nat, Holds(buf, c, f[i])
               PROVE  past[c] = c + Len(f[i])
      BY DEF Passes
  <2>1. wit[i] \in Seq(Bytes) /\ f[i] = WitnessItem(wit[i]) /\ f[i] \in Bytes
      BY <1>1, <1>2, <1>3
  <2>2. PastWitness(buf, c) = c + Len(f[i])
      BY <2>1, WitnessIsPassed
  <2>3. c \in 0 .. Len(buf)
      BY <2>1, InBuffer
  <2> QED
      BY <2>2, <2>3
<1>6. WitnessBytes(tx) = Concat(f)
    BY DEF WitnessBytes
<1> HIDE DEF f, past
<1>7. Len(f) \in 0 .. Len(f)
    BY <1>1, <1>3
<1>8. SkipTimes(Len(f), o, past) = o + Len(Prefixes(f)[Len(f)])
    BY <1>4, <1>5, <1>6, <1>7, SkipLands
<1> QED
    BY <1>3, <1>6, <1>8 DEF Concat, past

(* The parts of a transaction.                                              *)
LEMMA TransactionParts ==
    ASSUME NEW tx, IsTransaction(tx)
    PROVE  /\ tx.inputs \in Seq(Bytes) /\ tx.outputs \in Seq(Output)
           /\ tx.witness \in Seq(Seq(Bytes))
           /\ Len(tx.inputs) \in Nat \ {0}
           /\ tx.witness = <<>> \/ Len(tx.witness) = Len(tx.inputs)
    BY DEF IsTransaction, Bytes, Output

(* The inputs are bytes that do not begin with 0, where the SegWit marker   *)
(* would stand.                                                             *)
LEMMA InputBytesAre ==
    ASSUME NEW tx, tx.inputs \in Seq(Bytes), Len(tx.inputs) \in Nat \ {0}
    PROVE  InputBytes(tx) \in Bytes /\ Len(InputBytes(tx)) \in Nat \ {0} /\ InputBytes(tx)[1] # 0
<1> DEFINE f == [i \in DOMAIN tx.inputs |-> InputItem(tx.inputs[i])]
<1> DEFINE v == VarInt(Len(tx.inputs))
<1>1. \A i \in 1 .. Len(tx.inputs) : InputItem(tx.inputs[i]) \in Bytes
  <2> SUFFICES ASSUME NEW i \in 1 .. Len(tx.inputs) PROVE InputItem(tx.inputs[i]) \in Bytes
      OBVIOUS
  <2>1. tx.inputs[i] \in Bytes
      BY ElementOfSeq
  <2> QED
      BY <2>1, InputIsBytes
<1>2. f \in Seq(Bytes)
    BY <1>1, LenProperties
<1>3. InputBytes(tx) = v \o Concat(f)
    BY DEF InputBytes
<1>4. v \in Bytes /\ Len(v) \in 1 .. 2 /\ v[1] # 0
    BY VarIntIsBytes
<1> HIDE DEF f, v
<1>5. Concat(f) \in Bytes
    BY <1>2, ConcatIsBytes
<1>6. Len(Concat(f)) \in Nat
    BY <1>5, LenProperties DEF Bytes
<1>7. v \o Concat(f) \in Bytes /\ Len(v \o Concat(f)) = Len(v) + Len(Concat(f))
    BY <1>4, <1>5, ConcatProperties DEF Bytes
<1>8. (v \o Concat(f))[1] = v[1]
    BY <1>4, <1>5, <1>6, ConcatProperties DEF Bytes
<1> QED
    BY <1>3, <1>4, <1>6, <1>7, <1>8

(* The outputs are bytes.                                                   *)
LEMMA OutputBytesAre ==
    ASSUME NEW tx, tx.outputs \in Seq(Output)
    PROVE  OutputBytes(tx) \in Bytes
<1> DEFINE f == [i \in DOMAIN tx.outputs |-> OutputItem(tx.outputs[i])]
<1> DEFINE v == VarInt(Len(tx.outputs))
<1>1. \A i \in 1 .. Len(tx.outputs) : OutputItem(tx.outputs[i]) \in Bytes
  <2> SUFFICES ASSUME NEW i \in 1 .. Len(tx.outputs) PROVE OutputItem(tx.outputs[i]) \in Bytes
      OBVIOUS
  <2>1. tx.outputs[i] \in Output
      BY ElementOfSeq
  <2> QED
      BY <2>1, OutputIsBytes
<1>2. f \in Seq(Bytes)
    BY <1>1, LenProperties
<1>3. OutputBytes(tx) = v \o Concat(f)
    BY DEF OutputBytes
<1>4. Len(tx.outputs) \in Nat
    BY LenProperties
<1>5. v \in Bytes
    BY <1>4, VarIntIsBytes
<1> HIDE DEF f, v
<1>6. Concat(f) \in Bytes
    BY <1>2, ConcatIsBytes
<1> QED
    BY <1>3, <1>5, <1>6, ConcatProperties DEF Bytes

(* The witness is bytes.                                                    *)
LEMMA WitnessBytesAre ==
    ASSUME NEW tx, tx.witness \in Seq(Seq(Bytes))
    PROVE  WitnessBytes(tx) \in Bytes
<1> DEFINE f == [i \in DOMAIN tx.witness |-> WitnessItem(tx.witness[i])]
<1>1. \A i \in 1 .. Len(tx.witness) : WitnessItem(tx.witness[i]) \in Bytes
  <2> SUFFICES ASSUME NEW i \in 1 .. Len(tx.witness) PROVE WitnessItem(tx.witness[i]) \in Bytes
      OBVIOUS
  <2>1. tx.witness[i] \in Seq(Bytes)
      BY ElementOfSeq
  <2> QED
      BY <2>1, WitnessIsBytes
<1>2. f \in Seq(Bytes)
  <2>1. Len(tx.witness) \in Nat /\ DOMAIN tx.witness = 1 .. Len(tx.witness)
      BY LenProperties
  <2> QED
      BY <1>1, <2>1
<1> HIDE DEF f
<1>3. Concat(f) \in Bytes
    BY <1>2, ConcatIsBytes
<1> QED
    BY <1>3 DEF WitnessBytes, f

(* Concatenation is associative.                                            *)
LEMMA Associative ==
    ASSUME NEW s \in Bytes, NEW t \in Bytes, NEW u \in Bytes
    PROVE  (s \o t) \o u = s \o (t \o u)
    BY ConcatAssociative DEF Bytes

(* Two sequences of bytes one behind the other.                             *)
LEMMA CatIsBytes ==
    ASSUME NEW s \in Bytes, NEW t \in Bytes
    PROVE  s \o t \in Bytes /\ Len(s \o t) = Len(s) + Len(t)
    BY ConcatProperties DEF Bytes

(* Where the parts of a transaction stand in the format a txid is computed  *)
(* from.                                                                    *)
LEMMA LegacyLayout ==
    ASSUME NEW tx, IsTransaction(tx)
    PROVE  /\ Legacy(tx) \in Bytes /\ Len(Legacy(tx)) > 2
           /\ Holds(Legacy(tx), 1, InputBytes(tx))
           /\ Holds(Legacy(tx), 1 + Len(InputBytes(tx)), OutputBytes(tx))
<1> DEFINE ins == InputBytes(tx)
<1> DEFINE outs == OutputBytes(tx)
<1>1. ins \in Bytes /\ Len(ins) \in Nat \ {0}
    BY TransactionParts, InputBytesAre
<1>2. outs \in Bytes
    BY TransactionParts, OutputBytesAre
<1>3. Field \in Bytes /\ Len(Field) = 1
    BY OneByte DEF Field
<1>4. Legacy(tx) = ((Field \o ins) \o outs) \o Field
    BY DEF Legacy
<1> HIDE DEF ins, outs
<1> DEFINE a == Field \o ins
<1>5. a \in Bytes /\ Len(a) = 1 + Len(ins)
    BY <1>1, <1>3, CatIsBytes
<1> DEFINE b == a \o outs
<1> HIDE DEF a
<1>6. b \in Bytes /\ Len(b) = Len(a) + Len(outs) /\ Len(outs) \in Nat
    BY <1>2, <1>5, ConcatProperties, LenProperties DEF Bytes
<1> DEFINE c == b \o Field
<1> HIDE DEF b
<1>7. c \in Bytes /\ Len(c) = Len(b) + 1
    BY <1>3, <1>6, CatIsBytes
<1> HIDE DEF c
<1>8. Holds(c, 0, b)
  <2>1. Holds(c, 0, b \o Field)
      BY <1>7, HoldsItself DEF c
  <2> QED
      BY <1>3, <1>6, <1>7, <2>1, HoldsBoth
<1>9. Holds(c, 0, a) /\ Holds(c, 0 + Len(a), outs)
  <2>1. Holds(c, 0, a \o outs)
      BY <1>8 DEF b
  <2> QED
      BY <1>2, <1>5, <1>7, <2>1, HoldsBoth
<1>10. Holds(c, 0 + Len(Field), ins)
  <2>1. Holds(c, 0, Field \o ins)
      BY <1>9 DEF a
  <2> QED
      BY <1>1, <1>3, <1>7, <2>1, HoldsBoth
<1>11. Legacy(tx) = c
    BY <1>4 DEF a, b, c
<1>12. 0 + Len(a) = 1 + Len(ins) /\ 0 + Len(Field) = 1 /\ Len(c) > 2
    BY <1>1, <1>3, <1>5, <1>6, <1>7
<1> QED
    BY <1>7, <1>9, <1>10, <1>11, <1>12 DEF ins, outs

(* Where they stand in the format with marker, flag and witness.            *)
LEMMA RawLayout ==
    ASSUME NEW tx, IsTransaction(tx), tx.witness # <<>>
    PROVE  LET b == Raw(tx)
               ins == InputBytes(tx)
               outs == OutputBytes(tx)
               wit == WitnessBytes(tx)
           IN  /\ b \in Bytes
               /\ Holds(b, 0, Field) /\ Holds(b, 1, Marker)
               /\ Holds(b, 3, ins) /\ Holds(b, 3, ins \o outs)
               /\ Holds(b, 3 + Len(ins), outs)
               /\ Holds(b, (3 + Len(ins)) + Len(outs), wit)
               /\ Holds(b, ((3 + Len(ins)) + Len(outs)) + Len(wit), Field)
<1> DEFINE ins == InputBytes(tx)
<1> DEFINE outs == OutputBytes(tx)
<1> DEFINE wit == WitnessBytes(tx)
<1> DEFINE raw == Raw(tx)
<1>1. ins \in Bytes /\ Len(ins) \in Nat
    BY TransactionParts, InputBytesAre
<1>2. outs \in Bytes /\ Len(outs) \in Nat
    BY TransactionParts, OutputBytesAre, LenProperties DEF Bytes
<1>3. wit \in Bytes /\ Len(wit) \in Nat
    BY TransactionParts, WitnessBytesAre, LenProperties DEF Bytes
<1>4. Field \in Bytes /\ Len(Field) = 1
    BY OneByte DEF Field
<1>5. Marker \in Bytes /\ Len(Marker) = 2
    BY DEF Marker, Bytes
<1>6. raw = ((((Field \o Marker) \o ins) \o outs) \o wit) \o Field
    BY DEF Raw
<1> HIDE DEF ins, outs, wit, raw
<1> DEFINE a == Field \o Marker
<1>7. a \in Bytes /\ Len(a) = 3
  <2>1. a \in Bytes /\ Len(a) = Len(Field) + Len(Marker)
      BY <1>4, <1>5, CatIsBytes
  <2> QED
      BY <1>4, <1>5, <2>1
<1> HIDE DEF a
<1> DEFINE b == a \o ins
<1>8. b \in Bytes /\ Len(b) = 3 + Len(ins)
    BY <1>1, <1>7, CatIsBytes
<1> HIDE DEF b
<1> DEFINE c == b \o outs
<1>9. c \in Bytes /\ Len(c) = (3 + Len(ins)) + Len(outs)
    BY <1>2, <1>8, CatIsBytes
<1> HIDE DEF c
<1> DEFINE d == c \o wit
<1>10. d \in Bytes /\ Len(d) = ((3 + Len(ins)) + Len(outs)) + Len(wit)
    BY <1>3, <1>9, CatIsBytes
<1> HIDE DEF d
<1>11. raw = d \o Field
    BY <1>6 DEF a, b, c, d
<1>12. raw \in Bytes
    BY <1>4, <1>10, <1>11, CatIsBytes
<1>13. Holds(raw, 0, d) /\ Holds(raw, 0 + Len(d), Field)
  <2>1. Holds(raw, 0, d \o Field)
      BY <1>11, <1>12, HoldsItself
  <2> QED
      BY <1>4, <1>10, <1>12, <2>1, HoldsBoth
<1>14. Holds(raw, 0, c) /\ Holds(raw, 0 + Len(c), wit)
    BY <1>3, <1>9, <1>12, <1>13, HoldsBoth DEF d
<1>15. Holds(raw, 0, b) /\ Holds(raw, 0 + Len(b), outs)
    BY <1>2, <1>8, <1>12, <1>14, HoldsBoth DEF c
<1>16. Holds(raw, 0, a) /\ Holds(raw, 0 + Len(a), ins)
    BY <1>1, <1>7, <1>12, <1>15, HoldsBoth DEF b
<1>17. Holds(raw, 0, Field) /\ Holds(raw, 0 + Len(Field), Marker)
    BY <1>4, <1>5, <1>12, <1>16, HoldsBoth DEF a
<1>18. Holds(raw, 3, ins \o outs)
  <2>1. c = a \o (ins \o outs)
    <3>1. (a \o ins) \o outs = a \o (ins \o outs)
        BY <1>1, <1>2, <1>7, Associative
    <3> QED
        BY <3>1 DEF b, c
  <2>2. ins \o outs \in Bytes
      BY <1>1, <1>2, CatIsBytes
  <2>3. Holds(raw, 0 + Len(a), ins \o outs)
      BY <1>7, <1>12, <1>14, <2>1, <2>2, HoldsBoth
  <2> QED
      BY <1>7, <2>3
<1>19. /\ 0 + Len(Field) = 1 /\ 0 + Len(a) = 3 /\ 0 + Len(b) = 3 + Len(ins)
       /\ 0 + Len(c) = (3 + Len(ins)) + Len(outs)
       /\ 0 + Len(d) = ((3 + Len(ins)) + Len(outs)) + Len(wit)
    BY <1>1, <1>2, <1>3, <1>4, <1>7, <1>8, <1>9, <1>10
<1> QED
    BY <1>12, <1>13, <1>14, <1>15, <1>16, <1>17, <1>18, <1>19 DEF ins, outs, wit, raw

(* IsSegWit tells the two formats apart.                                    *)
LEMMA FormatIsSeen ==
    ASSUME NEW tx, IsTransaction(tx)
    PROVE  /\ ~ IsSegWit(Legacy(tx))
           /\ tx.witness # <<>> => IsSegWit(Raw(tx))
<1>1. ~ IsSegWit(Legacy(tx))
  <2>1. InputBytes(tx)[1] # 0 /\ Len(InputBytes(tx)) \in Nat \ {0}
      BY TransactionParts, InputBytesAre
  <2>2. Legacy(tx)[1 + 1] = InputBytes(tx)[1]
      BY <2>1, LegacyLayout DEF Holds
  <2> QED
      BY <2>1, <2>2 DEF IsSegWit, At
<1>2. ASSUME tx.witness # <<>> PROVE IsSegWit(Raw(tx))
  <2>1. Holds(Raw(tx), 1, Marker)
      BY <1>2, RawLayout
  <2>2. Len(Marker) = 2 /\ Marker[1] = 0 /\ Marker[2] = 1
      BY DEF Marker
  <2>3. Raw(tx)[1 + 1] = 0 /\ Raw(tx)[1 + 2] = 1
      BY <2>1, <2>2 DEF Holds
  <2> QED
      BY <2>3 DEF IsSegWit, At
<1> QED
    BY <1>1, <1>2

(* stripWitnessData leaves of a transaction, with or without witness,       *)
(* exactly the bytes its txid is the hash of: version, inputs, outputs and  *)
(* locktime (BitcoinProofService.ts:127-197).                               *)
THEOREM StrippedIsLegacy ==
    ASSUME NEW tx, IsTransaction(tx)
    PROVE  stripWitnessData(Raw(tx)) = Legacy(tx)
<1>1. CASE tx.witness = <<>>
    BY <1>1, FormatIsSeen DEF stripWitnessData, Raw
<1>2. CASE tx.witness # <<>>
  <2> DEFINE b == Raw(tx)
  <2> DEFINE ins == InputBytes(tx)
  <2> DEFINE outs == OutputBytes(tx)
  <2> DEFINE wit == WitnessBytes(tx)
  <2>1. /\ b \in Bytes
        /\ Holds(b, 0, Field)
        /\ Holds(b, 3, ins) /\ Holds(b, 3, ins \o outs)
        /\ Holds(b, 3 + Len(ins), outs)
        /\ Holds(b, (3 + Len(ins)) + Len(outs), wit)
        /\ Holds(b, ((3 + Len(ins)) + Len(outs)) + Len(wit), Field)
      BY <1>2, RawLayout
  <2>2. ins \in Bytes /\ Len(ins) \in Nat
      BY TransactionParts, InputBytesAre
  <2>3. outs \in Bytes /\ Len(outs) \in Nat
      BY TransactionParts, OutputBytesAre, LenProperties DEF Bytes
  <2>4. wit \in Bytes /\ Len(wit) \in Nat
      BY TransactionParts, WitnessBytesAre, LenProperties DEF Bytes
  <2>5. Field \in Bytes /\ Len(Field) = 1
      BY OneByte DEF Field
  <2>6. PastInputs(b, 3) = 3 + Len(ins) /\ readVarInt(b, 3).value = Len(tx.inputs)
      BY <2>1, TransactionParts, InputsArePassed
  <2> HIDE DEF b
  <2>7. PastOutputs(b, 3 + Len(ins)) = (3 + Len(ins)) + Len(outs)
    <3>1. 3 + Len(ins) \in Nat
        BY <2>2
    <3> QED
        BY <2>1, <3>1, TransactionParts, OutputsArePassed
  <2>8. SkipTimes(Len(tx.inputs), (3 + Len(ins)) + Len(outs), [c \in 0 .. Len(b) |-> PastWitness(b, c)])
          = ((3 + Len(ins)) + Len(outs)) + Len(wit)
    <3>1. (3 + Len(ins)) + Len(outs) \in Nat
        BY <2>2, <2>3
    <3>2. Len(tx.witness) = Len(tx.inputs)
        BY <1>2, TransactionParts
    <3>3. SkipTimes(Len(tx.witness), (3 + Len(ins)) + Len(outs), [c \in 0 .. Len(b) |-> PastWitness(b, c)])
          = ((3 + Len(ins)) + Len(outs)) + Len(wit)
        BY <2>1, <3>1, TransactionParts, WitnessesArePassed
    <3> QED
        BY <3>2, <3>3
  <2>9. IsSegWit(b)
      BY <1>2, FormatIsSeen DEF b
  <2> DEFINE m == (3 + Len(ins)) + Len(outs)
  <2> DEFINE e == m + Len(wit)
  <2>10. stripWitnessData(b) = (Slice(b, 0, 1) \o Slice(b, 3, m)) \o Slice(b, e, e + 1)
      BY Zenon, <2>6, <2>7, <2>8, <2>9 DEF stripWitnessData
  <2>11. Slice(b, 0, 1) = Field
    <3>1. Slice(b, 0, 0 + Len(Field)) = Field
        BY <2>1, <2>5, SliceIs
    <3> QED
        BY <2>5, <3>1
  <2>12. Slice(b, 3, m) = ins \o outs
    <3>1. ins \o outs \in Bytes /\ Len(ins \o outs) = Len(ins) + Len(outs)
        BY <2>2, <2>3, CatIsBytes
    <3>2. Slice(b, 3, 3 + Len(ins \o outs)) = ins \o outs
        BY <2>1, <3>1, SliceIs
    <3>3. 3 + Len(ins \o outs) = m
        BY <2>2, <2>3, <3>1
    <3> QED
        BY <3>2, <3>3
  <2>13. Slice(b, e, e + 1) = Field
    <3>1. e \in Nat
        BY <2>2, <2>3, <2>4
    <3>2. Slice(b, e, e + Len(Field)) = Field
        BY <2>1, <2>5, <3>1, SliceIs
    <3> QED
        BY <2>5, <3>2
  <2>14. Field \o (ins \o outs) = (Field \o ins) \o outs
      BY <2>2, <2>3, <2>5, Associative
  <2> QED
      BY Zenon, <2>10, <2>11, <2>12, <2>13, <2>14 DEF Legacy, b, ins, outs
<1> QED
    BY <1>1, <1>2

\* Both formats give the same outputs.
ShowsOutputs(buf, tx) ==
    /\ readVarInt(buf, OutputsAt(buf)).value = Len(tx.outputs)
    /\ \A vout \in 0 .. Len(tx.outputs) - 1 :
          /\ At(buf, OutputAt(buf, vout)) = tx.outputs[vout + 1].sats
          /\ ScriptAt(buf, vout) = tx.outputs[vout + 1].script

(* The value and the script of every output are read from either format.    *)
LEMMA OutputsAreShown ==
    ASSUME NEW tx, IsTransaction(tx)
    PROVE  ShowsOutputs(Raw(tx), tx) /\ ShowsOutputs(Legacy(tx), tx)
<1>1. ASSUME NEW buf \in Bytes, NEW o \in Nat, o = IF IsSegWit(buf) THEN 3 ELSE 1,
             Holds(buf, o, InputBytes(tx)),
             Holds(buf, o + Len(InputBytes(tx)), OutputBytes(tx))
      PROVE  ShowsOutputs(buf, tx)
  <2> DEFINE p == o + Len(InputBytes(tx))
  <2>1. p \in Nat
      BY TransactionParts, InputBytesAre
  <2>2. PastInputs(buf, o) = p
      BY <1>1, TransactionParts, InputsArePassed
  <2>3. OutputsAt(buf) = p
      BY Zenon, <1>1, <2>2 DEF OutputsAt
  <2>4. Holds(buf, p, OutputBytes(tx))
      BY <1>1
  <2> HIDE DEF p
  <2>5. /\ readVarInt(buf, p).value = Len(tx.outputs)
        /\ \A vout \in 0 .. Len(tx.outputs) - 1 :
              LET cursor == SkipTimes(vout, PastVarInt(buf, p),
                                      [c \in 0 .. Len(buf) |-> PastOutput(buf, c)])
              IN  /\ At(buf, cursor) = tx.outputs[vout + 1].sats
                  /\ Slice(buf, PastVarInt(buf, cursor + 1), PastScript(buf, cursor + 1)) =
                        tx.outputs[vout + 1].script
      BY <2>1, <2>4, TransactionParts, OutputsArePassed
  <2> QED
      BY Zenon, <2>3, <2>5 DEF ShowsOutputs, OutputAt, ScriptAt
<1>2. ShowsOutputs(Legacy(tx), tx)
  <2>1. ~ IsSegWit(Legacy(tx))
      BY FormatIsSeen
  <2> QED
      BY <1>1, <2>1, LegacyLayout
<1>3. ShowsOutputs(Raw(tx), tx)
  <2>1. CASE tx.witness = <<>>
      BY <1>2, <2>1 DEF Raw
  <2>2. CASE tx.witness # <<>>
    <3>1. IsSegWit(Raw(tx))
        BY <2>2, FormatIsSeen
    <3>2. /\ Raw(tx) \in Bytes /\ Holds(Raw(tx), 3, InputBytes(tx))
          /\ Holds(Raw(tx), 3 + Len(InputBytes(tx)), OutputBytes(tx))
        BY <2>2, RawLayout
    <3> QED
        BY <1>1, <3>1, <3>2
  <2> QED
      BY <2>1, <2>2
<1> QED
    BY <1>2, <1>3

-----------------------------------------------------------------------------
(* The proof the service builds and the checks of deposit().               *)

(* What findVaultOutput finds in either format of a transaction that pays   *)
(* the vault.                                                               *)
LEMMA VaultOutputIsFound ==
    ASSUME NEW tx \in Paying, NEW buf, ShowsOutputs(buf, tx), IsTransaction(tx)
    PROVE  LET v == findVaultOutput(buf).voutIndex
           IN  /\ v \in 0 .. Len(tx.outputs) - 1
               /\ tx.outputs[v + 1].script = VaultScript
               /\ tx.outputs[v + 1].sats > 0
               /\ findVaultOutput(buf).amountSats = tx.outputs[v + 1].sats
<1> DEFINE outs == tx.outputs
<1> DEFINE first == CHOOSE v \in VaultOutputs(buf) : \A w \in VaultOutputs(buf) : v <= w
<1>1. outs \in Seq(Output) /\ Len(outs) \in Nat /\ DOMAIN outs = 1 .. Len(outs)
    BY TransactionParts, LenProperties
<1>2. /\ \E i \in DOMAIN outs : PaysVault(outs[i])
      /\ \A i \in DOMAIN outs : PaysVault(outs[i]) => outs[i].sats > 0
    BY DEF Paying
<1>3. VaultOutputs(buf) = {v \in 0 .. Len(outs) - 1 : outs[v + 1].script = VaultScript}
    BY DEF VaultOutputs, ShowsOutputs
<1>4. VaultOutputs(buf) # {}
  <2>1. PICK i \in 1 .. Len(outs) : outs[i].script = VaultScript
      BY <1>1, <1>2 DEF PaysVault
  <2>2. i - 1 \in 0 .. Len(outs) - 1 /\ (i - 1) + 1 = i
      BY <1>1
  <2>3. i - 1 \in VaultOutputs(buf)
      BY <1>3, <2>1, <2>2
  <2> QED
      BY <2>3
<1>5. VaultOutputs(buf) \subseteq Nat
    BY <1>1, <1>3
<1>6. first \in VaultOutputs(buf)
    BY <1>4, <1>5, LeastOf
<1>7. findVaultOutput(buf) = [voutIndex |-> first, amountSats |-> At(buf, OutputAt(buf, first))]
    BY DEF findVaultOutput
<1> HIDE DEF first
<1>8. first \in 0 .. Len(outs) - 1 /\ outs[first + 1].script = VaultScript
    BY <1>3, <1>6
<1>9. first + 1 \in DOMAIN outs
    BY <1>1, <1>8
<1>10. outs[first + 1].sats > 0
    BY <1>2, <1>8, <1>9 DEF PaysVault
<1>11. At(buf, OutputAt(buf, first)) = outs[first + 1].sats
    BY <1>8 DEF ShowsOutputs
<1> QED
    BY <1>7, <1>8, <1>10, <1>11

(* The transactions a block is filled with are transactions.                *)
LEMMA FillerIsTransaction ==
    ASSUME NEW k \in Nat
    PROVE  IsTransaction(Filler(k))
<1>1. <<k>> \in Seq(Nat) /\ OtherScript \in Seq(Nat)
    BY DEF OtherScript
<1>2. Keep \in [sats : Nat, script : Seq(Nat)]
    BY <1>1 DEF Keep
<1>3. <<<<k>>>> \in Seq(Seq(Nat)) /\ <<<<k>>>> # <<>>
    BY <1>1
<1>4. <<Keep>> \in Seq([sats : Nat, script : Seq(Nat)])
    BY <1>2
<1>5. <<>> \in Seq(Seq(Seq(Nat)))
    BY EmptySeq
<1> QED
    BY <1>3, <1>4, <1>5 DEF IsTransaction, Filler

(* BlockOf is a block with the transaction where it belongs.                *)
LEMMA BlockIsBlock ==
    ASSUME NEW n \in Nat \ {0}, NEW pos \in 0 .. n - 1, NEW tx
    PROVE  LET block == BlockOf(n, pos, tx)
           IN  /\ \E S : block \in Seq(S)
               /\ block # <<>> /\ Len(block) = n /\ block[pos + 1] = tx
<1> DEFINE block == BlockOf(n, pos, tx)
<1> DEFINE S == {block[i] : i \in 1 .. n}
<1>1. block = [i \in 1 .. n |-> IF i = pos + 1 THEN tx ELSE Filler(10 + i)]
    BY DEF BlockOf, FillerBlock
<1>2. pos + 1 \in 1 .. n
    OBVIOUS
<1>3. block[pos + 1] = tx /\ DOMAIN block = 1 .. n
    BY <1>1, <1>2
<1>4. Len(block) = n
    BY <1>1
<1>5. block = [i \in 1 .. n |-> block[i]]
    BY <1>1
<1> HIDE DEF block
<1>6. block \in [1 .. n -> S]
    BY <1>5
<1> HIDE DEF S
<1>7. block \in Seq(S)
    BY <1>6
<1>8. block # <<>>
    BY <1>4
<1> QED
    BY <1>3, <1>4, <1>7, <1>8 DEF block

(* FillerBlock is a block of fillers.                                       *)
LEMMA FillerBlockIsBlock ==
    ASSUME NEW n \in Nat \ {0}
    PROVE  /\ \E S : FillerBlock(n) \in Seq(S)
           /\ FillerBlock(n) # <<>> /\ Len(FillerBlock(n)) = n
           /\ \A x \in 1 .. n : FillerBlock(n)[x] = Filler(10 + x)
<1> DEFINE block == FillerBlock(n)
<1> DEFINE S == {Filler(10 + i) : i \in 1 .. n}
<1>1. block = [i \in 1 .. n |-> Filler(10 + i)]
    BY DEF FillerBlock
<1>2. block \in [1 .. n -> S]
    BY <1>1
<1>3. Len(block) = n /\ DOMAIN block = 1 .. n
    BY <1>1
<1>4. \A x \in 1 .. n : block[x] = Filler(10 + x)
    BY <1>1
<1> HIDE DEF S, block
<1>5. block \in Seq(S) /\ block # <<>>
    BY <1>2, <1>3
<1> QED
    BY <1>3, <1>4, <1>5 DEF block

(* The proof buildSpvProof makes for a payment to the vault passes the      *)
(* checks of deposit(), wherever the payment stands in a block of any size  *)
(* and whatever else the block holds (BitcoinProofService.ts:199-290,       *)
(* vault.cairo:105-170).                                                    *)
THEOREM DepositAcceptsBuilt ==
    ASSUME NEW S, NEW block \in Seq(S), block # <<>>, NEW pos \in 0 .. Len(block) - 1,
           block[pos + 1] \in Paying
    PROVE  DepositAccepts(buildSpvProof(block, pos), MerkleRoot(block))
<1> DEFINE tx == block[pos + 1]
<1> DEFINE p == buildSpvProof(block, pos)
<1> DEFINE raw == Raw(tx)
<1> DEFINE v == findVaultOutput(raw).voutIndex
<1>1. IsTransaction(tx) /\ tx \in Paying
    BY SpvConstants DEF Paying
<1>2. Leaves(block)[pos + 1] = TxHash(tx)
  <2>1. pos + 1 \in DOMAIN block
      OBVIOUS
  <2> QED
      BY <2>1 DEF Leaves
<1>3. /\ p.txPos = pos /\ p.rawTx = stripWitnessData(raw) /\ p.output = findVaultOutput(raw)
      /\ p.merkleProof = [i \in DOMAIN MerkleAnswer(block, pos) |->
                            hexHashToWords(MerkleAnswer(block, pos)[i])]
    BY DEF buildSpvProof
<1> HIDE DEF p, raw, tx
<1>4. p.rawTx = Legacy(tx)
    BY <1>1, <1>3, StrippedIsLegacy DEF raw
<1>5. double_sha256(p.rawTx) = Leaves(block)[pos + 1]
    BY <1>2, <1>4 DEF TxHash
<1>6. verify_merkle_proof(Leaves(block)[pos + 1], p.merkleProof, pos, MerkleRoot(block))
    BY <1>3, BuiltPathIsAccepted
<1>7. ShowsOutputs(raw, tx) /\ ShowsOutputs(p.rawTx, tx)
    BY <1>1, <1>4, OutputsAreShown DEF raw
<1>8. /\ v \in 0 .. Len(tx.outputs) - 1
      /\ tx.outputs[v + 1].script = VaultScript
      /\ tx.outputs[v + 1].sats > 0
    BY <1>1, <1>7, VaultOutputIsFound
<1>9. p.output.voutIndex = v
    BY <1>3
<1> HIDE DEF v
<1>10. parse_output(p.rawTx, v) = [sats |-> tx.outputs[v + 1].sats,
                                   script |-> tx.outputs[v + 1].script]
    BY <1>7, <1>8 DEF ShowsOutputs, parse_output
<1>11. DepositAccepts(p, MerkleRoot(block))
    BY <1>3, <1>5, <1>6, <1>8, <1>9, <1>10 DEF DepositAccepts
<1> QED
    BY <1>11 DEF p

(* The amount the service reports for its proof is the amount parse_output  *)
(* reads.                                                                   *)
LEMMA BuiltAmountIsRead ==
    ASSUME NEW S, NEW block \in Seq(S), block # <<>>, NEW pos \in 0 .. Len(block) - 1,
           block[pos + 1] \in Paying
    PROVE  LET p == buildSpvProof(block, pos)
           IN  p.output.amountSats = parse_output(p.rawTx, p.output.voutIndex).sats
<1> DEFINE tx == block[pos + 1]
<1> DEFINE p == buildSpvProof(block, pos)
<1> DEFINE raw == Raw(tx)
<1> DEFINE v == findVaultOutput(raw).voutIndex
<1>1. IsTransaction(tx) /\ tx \in Paying
    BY SpvConstants DEF Paying
<1>2. p.rawTx = stripWitnessData(raw) /\ p.output = findVaultOutput(raw)
    BY DEF buildSpvProof
<1> HIDE DEF p, raw, tx
<1>3. ShowsOutputs(raw, tx) /\ ShowsOutputs(p.rawTx, tx)
    BY <1>1, <1>2, StrippedIsLegacy, OutputsAreShown DEF raw
<1>4. /\ v \in 0 .. Len(tx.outputs) - 1
      /\ findVaultOutput(raw).amountSats = tx.outputs[v + 1].sats
    BY <1>1, <1>3, VaultOutputIsFound
<1> HIDE DEF v
<1>5. parse_output(p.rawTx, v).sats = tx.outputs[v + 1].sats
    BY <1>3, <1>4 DEF ShowsOutputs, parse_output
<1> QED
    BY <1>2, <1>4, <1>5 DEF p, v

(* No size of a block stands in the way of a proof.                         *)
LEMMA EveryBlockAccepted ==
    SizesWithAcceptedProofs = 1 .. MaxBlock
<1> DEFINE Good(n) == \A pos \in 0 .. n - 1 : \A tx \in Paying :
        LET block == BlockOf(n, pos, tx)
            p == buildSpvProof(block, pos)
        IN  /\ DepositAccepts(p, MerkleRoot(block))
            /\ p.output.amountSats = parse_output(p.rawTx, p.output.voutIndex).sats
<1>1. SizesWithAcceptedProofs = {n \in 1 .. MaxBlock : Good(n)}
    BY Zenon DEF SizesWithAcceptedProofs
<1>2. \A n \in Nat \ {0} : Good(n)
  <2> SUFFICES ASSUME NEW n \in Nat \ {0}, NEW pos \in 0 .. n - 1, NEW tx \in Paying
               PROVE  LET block == BlockOf(n, pos, tx)
                          p == buildSpvProof(block, pos)
                      IN  /\ DepositAccepts(p, MerkleRoot(block))
                          /\ p.output.amountSats = parse_output(p.rawTx, p.output.voutIndex).sats
      BY Zenon
  <2> DEFINE block == BlockOf(n, pos, tx)
  <2>1. /\ \E S : block \in Seq(S)
        /\ block # <<>> /\ Len(block) = n /\ block[pos + 1] \in Paying
      BY BlockIsBlock
  <2> HIDE DEF block
  <2>2. DepositAccepts(buildSpvProof(block, pos), MerkleRoot(block))
      BY <2>1, DepositAcceptsBuilt
  <2>3. buildSpvProof(block, pos).output.amountSats =
           parse_output(buildSpvProof(block, pos).rawTx,
                        buildSpvProof(block, pos).output.voutIndex).sats
      BY <2>1, BuiltAmountIsRead
  <2> QED
      BY Zenon, <2>2, <2>3 DEF block
<1>3. \A n \in 1 .. MaxBlock : n \in Nat \ {0}
    BY SpvConstants
<1> HIDE DEF Good
<1> QED
    BY <1>1, <1>2, <1>3

(* A transaction is never two hashes, so a txid is no node above the        *)
(* leaves.                                                                  *)
LEMMA TxHashIsNoPair ==
    ASSUME NEW tx, IsTransaction(tx)
    PROVE  ~ IsPair(TxHash(tx))
<1> SUFFICES ASSUME NEW l, NEW r, TxHash(tx) = hash_pair(l, r) PROVE FALSE
    BY DEF IsPair
<1>1. Legacy(tx) = <<l, r>>
    BY DEF TxHash, hash_pair, double_sha256
<1>2. Len(<<l, r>>) = 2
    OBVIOUS
<1>3. Len(Legacy(tx)) > 2 /\ Len(Legacy(tx)) \in Nat
    BY LegacyLayout, LenProperties DEF Bytes
<1> HIDE DEF Legacy
<1> QED
    BY <1>1, <1>2, <1>3

(* The only input of a filler can be read back.                             *)
LEMMA FillerIsRead ==
    ASSUME NEW k \in Nat
    PROVE  LET buf == Legacy(Filler(k))
           IN  Slice(buf, PastVarInt(buf, 3), PastScript(buf, 3)) = <<k>>
<1> DEFINE tx == Filler(k)
<1> DEFINE buf == Legacy(tx)
<1> DEFINE item == InputItem(<<k>>)
<1> DEFINE f == [i \in DOMAIN tx.inputs |-> InputItem(tx.inputs[i])]
<1>1. IsTransaction(tx)
    BY FillerIsTransaction
<1>2. buf \in Bytes /\ Holds(buf, 1, InputBytes(tx))
    BY <1>1, LegacyLayout
<1>3. tx.inputs = <<<<k>>>> /\ Len(tx.inputs) = 1 /\ DOMAIN tx.inputs = {1} /\ tx.inputs[1] = <<k>>
    BY DEF Filler
<1>4. <<k>> \in Bytes
    BY OneByte
<1>5. item \in Bytes
    BY <1>4, InputIsBytes
<1>6. Len(f) = 1 /\ f[1] = item /\ f \in Seq(Bytes)
  <2>1. f = <<item>>
    <3>1. f = [i \in {1} |-> item]
        BY <1>3
    <3> HIDE DEF f, item
    <3> QED
        BY <3>1
  <2> HIDE DEF f, item
  <2> QED
      BY <1>5, <2>1
<1>7. InputBytes(tx) = VarInt(Len(f)) \o Concat(f)
    BY <1>3, <1>6 DEF InputBytes
<1> HIDE DEF f, item, buf, tx
<1>8. Concat(f) \in Bytes /\ VarInt(Len(f)) \in Bytes /\ Len(VarInt(Len(f))) = 1
  <2>1. VarInt(1) = <<1>>
      BY DEF VarInt, Wide
  <2> QED
      BY <1>6, <2>1, ConcatIsBytes, OneByte
<1>9. Holds(buf, 2, Concat(f))
  <2> DEFINE v == VarInt(Len(f))
  <2> DEFINE items == Concat(f)
  <2>0. Holds(buf, 1, v \o items) /\ v \in Bytes /\ items \in Bytes
      BY <1>2, <1>7, <1>8
  <2> HIDE DEF v, items
  <2>1. Holds(buf, 1 + Len(v), items)
      BY <1>2, <2>0, HoldsBoth
  <2> QED
      BY <1>8, <2>1 DEF v, items
<1>10. Holds(buf, 2, item)
  <2>1. Holds(buf, 2 + Len(Prefixes(f)[1 - 1]), f[1])
    <3>1. \A i \in 1 .. Len(f) : Holds(buf, 2 + Len(Prefixes(f)[i - 1]), f[i])
        BY <1>2, <1>6, <1>9, ItemsAreHeld
    <3>2. 1 \in 1 .. Len(f)
        BY <1>6
    <3> QED
        BY Zenon, <3>1, <3>2
  <2>2. Prefixes(f)[0] = <<>>
      BY <1>6, PrefixZero
  <2> QED
      BY <1>6, <2>1, <2>2
<1>11. Holds(buf, 3, ScriptBytes(<<k>>))
  <2>1. Field \in Bytes /\ Len(Field) = 1 /\ ScriptBytes(<<k>>) \in Bytes
      BY <1>4, OneByte, ScriptIsBytes DEF Field
  <2>2. Field \o ScriptBytes(<<k>>) \in Bytes
      BY <2>1, CatIsBytes
  <2>3. Holds(buf, 2, (Field \o ScriptBytes(<<k>>)) \o Field)
      BY <1>10 DEF item, InputItem
  <2>4. Holds(buf, 2, Field \o ScriptBytes(<<k>>))
      BY <1>2, <2>1, <2>2, <2>3, HoldsBoth
  <2>5. Holds(buf, 2 + Len(Field), ScriptBytes(<<k>>))
      BY <1>2, <2>1, <2>4, HoldsBoth
  <2> QED
      BY <2>1, <2>5
<1>12. Slice(buf, PastVarInt(buf, 3), PastScript(buf, 3)) = <<k>>
    BY <1>2, <1>4, <1>11, ScriptIsPassed
<1> QED
    BY <1>12 DEF buf, tx

(* Fillers are all different.                                               *)
LEMMA FillersDiffer ==
    ASSUME NEW a \in Nat, NEW b \in Nat, Legacy(Filler(a)) = Legacy(Filler(b))
    PROVE  a = b
<1>1. <<a>> = <<b>>
    BY FillerIsRead
<1> QED
    BY <1>1

(* A proof has a length.                                                    *)
LEMMA ProofLengths ==
    ASSUME NEW block, Depth(block) \in Nat, NEW proof \in Proofs(block)
    PROVE  Len(proof) \in Nat
<1>1. PICK n \in 0 .. Depth(block) + 1 : proof \in [1 .. n -> Nodes(block)]
    BY DEF Proofs
<1> QED
    BY <1>1

(* verify_merkle_proof accepts a transaction, with any proof and any        *)
(* position, only if it is in the block, at the position named, modulo the  *)
(* width of the tree, if the block reaches so far; the proof is as long as  *)
(* the tree is deep (bitcoin_spv.cairo:85-114).                             *)
THEOREM AcceptedIsInBlock ==
    ASSUME NEW S, NEW block \in Seq(S), block # <<>>,
           \A x \in 1 .. Len(block) : IsTransaction(block[x]),
           NEW tx, IsTransaction(tx),
           NEW proof, Len(proof) \in Nat, NEW pos \in Nat,
           verify_merkle_proof(TxHash(tx), proof, pos, MerkleRoot(block))
    PROVE  /\ Len(proof) = Depth(block)
           /\ \E x \in 1 .. Len(block) :
                 /\ Legacy(block[x]) = Legacy(tx)
                 /\ pos % Span(Depth(block)) < Len(block) => x = (pos % Span(Depth(block))) + 1
<1>1. DOMAIN block = 1 .. Len(block)
    OBVIOUS
<1>2. \A x \in 1 .. Len(block) : Leaves(block)[x] = TxHash(block[x])
    BY <1>1 DEF Leaves
<1>3. ~ IsPair(TxHash(tx)) /\ \A x \in 1 .. Len(block) : ~ IsPair(Leaves(block)[x])
    BY <1>2, TxHashIsNoPair
<1>4. Len(proof) = Depth(block)
    BY <1>3, AcceptedIsLeaf
<1>5. PICK x \in 1 .. Len(block) :
         /\ TxHash(tx) = Leaves(block)[x]
         /\ pos % Span(Depth(block)) < Len(block) => x = (pos % Span(Depth(block))) + 1
    BY <1>4, AcceptedPosition
<1>6. Legacy(tx) = Legacy(block[x])
  <2>1. TxHash(tx) = TxHash(block[x])
      BY <1>2, <1>5
  <2>2. [of |-> Legacy(tx), reversed |-> FALSE] = [of |-> Legacy(block[x]), reversed |-> FALSE]
      BY Zenon, <2>1 DEF TxHash, double_sha256
  <2> QED
      BY <2>2
<1> QED
    BY Zenon, <1>4, <1>5, <1>6

(* In a block of fillers an accepted proof names its filler.                *)
LEMMA FillersAreNamed ==
    ASSUME NEW n \in Nat \ {0}, NEW proof, Len(proof) \in Nat, NEW pos \in Nat,
           NEW k \in Nat,
           verify_merkle_proof(TxHash(Filler(10 + k)), proof, pos, MerkleRoot(FillerBlock(n)))
    PROVE  LET width == Span(Depth(FillerBlock(n)))
           IN  /\ Len(proof) = Depth(FillerBlock(n))
               /\ k <= n
               /\ pos % width < n => k = (pos % width) + 1
<1> DEFINE block == FillerBlock(n)
<1> DEFINE tx == Filler(10 + k)
<1>1. /\ \E S : block \in Seq(S)
      /\ block # <<>> /\ Len(block) = n
      /\ \A x \in 1 .. n : block[x] = Filler(10 + x)
    BY FillerBlockIsBlock
<1>2. \A x \in Nat : 10 + x \in Nat /\ IsTransaction(Filler(10 + x))
    BY FillerIsTransaction
<1> HIDE DEF block
<1>3. \A x \in 1 .. Len(block) : IsTransaction(block[x])
    BY <1>1, <1>2
<1>4. IsTransaction(tx) /\ verify_merkle_proof(TxHash(tx), proof, pos, MerkleRoot(block))
    BY <1>2 DEF block
<1> HIDE DEF tx
<1>5. /\ Len(proof) = Depth(block)
      /\ \E x \in 1 .. Len(block) :
            /\ Legacy(block[x]) = Legacy(tx)
            /\ pos % Span(Depth(block)) < Len(block) => x = (pos % Span(Depth(block))) + 1
    BY <1>1, <1>3, <1>4, AcceptedIsInBlock
<1>6. PICK x \in 1 .. Len(block) :
         /\ Legacy(block[x]) = Legacy(tx)
         /\ pos % Span(Depth(block)) < Len(block) => x = (pos % Span(Depth(block))) + 1
    BY Zenon, <1>5
<1>7. x \in Nat /\ x \in 1 .. n
    BY <1>1, <1>6
<1>8. Legacy(Filler(10 + k)) = Legacy(Filler(10 + x))
    BY <1>1, <1>6, <1>7 DEF tx
<1>9. 10 + k = 10 + x
    BY <1>2, <1>7, <1>8, FillersDiffer
<1>10. k = x
    BY <1>7, <1>9
<1> QED
    BY <1>1, <1>5, <1>6, <1>7, <1>10 DEF block

(* No size of a block lets a proof name another transaction.                *)
LEMMA EveryBlockExact ==
    SizesWithExactProofs = 1 .. SmallBlock
<1> DEFINE Good(n) ==
        LET block == FillerBlock(n)
            depth == Depth(block)
            width == Span(depth)
            root == MerkleRoot(block)
        IN  \A proof \in Proofs(block), pos \in 0 .. 2 * width - 1, k \in 1 .. n + 1 :
              verify_merkle_proof(TxHash(Filler(10 + k)), proof, pos, root) =>
                 /\ Len(proof) = depth
                 /\ k <= n
                 /\ pos % width < n => k = (pos % width) + 1
<1>1. SizesWithExactProofs = {n \in 1 .. SmallBlock : Good(n)}
    BY Zenon DEF SizesWithExactProofs
<1>2. ASSUME NEW n \in Nat \ {0} PROVE Good(n)
  <2> DEFINE block == FillerBlock(n)
  <2> DEFINE width == Span(Depth(block))
  <2>1. Depth(block) \in Nat
    <3>1. \E S : block \in Seq(S)
        BY FillerBlockIsBlock
    <3>2. block # <<>> /\ Len(block) = n
        BY FillerBlockIsBlock
    <3> HIDE DEF block
    <3>3. Depth(block) \in 0 .. Len(block)
        BY <3>1, <3>2, DepthIs
    <3> QED
        BY <3>2, <3>3
  <2>2. width \in Nat
    <3> DEFINE depth == Depth(block)
    <3>1. depth \in Nat
        BY <2>1
    <3> HIDE DEF block, depth
    <3>2. PICK span \in [0 .. depth -> Nat \ {0}] : Span(depth) = span[depth]
        BY <3>1, SpanSteps
    <3> QED
        BY <3>1, <3>2 DEF depth
  <2> HIDE DEF width, block
  <2>3. SUFFICES ASSUME NEW proof \in Proofs(block), NEW pos \in 0 .. 2 * width - 1,
                        NEW k \in 1 .. n + 1,
                        verify_merkle_proof(TxHash(Filler(10 + k)), proof, pos, MerkleRoot(block))
                 PROVE  /\ Len(proof) = Depth(block)
                        /\ k <= n
                        /\ pos % width < n => k = (pos % width) + 1
      BY Zenon DEF width, block
  <2>4. Len(proof) \in Nat /\ pos \in Nat /\ k \in Nat
      BY <2>1, <2>2, ProofLengths
  <2> QED
      BY <2>3, <2>4, FillersAreNamed DEF width, block
<1>3. \A n \in 1 .. SmallBlock : n \in Nat \ {0}
    BY SpvConstants
<1> HIDE DEF Good
<1> QED
    BY <1>1, <1>2, <1>3

(* A stored root commits to finitely many deposits.                         *)
LEMMA SizesAreSizes ==
    ASSUME ContractTypeOK, NEW h \in Heights, roots[h].stored, NEW max \in Nat
    PROVE  Sizes(roots[h].set, max) \subseteq 1 .. max
<1>1. roots[h].set \in Mined[h]
    BY DEF ContractTypeOK, NotStored
<1>2. IsFiniteSet(roots[h].set)
    BY <1>1, ContractConstants
<1>3. Cardinality(roots[h].set) \in Nat
    BY <1>2, FS_CardinalityType
<1> QED
    BY <1>3 DEF Sizes

(* For every root the header store ever holds, the proofs the service       *)
(* builds for its block pass the checks of deposit(), for every bound on    *)
(* the size of a block and any transactions.                                *)
THEOREM BuiltProofsAccepted == Spec => []BuiltProofsAreAccepted
<1>1. ContractTypeOK => BuiltProofsAreAccepted
  <2> SUFFICES ASSUME ContractTypeOK, NEW h \in Heights, roots[h].stored
               PROVE  Sizes(roots[h].set, MaxBlock) \subseteq SizesWithAcceptedProofs
      BY DEF BuiltProofsAreAccepted
  <2>1. Sizes(roots[h].set, MaxBlock) \subseteq 1 .. MaxBlock
      BY SpvConstants, SizesAreSizes
  <2> QED
      BY <2>1, EveryBlockAccepted
<1> QED
    BY <1>1, ContractTypes, PTL

(* For every root the header store ever holds, an accepted proof names a    *)
(* transaction of the block, for every bound on its size.                   *)
THEOREM AcceptedProofsExact == Spec => []AcceptedProofsNameTheirLeaf
<1>1. ContractTypeOK => AcceptedProofsNameTheirLeaf
  <2> SUFFICES ASSUME ContractTypeOK, NEW h \in Heights, roots[h].stored
               PROVE  Sizes(roots[h].set, SmallBlock) \subseteq SizesWithExactProofs
      BY DEF AcceptedProofsNameTheirLeaf
  <2>1. Sizes(roots[h].set, SmallBlock) \subseteq 1 .. SmallBlock
      BY SpvConstants, SizesAreSizes
  <2> QED
      BY <2>1, EveryBlockExact
<1> QED
    BY <1>1, ContractTypes, PTL
=============================================================================
