---------------------------- MODULE VaultContract ----------------------------
(***************************************************************************)
(* The Starknet contracts: PrivateBTCVault (vault.cairo), the HeaderStore  *)
(* it reads (header_store.cairo) and the MockBTC token it mints and pays   *)
(* out (mock_btc.cairo).  A Starknet transaction is atomic and a failed    *)
(* assertion undoes it, so each entry point is one action and its          *)
(* assertions are the guard.                                               *)
(*                                                                         *)
(* A Merkle root is modelled by the set of txids it commits to, which is   *)
(* what a double SHA-256 Merkle tree stands for.  Several roots per height *)
(* are the blocks a reorganisation left behind: the relayer may have       *)
(* fetched any of them.                                                    *)
(***************************************************************************)
EXTENDS Integers, Sequences, FiniteSets

CONSTANTS
    Users,          \* accounts other than the vault, none of them zero
    Vault,          \* the vault's own address
    Commitments,
    Nullifiers,
    Heights,        \* Bitcoin block heights
    Txids,          \* Bitcoin transactions, each a tuple of 8 words
    Outputs,        \* the outputs of each transaction
    Mined,          \* the blocks Bitcoin ever had at each height
    WordBits,       \* width of a word of a txid (32 in the contract)
    SatWei,         \* mBTC units per satoshi (10^10 in the contract)
    MaxU,           \* largest u256
    Amounts,        \* amounts callers ask for
    InitialSupply   \* what the constructor mints

NotStored == [set |-> {}, stored |-> FALSE]

ASSUME ContractConstants ==
    /\ IsFiniteSet(Users)
    /\ Vault \notin Users
    /\ Heights \subseteq Nat
    /\ \A t \in Txids : \A o \in DOMAIN Outputs[t] :
          Outputs[t][o].sats \in Nat /\ Outputs[t][o].covenant \in BOOLEAN
    /\ Mined \in [Heights -> SUBSET SUBSET Txids]
    /\ \A h \in Heights : \A block \in Mined[h] : IsFiniteSet(block)
    /\ WordBits \in Nat
    /\ SatWei \in Nat
    /\ MaxU \in Nat
    /\ Amounts \subseteq 0..MaxU
    /\ InitialSupply \in 0..MaxU

VARIABLES
    supply,         \* MockBTC.total_supply
    balances,       \* MockBTC.balances
    allowances,     \* MockBTC.allowances, by <<owner, spender>>
    roots,          \* HeaderStore: root and stored flag of each height
    latest,         \* HeaderStore.latest_height
    commitments,    \* PrivateBTCVault.commitments
    spentTxids,     \* PrivateBTCVault.spent_txids
    nullifiers,     \* PrivateBTCVault.nullifiers
    minted,         \* what Deposit events minted for each Bitcoin transaction
    deposited,      \* total of the Deposit events
    withdrawn       \* total of the Withdrawal events

token == <<supply, balances, allowances>>
headers == <<roots, latest>>
vault == <<commitments, spentTxids, nullifiers>>
events == <<minted, deposited, withdrawn>>
vars == <<supply, balances, allowances, roots, latest, commitments, spentTxids,
          nullifiers, minted, deposited, withdrawn>>

Accounts == Users \cup {Vault}

Init ==
    /\ supply = InitialSupply
    /\ \E u \in Users : balances = [a \in Accounts |-> IF a = u THEN InitialSupply ELSE 0]
    /\ allowances = [p \in Accounts \X Accounts |-> 0]
    /\ roots = [h \in Heights |-> NotStored]
    /\ latest = 0
    /\ commitments = {}
    /\ spentTxids = {}
    /\ nullifiers = {}
    /\ minted = [t \in Txids |-> 0]
    /\ deposited = 0
    /\ withdrawn = 0

-----------------------------------------------------------------------------
(* MockBTC                                                                 *)

\* _mint: both additions panic on overflow.
MintTokens(to, amount) ==
    /\ supply + amount <= MaxU
    /\ supply' = supply + amount
    /\ balances' = [balances EXCEPT ![to] = @ + amount]

\* Faulty variant: the recipient's balance is read before the sender's is written.
MoveTokensStale(from, to, amount) ==
    /\ balances[from] >= amount
    /\ balances' = [[balances EXCEPT ![from] = @ - amount]
                        EXCEPT ![to] = balances[to] + amount]

\* _transfer: the recipient is read after the sender was written.
MoveTokens(from, to, amount) ==
    /\ balances[from] >= amount
    /\ balances' = [[balances EXCEPT ![from] = @ - amount] EXCEPT ![to] = @ + amount]

Mint(to, amount) ==
    /\ MintTokens(to, amount)
    /\ UNCHANGED <<allowances, headers, vault, events>>

Transfer(caller, to, amount) ==
    /\ MoveTokens(caller, to, amount)
    /\ UNCHANGED <<supply, allowances, headers, vault, events>>

Approve(caller, spender, amount) ==
    /\ allowances' = [allowances EXCEPT ![<<caller, spender>>] = amount]
    /\ UNCHANGED <<supply, balances, headers, vault, events>>

\* Faulty variant: the allowance is not checked.
SpendAllowanceUnchecked(owner, spender, amount) == UNCHANGED allowances

\* _spend_allowance: the largest u256 means without limit.
SpendAllowance(owner, spender, amount) ==
    LET a == allowances[<<owner, spender>>] IN
    IF a = MaxU
      THEN UNCHANGED allowances
      ELSE a >= amount /\ allowances' = [allowances EXCEPT ![<<owner, spender>>] = a - amount]

TransferFrom(caller, from, to, amount) ==
    /\ SpendAllowance(from, caller, amount)
    /\ MoveTokens(from, to, amount)
    /\ UNCHANGED <<supply, headers, vault, events>>

-----------------------------------------------------------------------------
(* HeaderStore                                                             *)

\* Faulty variant: latest_height takes the height just stored.
NewestHeightLast(h) == h

\* latest_height only grows, in whatever order headers arrive.
NewestHeight(h) == IF h > latest THEN h ELSE latest

\* Only the relayer calls it; it may post one height twice, with another root.
StoreHeader(h, block) ==
    /\ roots' = [roots EXCEPT ![h] = [set |-> block, stored |-> TRUE]]
    /\ latest' = NewestHeight(h)
    /\ UNCHANGED <<token, vault, events>>

-----------------------------------------------------------------------------
(* PrivateBTCVault                                                         *)

pack_u128(w0, w1, w2, w3) ==
    w0 * 2^(2 * WordBits + WordBits \div 2) + w1 * 2^(WordBits + WordBits \div 2)
        + w2 * 2^WordBits + w3

\* The key of a txid in spent_txids.
TxidKey(t) ==
    <<pack_u128(t[1], t[2], t[3], t[4]), pack_u128(t[5], t[6], t[7], t[8])>>

\* verify_merkle_proof: some position and some path lead from t to the root.
MerkleIncluded(t, h) == t \in roots[h].set

\* parse_output and script_matches_p2tr: the output exists, is not empty and
\* pays the covenant.
PaysCovenant(t, o) ==
    /\ o \in DOMAIN Outputs[t]
    /\ Outputs[t][o].sats > 0
    /\ Outputs[t][o].covenant

WeiOf(t, o) == Outputs[t][o].sats * SatWei

\* Faulty variant: the key names the block too, so a transaction mined again mints again.
DepositPerBlock(c, h, t, o) ==
    /\ c \notin commitments
    /\ roots[h].stored
    /\ <<TxidKey(t), h>> \notin spentTxids
    /\ MerkleIncluded(t, h)
    /\ PaysCovenant(t, o)
    /\ commitments' = commitments \cup {c}
    /\ spentTxids' = spentTxids \cup {<<TxidKey(t), h>>}
    /\ MintTokens(Vault, WeiOf(t, o))
    /\ minted' = [minted EXCEPT ![t] = @ + WeiOf(t, o)]
    /\ deposited' = deposited + WeiOf(t, o)
    /\ UNCHANGED <<allowances, headers, nullifiers, withdrawn>>

Deposit(c, h, t, o) ==
    /\ c \notin commitments
    /\ roots[h].stored
    /\ TxidKey(t) \notin spentTxids
    /\ MerkleIncluded(t, h)
    /\ PaysCovenant(t, o)
    /\ commitments' = commitments \cup {c}
    /\ spentTxids' = spentTxids \cup {TxidKey(t)}
    /\ MintTokens(Vault, WeiOf(t, o))
    /\ minted' = [minted EXCEPT ![t] = @ + WeiOf(t, o)]
    /\ deposited' = deposited + WeiOf(t, o)
    /\ UNCHANGED <<allowances, headers, nullifiers, withdrawn>>

\* The proof only has to be non-empty, so the nullifier is the whole guard.
Withdraw(n, proofLength, recipient, amount) ==
    /\ n \notin nullifiers
    /\ proofLength > 0
    /\ balances[Vault] >= amount
    /\ nullifiers' = nullifiers \cup {n}
    /\ MoveTokens(Vault, recipient, amount)
    /\ withdrawn' = withdrawn + amount
    /\ UNCHANGED <<supply, allowances, headers, commitments, spentTxids, minted, deposited>>

-----------------------------------------------------------------------------

TokenCall ==
    \E u \in Users, a \in Accounts, amount \in Amounts :
        \/ Mint(a, amount)
        \/ Transfer(u, a, amount)
        \/ \E spender \in Users : Approve(u, spender, amount)
        \/ \E from \in Accounts : TransferFrom(u, from, a, amount)

Relay == \E h \in Heights : \E block \in Mined[h] : StoreHeader(h, block)

VaultCall ==
    \/ \E c \in Commitments, h \in Heights, t \in Txids :
          \E o \in DOMAIN Outputs[t] : Deposit(c, h, t, o)
    \/ \E n \in Nullifiers, proofLength \in 0..1, a \in Accounts, amount \in Amounts :
          Withdraw(n, proofLength, a, amount)

Next == TokenCall \/ Relay \/ VaultCall

Spec == Init /\ [][Next]_vars

-----------------------------------------------------------------------------
(* Properties                                                              *)

(* Storage types; HeaderStore's latest_height is the highest stored one,    *)
(* in whatever order, and however often, headers were posted.               *)
ContractTypeOK ==
    /\ supply \in 0..MaxU
    /\ balances \in [Accounts -> 0..MaxU]
    /\ allowances \in [Accounts \X Accounts -> 0..MaxU]
    /\ \A h \in Heights : roots[h] = NotStored \/
          (roots[h].stored /\ roots[h].set \in Mined[h])
    /\ commitments \subseteq Commitments
    /\ nullifiers \subseteq Nullifiers
    /\ minted \in [Txids -> Nat]
    /\ deposited \in Nat
    /\ withdrawn \in Nat
    /\ \A h \in Heights : roots[h].stored => h <= latest
    /\ latest # 0 => \E h \in Heights : h = latest /\ roots[h].stored

(* The units of mBTC the accounts hold under the balances b, each unit as   *)
(* its owner and a number: as many units as the sum of the balances.        *)
Units(b) == UNION {{a} \X (1 .. b[a]) : a \in DOMAIN b}

(* MockBTC keeps total_supply equal to the sum of the balances through      *)
(* mints, transfers (to oneself too), deposits and withdrawals.             *)
SupplyIsBalances ==
    supply = Cardinality(Units(balances))

(* One Bitcoin transaction mints the value of one of its covenant outputs,  *)
(* at most once: not again under another commitment, for another output,    *)
(* through another block of a reorganisation, or after its header was       *)
(* posted a second time.                                                    *)
OneMintPerTransaction ==
    \A t \in Txids : minted[t] # 0 =>
        \E o \in DOMAIN Outputs[t] : PaysCovenant(t, o) /\ minted[t] = WeiOf(t, o)

(* Only withdraw() takes mBTC out of the vault: whatever was deposited and  *)
(* not withdrawn is still there, since nobody holds an allowance over it.   *)
VaultHoldsDeposits ==
    balances[Vault] + withdrawn >= deposited
=============================================================================
