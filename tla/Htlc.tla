-------------------------------- MODULE Htlc --------------------------------
(***************************************************************************)
(* Hash time lock contracts: the Cairo contract of htlc_swap, which keeps  *)
(* one funding at a time in its storage, and HTLCService, which keeps a    *)
(* table of off-chain rows behind POST /api/htlc/create, claim and refund. *)
(*                                                                         *)
(* The two share parties and preimages and nothing else: each has its own  *)
(* clock and its own hash of a preimage.  Every handler and every contract *)
(* call is one step: the functions given to lockManager.withLock contain   *)
(* no await, and a transaction is atomic.                                  *)
(***************************************************************************)
EXTENDS Naturals

CONSTANTS
    Parties, Nobody,  \* accounts, and the zero address
    Contract,         \* the address of the hash time lock contract itself
    Tokens,           \* ERC-20 contracts a funding may name
    Secrets,          \* preimages; HTLCService draws a fresh one per row
    Amounts,          \* bound: amounts a funding may ask for
    Purse,            \* what each party owns of each token at first
    MaxTime           \* bound: both clocks stop here

ASSUME HtlcConstants ==
    /\ Nobody \notin Parties /\ Contract \notin Parties
    /\ Nobody # Contract
    /\ Amounts \subseteq Nat
    /\ Purse \in Nat
    /\ MaxTime \in Nat

VARIABLES
    rows,       \* htlcs table, by the secret of the row
    told,       \* secrets whose create response reached the client
    now,        \* Date.now() of the backend
    slot,       \* the contract's storage, without its two flags
    withdrawn, refunded,
    purse,      \* token balances of the parties
    held,       \* token balances of the contract
    stranded,   \* history: what the contract got and will never owe again
    blockTime   \* get_block_timestamp()

rowVars == <<rows, told, now>>
storageVars == <<slot, withdrawn, refunded>>
tokenVars == <<purse, held, stranded>>
htlcVars == <<rows, told, now, slot, withdrawn, refunded, purse, held, stranded, blockTime>>

RowStatus == {"none", "pending", "claimed", "refunded"}
NoRow == [status |-> "none", sender |-> Nobody, timelock |-> 0]

\* hash.computePoseidonHash(preimage, '0') of the service hashes two felts,
\* poseidon_hash_span([preimage]) of the contract one.
ServiceHash(p) == <<"pair", p>>
ContractHash(p) == <<"span", p>>
Hashlocks == {ServiceHash(p) : p \in Secrets} \cup {ContractHash(p) : p \in Secrets}
ZeroFelt == <<"zero">>

EmptySlot == [sender |-> Nobody, receiver |-> Nobody, amount |-> 0,
              hashlock |-> ZeroFelt, timelock |-> 0, token |-> Nobody]

Init ==
    /\ rows = [s \in Secrets |-> NoRow] /\ told = {} /\ now = 0
    /\ slot = EmptySlot /\ withdrawn = FALSE /\ refunded = FALSE
    /\ purse = [t \in Tokens |-> [a \in Parties |-> Purse]]
    /\ held = [t \in Tokens |-> 0]
    /\ stranded = [t \in Tokens |-> 0]
    /\ blockTime = 0

-----------------------------------------------------------------------------
\* POST /create.  The row is written before the answer leaves, and the
\* preimage is in the answer only, which may be lost.
CreateRow(s, by, t, reached) ==
    /\ rows[s].status = "none"
    /\ t > now                              \* isValidTimelock
    /\ rows' = [rows EXCEPT ![s] = [status |-> "pending", sender |-> by, timelock |-> t]]
    /\ told' = IF reached THEN told \cup {s} ELSE told
    /\ UNCHANGED <<now, storageVars, tokenVars, blockTime>>

\* Faulty variant: a claim that does not look at the status.
ClaimRowAgain(s, p) ==
    /\ rows[s].status # "none"
    /\ ServiceHash(p) = ServiceHash(s)
    /\ p \in told
    /\ rows' = [rows EXCEPT ![s].status = "claimed"]
    /\ UNCHANGED <<told, now, storageVars, tokenVars, blockTime>>

\* POST /claim, with a preimage some client was told.
ClaimRow(s, p) ==
    /\ rows[s].status = "pending"
    /\ p \in told
    /\ ServiceHash(p) = ServiceHash(s)
    /\ rows' = [rows EXCEPT ![s].status = "claimed"]
    /\ UNCHANGED <<told, now, storageVars, tokenVars, blockTime>>

\* POST /refund.
RefundRow(s, by) ==
    /\ rows[s].status = "pending"
    /\ by = rows[s].sender
    /\ now >= rows[s].timelock
    /\ rows' = [rows EXCEPT ![s].status = "refunded"]
    /\ UNCHANGED <<told, now, storageVars, tokenVars, blockTime>>

-----------------------------------------------------------------------------
\* The funding in storage has been paid to nobody yet.
Outstanding == slot.amount > 0 /\ ~withdrawn /\ ~refunded

\* What is stranded once nobody can be paid the funding in storage.
LeftBehind ==
    IF Outstanding THEN [stranded EXCEPT ![slot.token] = @ + slot.amount] ELSE stranded

\* Faulty variant: fund takes an amount of zero.
FundNothing(by, to, h, t, tok, n) ==
    /\ t > blockTime
    /\ purse[tok][by] >= n
    /\ purse' = [purse EXCEPT ![tok][by] = @ - n]
    /\ held' = [held EXCEPT ![tok] = @ + n]
    /\ stranded' = LeftBehind
    /\ slot' = [sender |-> by, receiver |-> to, amount |-> n,
                hashlock |-> h, timelock |-> t, token |-> tok]
    /\ withdrawn' = FALSE /\ refunded' = FALSE
    /\ UNCHANGED <<rowVars, blockTime>>

\* fund: whatever the storage holds is overwritten, and the receiver may be
\* any address, zero and the contract itself among them.
Fund(by, to, h, t, tok, n) ==
    /\ n > 0
    /\ t > blockTime
    /\ purse[tok][by] >= n                  \* transfer_from
    /\ purse' = [purse EXCEPT ![tok][by] = @ - n]
    /\ held' = [held EXCEPT ![tok] = @ + n]
    /\ stranded' = LeftBehind
    /\ slot' = [sender |-> by, receiver |-> to, amount |-> n,
                hashlock |-> h, timelock |-> t, token |-> tok]
    /\ withdrawn' = FALSE /\ refunded' = FALSE
    /\ UNCHANGED <<rowVars, blockTime>>

\* transfer of the token (mock_btc.cairo) out of the contract.  It fails for
\* the zero address, and to the contract itself it moves nothing.
PayOut(to) ==
    /\ to # Nobody
    /\ held[slot.token] >= slot.amount
    /\ \/ /\ to # Contract
          /\ held' = [held EXCEPT ![slot.token] = @ - slot.amount]
          /\ purse' = [purse EXCEPT ![slot.token][to] = @ + slot.amount]
          /\ UNCHANGED stranded
       \/ /\ to = Contract
          /\ stranded' = LeftBehind
          /\ UNCHANGED <<held, purse>>

\* withdraw: any caller, before or after the timelock.
Withdraw(p) ==
    /\ ~withdrawn /\ ~refunded
    /\ ContractHash(p) = slot.hashlock
    /\ withdrawn' = TRUE
    /\ PayOut(slot.receiver)
    /\ UNCHANGED <<rowVars, slot, refunded, blockTime>>

\* Faulty variant: refund does not ask whether the receiver has claimed.
RefundAfterClaim(by) ==
    /\ ~refunded
    /\ blockTime >= slot.timelock
    /\ by = slot.sender
    /\ refunded' = TRUE
    /\ PayOut(slot.sender)
    /\ UNCHANGED <<rowVars, slot, withdrawn, blockTime>>

\* refund.
Refund(by) ==
    /\ ~withdrawn /\ ~refunded
    /\ blockTime >= slot.timelock
    /\ by = slot.sender
    /\ refunded' = TRUE
    /\ PayOut(slot.sender)
    /\ UNCHANGED <<rowVars, slot, withdrawn, blockTime>>

\* A transfer of the token straight to the contract, past fund.
SendTokens(by, tok, n) ==
    /\ purse[tok][by] >= n
    /\ purse' = [purse EXCEPT ![tok][by] = @ - n]
    /\ held' = [held EXCEPT ![tok] = @ + n]
    /\ stranded' = [stranded EXCEPT ![tok] = @ + n]
    /\ UNCHANGED <<rowVars, storageVars, blockTime>>

\* The backend's clock, and the block timestamps that follow it.
Tick ==
    /\ now < MaxTime
    /\ now' = now + 1
    /\ UNCHANGED <<rows, told, storageVars, tokenVars, blockTime>>

NewBlock ==
    /\ blockTime < now
    /\ blockTime' = blockTime + 1
    /\ UNCHANGED <<rowVars, storageVars, tokenVars>>

Next ==
    \/ \E s \in Secrets, by \in Parties, t \in 1 .. MaxTime, reached \in BOOLEAN :
          CreateRow(s, by, t, reached)
    \/ \E s \in Secrets, p \in Secrets : ClaimRow(s, p)
    \/ \E s \in Secrets, by \in Parties : RefundRow(s, by)
    \/ \E by \in Parties, to \in Parties \cup {Nobody, Contract}, h \in Hashlocks, t \in 1 .. MaxTime,
          tok \in Tokens, n \in Amounts : Fund(by, to, h, t, tok, n)
    \/ \E p \in Secrets : Withdraw(p)
    \/ \E by \in Parties : Refund(by)
    \/ \E by \in Parties, tok \in Tokens, n \in Amounts : SendTokens(by, tok, n)
    \/ Tick
    \/ NewBlock

Spec == Init /\ [][Next]_htlcVars

-----------------------------------------------------------------------------
(* Types of the table, the storage and the balances.  The storage is empty  *)
(* or holds a funding above zero of a real token by a real sender, whom     *)
(* refund can always pay; fund (lib.cairo:67-94) checks no receiver, which  *)
(* may be zero or the contract.                                             *)
HtlcTypeOK ==
    /\ rows \in [Secrets -> [status : RowStatus, sender : Parties \cup {Nobody}, timelock : Nat]]
    /\ told \subseteq Secrets
    /\ now \in Nat /\ blockTime \in Nat
    /\ slot \in [sender : Parties \cup {Nobody}, receiver : Parties \cup {Nobody, Contract},
                 amount : Nat, hashlock : Hashlocks \cup {ZeroFelt},
                 timelock : Nat, token : Tokens \cup {Nobody}]
    /\ slot.amount > 0 => slot.sender \in Parties /\ slot.token \in Tokens
    /\ slot.amount = 0 => slot = EmptySlot
    /\ withdrawn \in BOOLEAN /\ refunded \in BOOLEAN
    /\ purse \in [Tokens -> [Parties -> Nat]]
    /\ held \in [Tokens -> Nat]
    /\ stranded \in [Tokens -> Nat]

(* The contract owns of each token exactly the funding its storage still    *)
(* owes and what is stranded in it: fundings that fund (lib.cairo:84-91)    *)
(* overwrote, fundings whose receiver is the contract and that were claimed *)
(* to it, and tokens sent to it past fund.  No order of fund, withdraw and  *)
(* refund pays a funding twice, pays it in another token, or takes it out   *)
(* of a later one or of what is stranded, which nothing ever takes out.     *)
HeldIsAccounted ==
    \A t \in Tokens :
        held[t] = stranded[t]
                    + IF Outstanding /\ slot.token = t THEN slot.amount ELSE 0

(* A claimed row is never refunded and a refunded row never claimed, though *)
(* HTLCService takes a different lock for each (htlc:claim:, htlc:refund:). *)
SettledForGood ==
    [][\A s \in Secrets : rows[s].status \in {"claimed", "refunded"} => rows'[s] = rows[s]]_htlcVars
=============================================================================
