----------------------------- MODULE HeaderRelay -----------------------------
(***************************************************************************)
(* BitcoinHeaderRelayService: every 30 s setInterval starts a relayCycle   *)
(* that posts the Merkle roots of new Bitcoin blocks to the HeaderStore    *)
(* contract and keeps a cursor in kv_store.  Nothing stops a cycle from    *)
(* starting while an earlier one still runs: a cycle of ten headers waits  *)
(* 5 s after each, so cycles overlap whenever the relay catches up.        *)
(*                                                                         *)
(* A header is named by its height.  An action is the code between two     *)
(* awaits.  The nonce of a store_header transaction is the one of the      *)
(* latest block, so the sequencer holds at most one at a time.             *)
(***************************************************************************)
EXTENDS Integers

CONSTANTS
    Cycles,         \* relayCycle invocations that can run at once
    Cursor0,        \* cursor in the database at the start, or NoCursor
    FirstTip,       \* Bitcoin's height at the start
    MaxTip,         \* bound on Bitcoin's height
    Batch,          \* headers per cycle
    MaxCrashes      \* bound on the crashes of the backend

NoCursor == -1

ASSUME RelayConstants ==
    /\ Cursor0 \in Nat \cup {NoCursor}
    /\ FirstTip \in Nat
    /\ MaxTip \in Nat
    /\ Cursor0 <= FirstTip
    /\ FirstTip <= MaxTip
    /\ Batch \in Nat \ {0}
    /\ MaxCrashes \in Nat

VARIABLES
    tip,            \* height of the Bitcoin chain
    cursor,         \* kv_store['header_relay_last_height'], or NoCursor
    pc,             \* where each cycle is
    next,           \* the height its loop is at
    last,           \* its endHeight
    inflight,       \* height whose transaction is not in a block yet, or NoCursor
    sent,           \* heights whose transaction the sequencer accepted
    stored,         \* heights HeaderStore has a root for
    crashes

cycleVars == <<pc, next, last>>
chainVars == <<inflight, sent, stored>>
vars == <<tip, cursor, pc, next, last, inflight, sent, stored, crashes>>

Heights == 0..MaxTip

\* "sending": relayHeader tries to submit; "accepted": the sequencer has the
\* transaction, its answer is under way; "gap": the 5 s pause after a header.
CyclePc == {"idle", "tip", "fetching", "sending", "accepted", "gap"}

Init ==
    /\ tip = FirstTip
    /\ cursor = Cursor0
    /\ pc = [c \in Cycles |-> "idle"]
    /\ next = [c \in Cycles |-> 0]
    /\ last = [c \in Cycles |-> 0]
    /\ inflight = NoCursor
    /\ sent = {}
    /\ stored = {}
    /\ crashes = 0

Goto(c, p) == pc' = [pc EXCEPT ![c] = p]

-----------------------------------------------------------------------------

\* startHeaderRelay, and each tick of its interval.
StartCycle(c) ==
    /\ pc[c] = "idle"
    /\ Goto(c, "tip")
    /\ UNCHANGED <<tip, cursor, next, last, chainVars, crashes>>

\* Faulty variant: the block after the cursor is skipped.
StartHeightSkips == IF cursor = NoCursor THEN tip ELSE cursor + 2

\* First run: the tip; later: the block after the cursor.
StartHeight == IF cursor = NoCursor THEN tip ELSE cursor + 1

EndHeight == IF StartHeight + Batch - 1 <= tip THEN StartHeight + Batch - 1 ELSE tip

\* Faulty variant: the newest block counts as up to date.
UpToDateEarly == StartHeight >= tip

UpToDate == StartHeight > tip

\* fetchTipHeight returns; the cursor is read in the same step.
TipFetched(c) ==
    /\ pc[c] = "tip"
    /\ IF UpToDate
         THEN Goto(c, "idle") /\ UNCHANGED <<next, last>>
         ELSE /\ next' = [next EXCEPT ![c] = StartHeight]
              /\ last' = [last EXCEPT ![c] = EndHeight]
              /\ Goto(c, "fetching")
    /\ UNCHANGED <<tip, cursor, chainVars, crashes>>

\* Block hash and header of this height arrive and the root is cut out.
HeaderFetched(c) ==
    /\ pc[c] = "fetching"
    /\ Goto(c, "sending")
    /\ UNCHANGED <<tip, cursor, next, last, chainVars, crashes>>

\* account.execute reaches the sequencer, which takes one transaction per nonce.
Submit(c) ==
    /\ pc[c] = "sending"
    /\ inflight = NoCursor
    /\ inflight' = next[c]
    /\ sent' = sent \cup {next[c]}
    /\ Goto(c, "accepted")
    /\ UNCHANGED <<tip, cursor, next, last, stored, crashes>>

\* The answer to an accepted transaction is lost; relayHeader tries again.
AnswerLost(c) ==
    /\ pc[c] = "accepted"
    /\ Goto(c, "sending")
    /\ UNCHANGED <<tip, cursor, next, last, chainVars, crashes>>

\* The hash arrives: the cursor takes this height, whatever it was.
Answer(c) ==
    /\ pc[c] = "accepted"
    /\ cursor' = next[c]
    /\ Goto(c, "gap")
    /\ UNCHANGED <<tip, next, last, chainVars, crashes>>

\* Faulty variant: the loop runs one height past endHeight.
GapOverPastEnd(c) ==
    /\ pc[c] = "gap"
    /\ IF next[c] > last[c]
         THEN Goto(c, "idle") /\ UNCHANGED next
         ELSE Goto(c, "fetching") /\ next' = [next EXCEPT ![c] = @ + 1]
    /\ UNCHANGED <<tip, cursor, last, chainVars, crashes>>

\* The pause ends: next height, or the end of the cycle.
GapOver(c) ==
    /\ pc[c] = "gap"
    /\ IF next[c] = last[c]
         THEN Goto(c, "idle") /\ UNCHANGED next
         ELSE Goto(c, "fetching") /\ next' = [next EXCEPT ![c] = @ + 1]
    /\ UNCHANGED <<tip, cursor, last, chainVars, crashes>>

\* The retries of a fetch or of relayHeader are used up: the cycle ends and
\* the cursor stays.
GiveUp(c) ==
    /\ pc[c] \in {"tip", "fetching", "sending", "accepted"}
    /\ Goto(c, "idle")
    /\ UNCHANGED <<tip, cursor, next, last, chainVars, crashes>>

-----------------------------------------------------------------------------
(* Bitcoin, Starknet, and crashes of the backend.                           *)

NewBlock ==
    /\ tip < MaxTip
    /\ tip' = tip + 1
    /\ UNCHANGED <<cursor, cycleVars, chainVars, crashes>>

\* store_header executes: relayer only, an existing root is overwritten.
StoreHeader ==
    /\ inflight # NoCursor
    /\ stored' = stored \cup {inflight}
    /\ inflight' = NoCursor
    /\ UNCHANGED <<tip, cursor, cycleVars, sent, crashes>>

\* The transaction reverts or is dropped; nobody looks at its receipt.
StoreReverts ==
    /\ inflight # NoCursor
    /\ inflight' = NoCursor
    /\ UNCHANGED <<tip, cursor, cycleVars, sent, stored, crashes>>

Crash ==
    /\ crashes < MaxCrashes
    /\ crashes' = crashes + 1
    /\ pc' = [c \in Cycles |-> "idle"]
    /\ UNCHANGED <<tip, cursor, next, last, chainVars>>

Cycle(c) ==
    \/ StartCycle(c) \/ TipFetched(c) \/ HeaderFetched(c)
    \/ Submit(c) \/ Answer(c) \/ AnswerLost(c) \/ GapOver(c) \/ GiveUp(c)

Next ==
    \/ \E c \in Cycles : Cycle(c)
    \/ NewBlock \/ StoreHeader \/ StoreReverts \/ Crash

Spec == Init /\ [][Next]_vars

(***************************************************************************)
(* Fairness.  The interval and the 5 s pause are timers; a transaction the *)
(* sequencer took ends up in a block or is dropped.  The two networks may  *)
(* fail any number of times but not for ever: what is tried infinitely     *)
(* often succeeds infinitely often.                                        *)
(***************************************************************************)
Fairness ==
    /\ \A c \in Cycles :
          /\ WF_vars(StartCycle(c)) /\ WF_vars(GapOver(c))
          /\ SF_vars(TipFetched(c)) /\ SF_vars(HeaderFetched(c))
          /\ SF_vars(Submit(c)) /\ SF_vars(Answer(c))
    /\ WF_vars(StoreHeader \/ StoreReverts)

FairSpec == Spec /\ Fairness

-----------------------------------------------------------------------------
(* Properties                                                              *)

(* Heights stay on the chain: no cycle, however long it has been running, *)
(* works on or records a height Bitcoin has not reached.                   *)
RelayTypeOK ==
    /\ tip \in FirstTip..MaxTip
    /\ cursor \in -1..tip
    /\ pc \in [Cycles -> CyclePc]
    /\ next \in [Cycles -> 0..tip]
    /\ last \in [Cycles -> 0..tip]
    /\ inflight \in sent \cup {NoCursor}
    /\ sent \subseteq 0..tip
    /\ stored \subseteq sent
    /\ crashes \in 0..MaxCrashes

(* No header is skipped.  relayCycle moves the cursor without a lock and    *)
(* overlapping cycles move it back and forth, yet every height above the    *)
(* cursor the database started with and up to the cursor has been posted:   *)
(* after any number of failures and restarts the next cycle misses nothing. *)
PostedUpToCursor ==
    Cursor0 # NoCursor => (Cursor0 + 1)..cursor \subseteq sent

(* The relay catches up: each block of the chain above the first cursor is  *)
(* posted at last, although cycles overlap, give up and restart.            *)
BlocksArePosted ==
    \A h \in Heights : (Cursor0 # NoCursor /\ Cursor0 < h /\ h <= tip) ~> h \in sent

-----------------------------------------------------------------------------
(* The inductive invariant.                                                 *)

InLoop(c) == pc[c] \in {"fetching", "sending", "accepted", "gap"}

\* A loop stays within its end height.
CyclesBounded == \A c \in Cycles : InLoop(c) => next[c] <= last[c]

\* What a cycle has behind it is posted, and so is the height it is at once
\* the sequencer has its transaction.
CyclesPost ==
    Cursor0 # NoCursor =>
        /\ cursor # NoCursor
        /\ \A c \in Cycles :
              /\ InLoop(c) => (Cursor0 + 1)..(next[c] - 1) \subseteq sent
              /\ pc[c] = "accepted" => next[c] \in sent
              /\ pc[c] = "gap" => next[c] \in sent

RelayInv == RelayTypeOK /\ CyclesBounded /\ PostedUpToCursor /\ CyclesPost

-----------------------------------------------------------------------------
(* What the repository says of the relay and the code does not keep.        *)

(* BitcoinHeaderRelayService.ts:4-6, "For each new block, extracts the      *)
(* Merkle root from the raw 80-byte block header and stores it in the       *)
(* HeaderStore contract on Starknet".                                       *)
EachBlockIsStored ==
    \A h \in Heights : (Cursor0 # NoCursor /\ Cursor0 < h /\ h <= tip) ~> h \in stored
=============================================================================
