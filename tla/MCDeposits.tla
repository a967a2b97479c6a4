----------------------------- MODULE MCDeposits -----------------------------
(* Instances of Deposits for TLC.                                          *)
EXTENDS Deposits

CONSTANTS v1, v2, r1, r2, o1, k1, u1, w1, b1

\* r1 and r2 deposit the same payment under two vaults.  A user prepares v2,
\* sends u1 or asks for r2 or o1, and confirms v2 with k1; w1 is a withdraw
\* whose recipient is the commitment of v2.
MCVaultOf ==
    [x \in Handlers \cup UserTxs |-> IF x = r1 THEN v1 ELSE v2]

MCRecipientOf == [t \in WithdrawTxs |-> v2]

MCBitcoinTxOf == [t \in SpvRequests \cup UserTxs |-> b1]
=============================================================================
