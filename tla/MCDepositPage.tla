---------------------------- MODULE MCDepositPage ----------------------------
(* Transactions are interchangeable: no definition names one. *)
EXTENDS DepositPage, TLC

TxSymmetry == Permutations(Txs)
=============================================================================
