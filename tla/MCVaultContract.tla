-------------------------- MODULE MCVaultContract --------------------------
(* A small instance of the contracts.                                       *)
EXTENDS VaultSpv, TLC

\* tA and tB differ, but pack_u128 gives them one key; tC has its own.
tA == <<0, 1, 0, 0, 0, 0, 0, 0>>
tB == <<0, 0, 2, 0, 0, 0, 0, 0>>
tC == <<0, 0, 0, 1, 0, 0, 0, 0>>

ThreeTxs == {tA, tB, tC}

Pays(sats) == [sats |-> sats, covenant |-> TRUE]
Change(sats) == [sats |-> sats, covenant |-> FALSE]

\* tA has two covenant outputs, tC one and some change.
TxOutputs ==
    tA :> <<Pays(1), Pays(2)>> @@ tB :> <<Pays(1)>> @@ tC :> <<Change(2), Pays(1)>>

\* tA was mined at height 1, then again at height 2 beside tC.
Reorganised == 1 :> {{tA}, {tB}} @@ 2 :> {{tA, tC}}

\* One or two inputs with an empty or a long script, one or two outputs, no
\* witness or stacks of up to two items.
Pay == [sats |-> 2, script |-> VaultScript]
SmallTransactions ==
    {[inputs |-> ins, outputs |-> outs, witness |-> wit] :
        ins \in {<<<<>>>>, <<<<6, 6, 6>>>>, <<<<>>, <<6, 6, 6>>>>, <<<<6>>, <<>>, <<>>>>},
        outs \in {<<Pay>>, <<Keep, Pay>>, <<Pay, Keep>>, <<Keep>>, <<Keep, Pay, Pay>>},
        wit \in {<<>>, <<<<>>>>, <<<<<<7>>, <<7, 7, 7>>>>>>, <<<<<<0, 1>>>>, <<>>>>,
                 <<<<>>, <<<<7>>>>, <<<<0>>, <<1>>>>>>}}
WellFormed ==
    {tx \in SmallTransactions : tx.witness = <<>> \/ Len(tx.witness) = Len(tx.inputs)}

\* Users are interchangeable.
UserSymmetry == Permutations(Users)
=============================================================================
