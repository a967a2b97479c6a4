SPECIFICATION Spec
CONSTANTS
    Users = {u1, u2}
    Vault = vault
    Commitments = {k1, k2}
    Nullifiers = {n1}
    Heights = {1, 2}
    Txids <- ThreeTxs
    Outputs <- TxOutputs
    Mined <- Reorganised
    WordBits = 2
    SatWei = 1
    MaxU = 4
    Amounts = {1, 4}
    InitialSupply = 1
    Transactions <- WellFormed
    MaxBlock = 6
    SmallBlock = 4
INVARIANTS ContractTypeOK SupplyIsBalances OneMintPerTransaction VaultHoldsDeposits
    BuiltProofsAreAccepted AcceptedProofsNameTheirLeaf
SYMMETRY UserSymmetry
