SPECIFICATION Spec
CONSTANTS
    v1 = v1  v2 = v2  r1 = r1  r2 = r2  o1 = o1
    k1 = k1  u1 = u1  w1 = w1  b1 = b1
    Vaults = {v1, v2}
    SpvRequests = {}
    OldRequests = {}
    Confirms = {k1}
    UserTxs = {u1}
    WithdrawTxs = {w1}
    BitcoinTxs = {b1}
    RecipientOf <- MCRecipientOf
    VaultOf <- MCVaultOf
    BitcoinTxOf <- MCBitcoinTxOf
    AmountSats = AmountSats
    None = None
    MaxCrashes = 0
INVARIANT OpenIsDeposited
CHECK_DEADLOCK FALSE
