SPECIFICATION Spec
CONSTANTS
    v1 = v1  v2 = v2  r1 = r1  r2 = r2  r3 = r3  f1 = f1
    proc1 = proc1  null = null
    Vaults <- TwoVaults
    Requests = {r1, r2, r3}
    Forces = {}
    VaultOf <- OnceAndRace
    Proc = proc1
    None = null
    UseCovenants = FALSE
    Funds = 2
    MaxTopUps = 0
    MaxCrashes = 0
INVARIANTS PaidAfterBurnSubmitted CompletedIsPaid SingleRequestPaidOnce
PROPERTIES AuthRowPermanent KeepsPromise
CHECK_DEADLOCK FALSE
