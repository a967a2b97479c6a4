SPECIFICATION Spec
CONSTANTS
    v1 = v1  v2 = v2  r1 = r1  r2 = r2  r3 = r3  f1 = f1
    proc1 = proc1  null = null
    Vaults <- OneVault
    Requests = {r1}
    Forces = {f1}
    VaultOf <- RequestAndForce
    Proc = proc1
    None = null
    UseCovenants = FALSE
    Funds = 1
    MaxTopUps = 1
    MaxCrashes = 2
INVARIANTS TypeOK PaidAfterBurnSubmitted CompletedIsPaid
PROPERTIES KeepsPromise
CHECK_DEADLOCK FALSE
