SPECIFICATION FairSpec
CONSTANTS
    v1 = v1  v2 = v2  r1 = r1  r2 = r2  r3 = r3  f1 = f1
    proc1 = proc1  null = null
    Vaults <- OneVault
    Requests = {r1, r2}
    Forces = {}
    VaultOf <- RaceOnOneVault
    Proc = proc1
    None = null
    UseCovenants = TRUE
    Funds = 2
    MaxTopUps = 0
    MaxCrashes = 1
PROPERTIES HandlerTerminates PendingIsTaken
CHECK_DEADLOCK FALSE
