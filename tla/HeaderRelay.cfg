SPECIFICATION FairSpec
CONSTANTS
    Cycles = {c1, c2}
    Cursor0 = 0
    FirstTip = 1
    MaxTip = 2
    Batch = 2
    MaxCrashes = 1
INVARIANTS RelayTypeOK PostedUpToCursor
PROPERTIES BlocksArePosted
