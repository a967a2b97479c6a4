SPECIFICATION FairSpec
CONSTANTS
    Cycles = {c1, c2}
    Cursor0 = 0
    FirstTip = 2
    MaxTip = 3
    Batch = 2
    MaxCrashes = 0
PROPERTIES EachBlockIsStored
