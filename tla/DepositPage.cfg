SPECIFICATION Spec
CONSTANTS
    Calls = {c1}
    Txs = {t1, t2}
    Amounts = {small}
    MaxConf = 1
    MaxIntervals = 2
    MaxPolls = 1
    MaxSubmits = 2
INVARIANTS PageTypeOK ConfirmationsAreOfShownTx ScanningIsPolled SuccessIsMinted
SYMMETRY TxSymmetry
CHECK_DEADLOCK FALSE
