SPECIFICATION Spec
CONSTANTS
    a = a  b = b  t1 = t1  t2 = t2
    Parties = {a, b}
    Nobody = nobody
    Contract = htlc
    Tokens = {t1, t2}
    Secrets = {s1}
    Amounts = {0, 1, 2}
    Purse = 2
    MaxTime = 2
INVARIANTS HtlcTypeOK HeldIsAccounted
PROPERTIES SettledForGood
SYMMETRY HtlcSymmetry
CHECK_DEADLOCK FALSE
