SPECIFICATION PagesSpec
CONSTANTS
    Fetches = {f1, f2}
    Withdrawals = {q1, q2}
INVARIANT CompleteIsBurned
SYMMETRY PagesSymmetry
