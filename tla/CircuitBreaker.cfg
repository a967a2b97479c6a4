\* The constants of the source in ticks of eight seconds: 8 s and 60 s, rounded
\* down.
SPECIFICATION ProverSpec
CONSTANTS
    Calls = {c1, c2}
    THRESHOLD = 5
    RPC_TIMEOUT = 1
    RESET_TIMEOUT = 7
    SubmitJobs = {s1}
    WithdrawJobs = {w1}
    MaxCrashes = 1
INVARIANTS
    BreakerTypeOK
    ClosedBelowThreshold
    OnlyBlockedCallsAreStale
    JobsLeaveVerifiedProofs
PROPERTY OpenExpires
