---------------------------- MODULE ProverProofs ----------------------------
(***************************************************************************)
(* What withResilience guarantees for any number of overlapping calls, any *)
(* threshold and any pair of timeouts with RPC_TIMEOUT < RESET_TIMEOUT:    *)
(* first by itself, then what is left of it when spawnSync blocks the event *)
(* loop, for any number of jobs and restarts.                              *)
(***************************************************************************)
EXTENDS Prover, TLAPS

-----------------------------------------------------------------------------
(* The breaker by itself (Spec of CircuitBreaker)                          *)

\* A call that is under way when the circuit opens is over, with time to
\* spare, before the circuit can be probed.
CallsEndBeforeProbe ==
    circuitStatus = "OPEN" =>
        \A c \in waiting : left[c] + (RESET_TIMEOUT - RPC_TIMEOUT) <= resetIn

BreakerInv ==
    /\ BreakerTypeOK
    /\ ClosedBelowThreshold
    /\ ProbesAreFresh
    /\ CallsEndBeforeProbe

\* Initially the circuit is CLOSED and nothing is under way.
LEMMA InitBreaker == Init => BreakerInv
  BY BreakerConstants DEF Init, BreakerInv, BreakerTypeOK, CircuitStatus,
     ClosedBelowThreshold, ProbesAreFresh, CallsEndBeforeProbe

\* The counting branches of the catch block, for a call that leaves the race.
LEMMA CountPreserves ==
    ASSUME BreakerInv, NEW c \in Calls, Settle(c), CountFailure
    PROVE  BreakerInv'
  <1>1. CASE Trips(consecutiveFailures)
    <2>1. /\ consecutiveFailures' = THRESHOLD
          /\ circuitStatus' = "OPEN"
          /\ resetIn' = RESET_TIMEOUT
      BY <1>1, BreakerConstants
         DEF BreakerInv, BreakerTypeOK, CountFailure, Trips, OneMore
    <2>2. BreakerTypeOK'
      BY <2>1, BreakerConstants DEF BreakerInv, BreakerTypeOK, CircuitStatus, Settle
    <2>3. ClosedBelowThreshold' /\ ProbesAreFresh'
      BY <2>1, BreakerConstants DEF ClosedBelowThreshold, ProbesAreFresh
    <2>4. CallsEndBeforeProbe'
      BY <2>1, BreakerConstants
         DEF BreakerInv, BreakerTypeOK, CallsEndBeforeProbe, Settle
    <2>5. QED
      BY <2>2, <2>3, <2>4 DEF BreakerInv
  <1>2. CASE ~Trips(consecutiveFailures)
    <2>1. /\ consecutiveFailures < THRESHOLD
          /\ consecutiveFailures' = consecutiveFailures + 1
          /\ consecutiveFailures' < THRESHOLD
          /\ UNCHANGED <<circuitStatus, resetIn>>
      BY <1>2, BreakerConstants
         DEF BreakerInv, BreakerTypeOK, CountFailure, Trips, OneMore
    <2>2. circuitStatus = "CLOSED"
      BY <2>1 DEF BreakerInv, ClosedBelowThreshold
    <2>3. BreakerTypeOK'
      BY <2>1, BreakerConstants DEF BreakerInv, BreakerTypeOK, CircuitStatus, Settle
    <2>4. ClosedBelowThreshold' /\ ProbesAreFresh' /\ CallsEndBeforeProbe'
      BY <2>1, <2>2 DEF ClosedBelowThreshold, ProbesAreFresh, CallsEndBeforeProbe
    <2>5. QED
      BY <2>3, <2>4 DEF BreakerInv
  <1>3. QED
    BY <1>1, <1>2

\* Every step keeps the inductive invariant.
LEMMA NextBreaker == BreakerInv /\ [Next]_vars => BreakerInv'
  <1> SUFFICES ASSUME BreakerInv, [Next]_vars
               PROVE  BreakerInv'
    OBVIOUS
  <1> USE DEF BreakerInv
  <1>1. ASSUME NEW c \in Calls, Begin(c)
        PROVE  BreakerInv'
    <2>1. BreakerTypeOK'
      BY <1>1, BreakerConstants DEF BreakerTypeOK, CircuitStatus, Begin
    <2>2. ClosedBelowThreshold'
      BY <1>1 DEF ClosedBelowThreshold, BreakerTypeOK, CircuitStatus, Begin
    <2>3. ProbesAreFresh'
      <3>1. CASE circuitStatus = "OPEN"
        <4>1. waiting = {}
          BY <1>1, <3>1, BreakerConstants
             DEF Begin, CallsEndBeforeProbe, BreakerTypeOK
        <4>2. QED
          BY <1>1, <3>1, <4>1 DEF Begin, ProbesAreFresh
      <3>2. CASE circuitStatus # "OPEN"
        BY <1>1, <3>2 DEF Begin, ProbesAreFresh
      <3>3. QED
        BY <3>1, <3>2
    <2>4. circuitStatus' # "OPEN"
      BY <1>1 DEF Begin
    <2>5. QED
      BY <2>1, <2>2, <2>3, <2>4 DEF CallsEndBeforeProbe
  <1>2. ASSUME NEW c \in Calls, Succeed(c)
        PROVE  BreakerInv'
    BY <1>2, BreakerConstants
       DEF Succeed, Settle, BreakerTypeOK, CircuitStatus, ClosedBelowThreshold,
           ProbesAreFresh, CallsEndBeforeProbe
  <1>3. ASSUME NEW c \in Calls, NEW e \in Errors, Fail(c, e)
        PROVE  BreakerInv'
    <2>1. CASE CountsAsFailure(e)
      BY <1>3, <2>1, CountPreserves DEF Fail
    <2>2. CASE ~CountsAsFailure(e)
      BY <1>3, <2>2
         DEF Fail, Settle, BreakerTypeOK, ClosedBelowThreshold,
             ProbesAreFresh, CallsEndBeforeProbe
    <2>3. QED
      BY <2>1, <2>2
  <1>4. ASSUME NEW c \in Calls, Timeout(c)
        PROVE  BreakerInv'
    BY <1>4, CountPreserves DEF Timeout
  <1>5. CASE Tick
    <2>1. BreakerTypeOK'
      BY <1>5, BreakerConstants DEF Tick, BreakerTypeOK
    <2>2. ClosedBelowThreshold' /\ ProbesAreFresh'
      BY <1>5 DEF Tick, ClosedBelowThreshold, ProbesAreFresh
    <2>3. CallsEndBeforeProbe'
      BY <1>5, BreakerConstants DEF Tick, BreakerTypeOK, CallsEndBeforeProbe
    <2>4. QED
      BY <2>1, <2>2, <2>3
  <1>6. CASE UNCHANGED vars
    BY <1>6 DEF vars, BreakerTypeOK, ClosedBelowThreshold, ProbesAreFresh,
                CallsEndBeforeProbe
  <1>7. QED
    BY <1>1, <1>2, <1>3, <1>4, <1>5, <1>6 DEF Next, Refuse

\* withResilience keeps its fields in range, the status agrees with the
\* counter, and no call of before a trip is under way at a probe.
THEOREM BreakerInvariance == Spec => []BreakerInv
  BY InitBreaker, NextBreaker, PTL DEF Spec

\* The status and the counter never disagree.
THEOREM StatusMatchesCounter == Spec => []ClosedBelowThreshold
  BY BreakerInvariance, PTL DEF BreakerInv

\* Only probes decide what becomes of a HALF-OPEN circuit.
THEOREM OnlyProbesDecide == Spec => []ProbesAreFresh
  BY BreakerInvariance, PTL DEF BreakerInv

-----------------------------------------------------------------------------
(* The breaker in an event loop that provers block (ProverSpec)            *)

\* A call that was never overdue is over before the circuit can be probed.
TimelyCallsEndBeforeProbe ==
    circuitStatus = "OPEN" =>
        \A c \in waiting \ overdue : left[c] + (RESET_TIMEOUT - RPC_TIMEOUT) <= resetIn

BlockedInv ==
    /\ BreakerTypeOK
    /\ ClosedBelowThreshold
    /\ OnlyBlockedCallsAreStale
    /\ TimelyCallsEndBeforeProbe

\* The prover's tables and files.
ProverTypeOK ==
    /\ phase \in [Jobs -> {"idle", "proving", "verifying", "done", "failed"}]
    /\ checking \subseteq SubmitJobs
    /\ DOMAIN sharp_proofs = SubmitJobs

ProofInv == ProverTypeOK /\ JobsLeaveVerifiedProofs

\* Initially nothing is under way.
LEMMA ProverStarts == ProverInit => BlockedInv /\ ProofInv
  BY BreakerConstants
     DEF ProverInit, Init, BlockedInv, BreakerTypeOK, CircuitStatus, ClosedBelowThreshold,
         OnlyBlockedCallsAreStale, TimelyCallsEndBeforeProbe, ProofInv, ProverTypeOK,
         JobsLeaveVerifiedProofs, Proving

\* The counting branches of the catch block, for a call that leaves the race.
LEMMA CountKeepsBlockedInv ==
    ASSUME BlockedInv, NEW c \in Calls, Settle(c), CountFailure,
           overdue' = overdue \cap waiting'
    PROVE  BlockedInv'
  <1>1. CASE Trips(consecutiveFailures)
    <2>1. /\ consecutiveFailures' = THRESHOLD
          /\ circuitStatus' = "OPEN"
          /\ resetIn' = RESET_TIMEOUT
      BY <1>1, BreakerConstants
         DEF BlockedInv, BreakerTypeOK, CountFailure, Trips, OneMore
    <2>2. BreakerTypeOK'
      BY <2>1, BreakerConstants DEF BlockedInv, BreakerTypeOK, CircuitStatus, Settle
    <2>3. ClosedBelowThreshold' /\ OnlyBlockedCallsAreStale'
      BY <2>1, BreakerConstants DEF ClosedBelowThreshold, OnlyBlockedCallsAreStale
    <2>4. TimelyCallsEndBeforeProbe'
      BY <2>1, BreakerConstants
         DEF BlockedInv, BreakerTypeOK, TimelyCallsEndBeforeProbe, Settle
    <2>5. QED
      BY <2>2, <2>3, <2>4 DEF BlockedInv
  <1>2. CASE ~Trips(consecutiveFailures)
    <2>1. /\ consecutiveFailures < THRESHOLD
          /\ consecutiveFailures' = consecutiveFailures + 1
          /\ consecutiveFailures' < THRESHOLD
          /\ UNCHANGED <<circuitStatus, resetIn>>
      BY <1>2, BreakerConstants
         DEF BlockedInv, BreakerTypeOK, CountFailure, Trips, OneMore
    <2>2. circuitStatus = "CLOSED"
      BY <2>1 DEF BlockedInv, ClosedBelowThreshold
    <2>3. BreakerTypeOK'
      BY <2>1, BreakerConstants DEF BlockedInv, BreakerTypeOK, CircuitStatus, Settle
    <2>4. ClosedBelowThreshold' /\ OnlyBlockedCallsAreStale' /\ TimelyCallsEndBeforeProbe'
      BY <2>1, <2>2
         DEF ClosedBelowThreshold, OnlyBlockedCallsAreStale, TimelyCallsEndBeforeProbe
    <2>5. QED
      BY <2>3, <2>4 DEF BlockedInv
  <1>3. QED
    BY <1>1, <1>2

\* A callback of the event loop keeps the breaker's part.
LEMMA LoopKeepsBlockedInv ==
    ASSUME BlockedInv, LoopRuns
    PROVE  BlockedInv'
  <1> USE DEF BlockedInv
  <1>0. Next /\ overdue' = overdue \cap waiting'
    BY DEF LoopRuns
  <1>1. ASSUME NEW c \in Calls, Begin(c)
        PROVE  BlockedInv'
    <2>1. BreakerTypeOK'
      BY <1>1, BreakerConstants DEF BreakerTypeOK, CircuitStatus, Begin
    <2>2. ClosedBelowThreshold'
      BY <1>1 DEF ClosedBelowThreshold, BreakerTypeOK, CircuitStatus, Begin
    <2>3. OnlyBlockedCallsAreStale'
      <3>1. CASE circuitStatus = "OPEN"
        <4>1. waiting \subseteq overdue
          BY <1>1, <3>1, BreakerConstants
             DEF Begin, TimelyCallsEndBeforeProbe, BreakerTypeOK
        <4>2. QED
          BY <1>0, <1>1, <3>1, <4>1 DEF Begin, OnlyBlockedCallsAreStale
      <3>2. CASE circuitStatus # "OPEN"
        BY <1>0, <1>1, <3>2 DEF Begin, OnlyBlockedCallsAreStale
      <3>3. QED
        BY <3>1, <3>2
    <2>4. circuitStatus' # "OPEN"
      BY <1>1 DEF Begin
    <2>5. QED
      BY <2>1, <2>2, <2>3, <2>4 DEF TimelyCallsEndBeforeProbe
  <1>2. ASSUME NEW c \in Calls, Succeed(c)
        PROVE  BlockedInv'
    BY <1>2, BreakerConstants
       DEF Succeed, Settle, BreakerTypeOK, CircuitStatus, ClosedBelowThreshold,
           OnlyBlockedCallsAreStale, TimelyCallsEndBeforeProbe
  <1>3. ASSUME NEW c \in Calls, NEW e \in Errors, Fail(c, e)
        PROVE  BlockedInv'
    <2>1. CASE CountsAsFailure(e)
      BY <1>0, <1>3, <2>1, CountKeepsBlockedInv DEF Fail
    <2>2. CASE ~CountsAsFailure(e)
      <3>1. BreakerTypeOK' /\ ClosedBelowThreshold'
        BY <1>3, <2>2 DEF Fail, Settle, BreakerTypeOK, ClosedBelowThreshold
      <3>2. OnlyBlockedCallsAreStale' /\ TimelyCallsEndBeforeProbe'
        BY <1>0, <1>3, <2>2
           DEF Fail, Settle, OnlyBlockedCallsAreStale, TimelyCallsEndBeforeProbe
      <3>3. QED
        BY <3>1, <3>2
    <2>3. QED
      BY <2>1, <2>2
  <1>4. ASSUME NEW c \in Calls, Timeout(c)
        PROVE  BlockedInv'
    BY <1>0, <1>4, CountKeepsBlockedInv DEF Timeout
  <1>5. CASE Tick
    <2>1. BreakerTypeOK'
      BY <1>5, BreakerConstants DEF Tick, BreakerTypeOK
    <2>2. ClosedBelowThreshold' /\ OnlyBlockedCallsAreStale'
      BY <1>0, <1>5 DEF Tick, ClosedBelowThreshold, OnlyBlockedCallsAreStale
    <2>3. TimelyCallsEndBeforeProbe'
      BY <1>0, <1>5, BreakerConstants DEF Tick, BreakerTypeOK, TimelyCallsEndBeforeProbe
    <2>4. QED
      BY <2>1, <2>2, <2>3
  <1>6. CASE UNCHANGED vars
    BY <1>0, <1>6 DEF vars, BreakerTypeOK, ClosedBelowThreshold, OnlyBlockedCallsAreStale,
                      TimelyCallsEndBeforeProbe
  <1>7. QED
    BY <1>0, <1>1, <1>2, <1>3, <1>4, <1>5, <1>6 DEF Next, Refuse

\* Every step of the composition keeps the breaker's part.
LEMMA StepKeepsBlockedInv == BlockedInv /\ [ProverNext]_allVars => BlockedInv'
  <1> SUFFICES ASSUME BlockedInv, [ProverNext]_allVars
               PROVE  BlockedInv'
    OBVIOUS
  <1>1. CASE UNCHANGED <<vars, overdue>>
    BY <1>1 DEF vars, BlockedInv, BreakerTypeOK, ClosedBelowThreshold,
                OnlyBlockedCallsAreStale, TimelyCallsEndBeforeProbe
  <1>2. CASE BlockedTick
    <2>1. BreakerTypeOK'
      BY <1>2, BreakerConstants DEF BlockedInv, BlockedTick, BreakerTypeOK
    <2>2. ClosedBelowThreshold' /\ OnlyBlockedCallsAreStale'
      BY <1>2 DEF BlockedInv, BlockedTick, ClosedBelowThreshold, OnlyBlockedCallsAreStale
    <2>3. TimelyCallsEndBeforeProbe'
      BY <1>2, BreakerConstants
         DEF BlockedInv, BlockedTick, BreakerTypeOK, TimelyCallsEndBeforeProbe
    <2>4. QED
      BY <2>1, <2>2, <2>3 DEF BlockedInv
  <1>3. CASE LoopRuns
    BY <1>3, LoopKeepsBlockedInv
  <1>4. CASE Crash
    BY <1>4, BreakerConstants
       DEF Crash, BlockedInv, BreakerTypeOK, CircuitStatus, ClosedBelowThreshold,
           OnlyBlockedCallsAreStale, TimelyCallsEndBeforeProbe
  <1>5. QED
    BY <1>1, <1>2, <1>3, <1>4
       DEF ProverNext, StartProof, Proved, ProveFails, Verified, VerifyFails, StartCheck,
           CheckEnds, CheckFails, allVars

\* Every step keeps the prover's part.
LEMMA StepKeepsProofInv == ProofInv /\ [ProverNext]_allVars => ProofInv'
  <1> SUFFICES ASSUME ProofInv, [ProverNext]_allVars
               PROVE  ProofInv'
    OBVIOUS
  <1> USE DEF ProofInv, ProverTypeOK, JobsLeaveVerifiedProofs, Proving, Running, Jobs, files
  <1>1. CASE UNCHANGED proverVars
    BY <1>1 DEF proverVars
  <1>2. ASSUME NEW j \in Jobs, StartProof(j)
        PROVE  ProofInv'
    BY <1>2 DEF StartProof
  <1>3. ASSUME NEW j \in Jobs, Proved(j)
        PROVE  ProofInv'
    BY <1>3 DEF Proved, Removed, Left
  <1>4. ASSUME NEW j \in Jobs, ProveFails(j)
        PROVE  ProofInv'
    BY <1>4 DEF ProveFails, Removed, Left
  <1>5. ASSUME NEW j \in SubmitJobs, Verified(j)
        PROVE  ProofInv'
    BY <1>5 DEF Verified
  <1>6. ASSUME NEW j \in SubmitJobs, VerifyFails(j)
        PROVE  ProofInv'
    BY <1>6 DEF VerifyFails, Removed, Left
  <1>7. ASSUME NEW j \in SubmitJobs, StartCheck(j) \/ CheckFails(j)
        PROVE  ProofInv'
    BY <1>7 DEF StartCheck, CheckFails
  <1>8. ASSUME NEW j \in SubmitJobs, NEW status \in ProofStatus, CheckEnds(j, status)
        PROVE  ProofInv'
    BY <1>8 DEF CheckEnds
  <1>9. CASE Crash
    BY <1>9 DEF Crash
  <1>10. QED
    BY <1>1, <1>2, <1>3, <1>4, <1>5, <1>6, <1>7, <1>8, <1>9
       DEF ProverNext, BlockedTick, LoopRuns, allVars, proverVars

\* While provers and status queries block the event loop, only calls that
\* became due behind one can decide a probe they are not part of.
THEOREM BlockedBreaker == ProverSpec => []OnlyBlockedCallsAreStale
  <1>1. ProverSpec => []BlockedInv
    BY ProverStarts, StepKeepsBlockedInv, PTL DEF ProverSpec
  <1>2. QED
    BY <1>1, PTL DEF BlockedInv

\* The status and the counter never disagree, behind a blocked event loop and
\* over restarts either.
THEOREM BlockedStatusMatchesCounter == ProverSpec => []ClosedBelowThreshold
  <1>1. ProverSpec => []BlockedInv
    BY ProverStarts, StepKeepsBlockedInv, PTL DEF ProverSpec
  <1>2. QED
    BY <1>1, PTL DEF BlockedInv

\* withResilience keeps its fields in range behind a blocked event loop, and
\* over restarts.
THEOREM BreakerTypes == ProverSpec => []BreakerTypeOK
  <1>1. ProverSpec => []BlockedInv
    BY ProverStarts, StepKeepsBlockedInv, PTL DEF ProverSpec
  <1>2. QED
    BY <1>1, PTL DEF BlockedInv

\* submitProof and generateWithdrawProof leave no unverified row, and their
\* arguments file only when the process died under them or every attempt to
\* unlink it failed.
THEOREM ArgumentsFilesExplained == ProverSpec => []JobsLeaveVerifiedProofs
  <1>1. ProverSpec => []ProofInv
    BY ProverStarts, StepKeepsProofInv, PTL DEF ProverSpec
  <1>2. QED
    BY <1>1, PTL DEF ProofInv
=============================================================================
