--------------------------- MODULE CircuitBreaker ---------------------------
(***************************************************************************)
(* StarknetService.withResilience: every RPC call of the backend goes      *)
(* through it.  It refuses calls while the circuit is OPEN, races each     *)
(* call against an 8 s timer, counts failures and trips the circuit, and   *)
(* probes again 60 s later.  Calls of different requests overlap, and all  *)
(* of them read and write the same three static fields.                    *)
(*                                                                         *)
(* Time is a number of ticks.  nextAttemptAt is kept as the time that is   *)
(* left until it, and each call keeps the time left on its own timer.      *)
(***************************************************************************)
EXTENDS Naturals

CONSTANTS
    Calls,          \* calls that may be under way at the same time
    THRESHOLD,      \* failures in a row that trip the circuit
    RPC_TIMEOUT,    \* ticks a call may take
    RESET_TIMEOUT   \* ticks before a tripped circuit is probed

\* 8 s against 60 s.
ASSUME BreakerConstants ==
    /\ THRESHOLD \in Nat \ {0}
    /\ RPC_TIMEOUT \in Nat \ {0}
    /\ RESET_TIMEOUT \in Nat
    /\ RPC_TIMEOUT < RESET_TIMEOUT

VARIABLES
    circuitStatus,
    consecutiveFailures,
    resetIn,        \* nextAttemptAt - now, 0 once it has passed
    waiting,        \* calls whose Promise.race is pending
    left,           \* ticks until the timer of each call fires
    probes          \* calls that began while the circuit was HALF-OPEN

vars == <<circuitStatus, consecutiveFailures, resetIn, waiting, left, probes>>

CircuitStatus == {"CLOSED", "OPEN", "HALF-OPEN"}

\* What a call may throw, by what the message says once the service has
\* rewritten it.  "funding": a balance too small, which withdraw,
\* executeDeposit and executeSpvDeposit rethrow as 'INSUFFICIENT SEPOLIA ETH'.
\* "application": the messages of the isApplicationError list.
Errors == {"network", "application", "funding", "unknown"}

Init ==
    /\ circuitStatus = "CLOSED"
    /\ consecutiveFailures = 0
    /\ resetIn = 0
    /\ waiting = {}
    /\ left = [c \in Calls |-> 0]
    /\ probes = {}

-----------------------------------------------------------------------------
\* Only messages of the isApplicationError list are spared; what is in
\* neither list is counted like a network error.  The upper-case funding
\* message is in neither.
CountsAsFailure(e) == e # "application"

\* The counter is only ever compared with THRESHOLD, so it saturates there.
OneMore(f) == IF f < THRESHOLD THEN f + 1 ELSE f

\* consecutiveFailures >= THRESHOLD, after the increment.
Trips(f) == f + 1 >= THRESHOLD

\* Faulty variant: a refused call starts the waiting time afresh.
RefuseExtends(c) ==
    /\ c \notin waiting
    /\ circuitStatus = "OPEN" /\ resetIn > 0
    /\ resetIn' = RESET_TIMEOUT
    /\ UNCHANGED <<circuitStatus, consecutiveFailures, waiting, left, probes>>

\* The circuit is OPEN: the call throws before its try block and is not
\* counted.
Refuse(c) ==
    /\ c \notin waiting
    /\ circuitStatus = "OPEN" /\ resetIn > 0
    /\ UNCHANGED vars

\* Faulty variant: the first call after a trip is let through at once.
BeginEarly(c) ==
    /\ c \notin waiting
    /\ circuitStatus' = IF circuitStatus = "OPEN" THEN "HALF-OPEN" ELSE circuitStatus
    /\ waiting' = waiting \cup {c}
    /\ left' = [left EXCEPT ![c] = RPC_TIMEOUT]
    /\ probes' = IF circuitStatus' = "HALF-OPEN" THEN probes \cup {c} ELSE probes \ {c}
    /\ UNCHANGED <<consecutiveFailures, resetIn>>

\* Faulty variant: the race is run against the reset time.
BeginWithResetTimer(c) ==
    /\ c \notin waiting
    /\ circuitStatus = "OPEN" => resetIn = 0
    /\ circuitStatus' = IF circuitStatus = "OPEN" THEN "HALF-OPEN" ELSE circuitStatus
    /\ waiting' = waiting \cup {c}
    /\ left' = [left EXCEPT ![c] = RESET_TIMEOUT]
    /\ probes' = IF circuitStatus' = "HALF-OPEN" THEN probes \cup {c} ELSE probes \ {c}
    /\ UNCHANGED <<consecutiveFailures, resetIn>>

\* The call is sent and its timer starts.  The first call after nextAttemptAt
\* half-opens the circuit; every call is let through while it is HALF-OPEN.
Begin(c) ==
    /\ c \notin waiting
    /\ circuitStatus = "OPEN" => resetIn = 0
    /\ circuitStatus' = IF circuitStatus = "OPEN" THEN "HALF-OPEN" ELSE circuitStatus
    /\ waiting' = waiting \cup {c}
    /\ left' = [left EXCEPT ![c] = RPC_TIMEOUT]
    /\ probes' = IF circuitStatus' = "HALF-OPEN" THEN probes \cup {c} ELSE probes \ {c}
    /\ UNCHANGED <<consecutiveFailures, resetIn>>

\* The call leaves the race.
Settle(c) ==
    /\ c \in waiting
    /\ waiting' = waiting \ {c}
    /\ UNCHANGED <<left, probes>>

\* Faulty variant: a success closes the circuit and keeps the count.
SucceedKeepsCount(c) ==
    /\ Settle(c)
    /\ circuitStatus' = "CLOSED"
    /\ UNCHANGED <<consecutiveFailures, resetIn>>

\* Any success closes the circuit, even one that was sent before it tripped.
Succeed(c) ==
    /\ Settle(c)
    /\ consecutiveFailures' = 0
    /\ circuitStatus' = "CLOSED"
    /\ UNCHANGED resetIn

\* The two counting branches of the catch block do the same.
CountFailure ==
    /\ consecutiveFailures' = OneMore(consecutiveFailures)
    /\ IF Trips(consecutiveFailures)
       THEN circuitStatus' = "OPEN" /\ resetIn' = RESET_TIMEOUT
       ELSE UNCHANGED <<circuitStatus, resetIn>>

\* fn rejects.
Fail(c, e) ==
    /\ Settle(c)
    /\ IF CountsAsFailure(e)
       THEN CountFailure
       ELSE UNCHANGED <<circuitStatus, consecutiveFailures, resetIn>>

\* The timer rejects first: 'RPC request timed out', a network error.
Timeout(c) ==
    /\ left[c] = 0
    /\ Settle(c)
    /\ CountFailure

\* Time passes.  The event loop runs a timer that is due before it lets more
\* time pass.
Tick ==
    /\ \A c \in waiting : left[c] > 0
    /\ left' = [c \in Calls |-> IF c \in waiting THEN left[c] - 1 ELSE left[c]]
    /\ resetIn' = IF resetIn > 0 THEN resetIn - 1 ELSE 0
    /\ UNCHANGED <<circuitStatus, consecutiveFailures, waiting, probes>>

Next ==
    \/ \E c \in Calls : Refuse(c)
    \/ \E c \in Calls : Begin(c)
    \/ \E c \in Calls : Succeed(c)
    \/ \E c \in Calls, e \in Errors : Fail(c, e)
    \/ \E c \in Calls : Timeout(c)
    \/ Tick

\* Nobody is obliged to call, and no call is obliged to be answered; a timer
\* that is due fires, and time goes on.
Fairness ==
    /\ WF_vars(Tick)
    /\ \A c \in Calls : WF_vars(Timeout(c))

Spec == Init /\ [][Next]_vars /\ Fairness

-----------------------------------------------------------------------------
(***************************************************************************)
(* Types: withResilience keeps its fields in range, and no timer is ever   *)
(* set to more than RPC_TIMEOUT.                                           *)
(***************************************************************************)
BreakerTypeOK ==
    /\ circuitStatus \in CircuitStatus
    /\ consecutiveFailures \in 0 .. THRESHOLD
    /\ resetIn \in 0 .. RESET_TIMEOUT
    /\ waiting \subseteq Calls
    /\ left \in [Calls -> 0 .. RPC_TIMEOUT]
    /\ probes \subseteq Calls

(***************************************************************************)
(* The circuit lets calls through freely exactly while fewer than          *)
(* THRESHOLD failures in a row have been counted: the status and the       *)
(* counter, which overlapping calls update from different branches of      *)
(* withResilience, never disagree.                                         *)
(***************************************************************************)
ClosedBelowThreshold ==
    circuitStatus = "CLOSED" <=> consecutiveFailures < THRESHOLD

(***************************************************************************)
(* While the circuit is HALF-OPEN every call under way began as a probe:   *)
(* the answer to a call sent before the trip never decides whether the     *)
(* circuit closes or opens again.  It rests on RPC_TIMEOUT being shorter   *)
(* than RESET_TIMEOUT, and on a late failure pushing nextAttemptAt back.   *)
(***************************************************************************)
ProbesAreFresh ==
    circuitStatus = "HALF-OPEN" => waiting \subseteq probes

(***************************************************************************)
(* An OPEN circuit does not refuse for ever: nextAttemptAt passes, though  *)
(* calls that were under way at the trip may each push it back and refused *)
(* calls keep arriving.                                                    *)
(***************************************************************************)
OpenExpires ==
    circuitStatus = "OPEN" ~> (circuitStatus # "OPEN" \/ resetIn = 0)
=============================================================================
