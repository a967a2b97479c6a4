------------------------------- MODULE Prover -------------------------------
(***************************************************************************)
(* SharpService: the STARK prover, and the status query of the proving     *)
(* service, that the backend runs with spawnSync in the event loop that    *)
(* also serves the RPC calls of CircuitBreaker.  While such a command runs *)
(* (30 to 60 s for a prover) no callback is called: time passes, answers   *)
(* and timers queue up, and withResilience sees both afterwards.           *)
(*                                                                         *)
(* Of the files only the arguments file is modelled, the one that the code *)
(* writes and means to remove.  scarb's own output directory               *)
(* (cairo2_proof/target/execute: air_private_input.json, memory.bin) holds *)
(* the operands of every run as well, and no code removes it.              *)
(***************************************************************************)
EXTENDS CircuitBreaker

CONSTANTS
    SubmitJobs,     \* submitProof: POST /api/sharp/submit and commitment/deposit
    WithdrawJobs,   \* generateWithdrawProof: POST /api/vault/withdraw
    MaxCrashes      \* bound: restarts of the process

Jobs == SubmitJobs \cup WithdrawJobs

VARIABLES
    phase,          \* what becomes of each job
    checking,       \* the job whose status cairo-sharp is asked, if any
    argsFiles,      \* jobs whose arguments file, secret included, is on disk
    unlinkFailed,   \* jobs whose arguments file the last unlink left there
    sharp_proofs,   \* status of the row of each job, "none" without a row
    verified,       \* jobs whose proof scarb verify accepted
    overdue,        \* calls whose timer was due while the loop was blocked
    killed,         \* jobs whose prover ran when the process ended
    crashes

files == <<argsFiles, unlinkFailed>>
proverVars == <<phase, checking, files, sharp_proofs, verified, killed, crashes>>
allVars == <<vars, proverVars, overdue>>

ProofStatus == {"PROCESSED", "ONCHAIN", "FAILED", "IN_PROGRESS"}

Running == {j \in Jobs : phase[j] \in {"proving", "verifying"}}
Blocked == Running # {} \/ checking # {}

ProverInit ==
    /\ Init
    /\ phase = [j \in Jobs |-> "idle"]
    /\ checking = {}
    /\ argsFiles = {}
    /\ unlinkFailed = {}
    /\ sharp_proofs = [j \in SubmitJobs |-> "none"]
    /\ verified = {}
    /\ overdue = {}
    /\ killed = {}
    /\ crashes = 0

-----------------------------------------------------------------------------
\* The arguments file is written and scarb prove is spawned.
StartProof(j) ==
    /\ ~Blocked
    /\ phase[j] = "idle"
    /\ phase' = [phase EXCEPT ![j] = "proving"]
    /\ argsFiles' = argsFiles \cup {j}
    /\ UNCHANGED <<vars, checking, unlinkFailed, sharp_proofs, verified, overdue, killed, crashes>>

Removed(j) ==
    /\ argsFiles' = argsFiles \ {j}
    /\ unlinkFailed' = unlinkFailed \ {j}

\* unlinkSync threw, and its exception is dropped.
Left(j) ==
    /\ argsFiles' = argsFiles
    /\ unlinkFailed' = unlinkFailed \cup (argsFiles \cap {j})

\* scarb prove exits with 0 and names its proof.  submitProof, which drops
\* the exception of a failing unlink, spawns scarb verify next.
\* generateWithdrawProof throws on one; else it returns the proof, which the
\* withdrawal logs and drops.
Proved(j) ==
    /\ phase[j] = "proving"
    /\ Removed(j) \/ (j \in SubmitJobs /\ Left(j))
    /\ phase' = [phase EXCEPT ![j] = IF j \in SubmitJobs THEN "verifying" ELSE "done"]
    /\ UNCHANGED <<vars, checking, sharp_proofs, verified, overdue, killed, crashes>>

\* Faulty variant: the arguments file is only removed when the proof was made.
ProveFailsKeepsFile(j) ==
    /\ phase[j] = "proving"
    /\ phase' = [phase EXCEPT ![j] = "failed"]
    /\ UNCHANGED <<vars, checking, files, sharp_proofs, verified, overdue, killed, crashes>>

\* scarb prove fails, its output names no proof, or generateWithdrawProof
\* cannot unlink or read: the catch block tries to remove the file (again).
ProveFails(j) ==
    /\ phase[j] = "proving"
    /\ Removed(j) \/ Left(j)
    /\ phase' = [phase EXCEPT ![j] = "failed"]
    /\ UNCHANGED <<vars, checking, sharp_proofs, verified, overdue, killed, crashes>>

\* scarb verify accepts: the row is inserted.
Verified(j) ==
    /\ phase[j] = "verifying"
    /\ verified' = verified \cup {j}
    /\ sharp_proofs' = [sharp_proofs EXCEPT ![j] = "PROCESSED"]
    /\ phase' = [phase EXCEPT ![j] = "done"]
    /\ UNCHANGED <<vars, checking, files, overdue, killed, crashes>>

\* scarb verify rejects: the catch block again.
VerifyFails(j) ==
    /\ phase[j] = "verifying"
    /\ Removed(j) \/ Left(j)
    /\ phase' = [phase EXCEPT ![j] = "failed"]
    /\ UNCHANGED <<vars, checking, sharp_proofs, verified, overdue, killed, crashes>>

\* GET /api/sharp/status: checkProofStatus spawns cairo-sharp status, which
\* asks a service over the network, for a job with or without a row.
StartCheck(j) ==
    /\ ~Blocked
    /\ checking' = {j}
    /\ UNCHANGED <<vars, phase, files, sharp_proofs, verified, overdue, killed, crashes>>

\* Whatever cairo-sharp prints is written to the row, if there is one.
CheckEnds(j, status) ==
    /\ j \in checking
    /\ checking' = {}
    /\ sharp_proofs' = [sharp_proofs EXCEPT ![j] = IF @ = "none" THEN "none" ELSE status]
    /\ UNCHANGED <<vars, phase, files, verified, overdue, killed, crashes>>

\* The tool is missing or fails: nothing is written.
CheckFails(j) ==
    /\ j \in checking
    /\ checking' = {}
    /\ UNCHANGED <<vars, phase, files, sharp_proofs, verified, overdue, killed, crashes>>

-----------------------------------------------------------------------------
\* Time passes behind the blocked event loop: timers become due and none
\* fires.
BlockedTick ==
    /\ Blocked
    /\ left' = [c \in Calls |->
                  IF c \in waiting /\ left[c] > 0 THEN left[c] - 1 ELSE left[c]]
    /\ resetIn' = IF resetIn > 0 THEN resetIn - 1 ELSE 0
    /\ overdue' = overdue \cup {c \in waiting : left[c] = 0}
    /\ UNCHANGED <<circuitStatus, consecutiveFailures, waiting, probes, proverVars>>

\* The event loop runs a callback or waits.  After a block it may run new
\* requests of the same round before the timers that are due, and an answer
\* that came too late before its timer.
LoopRuns ==
    /\ ~Blocked
    /\ Next
    /\ overdue' = overdue \cap waiting'
    /\ UNCHANGED proverVars

\* The process ends and starts again: static fields and calls are gone, the
\* files and the table stay.
Crash ==
    /\ crashes < MaxCrashes
    /\ crashes' = crashes + 1
    /\ circuitStatus' = "CLOSED" /\ consecutiveFailures' = 0 /\ resetIn' = 0
    /\ waiting' = {} /\ left' = [c \in Calls |-> 0] /\ probes' = {}
    /\ overdue' = {}
    /\ killed' = killed \cup Running
    /\ checking' = {}
    /\ phase' = [j \in Jobs |-> IF j \in Running THEN "failed" ELSE phase[j]]
    /\ UNCHANGED <<files, sharp_proofs, verified>>

ProverNext ==
    \/ \E j \in Jobs : StartProof(j)
    \/ \E j \in Jobs : Proved(j)
    \/ \E j \in Jobs : ProveFails(j)
    \/ \E j \in SubmitJobs : Verified(j)
    \/ \E j \in SubmitJobs : VerifyFails(j)
    \/ \E j \in SubmitJobs : StartCheck(j)
    \/ \E j \in SubmitJobs, status \in ProofStatus : CheckEnds(j, status)
    \/ \E j \in SubmitJobs : CheckFails(j)
    \/ BlockedTick
    \/ LoopRuns
    \/ Crash

\* The clock and the due timers of the loop.
LoopTick == ~Blocked /\ Tick /\ UNCHANGED <<proverVars, overdue>>
LoopTimeout(c) ==
    /\ ~Blocked
    /\ Timeout(c)
    /\ overdue' = overdue \cap waiting'
    /\ UNCHANGED proverVars

\* Time goes on, blocked or not.  A timer that is due fires once the loop
\* runs again and again, however often it is blocked in between: each round of
\* Node's loop runs the due timers before it takes the next request, hence SF.
\* spawnSync has no timeout here: that scarb and cairo-sharp end, the latter
\* over a network, is an assumption about them and not what the code sees to.
ProverFairness ==
    /\ WF_allVars(LoopTick \/ BlockedTick)
    /\ \A c \in Calls : SF_allVars(LoopTimeout(c))
    /\ \A j \in Jobs : WF_allVars(Proved(j) \/ ProveFails(j))
    /\ \A j \in SubmitJobs :
        /\ WF_allVars(Verified(j) \/ VerifyFails(j))
        /\ WF_allVars(CheckFails(j) \/ \E status \in ProofStatus : CheckEnds(j, status))

ProverSpec == ProverInit /\ [][ProverNext]_allVars /\ ProverFairness

-----------------------------------------------------------------------------
(***************************************************************************)
(* A blocked event loop breaks ProbesAreFresh: the reset time runs out     *)
(* while calls from before the trip still wait.  Those calls are the only  *)
(* ones: a call whose timer never came due behind a prover or a status     *)
(* query is never under way at a probe that it is not part of.             *)
(***************************************************************************)
OnlyBlockedCallsAreStale ==
    circuitStatus = "HALF-OPEN" => waiting \subseteq (probes \cup overdue)

Proving == {j \in Jobs : phase[j] = "proving"}

(***************************************************************************)
(* What a job leaves behind: a row only for a proof that scarb verified,   *)
(* whatever a status query wrote since, and its arguments file, with the   *)
(* raw secret, only while scarb prove runs, when the process died under    *)
(* the job, or when the last attempt to unlink it failed.                  *)
(***************************************************************************)
JobsLeaveVerifiedProofs ==
    /\ \A j \in SubmitJobs : sharp_proofs[j] # "none" => j \in verified
    /\ argsFiles \subseteq Proving \cup killed \cup unlinkFailed
=============================================================================
