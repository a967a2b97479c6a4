---------------------------- MODULE MCWithdrawal ----------------------------
(* Small instances of the withdrawal pipeline.                             *)
EXTENDS Withdrawal, TLC

CONSTANTS v1, v2, r1, r2, r3, f1, proc1, null

TwoVaults == {v1, v2}
OneVault == {v1}

OneRequest == r1 :> v1
\* Two requests race for one vault.
RaceOnOneVault == r1 :> v1 @@ r2 :> v1
\* A vault asked for once beside one with two requests.
OnceAndRace == r1 :> v1 @@ r2 :> v2 @@ r3 :> v2
\* A request and a forced payout on one vault.
RequestAndForce == r1 :> v1 @@ f1 :> v1
=============================================================================
