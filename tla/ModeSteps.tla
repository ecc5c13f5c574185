----------------------------- MODULE ModeSteps ------------------------------
(***************************************************************************)
(* The position of runModeLoop inside one benchmark mode of one pair.      *)
(* Remote commands and waits fail by spending a fault, and a command that  *)
(* fails may have had its effect: only its answer was lost.                *)
(***************************************************************************)
EXTENDS Naturals, Sequences

CONSTANT MaxFaults  \* bound on failing commands and waits of a mode loop

ASSUME MaxFaultsAssumption == MaxFaults \in Nat

VARIABLES
    mode,   \* the mode under way, "none" between modes
    at,     \* the next step of it
    bad,    \* an error that the mode will be failed with later
    faults

steps == <<mode, at, bad, faults>>

At(step) == at = step
Goto(step) == at' = step /\ UNCHANGED mode
Fault == faults < MaxFaults /\ faults' = faults + 1

\* The step succeeds and step follows.
Then(step) == Goto(step) /\ UNCHANGED <<bad, faults>>

\* The step fails, and with it the mode.
FailMode == Goto("failed") /\ Fault /\ UNCHANGED bad

\* A wait for something that has not come fails of itself.
TimedOut == Goto("failed") /\ UNCHANGED <<bad, faults>>

\* A step whose error is kept until the ones after it have been taken.
Deferred(step) ==
    /\ Goto(step)
    /\ \/ UNCHANGED <<bad, faults>>
       \/ Fault /\ bad' = TRUE
=============================================================================
