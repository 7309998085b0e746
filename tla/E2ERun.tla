------------------------------ MODULE E2ERun ------------------------------
(***************************************************************************)
(* What a run of the E2E suite promises, whatever drives it: the windows   *)
(* are started one at a time, each once; a failed setup ends the run with  *)
(* exit code 1 and nothing left running; the suite runs only once every    *)
(* window is up, and exit code 0 is given only after it ran.  Ctrl-C may   *)
(* end the run at any point with exit code 1.                              *)
(***************************************************************************)
CONSTANT Windows   \* the windows the run needs

VARIABLES
    stage,     \* "setup", "running" or "done"
    started,   \* the windows up in the run's session
    result     \* the exit code, once stage = "done"

runVars == <<stage, started, result>>

RunInit == stage = "setup" /\ started = {} /\ result = 0

StartWindow(n) ==
    /\ stage = "setup" /\ n \in Windows \ started
    /\ started' = started \cup {n}
    /\ UNCHANGED <<stage, result>>

FailSetup ==
    /\ stage = "setup"
    /\ stage' = "done" /\ started' = {} /\ result' = 1

RunSuite ==
    /\ stage = "setup" /\ started = Windows
    /\ stage' = "running"
    /\ UNCHANGED <<started, result>>

Finish ==
    /\ stage = "running"
    /\ stage' = "done" /\ result' = 0
    /\ UNCHANGED started

Abort ==
    /\ stage # "done"
    /\ stage' = "done" /\ result' = 1
    /\ UNCHANGED started

RunNext ==
    \/ \E n \in Windows : StartWindow(n)
    \/ FailSetup \/ RunSuite \/ Finish \/ Abort

RunSpec == RunInit /\ [][RunNext]_runVars

(* Exit code 0 is given only by a run whose suite ran with every window    *)
(* up: a failed setup and Ctrl-C both give 1.                              *)
SuccessAfterSuite == stage = "done" /\ result = 0 => started = Windows

\* The suite runs only with every window up; with that, SuccessAfterSuite
\* is inductive.
RunInv == /\ stage = "running" => started = Windows
          /\ SuccessAfterSuite
=============================================================================
