----------------------------- MODULE E2EDriver -----------------------------
(***************************************************************************)
(* run_e2e_tests.py: main() drives the E2E suite through a TerminalSession *)
(* named "choiros-e2e".  It kills any session of that name left from an    *)
(* earlier run, opens the session, starts backend, frontend and browser in *)
(* windows of their own (waiting for each health endpoint), starts the     *)
(* test in a fourth window and polls it until it reports completion or     *)
(* TEST_TIMEOUT passes, then prints every window's output.                 *)
(*                                                                          *)
(* tmux is abstracted to the number of windows with each name in the      *)
(* session and whether the session exists; session.windows to the set of  *)
(* its keys.  An HTTP health check is one step whose outcome the servers   *)
(* decide.  The sleeps and prints only take time.                          *)
(***************************************************************************)
EXTENDS Naturals

CONSTANTS
    MonitorPolls   \* iterations the monitor loop fits in TEST_TIMEOUT (300 / 2)

ASSUME E2EAssumption == MonitorPolls \in Nat

\* The windows main() adds, in order.
Backend == "backend"
Frontend == "frontend"
Browser == "browser"
E2ETest == "e2e-test"
E2ENames == {Backend, Frontend, Browser, E2ETest}

VARIABLES
    e2ePc,        \* where main() is
    sessLive,     \* tmux has a session "choiros-e2e"
    tmuxWins,     \* tmuxWins[n]: windows named n in that session
    winDict,      \* keys of session.windows
    polls,        \* iterations of the monitor loop so far
    testDone,     \* the test has printed "Test completed successfully"
    testComplete, \* main's test_complete
    exitCode      \* what main() returned (or sys.exit(1) on Ctrl-C)

e2eVars == <<e2ePc, sessLive, tmuxWins, winDict, polls, testDone,
             testComplete, exitCode>>

E2EPcs == {"cleanup", "create", "backend", "backendHealth", "frontend",
           "frontendHealth", "browser", "browserHealth", "test", "monitor",
           "report", "done"}

E2ETypeOK ==
    /\ e2ePc \in E2EPcs
    /\ sessLive \in BOOLEAN
    /\ tmuxWins \in [E2ENames -> Nat]
    /\ winDict \subseteq E2ENames
    /\ polls \in 0..MonitorPolls
    /\ testDone \in BOOLEAN /\ testComplete \in BOOLEAN
    /\ exitCode \in {0, 1}

\* The session of an earlier run may still be there, with its windows.
E2EInit ==
    /\ e2ePc = "cleanup"
    /\ sessLive \in BOOLEAN
    /\ tmuxWins \in [E2ENames -> IF sessLive THEN {0, 1} ELSE {0}]
    /\ winDict = {}
    /\ polls = 0 /\ testDone = FALSE /\ testComplete = FALSE
    /\ exitCode = 0

\* tmux kill-session: the session and every window in it are gone.
KillSession ==
    sessLive' = FALSE /\ tmuxWins' = [n \in E2ENames |-> 0]

-----------------------------------------------------------------------------
\* Mutant: the kill-session call fails and the old session survives.
CleanupFails ==
    /\ e2ePc = "cleanup"
    /\ e2ePc' = "create"
    /\ UNCHANGED <<sessLive, tmuxWins, winDict, polls, testDone,
                   testComplete, exitCode>>

(* Lines 51-57: "tmux kill-session -t choiros-e2e", its result ignored.    *)
Cleanup ==
    /\ e2ePc = "cleanup"
    /\ KillSession
    /\ e2ePc' = "create"
    /\ UNCHANGED <<winDict, polls, testDone, testComplete, exitCode>>

(* Line 61: TerminalSession("choiros-e2e", ...); _ensure_session creates   *)
(* the session only when has-session fails, and the dict starts empty.     *)
CreateSession ==
    /\ e2ePc = "create"
    /\ sessLive' = TRUE
    /\ e2ePc' = "backend"
    /\ UNCHANGED <<tmuxWins, winDict, polls, testDone, testComplete, exitCode>>

\* The phase after adding window n, and after its health check.
AddedTo(n) ==
    CASE n = Backend -> "backendHealth" [] n = Frontend -> "frontendHealth"
      [] n = Browser -> "browserHealth" [] n = E2ETest -> "monitor"
PhaseOf(n) ==
    CASE n = Backend -> "backend" [] n = Frontend -> "frontend"
      [] n = Browser -> "browser" [] n = E2ETest -> "test"

(* session.add_window(n, cmd) (lines 75, 94, 113, 134): the dict check,    *)
(* then new-window -n n, which adds a window whatever tmux already has.    *)
AddE2EWindow(n) ==
    /\ e2ePc = PhaseOf(n)
    /\ n \notin winDict
    /\ tmuxWins' = [tmuxWins EXCEPT ![n] = @ + 1]
    /\ winDict' = winDict \cup {n}
    /\ e2ePc' = AddedTo(n)
    /\ UNCHANGED <<sessLive, polls, testDone, testComplete, exitCode>>

\* Mutant: a failed health check kills the session but returns 0.
ServerHealthExitZero(phase, next) ==
    /\ e2ePc = phase
    /\ \/ e2ePc' = next /\ UNCHANGED <<sessLive, tmuxWins, exitCode>>
       \/ KillSession /\ exitCode' = 0 /\ e2ePc' = "done"
    /\ UNCHANGED <<winDict, polls, testDone, testComplete>>

(* check_health_endpoint (lines 28-43) for backend and frontend (lines     *)
(* 78-88, 97-107): healthy goes on; otherwise capture the window's output, *)
(* session.kill() and return 1.                                            *)
ServerHealth(phase, next) ==
    /\ e2ePc = phase
    /\ \/ e2ePc' = next /\ UNCHANGED <<sessLive, tmuxWins, exitCode>>
       \/ KillSession /\ exitCode' = 1 /\ e2ePc' = "done"
    /\ UNCHANGED <<winDict, polls, testDone, testComplete>>

(* Lines 116-128: the browser server's health is only reported; main goes *)
(* on either way after sleeping 5 s.                                       *)
BrowserHealth ==
    /\ e2ePc = "browserHealth"
    /\ e2ePc' = "test"
    /\ UNCHANGED <<sessLive, tmuxWins, winDict, polls, testDone,
                   testComplete, exitCode>>

\* Mutant: the monitor loop never consults TEST_TIMEOUT.
MonitorUnbounded ==
    /\ e2ePc = "monitor"
    /\ IF tmuxWins[E2ETest] > 0 /\ testDone
       THEN testComplete' = TRUE /\ e2ePc' = "report"
       ELSE UNCHANGED <<testComplete, e2ePc>>
    /\ UNCHANGED <<sessLive, tmuxWins, winDict, polls, testDone, exitCode>>

(* One iteration of the monitor loop (lines 142-171): past TEST_TIMEOUT   *)
(* the loop ends; otherwise capture the test's window, and if list_windows *)
(* shows it and its last 100 lines hold the completion message, set        *)
(* test_complete and break.                                                *)
Monitor ==
    /\ e2ePc = "monitor"
    /\ IF polls = MonitorPolls
       THEN e2ePc' = "report" /\ UNCHANGED <<polls, testComplete>>
       ELSE /\ polls' = polls + 1
            /\ IF tmuxWins[E2ETest] > 0 /\ testDone
               THEN testComplete' = TRUE /\ e2ePc' = "report"
               ELSE UNCHANGED <<testComplete, e2ePc>>
    /\ UNCHANGED <<sessLive, tmuxWins, winDict, testDone, exitCode>>

(* Lines 173-244: print every window's output, the screenshots and the    *)
(* session's windows, leave the session running and return 0, whether or  *)
(* not the test completed.                                                 *)
Report ==
    /\ e2ePc = "report"
    /\ e2ePc' = "done" /\ exitCode' = 0
    /\ UNCHANGED <<sessLive, tmuxWins, winDict, polls, testDone, testComplete>>

(* Lines 247-254: Ctrl-C anywhere in main() leaves the session as it is   *)
(* and exits 1.                                                            *)
Interrupt ==
    /\ e2ePc # "done"
    /\ e2ePc' = "done" /\ exitCode' = 1
    /\ UNCHANGED <<sessLive, tmuxWins, winDict, polls, testDone, testComplete>>

\* The test in its window prints its completion message.
TestFinishes ==
    /\ e2ePc = "monitor" /\ ~testDone
    /\ testDone' = TRUE
    /\ UNCHANGED <<e2ePc, sessLive, tmuxWins, winDict, polls, testComplete,
                   exitCode>>

DriverStep ==
    \/ Cleanup \/ CreateSession
    \/ \E n \in E2ENames : AddE2EWindow(n)
    \/ ServerHealth("backendHealth", "frontend")
    \/ ServerHealth("frontendHealth", "browser")
    \/ BrowserHealth \/ Monitor \/ Report

E2ENext == DriverStep \/ Interrupt \/ TestFinishes

E2ESpec == E2EInit /\ [][E2ENext]_e2eVars /\ WF_e2eVars(DriverStep)

-----------------------------------------------------------------------------
(* Each window name appears at most once in the session, although main()  *)
(* opens it with a fresh dict over whatever an earlier run left behind:    *)
(* the kill-session before TerminalSession() removes the old windows, so   *)
(* add_window's dict-only duplicate check is enough.                       *)
NoDuplicateWindows == \A n \in E2ENames : tmuxWins[n] <= 1

(* main() always returns: both health checks and the monitor loop are      *)
(* bounded by their timeouts.                                              *)
E2ETerminates == <>(e2ePc = "done")

(* The abstract run E2ERun seen through the driver's state: main() is in   *)
(* setup until the monitor loop ends, "running" while it reports, and      *)
(* "done" once it has returned; the windows up are those both in           *)
(* session.windows and in tmux.                                            *)
E2EAbs == INSTANCE E2ERun WITH
    Windows <- E2ENames,
    stage <- IF e2ePc = "done" THEN "done"
             ELSE IF e2ePc = "report" THEN "running" ELSE "setup",
    started <- {n \in winDict : tmuxWins[n] > 0},
    result <- exitCode

(* run_e2e_tests.py implements what an E2E run promises: it starts each of *)
(* its four windows once, returns 0 only after all four were up, and when  *)
(* a health check fails it leaves no window of the run behind.             *)
ImplementsE2ERun == E2EAbs!RunSpec
=============================================================================
