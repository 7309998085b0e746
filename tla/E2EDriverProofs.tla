--------------------------- MODULE E2EDriverProofs ---------------------------
(***************************************************************************)
(* Proofs about run_e2e_tests.py's main(), for every MonitorPolls: no      *)
(* window name is ever doubled in the session, and the driver implements   *)
(* the abstract run E2ERun under the mapping E2EAbs.                        *)
(***************************************************************************)
EXTENDS E2EDriver, TLAPS

USE E2EAssumption

(* The windows session.windows holds at each point of main(): the dict     *)
(* grows by one name per add_window, in the order main() adds them.        *)
WinsAt(pc) ==
    CASE pc \in {"cleanup", "create", "backend"} -> {}
      [] pc \in {"backendHealth", "frontend"} -> {Backend}
      [] pc \in {"frontendHealth", "browser"} -> {Backend, Frontend}
      [] pc \in {"browserHealth", "test"} -> {Backend, Frontend, Browser}
      [] pc \in {"monitor", "report"} -> E2ENames

(* The inductive invariant.  Before the clean-up and after main() returns, *)
(* tmux may hold one window of a name (left by an earlier run, or by this  *)
(* one when it was interrupted); in between, tmux holds exactly the        *)
(* windows of the dict, one each, because the clean-up killed the old      *)
(* session first.                                                          *)
E2EInv ==
    /\ E2ETypeOK
    /\ \A n \in E2ENames : tmuxWins[n] <= 1
    /\ e2ePc # "done" => winDict = WinsAt(e2ePc)
    /\ e2ePc \notin {"cleanup", "done"} =>
          \A n \in E2ENames : tmuxWins[n] = IF n \in winDict THEN 1 ELSE 0

\* The value of WinsAt at each point of main().
LEMMA WinsAtValues ==
    /\ WinsAt("cleanup") = {} /\ WinsAt("create") = {}
    /\ WinsAt("backend") = {}
    /\ WinsAt("backendHealth") = {Backend} /\ WinsAt("frontend") = {Backend}
    /\ WinsAt("frontendHealth") = {Backend, Frontend}
    /\ WinsAt("browser") = {Backend, Frontend}
    /\ WinsAt("browserHealth") = {Backend, Frontend, Browser}
    /\ WinsAt("test") = {Backend, Frontend, Browser}
    /\ WinsAt("monitor") = E2ENames /\ WinsAt("report") = E2ENames
BY DEF WinsAt

LEMMA E2EInitInv == E2EInit => E2EInv
<1> SUFFICES ASSUME E2EInit PROVE E2EInv
  OBVIOUS
<1>1. /\ e2ePc = "cleanup" /\ sessLive \in BOOLEAN /\ winDict = {}
      /\ polls = 0 /\ testDone = FALSE /\ testComplete = FALSE
      /\ exitCode = 0
  BY DEF E2EInit
<1>2. tmuxWins \in [E2ENames -> {0, 1}]
  BY DEF E2EInit
<1>3. tmuxWins \in [E2ENames -> Nat]
  <2>1. {0, 1} \subseteq Nat
    OBVIOUS
  <2> QED
    BY <1>2, <2>1, Zenon
<1>4. WinsAt("cleanup") = {}
  BY DEF WinsAt
<1>5. E2ETypeOK
  <2>1. e2ePc \in E2EPcs
    BY <1>1 DEF E2EPcs
  <2>2. polls \in 0..MonitorPolls
    BY <1>1
  <2>3. winDict \subseteq E2ENames /\ exitCode \in {0, 1}
    BY <1>1
  <2>4. testDone \in BOOLEAN /\ testComplete \in BOOLEAN
    BY <1>1
  <2> QED
    BY <1>1, <1>3, <2>1, <2>2, <2>3, <2>4 DEF E2ETypeOK
<1>6. \A n \in E2ENames : tmuxWins[n] <= 1
  BY <1>2
<1>7. e2ePc # "done" => winDict = WinsAt(e2ePc)
  BY <1>1, <1>4
<1>8. e2ePc \notin {"cleanup", "done"} =>
          \A n \in E2ENames : tmuxWins[n] = IF n \in winDict THEN 1 ELSE 0
  BY <1>1
<1> QED
  BY <1>5, <1>6, <1>7, <1>8 DEF E2EInv

LEMMA E2EStepInv == E2EInv /\ [E2ENext]_e2eVars => E2EInv'
<1> SUFFICES ASSUME E2EInv, [E2ENext]_e2eVars PROVE E2EInv'
  OBVIOUS
<1> USE WinsAtValues DEF E2EInv, E2ETypeOK, E2EPcs, E2ENames,
           Backend, Frontend, Browser, E2ETest
<1>1. CASE Cleanup
  <2>1. tmuxWins' = [n \in E2ENames |-> 0] /\ e2ePc' = "create"
        /\ winDict' = winDict /\ e2ePc = "cleanup"
    BY <1>1 DEF Cleanup, KillSession
  <2>2. UNCHANGED <<winDict, polls, testDone, testComplete, exitCode>>
        /\ sessLive' = FALSE
    BY <1>1 DEF Cleanup, KillSession
  <2>3. tmuxWins' \in [E2ENames -> Nat]
        /\ \A n \in E2ENames : tmuxWins'[n] = 0
    BY <2>1
  <2>4. E2ETypeOK'
    BY <2>1, <2>2, <2>3
  <2> QED
    BY <2>1, <2>3, <2>4
<1>2. CASE CreateSession
  BY <1>2 DEF CreateSession
<1>3. ASSUME NEW n \in E2ENames, AddE2EWindow(n) PROVE E2EInv'
  BY <1>3 DEF AddE2EWindow, PhaseOf, AddedTo
<1>4. CASE ServerHealth("backendHealth", "frontend")
  BY <1>4 DEF ServerHealth, KillSession
<1>5. CASE ServerHealth("frontendHealth", "browser")
  BY <1>5 DEF ServerHealth, KillSession
<1>6. CASE BrowserHealth
  BY <1>6 DEF BrowserHealth
<1>7. CASE Monitor
  <2>1. /\ e2ePc = "monitor" /\ e2ePc' \in {"monitor", "report"}
        /\ polls' \in 0..MonitorPolls
        /\ testComplete' \in BOOLEAN
        /\ UNCHANGED <<sessLive, tmuxWins, winDict, testDone, exitCode>>
    <3>1. CASE polls = MonitorPolls
      BY <1>7, <3>1 DEF Monitor
    <3>2. CASE polls # MonitorPolls
      <4>1. polls' = polls + 1 /\ polls + 1 \in 0..MonitorPolls
        BY <1>7, <3>2 DEF Monitor
      <4> QED
        BY <1>7, <3>2, <4>1 DEF Monitor
    <3> QED
      BY <3>1, <3>2
  <2> QED
    BY <2>1
<1>8. CASE Report
  BY <1>8 DEF Report
<1>9. CASE Interrupt
  BY <1>9 DEF Interrupt
<1>10. CASE TestFinishes
  BY <1>10 DEF TestFinishes
<1>11. CASE UNCHANGED e2eVars
  BY <1>11 DEF e2eVars
<1> QED
  BY <1>1, <1>2, <1>3, <1>4, <1>5, <1>6, <1>7, <1>8, <1>9, <1>10, <1>11
     DEF E2ENext, DriverStep

(* main() never puts a second window of a name into its session: the       *)
(* kill-session at its start clears what an earlier run left, and          *)
(* add_window's dict check covers the rest.                                *)
THEOREM NoDuplicateWindowsHolds == E2ESpec => []NoDuplicateWindows
<1>1. E2EInv => NoDuplicateWindows
  BY DEF E2EInv, NoDuplicateWindows
<1> QED
  BY <1>1, E2EInitInv, E2EStepInv, PTL DEF E2ESpec
-----------------------------------------------------------------------------
\* The abstract state E2EAbs maps a driver state to.
AbsStage == IF e2ePc = "done" THEN "done"
            ELSE IF e2ePc = "report" THEN "running" ELSE "setup"
AbsStarted == {n \in winDict : tmuxWins[n] > 0}

LEMMA RefineInit == E2EInit => E2EAbs!RunInit
<1> SUFFICES ASSUME E2EInit PROVE E2EAbs!RunInit
  OBVIOUS
<1>1. e2ePc = "cleanup" /\ winDict = {} /\ exitCode = 0
  BY DEF E2EInit
<1> QED
  BY <1>1 DEF E2EAbs!RunInit

(* Every step of main(), of Ctrl-C or of the test is a step of E2ERun or   *)
(* leaves its state as it is.                                              *)
LEMMA RefineStep ==
    E2EInv /\ E2EInv' /\ [E2ENext]_e2eVars
        => [E2EAbs!RunNext]_E2EAbs!runVars
<1> SUFFICES ASSUME E2EInv, E2EInv', [E2ENext]_e2eVars
             PROVE  [E2EAbs!RunNext]_E2EAbs!runVars
  OBVIOUS
<1> DEFINE Same == /\ AbsStage' = AbsStage /\ AbsStarted' = AbsStarted
                   /\ exitCode' = exitCode
<1>0. Same => [E2EAbs!RunNext]_E2EAbs!runVars
  BY DEF E2EAbs!runVars, AbsStage, AbsStarted
<1> USE DEF E2EInv, E2ETypeOK
<1>1. CASE Cleanup
  <2>1. e2ePc = "cleanup" /\ e2ePc' = "create" /\ winDict = {}
        /\ winDict' = {} /\ exitCode' = exitCode
    BY <1>1, WinsAtValues DEF Cleanup
  <2> QED
    BY <1>0, <2>1 DEF AbsStage, AbsStarted
<1>2. CASE CreateSession \/ BrowserHealth \/ TestFinishes
  <2>1. /\ e2ePc \notin {"done", "report"} /\ e2ePc' \notin {"done", "report"}
        /\ UNCHANGED <<winDict, tmuxWins, exitCode>>
    BY <1>2 DEF CreateSession, BrowserHealth, TestFinishes
  <2> QED
    BY <1>0, <2>1 DEF AbsStage, AbsStarted
<1>3. ASSUME NEW n \in E2ENames, AddE2EWindow(n)
      PROVE  [E2EAbs!RunNext]_E2EAbs!runVars
  <2>1. /\ e2ePc \notin {"done", "report"} /\ e2ePc' \notin {"done", "report"}
        /\ n \notin winDict /\ winDict' = winDict \cup {n}
        /\ tmuxWins' = [tmuxWins EXCEPT ![n] = @ + 1]
        /\ exitCode' = exitCode
    BY <1>3 DEF AddE2EWindow, PhaseOf, AddedTo, E2ENames
  <2>2. AbsStarted' = AbsStarted \cup {n} /\ n \notin AbsStarted
    BY <2>1 DEF AbsStarted
  <2>3. E2EAbs!StartWindow(n)
    BY <2>1, <2>2 DEF E2EAbs!StartWindow, AbsStage, AbsStarted
  <2> QED
    BY <2>3 DEF E2EAbs!RunNext
<1>4. ASSUME NEW ph, NEW nx, nx \notin {"done", "report"},
             ph \in {"backendHealth", "frontendHealth"}, ServerHealth(ph, nx)
      PROVE  [E2EAbs!RunNext]_E2EAbs!runVars
  <2>1. CASE e2ePc' = nx /\ UNCHANGED <<tmuxWins, exitCode, winDict>>
    BY <1>4, <2>1, <1>0 DEF ServerHealth, AbsStage, AbsStarted
  <2>2. CASE KillSession /\ exitCode' = 1 /\ e2ePc' = "done"
    <3>1. e2ePc = ph /\ AbsStarted' = {}
      BY <1>4, <2>2 DEF ServerHealth, KillSession, AbsStarted
    <3>2. E2EAbs!FailSetup
      BY <1>4, <2>2, <3>1 DEF E2EAbs!FailSetup, AbsStage, AbsStarted
    <3> QED
      BY <3>2 DEF E2EAbs!RunNext
  <2> QED
    BY <1>4, <2>1, <2>2 DEF ServerHealth
<1>5. CASE Monitor
  <2>1. CASE e2ePc' = "monitor"
    BY <1>5, <2>1, <1>0 DEF Monitor, AbsStage, AbsStarted
  <2>2. CASE e2ePc' = "report"
    <3>1. e2ePc = "monitor" /\ UNCHANGED <<winDict, tmuxWins, exitCode>>
      BY <1>5 DEF Monitor
    <3>2. winDict = E2ENames /\ \A n \in E2ENames : tmuxWins[n] = 1
      BY <3>1, WinsAtValues
    <3>3. AbsStarted = E2ENames /\ AbsStarted' = AbsStarted
      BY <3>1, <3>2 DEF AbsStarted
    <3>4. E2EAbs!RunSuite
      BY <2>2, <3>1, <3>3 DEF E2EAbs!RunSuite, AbsStage, AbsStarted
    <3> QED
      BY <3>4 DEF E2EAbs!RunNext
  <2> QED
    BY <1>5, <2>1, <2>2 DEF Monitor
<1>6. CASE Report
  <2>1. E2EAbs!Finish
    BY <1>6 DEF Report, E2EAbs!Finish
  <2> QED
    BY <2>1 DEF E2EAbs!RunNext
<1>7. CASE Interrupt
  <2>1. E2EAbs!Abort
    BY <1>7 DEF Interrupt, E2EAbs!Abort
  <2> QED
    BY <2>1 DEF E2EAbs!RunNext
<1>8. CASE UNCHANGED e2eVars
  BY <1>8, <1>0 DEF e2eVars, AbsStage, AbsStarted
<1> QED
  BY <1>1, <1>2, <1>3, <1>4, <1>5, <1>6, <1>7, <1>8 DEF E2ENext, DriverStep

(* run_e2e_tests.py implements E2ERun: it starts each window once, gives   *)
(* exit code 0 only after the monitor loop ran with all four windows up,   *)
(* and a failed health check leaves nothing of the run in tmux.            *)
THEOREM E2ERefinement == E2ESpec => ImplementsE2ERun
<1>1. E2ESpec => []E2EInv
  BY E2EInitInv, E2EStepInv, PTL DEF E2ESpec
<1> QED
  BY <1>1, RefineInit, RefineStep, PTL
     DEF E2ESpec, ImplementsE2ERun, E2EAbs!RunSpec
-----------------------------------------------------------------------------
(* E2ERun's own invariant: the suite runs only with every window up, so   *)
(* exit code 0, which only Finish gives, comes after all were started.    *)
LEMMA AbsInvInit == E2EAbs!RunInit => E2EAbs!RunInv
  BY DEF E2EAbs!RunInit, E2EAbs!RunInv, E2EAbs!SuccessAfterSuite

LEMMA AbsInvStep ==
    E2EAbs!RunInv /\ [E2EAbs!RunNext]_E2EAbs!runVars => E2EAbs!RunInv'
<1> SUFFICES ASSUME E2EAbs!RunInv, [E2EAbs!RunNext]_E2EAbs!runVars
             PROVE  E2EAbs!RunInv'
  OBVIOUS
<1> USE DEF E2EAbs!RunInv, E2EAbs!SuccessAfterSuite
<1>1. ASSUME NEW n \in E2ENames, E2EAbs!StartWindow(n) PROVE E2EAbs!RunInv'
  BY <1>1 DEF E2EAbs!StartWindow
<1>2. CASE E2EAbs!FailSetup
  BY <1>2 DEF E2EAbs!FailSetup
<1>3. CASE E2EAbs!RunSuite
  BY <1>3 DEF E2EAbs!RunSuite
<1>4. CASE E2EAbs!Finish
  BY <1>4 DEF E2EAbs!Finish
<1>5. CASE E2EAbs!Abort
  BY <1>5 DEF E2EAbs!Abort
<1>6. CASE UNCHANGED E2EAbs!runVars
  BY <1>6 DEF E2EAbs!runVars
<1> QED
  BY <1>1, <1>2, <1>3, <1>4, <1>5, <1>6 DEF E2EAbs!RunNext

(* run_e2e_tests.py returns 0 only when every one of its four windows is  *)
(* in session.windows and up in tmux: a failed health check kills the     *)
(* session and returns 1, Ctrl-C returns 1, and the report that returns 0 *)
(* is reached only from a monitor loop that saw all four windows.  The    *)
(* invariant is E2ERun's, carried to the driver by the refinement.        *)
THEOREM SuccessAfterSuiteHolds == E2ESpec => []E2EAbs!SuccessAfterSuite
<1>1. E2ESpec => []E2EInv
  BY E2EInitInv, E2EStepInv, PTL DEF E2ESpec
<1>2. E2EInit => E2EAbs!RunInv
  BY RefineInit, AbsInvInit
<1>3. E2EInv /\ E2EInv' /\ [E2ENext]_e2eVars /\ E2EAbs!RunInv
        => E2EAbs!RunInv'
  BY RefineStep, AbsInvStep
<1>4. E2EAbs!RunInv => E2EAbs!SuccessAfterSuite
  BY DEF E2EAbs!RunInv
<1> QED
  BY <1>1, <1>2, <1>3, <1>4, PTL DEF E2ESpec
=============================================================================

