--------------------------- MODULE WaitForPattern ---------------------------
(***************************************************************************)
(* wait_for_pattern(name, pattern, timeout, interval) (terminal_session.py *)
(* lines 172-198) polling one pane while the process in it prints:         *)
(*                                                                          *)
(*     start_time = time.time()                                             *)
(*     while time.time() - start_time < timeout:                            *)
(*         output = self.capture_output(window_name)      # lines=100       *)
(*         if regex.search(output): return True                            *)
(*         time.sleep(interval)                                             *)
(*     return False                                                         *)
(*                                                                          *)
(* Time is whole ticks; the process may print at any moment, in particular *)
(* in the same tick as a capture, before or after it.                       *)
(***************************************************************************)
EXTENDS PaneBuffer

CONSTANTS
    Timeout,     \* timeout argument
    Interval,    \* interval argument
    WaitLines    \* the lines capture_output is called with (100)

ASSUME WaitAssumption ==
    /\ Timeout \in Nat /\ Interval \in Nat \ {0} /\ WaitLines \in Nat
    /\ MaxTime >= Timeout + Interval

VARIABLES
    pc,       \* "idle" before the call, "check" at the loop test,
              \* "sleep" in time.sleep, "done" after returning
    start,    \* start_time
    wake,     \* when the current sleep ends
    result    \* the value returned

vars == <<paneVars, pc, start, wake, result>>

TypeOK ==
    /\ PaneTypeOK
    /\ pc \in {"idle", "check", "sleep", "done"}
    /\ start \in 0..MaxTime /\ wake \in 0..MaxTime
    /\ result \in BOOLEAN

Init ==
    /\ PaneInit
    /\ pc = "idle" /\ start = 0 /\ wake = 0 /\ result = FALSE

\* The caller enters wait_for_pattern (the name is registered).
Call ==
    /\ pc = "idle"
    /\ pc' = "check" /\ start' = now
    /\ UNCHANGED <<paneVars, wake, result>>

\* The loop body: capture, search, then return True or go to sleep.
CaptureAndSearch ==
    /\ IF Matches(Capture(WaitLines)) # {}
       THEN pc' = "done" /\ result' = TRUE /\ UNCHANGED wake
       ELSE pc' = "sleep" /\ wake' = now + Interval /\ UNCHANGED result
    /\ UNCHANGED <<paneVars, start>>

\* Mutant: the loop test "<=" instead of "<".
PollInclusive ==
    /\ pc = "check" /\ now - start <= Timeout
    /\ CaptureAndSearch

\* Mutant: "while True", the timeout never consulted.
PollForever ==
    /\ pc = "check"
    /\ CaptureAndSearch

\* One loop iteration inside the timeout.
Poll ==
    /\ pc = "check" /\ now - start < Timeout
    /\ CaptureAndSearch

\* The loop test fails: return False.
Expire ==
    /\ pc = "check"
    /\ now - start >= Timeout
    /\ pc' = "done" /\ result' = FALSE
    /\ UNCHANGED <<paneVars, start, wake>>

\* time.sleep(interval) returns.
Wake ==
    /\ pc = "sleep" /\ now = wake
    /\ pc' = "check"
    /\ UNCHANGED <<paneVars, start, wake, result>>

\* Time passes while the caller sleeps (and only then: a capture is a step).
SleepTick ==
    /\ pc = "sleep" /\ now < wake
    /\ Tick
    /\ UNCHANGED <<pc, start, wake, result>>

Next ==
    \/ Call \/ Poll \/ Expire \/ Wake \/ SleepTick
    \/ Emit /\ UNCHANGED <<pc, start, wake, result>>

Spec == Init /\ [][Next]_vars
        /\ WF_vars(Call) /\ WF_vars(Poll) /\ WF_vars(Expire)
        /\ WF_vars(Wake) /\ WF_vars(SleepTick)

-----------------------------------------------------------------------------
(* The call returns no later than one interval past the timeout: the last  *)
(* loop test passes before start + timeout and the sleep after it is the   *)
(* only overrun.                                                           *)
ReturnsByDeadline ==
    pc # "idle" => now - start < Timeout + Interval

(* wait_for_pattern returns: the loop test eventually fails or a capture   *)
(* matches (spec 5: every wait is timeout-bounded).                        *)
Terminates == <>(pc = "done")

(* Spec 8.4: a line matching the pattern that the process prints before    *)
(* the timeout makes wait_for_pattern return True.                         *)
PrintedBeforeTimeoutSeen ==
    (pc = "done" /\ ~result) => MatchedBefore(start + Timeout) = {}
=============================================================================
