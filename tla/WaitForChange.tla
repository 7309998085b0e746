--------------------------- MODULE WaitForChange ---------------------------
(***************************************************************************)
(* wait_for_change(name, timeout, interval) (terminal_session.py lines     *)
(* 200-225) polling one pane while the process in it prints:               *)
(*                                                                          *)
(*     initial = self.capture_output(window_name)         # lines=100       *)
(*     start_time = time.time()                                             *)
(*     while time.time() - start_time < timeout:                            *)
(*         time.sleep(interval)                                             *)
(*         current = self.capture_output(window_name)                       *)
(*         if current != initial: return True                              *)
(*     return False                                                         *)
(*                                                                          *)
(* Unlike wait_for_pattern, it sleeps BEFORE each capture.                  *)
(***************************************************************************)
EXTENDS PaneBuffer

CONSTANTS
    Timeout,     \* timeout argument
    Interval,    \* interval argument
    WaitLines    \* the lines capture_output is called with (100)

ASSUME WaitAssumption ==
    /\ Timeout \in Nat /\ Interval \in Nat \ {0} /\ WaitLines \in Nat
    /\ MaxTime >= Timeout + Interval

VARIABLES
    pc,        \* "idle", "check" (loop test), "sleep", "done"
    start,     \* start_time
    wake,      \* when the current sleep ends
    initial,   \* the capture taken on entry
    result,    \* the value returned
    seen       \* ghost: lines printed when the initial capture was taken

vars == <<paneVars, pc, start, wake, initial, result, seen>>

TypeOK ==
    /\ PaneTypeOK
    /\ pc \in {"idle", "check", "sleep", "done"}
    /\ start \in 0..MaxTime /\ wake \in 0..MaxTime
    /\ initial \in Seq(Rows)
    /\ result \in BOOLEAN
    /\ seen \in 0..MaxOut

Init ==
    /\ PaneInit
    /\ pc = "idle" /\ start = 0 /\ wake = 0 /\ initial = << >>
    /\ result = FALSE /\ seen = 0

\* Entry: the initial capture, then start_time.
Call ==
    /\ pc = "idle"
    /\ initial' = Capture(WaitLines)
    /\ seen' = printed
    /\ pc' = "check" /\ start' = now
    /\ UNCHANGED <<paneVars, wake, result>>

\* Mutant: the loop stops when another sleep would overrun the timeout.
LoopNoOverrun ==
    /\ pc = "check"
    /\ IF now + Interval - start <= Timeout
       THEN pc' = "sleep" /\ wake' = now + Interval /\ UNCHANGED result
       ELSE pc' = "done" /\ result' = FALSE /\ UNCHANGED wake
    /\ UNCHANGED <<paneVars, start, initial, seen>>

\* Mutant: "while True", the timeout never consulted.
LoopForever ==
    /\ pc = "check"
    /\ pc' = "sleep" /\ wake' = now + Interval
    /\ UNCHANGED <<paneVars, start, initial, result, seen>>

\* The loop test: go to sleep inside the timeout, return False past it.
Loop ==
    /\ pc = "check"
    /\ IF now - start < Timeout
       THEN pc' = "sleep" /\ wake' = now + Interval /\ UNCHANGED result
       ELSE pc' = "done" /\ result' = FALSE /\ UNCHANGED wake
    /\ UNCHANGED <<paneVars, start, initial, seen>>

\* time.sleep returns; capture and compare with the initial capture.
Wake ==
    /\ pc = "sleep" /\ now = wake
    /\ IF Capture(WaitLines) # initial
       THEN pc' = "done" /\ result' = TRUE
       ELSE pc' = "check" /\ UNCHANGED result
    /\ UNCHANGED <<paneVars, start, wake, initial, seen>>

\* Time passes while the caller sleeps.
SleepTick ==
    /\ pc = "sleep" /\ now < wake
    /\ Tick
    /\ UNCHANGED <<pc, start, wake, initial, result, seen>>

Next ==
    \/ Call \/ Loop \/ Wake \/ SleepTick
    \/ Emit /\ UNCHANGED <<pc, start, wake, initial, result, seen>>

Spec == Init /\ [][Next]_vars
        /\ WF_vars(Call) /\ WF_vars(Loop) /\ WF_vars(Wake) /\ WF_vars(SleepTick)

-----------------------------------------------------------------------------
(* A line the process prints after wait_for_change was entered and before  *)
(* the timeout is never missed: False means nothing was printed in that    *)
(* window.  It holds because the sleep comes before the capture, so the    *)
(* last capture is taken at or after start + timeout.                      *)
ChangeSeenBeforeTimeout ==
    (pc = "done" /\ ~result) =>
        \A i \in (seen + 1)..printed : printedAt[i] >= start + Timeout

(* wait_for_change returns (spec 5: every wait is timeout-bounded).        *)
Terminates == <>(pc = "done")
=============================================================================
