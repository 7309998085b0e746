------------------------ MODULE WaitForPatternProofs ------------------------
(***************************************************************************)
(* Proof that wait_for_pattern returns no later than one interval past its *)
(* timeout (ReturnsByDeadline), for every timeout, interval and pane.      *)
(***************************************************************************)
EXTENDS WaitForPattern, SequenceTheorems, TLAPS

(* The loop test is the only place time is compared with the deadline, so  *)
(* ReturnsByDeadline alone is not inductive: a sleep begun just before the *)
(* deadline ends after it.  WaitClock records what each point of the loop  *)
(* knows: the clock has not moved before the call (time passes only while  *)
(* the caller sleeps), so start_time is 0; at the loop test and after the  *)
(* return the clock is within the bound; in time.sleep the clock has not   *)
(* passed the wake-up time, which is itself within the bound.              *)
WaitClock ==
    /\ start = 0
    /\ pc = "idle" => now = 0
    /\ pc \in {"check", "done"} => now - start < Timeout + Interval
    /\ pc = "sleep" => now <= wake /\ wake - start < Timeout + Interval

\* TypeOK but for the Boolean result, which is proved on its own.
NumTypeOK ==
    /\ PaneTypeOK
    /\ pc \in {"idle", "check", "sleep", "done"}
    /\ start \in 0..MaxTime /\ wake \in 0..MaxTime

WaitInv == TypeOK /\ WaitClock

LEMMA WaitInvParts ==
    WaitInv <=> NumTypeOK /\ result \in BOOLEAN /\ WaitClock
BY Zenon DEF WaitInv, TypeOK, NumTypeOK

\* The facts of WaitAssumption and PaneAssumption the proofs use.
LEMMA WaitBounds ==
    /\ Timeout \in Nat /\ Interval \in Nat \ {0} /\ MaxOut \in Nat
    /\ MaxTime \in Nat /\ MaxTime >= Timeout + Interval
BY WaitAssumption, PaneAssumption

LEMMA WaitInitInv == Init => WaitInv
<1> SUFFICES ASSUME Init PROVE WaitInv
  OBVIOUS
<1>1. printed = 0 /\ printedAt = << >> /\ now = 0
  BY DEF Init, PaneInit
<1>2. pc = "idle" /\ start = 0 /\ wake = 0 /\ result = FALSE
  BY DEF Init
<1>3. NumTypeOK
  BY <1>1, <1>2, EmptySeq, WaitBounds DEF NumTypeOK, PaneTypeOK
<1>4. WaitClock
  BY <1>1, <1>2 DEF WaitClock
<1>5. result \in BOOLEAN
  BY <1>2
<1> QED
  BY <1>3, <1>4, <1>5, WaitInvParts

(* Only wait_for_pattern's own steps set result, and each to a Boolean.    *)
LEMMA ResultBoolean ==
    ASSUME result \in BOOLEAN, [Next]_vars PROVE result' \in BOOLEAN
BY Zenon DEF Next, Call, Poll, CaptureAndSearch, Expire, Wake, SleepTick,
             Emit, vars

(* The pane printing a line leaves the clock and the loop as they are.    *)
LEMMA EmitPreserves ==
    ASSUME NumTypeOK, WaitClock, Emit, UNCHANGED <<pc, start, wake, result>>
    PROVE  NumTypeOK' /\ WaitClock'
<1>1. printed < MaxOut /\ printed' = printed + 1
      /\ printedAt' = Append(printedAt, now) /\ now' = now
  BY DEF Emit
<1>2. printedAt \in Seq(0..MaxTime) /\ Len(printedAt) = printed
      /\ now \in 0..MaxTime /\ printed \in 0..MaxOut
  BY DEF NumTypeOK, PaneTypeOK
<1>3. printedAt' \in Seq(0..MaxTime) /\ Len(printedAt') = printed'
  BY <1>1, <1>2, AppendProperties
<1>4. PaneTypeOK'
  BY <1>1, <1>2, <1>3, WaitBounds DEF PaneTypeOK
<1> QED
  BY <1>1, <1>4 DEF NumTypeOK, WaitClock

LEMMA WaitStepInv == WaitInv /\ [Next]_vars => WaitInv'
<1> SUFFICES ASSUME NumTypeOK, result \in BOOLEAN, WaitClock, [Next]_vars
             PROVE  NumTypeOK' /\ WaitClock'
  BY ResultBoolean, Zenon DEF WaitInv, TypeOK, NumTypeOK
<1>0. /\ now \in 0..MaxTime /\ start \in 0..MaxTime /\ wake \in 0..MaxTime
      /\ PaneTypeOK /\ start = 0
  BY WaitBounds DEF NumTypeOK, WaitClock, PaneTypeOK
<1>1. CASE Call
  <2>1. pc = "idle" /\ pc' = "check" /\ start' = now /\ now' = now
        /\ UNCHANGED <<paneVars, wake>>
    BY <1>1 DEF Call, paneVars
  <2>2. now = 0
    BY <2>1 DEF WaitClock
  <2> QED
    BY <1>0, <2>1, <2>2, WaitBounds DEF NumTypeOK, WaitClock, paneVars,
                                        PaneTypeOK
<1>2. CASE Poll
  <2>1. pc = "check" /\ now - start < Timeout /\ UNCHANGED <<paneVars, start>>
    BY <1>2 DEF Poll, CaptureAndSearch
  <2>2. now' = now /\ PaneTypeOK'
    BY <1>0, <2>1 DEF paneVars, PaneTypeOK
  <2>3. CASE pc' = "done" /\ UNCHANGED wake
    BY <1>0, <2>1, <2>2, <2>3, WaitBounds DEF NumTypeOK, WaitClock
  <2>4. CASE pc' = "sleep" /\ wake' = now + Interval
    <3>1. wake' \in 0..MaxTime
      BY <1>0, <2>1, <2>4, WaitBounds
    <3> QED
      BY <1>0, <2>1, <2>2, <2>4, <3>1, WaitBounds DEF NumTypeOK, WaitClock
  <2> QED
    BY <1>2, <2>3, <2>4 DEF Poll, CaptureAndSearch
<1>3. CASE Expire
  <2>1. pc = "check" /\ pc' = "done" /\ UNCHANGED <<paneVars, start, wake>>
    BY <1>3 DEF Expire
  <2>2. now' = now /\ PaneTypeOK'
    BY <1>0, <2>1 DEF paneVars, PaneTypeOK
  <2> QED
    BY <1>0, <2>1, <2>2 DEF NumTypeOK, WaitClock
<1>4. CASE Wake
  <2>1. pc = "sleep" /\ now = wake /\ pc' = "check"
        /\ UNCHANGED <<paneVars, start, wake>>
    BY <1>4 DEF Wake
  <2>2. now' = now /\ PaneTypeOK'
    BY <1>0, <2>1 DEF paneVars, PaneTypeOK
  <2> QED
    BY <1>0, <2>1, <2>2 DEF NumTypeOK, WaitClock
<1>5. CASE SleepTick
  <2>1. pc = "sleep" /\ now < wake /\ now' = now + 1
        /\ UNCHANGED <<printed, printedAt, pc, start, wake>>
    BY <1>5 DEF SleepTick, Tick
  <2>2. PaneTypeOK'
    BY <1>0, <2>1, WaitBounds DEF PaneTypeOK
  <2> QED
    BY <1>0, <2>1, <2>2 DEF NumTypeOK, WaitClock
<1>6. CASE Emit /\ UNCHANGED <<pc, start, wake, result>>
  BY <1>6, EmitPreserves
<1>7. CASE UNCHANGED vars
  <2>1. UNCHANGED <<printed, printedAt, now, pc, start, wake>>
    BY <1>7 DEF vars, paneVars
  <2> QED
    BY <2>1 DEF NumTypeOK, WaitClock, PaneTypeOK
<1> QED
  BY <1>1, <1>2, <1>3, <1>4, <1>5, <1>6, <1>7 DEF Next

(* Once called, wait_for_pattern is never past one interval beyond its     *)
(* timeout: the loop test lets a capture start only before start_time +    *)
(* timeout, and the sleep that follows it is the only overrun.             *)
THEOREM ReturnsByDeadlineHolds == Spec => []ReturnsByDeadline
<1>1. WaitInv => ReturnsByDeadline
  <2> SUFFICES ASSUME NumTypeOK, WaitClock PROVE ReturnsByDeadline
    BY WaitInvParts
  <2> QED
    BY WaitBounds DEF NumTypeOK, PaneTypeOK, WaitClock, ReturnsByDeadline
<1> QED
  BY <1>1, WaitInitInv, WaitStepInv, PTL DEF Spec

(* The model's state stays of its type.                                    *)
THEOREM WaitTypeCorrect == Spec => []TypeOK
<1>1. WaitInv => TypeOK
  BY DEF WaitInv
<1> QED
  BY <1>1, WaitInitInv, WaitStepInv, PTL DEF Spec
=============================================================================
