------------------------ MODULE WaitForChangeProofs ------------------------
(***************************************************************************)
(* Proof that wait_for_change never returns False while a line printed     *)
(* after its first capture and before its timeout is on the pane           *)
(* (ChangeSeenBeforeTimeout), for every pane size, history limit, timeout  *)
(* and interval.  It rests on a fact about capture-pane: the capture shows *)
(* the newest printed line, so a capture taken after a line was printed    *)
(* differs from every capture taken before it.                             *)
(***************************************************************************)
EXTENDS WaitForChange, SequenceTheorems, TLAPS

\* The rows a pane can hold once k lines were printed.
RowsUpTo(k) == {Blank, Cmd} \cup 1..k

(* PaneBuffer's Content, Screen, History and Capture for a pane that has   *)
(* printed k lines (they read the variable printed; these take it as an    *)
(* argument, so that a fact about them holds before and after a step).    *)
ContentK(k) == <<Cmd>> \o [i \in 1..k |-> i]
PadK(k) == [i \in 1..(ScreenRows - Len(ContentK(k))) |-> Blank]
ScreenK(k) ==
    IF Len(ContentK(k)) <= ScreenRows
    THEN ContentK(k) \o PadK(k)
    ELSE LastN(ContentK(k), ScreenRows)
HistoryK(k) ==
    IF Len(ContentK(k)) <= ScreenRows THEN << >>
    ELSE LastN(SubSeq(ContentK(k), 1, Len(ContentK(k)) - ScreenRows),
               HistoryLimit)
CaptureK(k, L) == LastN(HistoryK(k), L) \o ScreenK(k)

\* PaneBuffer's Capture is CaptureK at the current count.
LEMMA CaptureIsK == \A L : Capture(L) = CaptureK(printed, L)
BY DEF Capture, CaptureK, History, HistoryK, Screen, ScreenK, PadK, Content,
       ContentK

\* The facts of the constants' assumptions the proofs use.
LEMMA PaneBounds ==
    /\ ScreenRows \in Nat \ {0} /\ HistoryLimit \in Nat
    /\ MaxOut \in Nat /\ MaxTime \in Nat
    /\ Timeout \in Nat /\ Interval \in Nat \ {0} /\ WaitLines \in Nat
    /\ MaxTime >= Timeout + Interval
BY PaneAssumption, WaitAssumption

-----------------------------------------------------------------------------
(* Lemmas about the sequence operators the pane is built from.             *)

\* LastN keeps a sequence's element type.
LEMMA LastNType ==
    ASSUME NEW S, NEW s \in Seq(S), NEW n \in Nat
    PROVE  LastN(s, n) \in Seq(S)
<1>1. Len(s) - Least(n, Len(s)) + 1 \in Int
  BY DEF Least
<1>2. \A i \in (Len(s) - Least(n, Len(s)) + 1)..Len(s) : s[i] \in S
  BY DEF Least
<1> QED
  BY <1>1, <1>2, SubSeqProperties DEF LastN

(* The last of at least one element of a non-empty sequence is kept: it is *)
(* the last element of LastN.                                              *)
LEMMA LastNLast ==
    ASSUME NEW S, NEW s \in Seq(S), NEW n \in Nat \ {0}, Len(s) > 0
    PROVE  /\ Len(LastN(s, n)) > 0
           /\ LastN(s, n)[Len(LastN(s, n))] = s[Len(s)]
<1> DEFINE m == Len(s) - Least(n, Len(s)) + 1
<1>1. m \in 1..Len(s)
  BY DEF Least
<1>2. \A i \in m..Len(s) : s[i] \in S
  BY <1>1
<1>3. /\ Len(SubSeq(s, m, Len(s))) = Len(s) - m + 1
      /\ \A i \in 1..(Len(s) - m + 1) : SubSeq(s, m, Len(s))[i] = s[m + i - 1]
  BY <1>1, <1>2, SubSeqProperties
<1> QED
  BY <1>1, <1>3 DEF LastN

\* Content, for k lines printed.
LEMMA ContentKProps ==
    ASSUME NEW k \in Nat
    PROVE  /\ ContentK(k) \in Seq(RowsUpTo(k))
           /\ Len(ContentK(k)) = k + 1
           /\ ContentK(k)[k + 1] = IF k = 0 THEN Cmd ELSE k
<1>1. <<Cmd>> \in Seq(RowsUpTo(k)) /\ Len(<<Cmd>>) = 1 /\ <<Cmd>>[1] = Cmd
  BY DEF RowsUpTo
<1>2. [i \in 1..k |-> i] \in Seq(RowsUpTo(k)) /\ Len([i \in 1..k |-> i]) = k
  BY DEF RowsUpTo
<1>3. /\ ContentK(k) \in Seq(RowsUpTo(k))
      /\ Len(ContentK(k)) = k + 1
      /\ \A i \in 1..(k + 1) : ContentK(k)[i] =
             IF i <= 1 THEN <<Cmd>>[i] ELSE [j \in 1..k |-> j][i - 1]
  BY <1>1, <1>2, ConcatProperties DEF ContentK
<1>4. CASE k = 0
  BY <1>3, <1>4
<1>5. CASE k # 0
  <2>1. ContentK(k)[k + 1] = [j \in 1..k |-> j][k]
    BY <1>3, <1>5
  <2>2. k \in 1..k
    BY <1>5
  <2>3. [j \in 1..k |-> j][k] = k
    BY <2>2
  <2> QED
    BY <1>3, <2>1, <2>3, <1>5
<1> QED
  BY <1>3, <1>4, <1>5
\* The screen holds rows of the pane and shows its newest row.
LEMMA ScreenKProps ==
    ASSUME NEW k \in Nat
    PROVE  /\ ScreenK(k) \in Seq(RowsUpTo(k))
           /\ \E j \in 1..Len(ScreenK(k)) : ScreenK(k)[j] = ContentK(k)[k + 1]
<1>1. ScreenRows \in Nat \ {0}
  BY PaneBounds
<1>2. ContentK(k) \in Seq(RowsUpTo(k)) /\ Len(ContentK(k)) = k + 1
  BY ContentKProps
<1>3. CASE Len(ContentK(k)) <= ScreenRows
  <2> DEFINE pad == PadK(k)
  <2>1. pad \in Seq(RowsUpTo(k))
    BY <1>1, <1>2, <1>3 DEF RowsUpTo, PadK
  <2>2. /\ ContentK(k) \o pad \in Seq(RowsUpTo(k))
        /\ Len(ContentK(k) \o pad) = Len(ContentK(k)) + Len(pad)
        /\ \A i \in 1..(Len(ContentK(k)) + Len(pad)) : (ContentK(k) \o pad)[i] =
              IF i <= Len(ContentK(k)) THEN ContentK(k)[i]
              ELSE pad[i - Len(ContentK(k))]
    BY <1>2, <2>1, ConcatProperties
  <2>3. Len(pad) \in Nat
    BY <2>1, LenProperties
  <2>4. k + 1 \in 1..(Len(ContentK(k)) + Len(pad)) /\ k + 1 <= Len(ContentK(k))
    BY <1>2, <2>3
  <2>5. (ContentK(k) \o pad)[k + 1] = ContentK(k)[k + 1]
        /\ k + 1 \in 1..Len(ContentK(k) \o pad)
    BY <2>2, <2>4, Zenon
  <2> QED
    BY <1>3, <2>2, <2>5 DEF ScreenK
<1>4. CASE ~(Len(ContentK(k)) <= ScreenRows)
  <2>1. LastN(ContentK(k), ScreenRows) \in Seq(RowsUpTo(k))
    BY <1>1, <1>2, LastNType
  <2>2. /\ Len(LastN(ContentK(k), ScreenRows)) > 0
        /\ LastN(ContentK(k), ScreenRows)[Len(LastN(ContentK(k), ScreenRows))]
             = ContentK(k)[k + 1]
    BY <1>1, <1>2, LastNLast
  <2>3. Len(LastN(ContentK(k), ScreenRows)) \in Nat
    BY <2>1, LenProperties
  <2> QED
    BY <1>4, <2>1, <2>2, <2>3 DEF ScreenK
<1> QED
  BY <1>3, <1>4

\* The history holds rows of the pane.
LEMMA HistoryKType ==
    ASSUME NEW k \in Nat
    PROVE  HistoryK(k) \in Seq(RowsUpTo(k))
<1>1. ScreenRows \in Nat \ {0} /\ HistoryLimit \in Nat
  BY PaneBounds
<1>2. ContentK(k) \in Seq(RowsUpTo(k)) /\ Len(ContentK(k)) = k + 1
  BY ContentKProps
<1>3. CASE Len(ContentK(k)) <= ScreenRows
  BY <1>3 DEF HistoryK
<1>4. CASE ~(Len(ContentK(k)) <= ScreenRows)
  <2> DEFINE top == SubSeq(ContentK(k), 1, Len(ContentK(k)) - ScreenRows)
  <2>1. \A i \in 1..(Len(ContentK(k)) - ScreenRows) :
           ContentK(k)[i] \in RowsUpTo(k)
    BY <1>1, <1>2, ElementOfSeq
  <2>2. top \in Seq(RowsUpTo(k))
    BY <1>1, <1>2, <2>1, SubSeqProperties
  <2>3. LastN(top, HistoryLimit) \in Seq(RowsUpTo(k))
    BY <1>1, <2>2, LastNType
  <2> QED
    BY <1>4, <2>3 DEF HistoryK
<1> QED
  BY <1>3, <1>4

(* A capture holds rows of the pane and shows its newest row, whatever     *)
(* part of the history it asks for.                                        *)
LEMMA CaptureKProps ==
    ASSUME NEW k \in Nat, NEW L \in Nat
    PROVE  /\ CaptureK(k, L) \in Seq(RowsUpTo(k))
           /\ \E j \in 1..Len(CaptureK(k, L)) :
                 CaptureK(k, L)[j] = ContentK(k)[k + 1]
<1> DEFINE H == LastN(HistoryK(k), L)
<1>1. H \in Seq(RowsUpTo(k))
  BY HistoryKType, LastNType
<1>2. ScreenK(k) \in Seq(RowsUpTo(k))
      /\ \E j \in 1..Len(ScreenK(k)) : ScreenK(k)[j] = ContentK(k)[k + 1]
  BY ScreenKProps
<1>3. /\ H \o ScreenK(k) \in Seq(RowsUpTo(k))
      /\ Len(H \o ScreenK(k)) = Len(H) + Len(ScreenK(k))
      /\ \A i \in 1..(Len(H) + Len(ScreenK(k))) : (H \o ScreenK(k))[i] =
            IF i <= Len(H) THEN H[i] ELSE ScreenK(k)[i - Len(H)]
  BY <1>1, <1>2, ConcatProperties
<1>4. Len(H) \in Nat /\ Len(ScreenK(k)) \in Nat
  BY <1>1, <1>2, LenProperties
<1>5. PICK j \in 1..Len(ScreenK(k)) : ScreenK(k)[j] = ContentK(k)[k + 1]
  BY <1>2
<1>6. (H \o ScreenK(k))[Len(H) + j] = ContentK(k)[k + 1]
      /\ Len(H) + j \in 1..Len(H \o ScreenK(k))
  BY <1>3, <1>4, <1>5
<1> QED
  BY <1>3, <1>6 DEF CaptureK

(* Two captures of a pane taken with different numbers of lines printed    *)
(* differ: the later one shows a line the earlier pane never held.         *)
LEMMA CaptureKDistinct ==
    ASSUME NEW k \in 1..MaxOut, NEW m \in Nat, m < k, NEW L \in Nat
    PROVE  CaptureK(k, L) \notin Seq(RowsUpTo(m))
<1>0. k \in Nat
  BY PaneBounds
<1>1. ContentK(k)[k + 1] = k
  BY <1>0, ContentKProps
<1>2. \E j \in 1..Len(CaptureK(k, L)) : CaptureK(k, L)[j] = ContentK(k)[k + 1]
  BY <1>0, CaptureKProps, Zenon
<1>3. PICK j \in 1..Len(CaptureK(k, L)) : CaptureK(k, L)[j] = k
  BY <1>1, <1>2, Zenon
<1>4. k \notin RowsUpTo(m)
  BY PaneBounds DEF RowsUpTo, Blank, Cmd
<1> QED
  BY <1>3, <1>4, ElementOfSeq
-----------------------------------------------------------------------------
(* The inductive invariant.  ChangeSeenBeforeTimeout speaks of lines       *)
(* printed since the initial capture; it holds after a False return only   *)
(* because (1) a capture equal to the initial one means no line was        *)
(* printed since (the capture lemmas above), so the loop goes back to its  *)
(* test with nothing new, and (2) lines printed while the loop is at its   *)
(* test are printed at the time of that test, which is past the deadline   *)
(* when the test fails.  The clock has not moved before the call, so       *)
(* start_time is 0 and every wake-up time stays within MaxTime.            *)
ChangeClock ==
    /\ start = 0
    /\ pc = "idle" => now = 0
    /\ pc # "idle" => seen <= printed
    /\ pc \in {"check", "sleep"} =>
          /\ initial \in Seq(RowsUpTo(seen))
          /\ printed = seen => initial = Capture(WaitLines)
    /\ pc = "check" => \A i \in (seen + 1)..printed : printedAt[i] >= now
    /\ pc = "done" /\ ~result => now >= start + Timeout
    /\ ChangeSeenBeforeTimeout

\* TypeOK but for the Boolean result, which is proved on its own.
NumTypeOK ==
    /\ PaneTypeOK
    /\ pc \in {"idle", "check", "sleep", "done"}
    /\ start \in 0..MaxTime /\ wake \in 0..MaxTime
    /\ initial \in Seq(Rows)
    /\ seen \in 0..MaxOut

ChangeInv == TypeOK /\ ChangeClock

LEMMA ChangeInvParts ==
    ChangeInv <=> NumTypeOK /\ result \in BOOLEAN /\ ChangeClock
BY Zenon DEF ChangeInv, TypeOK, NumTypeOK

\* A capture of the current pane holds rows of it and is a Seq(Rows).
LEMMA CaptureNow ==
    ASSUME PaneTypeOK
    PROVE  /\ Capture(WaitLines) \in Seq(RowsUpTo(printed))
           /\ Capture(WaitLines) \in Seq(Rows)
<1>1. printed \in 0..MaxOut /\ WaitLines \in Nat /\ MaxOut \in Nat
  BY PaneBounds DEF PaneTypeOK
<1>2. Capture(WaitLines) \in Seq(RowsUpTo(printed))
  <2>1. printed \in Nat
    BY <1>1
  <2>2. CaptureK(printed, WaitLines) \in Seq(RowsUpTo(printed))
    BY <1>1, <2>1, CaptureKProps, Zenon
  <2>3. Capture(WaitLines) = CaptureK(printed, WaitLines)
    BY CaptureIsK
  <2> QED
    BY <2>2, <2>3, Zenon
<1>3. RowsUpTo(printed) \subseteq Rows
  BY <1>1 DEF RowsUpTo, Rows, Blank, Cmd
<1> QED
  BY <1>2, <1>3, SeqMonotonic

\* The capture reads only the number of lines printed.
LEMMA CaptureSame ==
    ASSUME printed' = printed PROVE Capture(WaitLines)' = Capture(WaitLines)
BY DEF Capture, History, Screen, Content

(* A capture taken after a line was printed differs from one whose rows    *)
(* are those of the pane before it.                                        *)
LEMMA CaptureChanged ==
    ASSUME PaneTypeOK, NEW m \in Nat, m < printed,
           NEW init \in Seq(RowsUpTo(m))
    PROVE  Capture(WaitLines) # init
<1>1. printed \in 1..MaxOut /\ WaitLines \in Nat
  BY PaneBounds DEF PaneTypeOK
<1>2. CaptureK(printed, WaitLines) \notin Seq(RowsUpTo(m))
  BY <1>1, CaptureKDistinct
<1>3. Capture(WaitLines) = CaptureK(printed, WaitLines)
  BY CaptureIsK
<1> QED
  BY <1>2, <1>3, Zenon
LEMMA ChangeInitInv == Init => ChangeInv
<1> SUFFICES ASSUME Init PROVE ChangeInv
  OBVIOUS
<1>1. printed = 0 /\ printedAt = << >> /\ now = 0
  BY DEF Init, PaneInit
<1>2. /\ pc = "idle" /\ start = 0 /\ wake = 0 /\ initial = << >>
      /\ result = FALSE /\ seen = 0
  BY DEF Init
<1>3. NumTypeOK
  BY <1>1, <1>2, EmptySeq, PaneBounds DEF NumTypeOK, PaneTypeOK
<1>4. ChangeClock
  BY <1>1, <1>2 DEF ChangeClock, ChangeSeenBeforeTimeout
<1>5. result \in BOOLEAN
  BY <1>2
<1> QED
  BY <1>3, <1>4, <1>5, ChangeInvParts

(* Only wait_for_change's own steps set result, and each to a Boolean.     *)
LEMMA ResultBoolean ==
    ASSUME result \in BOOLEAN, [Next]_vars PROVE result' \in BOOLEAN
BY Zenon DEF Next, Call, Loop, Wake, SleepTick, Emit, vars

(* The pane printing a line: the line is printed at the current time,      *)
(* which is at or after the time of a pending loop test and past the       *)
(* deadline after a False return.                                          *)
LEMMA EmitPreserves ==
    ASSUME NumTypeOK, result \in BOOLEAN, ChangeClock, Emit,
           UNCHANGED <<pc, start, wake, initial, result, seen>>
    PROVE  NumTypeOK' /\ ChangeClock'
<1>1. printed < MaxOut /\ printed' = printed + 1
      /\ printedAt' = Append(printedAt, now) /\ now' = now
  BY DEF Emit
<1>2. printedAt \in Seq(0..MaxTime) /\ Len(printedAt) = printed
      /\ now \in 0..MaxTime /\ printed \in 0..MaxOut /\ seen \in 0..MaxOut
  BY DEF NumTypeOK, PaneTypeOK
<1>3. /\ printedAt' \in Seq(0..MaxTime) /\ Len(printedAt') = printed'
      /\ \A i \in 1..printed : printedAt'[i] = printedAt[i]
      /\ printedAt'[printed + 1] = now
  BY <1>1, <1>2, AppendProperties
<1>4. NumTypeOK'
  BY <1>1, <1>2, <1>3, PaneBounds DEF NumTypeOK, PaneTypeOK
<1>5. (pc = "check" => \A i \in (seen + 1)..printed : printedAt[i] >= now)'
  BY <1>1, <1>2, <1>3 DEF ChangeClock
<1>6. ChangeSeenBeforeTimeout'
  <2> SUFFICES ASSUME pc = "done", ~result
               PROVE  \A i \in (seen + 1)..printed' : printedAt'[i] >= start + Timeout
    BY DEF ChangeSeenBeforeTimeout
  <2>1. now >= start + Timeout
        /\ \A i \in (seen + 1)..printed : printedAt[i] >= start + Timeout
    BY DEF ChangeClock, ChangeSeenBeforeTimeout
  <2> QED
    BY <1>1, <1>2, <1>3, <2>1
<1>7. (pc \in {"check", "sleep"} =>
          /\ initial \in Seq(RowsUpTo(seen))
          /\ printed = seen => initial = Capture(WaitLines))'
  BY <1>1, <1>2 DEF ChangeClock
<1> QED
  BY <1>1, <1>2, <1>4, <1>5, <1>6, <1>7 DEF ChangeClock
LEMMA ChangeStepInv == ChangeInv /\ [Next]_vars => ChangeInv'
<1> SUFFICES ASSUME NumTypeOK, result \in BOOLEAN, ChangeClock, [Next]_vars
             PROVE  NumTypeOK' /\ ChangeClock'
  BY ResultBoolean, Zenon DEF ChangeInv, TypeOK, NumTypeOK
<1>0. /\ now \in 0..MaxTime /\ start \in 0..MaxTime /\ wake \in 0..MaxTime
      /\ printed \in 0..MaxOut /\ seen \in 0..MaxOut /\ start = 0
      /\ PaneTypeOK /\ initial \in Seq(Rows)
  BY PaneBounds DEF NumTypeOK, ChangeClock, PaneTypeOK
<1>1. CASE Call
  <2>1. /\ pc = "idle" /\ pc' = "check" /\ start' = now /\ seen' = printed
        /\ initial' = Capture(WaitLines)
        /\ UNCHANGED <<printed, printedAt, now, wake, result>>
    BY <1>1 DEF Call, paneVars
  <2>2. now = 0
    BY <2>1 DEF ChangeClock
  <2>3. Capture(WaitLines) \in Seq(RowsUpTo(printed))
        /\ Capture(WaitLines) \in Seq(Rows)
    BY <1>0, CaptureNow
  <2>4. Capture(WaitLines)' = Capture(WaitLines)
    BY <2>1, CaptureSame
  <2>5. NumTypeOK'
    BY <1>0, <2>1, <2>2, <2>3 DEF NumTypeOK, PaneTypeOK
  <2> QED
    BY <1>0, <2>1, <2>2, <2>3, <2>4, <2>5
    DEF ChangeClock, ChangeSeenBeforeTimeout
<1>2. CASE Loop
  <2>1. pc = "check" /\ UNCHANGED <<printed, printedAt, now, start, initial, seen>>
    BY <1>2 DEF Loop, paneVars
  <2>2. PaneTypeOK'
    BY <1>0, <2>1 DEF PaneTypeOK
  <2>3. Capture(WaitLines)' = Capture(WaitLines)
    BY <2>1, CaptureSame
  <2>4. CASE now - start < Timeout
    <3>1. pc' = "sleep" /\ wake' = now + Interval
      BY <1>2, <2>4 DEF Loop
    <3>2. wake' \in 0..MaxTime
      BY <1>0, <2>4, <3>1, PaneBounds
    <3> QED
      BY <1>0, <2>1, <2>2, <2>3, <3>1, <3>2
      DEF NumTypeOK, ChangeClock, ChangeSeenBeforeTimeout
  <2>5. CASE ~(now - start < Timeout)
    <3>1. pc' = "done" /\ result' = FALSE /\ wake' = wake
      BY <1>2, <2>5 DEF Loop
    <3>2. now >= start + Timeout
      BY <1>0, <2>5, PaneBounds
    <3>3. \A i \in (seen + 1)..printed : printedAt[i] >= start + Timeout
      <4>1. \A i \in (seen + 1)..printed : printedAt[i] >= now
        BY <2>1, Zenon DEF ChangeClock
      <4>2. \A i \in (seen + 1)..printed : printedAt[i] \in Nat
        <5> SUFFICES ASSUME NEW i \in (seen + 1)..printed
                     PROVE  printedAt[i] \in Nat
          OBVIOUS
        <5>1. printedAt \in Seq(0..MaxTime) /\ i \in 1..Len(printedAt)
          BY <1>0 DEF PaneTypeOK
        <5>2. printedAt[i] \in 0..MaxTime
          BY <5>1, ElementOfSeq
        <5> QED
          BY <5>2, PaneBounds
      <4> SUFFICES ASSUME NEW i \in (seen + 1)..printed
                   PROVE  printedAt[i] >= start + Timeout
        OBVIOUS
      <4>3. printedAt[i] >= now /\ printedAt[i] \in Nat
        BY <4>1, <4>2
      <4> QED
        BY <1>0, <3>2, <4>3, PaneBounds
    <3> QED
      BY <1>0, <2>1, <2>2, <3>1, <3>2, <3>3
      DEF NumTypeOK, ChangeClock, ChangeSeenBeforeTimeout
  <2> QED
    BY <2>4, <2>5
<1>3. CASE Wake
  <2>1. /\ pc = "sleep" /\ now = wake
        /\ UNCHANGED <<printed, printedAt, now, start, wake, initial, seen>>
    BY <1>3 DEF Wake, paneVars
  <2>2. PaneTypeOK'
    BY <1>0, <2>1 DEF PaneTypeOK
  <2>3. Capture(WaitLines)' = Capture(WaitLines)
    BY <2>1, CaptureSame
  <2>4. CASE Capture(WaitLines) # initial
    <3>1. pc' = "done" /\ result' = TRUE
      BY <1>3, <2>4 DEF Wake
    <3> QED
      BY <1>0, <2>1, <2>2, <3>1 DEF NumTypeOK, ChangeClock, ChangeSeenBeforeTimeout
  <2>5. CASE Capture(WaitLines) = initial
    <3>1. pc' = "check" /\ result' = result
      BY <1>3, <2>5 DEF Wake
    <3>2. printed = seen
      <4>1. seen <= printed /\ initial \in Seq(RowsUpTo(seen))
        BY <2>1 DEF ChangeClock
      <4>2. ~(seen < printed)
        <5> SUFFICES ASSUME seen < printed PROVE FALSE
          OBVIOUS
        <5>1. seen \in Nat
          BY <1>0
        <5>2. Capture(WaitLines) # initial
          BY <1>0, <4>1, <5>1, CaptureChanged, Zenon
        <5> QED
          BY <2>5, <5>2
      <4> QED
        BY <1>0, <4>1, <4>2
    <3>3. (\A i \in (seen + 1)..printed : printedAt[i] >= now)'
      <4>1. (seen + 1)..printed = {}
        BY <1>0, <3>2
      <4> QED
        BY <2>1, <4>1
    <3> QED
      BY <1>0, <2>1, <2>2, <2>3, <3>1, <3>3
      DEF NumTypeOK, ChangeClock, ChangeSeenBeforeTimeout
  <2> QED
    BY <2>4, <2>5
<1>4. CASE SleepTick
  <2>1. pc = "sleep" /\ now < wake /\ now' = now + 1
        /\ UNCHANGED <<printed, printedAt, pc, start, wake, initial, result, seen>>
    BY <1>4 DEF SleepTick, Tick
  <2>2. now < MaxTime
    BY <1>4 DEF SleepTick, Tick
  <2>3. PaneTypeOK'
    BY <1>0, <2>1, <2>2, PaneBounds DEF PaneTypeOK
  <2>4. Capture(WaitLines)' = Capture(WaitLines)
    BY <2>1, CaptureSame
  <2> QED
    BY <1>0, <2>1, <2>3, <2>4 DEF NumTypeOK, ChangeClock, ChangeSeenBeforeTimeout
<1>5. CASE Emit /\ UNCHANGED <<pc, start, wake, initial, result, seen>>
  BY <1>5, EmitPreserves
<1>6. CASE UNCHANGED vars
  <2>1. UNCHANGED <<printed, printedAt, now, pc, start, wake, initial, result,
                    seen>>
    BY <1>6 DEF vars, paneVars
  <2>2. Capture(WaitLines)' = Capture(WaitLines)
    BY <2>1, CaptureSame
  <2> QED
    BY <2>1, <2>2 DEF NumTypeOK, ChangeClock, PaneTypeOK, ChangeSeenBeforeTimeout
<1> QED
  BY <1>1, <1>2, <1>3, <1>4, <1>5, <1>6 DEF Next

(* wait_for_change returns False only when nothing was printed between its *)
(* first capture and start_time + timeout: it sleeps before each capture,  *)
(* so its last capture is taken at or past the deadline, and a capture      *)
(* equal to the first one means no line came since.                         *)
THEOREM ChangeSeenBeforeTimeoutHolds == Spec => []ChangeSeenBeforeTimeout
<1>1. ChangeInv => ChangeSeenBeforeTimeout
  BY DEF ChangeInv, ChangeClock
<1> QED
  BY <1>1, ChangeInitInv, ChangeStepInv, PTL DEF Spec

(* The model's state stays of its type.                                    *)
THEOREM ChangeTypeCorrect == Spec => []TypeOK
<1>1. ChangeInv => TypeOK
  BY DEF ChangeInv
<1> QED
  BY <1>1, ChangeInitInv, ChangeStepInv, PTL DEF Spec
=============================================================================
