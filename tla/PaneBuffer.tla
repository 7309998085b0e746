----------------------------- MODULE PaneBuffer -----------------------------
(***************************************************************************)
(* The text tmux holds for one pane and capture_output (terminal_session.py *)
(* lines 152-170), which every observer of the controller reads through:   *)
(* "capture-pane -t <target> -S -<lines> -p".                               *)
(*                                                                          *)
(* The pane shows the command add_window typed (the prompt line echoing    *)
(* it), then the lines the process prints, one row each.  Output lines are *)
(* numbered in the order they are printed, so a row is a number: Blank for *)
(* an empty row, Cmd for the echoed command, i for the i-th printed line.  *)
(* The visible screen has ScreenRows rows; rows scrolled off it go to the  *)
(* history, which keeps at most HistoryLimit rows.  "-S -L" starts the     *)
(* capture L rows up in the history and always runs to the bottom of the   *)
(* screen, empty rows included.                                            *)
(***************************************************************************)
EXTENDS Naturals, Sequences

CONSTANTS
    ScreenRows,     \* pane height
    HistoryLimit,   \* tmux history-limit
    MaxOut,         \* bound on lines the process prints
    MaxTime,        \* bound on the clock
    Match           \* rows the caller's regex matches (a subset of Rows)

Blank == 0
Cmd == MaxOut + 1
Rows == 0..(MaxOut + 1)

ASSUME PaneAssumption ==
    /\ ScreenRows \in Nat \ {0}
    /\ HistoryLimit \in Nat
    /\ MaxOut \in Nat /\ MaxTime \in Nat
    /\ Match \subseteq Rows \ {Blank}

VARIABLES
    printed,   \* number of lines the process has printed
    printedAt, \* printedAt[i]: the time line i was printed
    now        \* time.time(), in whole ticks

paneVars == <<printed, printedAt, now>>

PaneTypeOK ==
    /\ printed \in 0..MaxOut
    /\ printedAt \in Seq(0..MaxTime) /\ Len(printedAt) = printed
    /\ now \in 0..MaxTime

-----------------------------------------------------------------------------
\* The lesser of two naturals.
Least(a, b) == IF a <= b THEN a ELSE b

\* The last n elements of s (all of s when it is shorter).
LastN(s, n) == SubSeq(s, Len(s) - Least(n, Len(s)) + 1, Len(s))

\* Every row ever written to the pane, oldest first.
Content == <<Cmd>> \o [i \in 1..printed |-> i]

\* The visible screen: the newest ScreenRows rows, padded with empty rows
\* below them while the pane has not filled up.
Screen ==
    IF Len(Content) <= ScreenRows
    THEN Content \o [i \in 1..(ScreenRows - Len(Content)) |-> Blank]
    ELSE LastN(Content, ScreenRows)

\* The scroll-back: rows above the screen, the oldest dropped past the limit.
History ==
    IF Len(Content) <= ScreenRows THEN << >>
    ELSE LastN(SubSeq(Content, 1, Len(Content) - ScreenRows), HistoryLimit)

\* capture-pane -S -L -p: L rows of history (or all of it), then the screen.
Capture(L) == LastN(History, L) \o Screen

\* The rows of a capture the regex finds a match in.
Matches(rows) == {rows[i] : i \in DOMAIN rows} \cap Match

-----------------------------------------------------------------------------
\* The process in the pane prints its next line.
Emit ==
    /\ printed < MaxOut
    /\ printed' = printed + 1
    /\ printedAt' = Append(printedAt, now)
    /\ UNCHANGED now

\* Printed lines the regex matches, printed strictly before time t.
MatchedBefore(t) == {i \in 1..printed : i \in Match /\ printedAt[i] < t}

\* Rows that hold text.
NonBlank(rows) == SelectSeq(rows, LAMBDA r : r # Blank)

-----------------------------------------------------------------------------
(* The pane on its own: the process prints while time passes.              *)
PaneInit ==
    /\ printed = 0
    /\ printedAt = << >>
    /\ now = 0

Tick ==
    /\ now < MaxTime
    /\ now' = now + 1
    /\ UNCHANGED <<printed, printedAt>>

PaneSpec == PaneInit /\ [][Emit \/ Tick]_paneVars

(* capture_output(name, lines=L) returns at most L lines of text, for every *)
(* L (spec 8.3).  The code passes L to "-S -L", which only bounds the       *)
(* history part: the whole screen is appended to it.                        *)
CaptureWithinLines ==
    \A L \in 1..MaxOut : Len(NonBlank(Capture(L))) <= L
=============================================================================
