---------------------------- MODULE StreamOutput ----------------------------
(***************************************************************************)
(* stream_output(name, interval) (terminal_session.py lines 227-260): a    *)
(* generator that captures the pane again and again and yields the lines   *)
(* past the previous capture's length:                                      *)
(*                                                                          *)
(*     last_output = ""                                                     *)
(*     while True:                                                          *)
(*         current = self.capture_output(window_name, lines=1000)           *)
(*         if current != last_output:                                       *)
(*             last_lines = last_output.split("\n") if last_output else []  *)
(*             current_lines = current.split("\n")                          *)
(*             for line in current_lines[len(last_lines):]:                 *)
(*                 if line: yield line                                      *)
(*             last_output = current                                        *)
(*         time.sleep(interval)                                             *)
(*                                                                          *)
(* capture-pane -p ends every row with "\n", so a capture of m rows splits *)
(* into m + 1 strings, the last one empty.  One iteration (a capture and   *)
(* the yields it produces) is one step: the rows it yields are fixed by    *)
(* that capture, whatever the process prints while the consumer runs.      *)
(***************************************************************************)
EXTENDS PaneBuffer

CONSTANT StreamLines   \* the lines argument of the capture (1000)

ASSUME StreamAssumption == StreamLines \in Nat

VARIABLES
    lastOutput,  \* rows of last_output; << >> stands for ""
    yielded      \* every line yielded so far, in order

vars == <<paneVars, lastOutput, yielded>>

TypeOK ==
    /\ PaneTypeOK
    /\ lastOutput \in Seq(Rows)
    /\ yielded \in Seq(Rows \ {Blank})

Init ==
    /\ PaneInit
    /\ lastOutput = << >>
    /\ yielded = << >>

\* Mutant: the slice starts one row early.
NewRowsFromLast(last, current) ==
    IF last = << >> THEN current
    ELSE SubSeq(current, Len(last), Len(current))

\* current_lines[len(last_lines):] as rows: all rows on the first capture;
\* otherwise the rows after position Len(last) + 1 (the split of last_output
\* has Len(last) + 1 strings).
NewRows(last, current) ==
    IF last = << >> THEN current
    ELSE SubSeq(current, Len(last) + 2, Len(current))

\* One loop iteration: capture; when it differs from last_output, yield the
\* non-empty new rows and remember the capture.
StreamPoll ==
    LET current == Capture(StreamLines)
    IN  /\ current # lastOutput
        /\ yielded' = yielded \o NonBlank(NewRows(lastOutput, current))
        /\ lastOutput' = current
        /\ UNCHANGED paneVars

Next ==
    \/ StreamPoll
    \/ Emit /\ UNCHANGED <<lastOutput, yielded>>

Spec == Init /\ [][Next]_vars

-----------------------------------------------------------------------------
(* No line is yielded twice, whether or not the history limit truncates    *)
(* the pane: the slice never reaches back into rows of the previous        *)
(* capture.                                                                *)
NoDuplicates ==
    \A i, j \in DOMAIN yielded : i # j => yielded[i] # yielded[j]

(* Spec 8.5: with room for every line in the history and in the capture,  *)
(* the stream loses no line: what was yielded so far is the pane's         *)
(* non-empty lines from the first on, none skipped, so every line the pane *)
(* shows is yielded by the poll after it appears.                          *)
YieldsEveryLine ==
    LET shown == NonBlank(Content)
    IN  /\ Len(yielded) <= Len(shown)
        /\ yielded = SubSeq(shown, 1, Len(yielded))
=============================================================================
