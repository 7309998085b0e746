--------------------------- MODULE HandoffQuality ---------------------------
(***************************************************************************)
(* validate_handoff.py: the quality score of a handoff document and the    *)
(* verdict its report prints.  The regex checks (check_todos,              *)
(* check_required_sections, check_recommended_sections, scan_for_secrets,  *)
(* check_file_references) are abstracted to what the score reads of them:  *)
(* how many TODO placeholders, incomplete required sections, missing       *)
(* recommended sections, secret patterns and missing files they found.     *)
(* The script runs once on one document: the state is that document's      *)
(* check results, and nothing changes.                                     *)
(***************************************************************************)
EXTENDS Integers

CONSTANTS
    TodoCounts,      \* numbers of [TODO:...] placeholders considered
    SecretCounts,    \* numbers of SECRET_PATTERNS that matched
    FileCounts       \* numbers of referenced files not found

RequiredCount == 3      \* len(REQUIRED_SECTIONS)
RecommendedCount == 6   \* len(RECOMMENDED_SECTIONS)

ASSUME QualityAssumption ==
    /\ 0 \in TodoCounts /\ TodoCounts \subseteq Nat
    /\ 0 \in SecretCounts /\ SecretCounts \subseteq Nat
    /\ 0 \in FileCounts /\ FileCounts \subseteq Nat

VARIABLE checks   \* what the checks found in the document

\* The results validate_handoff collects (lines 215-219).
CheckResults ==
    [todos : TodoCounts, missingRequired : 0..RequiredCount,
     missingRecommended : 0..RecommendedCount, secrets : SecretCounts,
     filesMissing : FileCounts]

QTypeOK == checks \in CheckResults

QInit == checks \in CheckResults

-----------------------------------------------------------------------------
\* The lesser and the greater of two integers.
IMin(a, b) == IF a <= b THEN a ELSE b
IMax(a, b) == IF a >= b THEN a ELSE b

\* Mutant: the -20 cap on missing files written as "no deduction past 4".
QualityScoreCapSkips(c) ==
    LET s == 100 - (IF c.todos > 0 THEN 30 ELSE 0)
                 - 10 * c.missingRequired
                 - (IF c.secrets > 0 THEN 20 ELSE 0)
                 - (IF c.filesMissing <= 4 THEN 5 * c.filesMissing ELSE 0)
                 - 2 * c.missingRecommended
    IN  IMax(0, s)

(* calculate_quality_score (lines 150-187): 100 less 30 for any TODO, 10   *)
(* per incomplete required section, 20 for any secret, 5 per missing file  *)
(* up to 4, 2 per missing recommended section, floored at 0.  The          *)
(* required-section deduction is guarded by "not required_complete", which *)
(* is "missing_required is empty" (line 83).                               *)
QualityScore(c) ==
    LET s == 100 - (IF c.todos > 0 THEN 30 ELSE 0)
                 - (IF c.missingRequired > 0
                    THEN 10 * c.missingRequired ELSE 0)
                 - (IF c.secrets > 0 THEN 20 ELSE 0)
                 - (IF c.filesMissing > 0
                    THEN 5 * IMin(c.filesMissing, 4) ELSE 0)
                 - 2 * c.missingRecommended
    IN  IMax(0, s)

\* The rating thresholds (lines 194-201).
Rating(score) ==
    CASE score >= 90 -> "Excellent"
      [] score >= 70 -> "Good"
      [] score >= 50 -> "Fair"
      [] OTHER       -> "Poor"

\* print_report's verdict (lines 296-305); main exits 0 only on READY.
Verdict(c) ==
    CASE QualityScore(c) >= 70 /\ c.secrets = 0 -> "READY"
      [] c.secrets > 0                          -> "BLOCKED"
      [] OTHER                                  -> "NEEDS_WORK"

ValidateExitCode(c) == IF Verdict(c) = "READY" THEN 0 ELSE 1

\* The document is checked once.
QNext == UNCHANGED checks

QSpec == QInit /\ [][QNext]_checks

-----------------------------------------------------------------------------
\* The same results with one more problem of one kind (when in range).
Worse(c) ==
    { d \in CheckResults :
        \/ d = [c EXCEPT !.todos = d.todos] /\ d.todos > c.todos
        \/ d = [c EXCEPT !.missingRequired = c.missingRequired + 1]
        \/ d = [c EXCEPT !.missingRecommended = c.missingRecommended + 1]
        \/ d = [c EXCEPT !.secrets = d.secrets] /\ d.secrets > c.secrets
        \/ d = [c EXCEPT !.filesMissing = d.filesMissing]
           /\ d.filesMissing > c.filesMissing }

(* One more problem found in the document, of any kind, never raises its   *)
(* quality score: the caps on the file deduction and the floor at 0 keep   *)
(* the score monotone.                                                     *)
QualityMonotone ==
    \A d \in Worse(checks) : QualityScore(d) <= QualityScore(checks)
=============================================================================
