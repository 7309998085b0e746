-------------------------- MODULE HandoffStaleness --------------------------
(***************************************************************************)
(* check_staleness.py (docs/handoffs/scripts): how stale a handoff is,     *)
(* from its age, the commits and changed files since it was written, the   *)
(* branch, and the files it references that are gone.  Parsing the        *)
(* document and asking git are abstracted to what they return: whether a  *)
(* Created timestamp and a Branch were found, whether the project is a git *)
(* repository, and the counts.  The script runs once: the state is the     *)
(* facts of one handoff, and nothing changes.                              *)
(***************************************************************************)
EXTENDS Integers

CONSTANTS
    DayValues,       \* ages in days considered (at and around thresholds)
    CommitValues,    \* numbers of commits since the handoff
    ChangedValues,   \* numbers of files changed since the handoff
    MissingValues    \* numbers of referenced files that no longer exist

ASSUME StalenessAssumption ==
    /\ DayValues \subseteq Int
    /\ CommitValues \subseteq Nat /\ ChangedValues \subseteq Nat
    /\ MissingValues \subseteq Nat

VARIABLE facts   \* what check_staleness finds out about one handoff

\* created: the Created line parsed; branchKnown: a Branch that is not a
\* "[...]" placeholder; sameBranch: git's current branch equals it.
Facts ==
    [created : BOOLEAN, branchKnown : BOOLEAN, git : BOOLEAN,
     days : DayValues, commits : CommitValues, changed : ChangedValues,
     sameBranch : BOOLEAN, missing : MissingValues]

STypeOK == facts \in Facts

SInit == facts \in Facts

-----------------------------------------------------------------------------
\* Points for one factor: 3, 2, 1 past the high, middle, low threshold.
Tier3(x, low, mid, high) ==
    CASE x > high -> 3 [] x > mid -> 2 [] x > low -> 1 [] OTHER -> 0

\* Mutant: the two missing-files deductions swapped.
StalenessScoreSwapped(days, commits, changed, branchMatches, missing) ==
    Tier3(days, 1, 7, 30) + Tier3(commits, 5, 20, 50)
    + (IF branchMatches THEN 0 ELSE 2)
    + (CASE missing > 5 -> 1 [] missing > 0 -> 2 [] OTHER -> 0)
    + (CASE changed > 20 -> 2 [] changed > 5 -> 1 [] OTHER -> 0)

(* calculate_staleness_level's score (lines 160-203): age over 1/7/30 days *)
(* adds 1/2/3, commits over 5/20/50 add 1/2/3, a different branch adds 2,  *)
(* missing files add 1 (over 0) or 2 (over 5), changed files add 1 (over   *)
(* 5) or 2 (over 20).                                                      *)
StalenessScore(days, commits, changed, branchMatches, missing) ==
    Tier3(days, 1, 7, 30) + Tier3(commits, 5, 20, 50)
    + (IF branchMatches THEN 0 ELSE 2)
    + (CASE missing > 5 -> 2 [] missing > 0 -> 1 [] OTHER -> 0)
    + (CASE changed > 20 -> 2 [] changed > 5 -> 1 [] OTHER -> 0)

\* The level of a score (lines 205-217).
StalenessLevel(score) ==
    CASE score = 0 -> "FRESH"
      [] score <= 2 -> "SLIGHTLY_STALE"
      [] score <= 4 -> "STALE"
      [] OTHER -> "VERY_STALE"

(* check_staleness (lines 232-297): no git repository gives UNKNOWN; with  *)
(* no Created timestamp the age is taken as 0 and git is asked nothing (no *)
(* commits, no changed files); with no Branch the branch counts as         *)
(* matching.                                                               *)
CheckLevel(f) ==
    IF ~f.git THEN "UNKNOWN"
    ELSE StalenessLevel(
           StalenessScore(IF f.created THEN f.days ELSE 0,
                          IF f.created THEN f.commits ELSE 0,
                          IF f.created THEN f.changed ELSE 0,
                          IF f.branchKnown THEN f.sameBranch ELSE TRUE,
                          f.missing))

\* main's exit code (lines 374-381).
StalenessExitCode(level) ==
    CASE level \in {"FRESH", "SLIGHTLY_STALE"} -> 0
      [] level = "STALE" -> 1
      [] OTHER -> 2

\* The handoff is checked once.
SNext == UNCHANGED facts

SSpec == SInit /\ [][SNext]_facts

-----------------------------------------------------------------------------
\* Levels from fresh to very stale.
LevelRank(level) ==
    CASE level = "FRESH" -> 0 [] level = "SLIGHTLY_STALE" -> 1
      [] level = "STALE" -> 2 [] OTHER -> 3

\* The next larger value in a finite set of numbers, if any.
NextUp(S, x) == {y \in S : y > x /\ \A z \in S : z > x => y <= z}

\* The same facts with one measure of change one step larger.
Staler(f) ==
    UNION { {[f EXCEPT !.days = y] : y \in NextUp(DayValues, f.days)},
            {[f EXCEPT !.commits = y] : y \in NextUp(CommitValues, f.commits)},
            {[f EXCEPT !.changed = y] : y \in NextUp(ChangedValues, f.changed)},
            {[f EXCEPT !.missing = y] : y \in NextUp(MissingValues, f.missing)},
            IF f.sameBranch THEN {[f EXCEPT !.sameBranch = FALSE]} ELSE {} }

(* For a handoff in a git repository, more age, more commits, more changed *)
(* files, more missing files or a different branch never make the verdict  *)
(* fresher, and so never turn main's exit code from failure to success.    *)
StalenessMonotone ==
    facts.git =>
        \A g \in Staler(facts) :
            /\ LevelRank(CheckLevel(facts)) <= LevelRank(CheckLevel(g))
            /\ StalenessExitCode(CheckLevel(facts)) <= StalenessExitCode(CheckLevel(g))
=============================================================================
