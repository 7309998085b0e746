------------------------- MODULE HandoffScoringProofs -------------------------
(***************************************************************************)
(* Proofs that the two handoff scores are monotone for every input, not    *)
(* only the threshold values MC_Scripts enumerates.                        *)
(***************************************************************************)
EXTENDS HandoffQuality, HandoffStaleness, TLAPS

USE QualityAssumption, StalenessAssumption

-----------------------------------------------------------------------------
(* One more problem of any kind never raises calculate_quality_score's     *)
(* result.                                                                 *)
LEMMA QualityScoreMonotone ==
    ASSUME NEW c \in CheckResults, NEW d \in Worse(c)
    PROVE  QualityScore(d) <= QualityScore(c)
<1> DEFINE T(x) == IF x.todos > 0 THEN 30 ELSE 0
           R(x) == IF x.missingRequired > 0 THEN 10 * x.missingRequired ELSE 0
           S(x) == IF x.secrets > 0 THEN 20 ELSE 0
           F(x) == IF x.filesMissing > 0 THEN 5 * IMin(x.filesMissing, 4) ELSE 0
           M(x) == 2 * x.missingRecommended
           Raw(x) == 100 - T(x) - R(x) - S(x) - F(x) - M(x)
<1>1. \A x \in CheckResults : QualityScore(x) = IMax(0, Raw(x))
  BY DEF QualityScore
<1>2. d \in CheckResults
  BY DEF Worse
<1>3. /\ c.todos \in Nat /\ c.secrets \in Nat /\ c.filesMissing \in Nat
      /\ c.missingRequired \in 0..RequiredCount
      /\ c.missingRecommended \in 0..RecommendedCount
  BY DEF CheckResults
<1>4. /\ d.todos \in Nat /\ d.secrets \in Nat /\ d.filesMissing \in Nat
      /\ d.missingRequired \in 0..RequiredCount
      /\ d.missingRecommended \in 0..RecommendedCount
  BY <1>2 DEF CheckResults
<1>5. /\ c.todos <= d.todos /\ c.secrets <= d.secrets
      /\ c.filesMissing <= d.filesMissing
      /\ c.missingRequired <= d.missingRequired
      /\ c.missingRecommended <= d.missingRecommended
  BY <1>3, <1>4 DEF Worse, CheckResults
<1>6. /\ T(c) <= T(d) /\ R(c) <= R(d) /\ S(c) <= S(d)
      /\ F(c) <= F(d) /\ M(c) <= M(d)
      /\ T(c) \in Int /\ R(c) \in Int /\ S(c) \in Int
      /\ F(c) \in Int /\ M(c) \in Int
      /\ T(d) \in Int /\ R(d) \in Int /\ S(d) \in Int
      /\ F(d) \in Int /\ M(d) \in Int
  BY <1>3, <1>4, <1>5 DEF IMin, RequiredCount, RecommendedCount
<1>7. Raw(d) <= Raw(c) /\ Raw(c) \in Int /\ Raw(d) \in Int
  BY <1>6
<1> QED
  BY <1>1, <1>2, <1>7 DEF IMax

\* The document's checks never change while the script runs.
QualityInv == checks \in CheckResults /\ QualityMonotone

(* validate_handoff.py's score is monotone in the problems found, for      *)
(* every document: a worse document never scores better.                   *)
THEOREM QualityMonotoneHolds == QSpec => []QualityMonotone
<1>1. QInit => QualityInv
  BY QualityScoreMonotone DEF QInit, QualityInv, QualityMonotone
<1>2. QualityInv /\ [QNext]_checks => QualityInv'
  BY DEF QualityInv, QualityMonotone, QNext, Worse, CheckResults,
         QualityScore
<1>3. QualityInv => QualityMonotone
  BY DEF QualityInv
<1> QED
  BY <1>1, <1>2, <1>3, PTL DEF QSpec
-----------------------------------------------------------------------------
(* A larger score never maps to a fresher level or a better exit code.     *)
LEMMA LevelMonotone ==
    ASSUME NEW s1 \in Int, NEW s2 \in Int, s1 <= s2
    PROVE  /\ LevelRank(StalenessLevel(s1)) <= LevelRank(StalenessLevel(s2))
           /\ StalenessExitCode(StalenessLevel(s1))
                 <= StalenessExitCode(StalenessLevel(s2))
BY DEF LevelRank, StalenessLevel, StalenessExitCode

(* One step up in one measure of change, for a handoff in a git           *)
(* repository, is a pointwise larger set of inputs to the score.           *)
LEMMA StalerInputs ==
    ASSUME NEW f \in Facts, NEW g \in Staler(f)
    PROVE  /\ g \in Facts
           /\ g.git = f.git /\ g.created = f.created
           /\ g.branchKnown = f.branchKnown
           /\ f.days <= g.days /\ f.commits <= g.commits
           /\ f.changed <= g.changed /\ f.missing <= g.missing
           /\ g.sameBranch => f.sameBranch
<1>1. CASE \E y \in NextUp(DayValues, f.days) : g = [f EXCEPT !.days = y]
  BY <1>1 DEF Facts, NextUp
<1>2. CASE \E y \in NextUp(CommitValues, f.commits) :
             g = [f EXCEPT !.commits = y]
  BY <1>2 DEF Facts, NextUp
<1>3. CASE \E y \in NextUp(ChangedValues, f.changed) :
             g = [f EXCEPT !.changed = y]
  BY <1>3 DEF Facts, NextUp
<1>4. CASE \E y \in NextUp(MissingValues, f.missing) :
             g = [f EXCEPT !.missing = y]
  BY <1>4 DEF Facts, NextUp
<1>5. CASE f.sameBranch /\ g = [f EXCEPT !.sameBranch = FALSE]
  <2>1. f.days \in Int /\ f.commits \in Nat /\ f.changed \in Nat
        /\ f.missing \in Nat
    BY DEF Facts
  <2>2. g \in Facts
    BY <1>5 DEF Facts
  <2> QED
    BY <1>5, <2>1, <2>2
<1> QED
  BY <1>1, <1>2, <1>3, <1>4, <1>5 DEF Staler

\* The handoff's facts never change while the script runs.
StalenessInv == facts \in Facts /\ StalenessMonotone

(* check_staleness.py never rates a staler handoff fresher, nor gives it a *)
(* better exit code, for every age, count and branch.                      *)
THEOREM StalenessMonotoneHolds == SSpec => []StalenessMonotone
<1>1. ASSUME NEW f \in Facts, f.git, NEW g \in Staler(f)
      PROVE  /\ LevelRank(CheckLevel(f)) <= LevelRank(CheckLevel(g))
             /\ StalenessExitCode(CheckLevel(f))
                   <= StalenessExitCode(CheckLevel(g))
  <2>1. /\ g \in Facts /\ g.git /\ g.created = f.created
        /\ g.branchKnown = f.branchKnown
        /\ f.days <= g.days /\ f.commits <= g.commits
        /\ f.changed <= g.changed /\ f.missing <= g.missing
        /\ g.sameBranch => f.sameBranch
    BY <1>1, StalerInputs
  <2> DEFINE Sc(x) ==
        StalenessScore(IF x.created THEN x.days ELSE 0,
                       IF x.created THEN x.commits ELSE 0,
                       IF x.created THEN x.changed ELSE 0,
                       IF x.branchKnown THEN x.sameBranch ELSE TRUE,
                       x.missing)
  <2>2. Sc(f) <= Sc(g) /\ Sc(f) \in Int /\ Sc(g) \in Int
    <3>1. /\ f.days \in Int /\ g.days \in Int
          /\ f.commits \in Nat /\ g.commits \in Nat
          /\ f.changed \in Nat /\ g.changed \in Nat
          /\ f.missing \in Nat /\ g.missing \in Nat
          /\ f.sameBranch \in BOOLEAN /\ g.sameBranch \in BOOLEAN
          /\ f.created \in BOOLEAN /\ f.branchKnown \in BOOLEAN
      BY <1>1, <2>1 DEF Facts
    <3>2. CASE f.created
      <4>1. g.days \in Int /\ f.days <= g.days /\ f.commits <= g.commits
            /\ f.changed <= g.changed
        BY <2>1, <3>1
      <4>2. CASE f.branchKnown
        BY <2>1, <3>1, <3>2, <4>1, <4>2 DEF StalenessScore, Tier3
      <4>3. CASE ~f.branchKnown
        BY <2>1, <3>1, <3>2, <4>1, <4>3 DEF StalenessScore, Tier3
      <4> QED
        BY <4>2, <4>3
    <3>3. CASE ~f.created
      <4>2. CASE f.branchKnown
        BY <2>1, <3>1, <3>3, <4>2 DEF StalenessScore, Tier3
      <4>3. CASE ~f.branchKnown
        BY <2>1, <3>1, <3>3, <4>3 DEF StalenessScore, Tier3
      <4> QED
        BY <4>2, <4>3
    <3> QED
      BY <3>2, <3>3
  <2>3. CheckLevel(f) = StalenessLevel(Sc(f))
        /\ CheckLevel(g) = StalenessLevel(Sc(g))
    BY <1>1, <2>1 DEF CheckLevel
  <2> QED
    BY <2>2, <2>3, LevelMonotone
<1>2. SInit => StalenessInv
  BY <1>1 DEF SInit, StalenessInv, StalenessMonotone
<1>3. StalenessInv /\ [SNext]_facts => StalenessInv'
  BY DEF StalenessInv, StalenessMonotone, SNext
<1>4. StalenessInv => StalenessMonotone
  BY DEF StalenessInv
<1> QED
  BY <1>2, <1>3, <1>4, PTL DEF SSpec
=============================================================================
