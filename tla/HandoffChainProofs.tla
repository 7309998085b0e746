------------------------- MODULE HandoffChainProofs -------------------------
(***************************************************************************)
(* Proof that both create_handoff.py scripts, interleaved in any order,    *)
(* link an automatically chained handoff to one of the latest second       *)
(* (AutoLinkNewest), for every set of slugs and every bound, when no slug  *)
(* and not the project's path contains "archive" (NoArchive), and that     *)
(* the chain's state is well typed whatever the slugs and the path.        *)
(***************************************************************************)
EXTENDS HandoffChain, SequenceTheorems, TLAPS

(* The parts of ChainAssumption the proofs cite, one fact each; the rest   *)
(* of it (the sentinels are not file names) is cited where it is needed.  *)
LEMMA ClockBound == MaxClock \in Nat \ {0}
BY ChainAssumption

LEMMA SlugsNonEmpty == Slugs # {}
BY ChainAssumption

(* No slug and not the project's path contains "archive": the docs        *)
(* script's test at line 103 then skips no handoff.                        *)
NoArchive == ArchiveSlugs = {} /\ ~ArchivePath

\* The handoffs in the directory: the files whose name carries a timestamp.
Dated == DOMAIN dir \ {UndatedFile}

\* The name of the handoff written last.
LastName == history[Len(history)].name

(* AutoLinkNewest is not inductive: a step extends history, and the new    *)
(* entry's link is chosen by the sort over the directory.  The sort picks  *)
(* the handoff written last only because the last write took the current   *)
(* second and no file in the directory is newer than it, which is what     *)
(* ChainInv adds: the directory holds no handoff from a later second than   *)
(* the clock, the last handoff written is still in the directory, and no   *)
(* handoff in it is newer than that one.                                   *)
ChainInv ==
    /\ ChainTypeOK
    /\ \A f \in Dated : f.ts <= clock
    /\ Len(history) > 0 =>
          /\ LastName \in Dated
          /\ \A f \in Dated : f.ts <= LastName.ts
    /\ AutoLinkNewest

\* Entries of the history are records of the type ChainTypeOK gives.
Entry == [name : DatedFiles, link : Files \cup {NoLink}, auto : BOOLEAN]

\* The undated note is not a handoff file name.
LEMMA UndatedNotDated == UndatedFile \notin DatedFiles
BY ChainAssumption DEF DatedFiles

(* The candidates for handoffs[0] in a set with a handoff x are handoffs   *)
(* no older than x.                                                        *)
LEMMA NewestOfDated ==
    ASSUME NEW S, NEW x \in S \ {UndatedFile}
    PROVE  \A f \in NewestOf(S) : f \in S \ {UndatedFile} /\ x.ts <= f.ts
BY DEF NewestOf

\* The candidates are always files of the set.
LEMMA NewestOfSubset == \A S : NewestOf(S) \subseteq S
BY DEF NewestOf

\* The handoff a later run may find in the directory at start.
InitFile == FileName(0, CHOOSE s \in Slugs : TRUE)

LEMMA InitFileDated == InitFile \in DatedFiles /\ InitFile.ts = 0
BY SlugsNonEmpty, ClockBound DEF InitFile, FileName, DatedFiles

LEMMA ChainInitInv == ChainInit => ChainInv
<1> SUFFICES ASSUME ChainInit PROVE ChainInv
  OBVIOUS
<1>1. /\ DOMAIN dir \subseteq {UndatedFile, InitFile}
      /\ \A f \in DOMAIN dir : dir[f] = NoLink
  BY DEF ChainInit, InitFile
<1>2. clock = 1 /\ history = << >>
  BY DEF ChainInit
<1>3. ChainTypeOK
  <2>1. clock \in 0..MaxClock
    BY <1>2, ClockBound
  <2>2. DOMAIN dir \subseteq Files
    BY <1>1, InitFileDated DEF Files
  <2>3. history \in Seq([name : DatedFiles, link : Files \cup {NoLink},
                         auto : BOOLEAN])
    BY <1>2, EmptySeq
  <2> QED
    BY <1>1, <2>1, <2>2, <2>3 DEF ChainTypeOK
<1>4. \A f \in Dated : f.ts <= clock
  BY <1>1, <1>2, InitFileDated DEF Dated
<1>5. Len(history) = 0
  BY <1>2, EmptySeq
<1>6. AutoLinkNewest
  BY <1>5 DEF AutoLinkNewest
<1> QED
  BY <1>3, <1>4, <1>5, <1>6 DEF ChainInv

(* Writing a handoff keeps the types, whatever link is recorded.          *)
LEMMA WriteType ==
    ASSUME ChainTypeOK, NEW s \in Slugs, NEW link \in Files \cup {NoLink},
           NEW cf, WriteHandoff(s, link, cf), clock' = clock
    PROVE  ChainTypeOK'
<1> DEFINE name == FileName(clock, s)
           rec  == [name |-> name, link |-> link, auto |-> cf = NoLink]
<1>1. /\ dir' = [f \in DOMAIN dir \cup {name} |->
                    IF f = name THEN link ELSE dir[f]]
      /\ history' = Append(history, rec)
  BY DEF WriteHandoff
<1>2. name \in DatedFiles /\ rec \in Entry
  BY DEF ChainTypeOK, FileName, DatedFiles, Entry
<1>3. history' \in Seq(Entry)
  BY <1>1, <1>2, AppendProperties DEF ChainTypeOK, Entry
<1>4. DOMAIN dir' \subseteq Files
      /\ \A f \in DOMAIN dir' : dir'[f] \in Files \cup {NoLink}
  BY <1>1, <1>2 DEF ChainTypeOK, Files
<1> QED
  BY <1>3, <1>4 DEF ChainTypeOK, Entry

(* One write preserves ChainInv when the link it records satisfies the     *)
(* chaining rule for an automatic link.                                    *)
LEMMA WriteInv ==
    ASSUME ChainInv, NEW s \in Slugs, NEW link \in Files \cup {NoLink},
           NEW cf, WriteHandoff(s, link, cf), clock' = clock,
           cf = NoLink /\ Len(history) > 0 =>
               link \in DatedFiles /\ link.ts = LastName.ts
    PROVE  ChainInv'
<1> DEFINE name == FileName(clock, s)
           rec  == [name |-> name, link |-> link, auto |-> cf = NoLink]
<1>1. /\ dir' = [f \in DOMAIN dir \cup {name} |->
                    IF f = name THEN link ELSE dir[f]]
      /\ history' = Append(history, rec)
  BY DEF WriteHandoff
<1>2. name \in DatedFiles /\ name.ts = clock
  BY DEF ChainInv, ChainTypeOK, FileName, DatedFiles
<1>3. rec \in Entry
  BY <1>2 DEF Entry
<1>4. history \in Seq(Entry)
  BY DEF ChainInv, ChainTypeOK, Entry
<1>5. /\ history' \in Seq(Entry)
      /\ Len(history') = Len(history) + 1
      /\ \A i \in 1..Len(history) : history'[i] = history[i]
      /\ history'[Len(history) + 1] = rec
  BY <1>1, <1>3, <1>4, AppendProperties
<1>6. DOMAIN dir' = DOMAIN dir \cup {name} /\ dir'[name] = link
      /\ \A f \in DOMAIN dir \ {name} : dir'[f] = dir[f]
  BY <1>1
<1>7. Dated' = Dated \cup {name}
  BY <1>2, <1>6, UndatedNotDated DEF Dated
<1>8. ChainTypeOK'
  BY WriteType DEF ChainInv
<1>9. LastName' = name
  BY <1>5 DEF LastName
<1>10. \A f \in Dated' : f.ts <= clock'
  <2> SUFFICES ASSUME NEW f \in Dated' PROVE f.ts <= clock'
    OBVIOUS
  <2>1. CASE f \in Dated
    BY <2>1 DEF ChainInv
  <2>2. CASE f = name
    <3>1. f.ts = clock
      BY <2>2, <1>2
    <3>2. clock \in 0..MaxClock
      BY DEF ChainInv, ChainTypeOK
    <3> QED
      BY <3>1, <3>2
  <2> QED
    BY <1>7, <2>1, <2>2
<1>11. (Len(history) > 0 =>
          /\ LastName \in Dated
          /\ \A f \in Dated : f.ts <= LastName.ts)'
  BY <1>2, <1>5, <1>7, <1>9, <1>10
<1>12. AutoLinkNewest'
  <2> SUFFICES ASSUME NEW k \in 2..Len(history'), history'[k].auto
               PROVE  /\ history'[k].link \in DatedFiles
                      /\ history'[k].link.ts = history'[k - 1].name.ts
    BY DEF AutoLinkNewest
  <2>1. CASE k <= Len(history)
    <3>1. history'[k] = history[k] /\ history'[k - 1] = history[k - 1]
      BY <2>1, <1>5
    <3> QED
      BY <2>1, <3>1 DEF ChainInv, AutoLinkNewest
  <2>2. CASE k = Len(history) + 1
    <3>1. history'[k] = rec /\ history'[k - 1] = history[Len(history)]
      BY <2>2, <1>5
    <3>2. cf = NoLink
      <4>1. rec.auto = (cf = NoLink)
        OBVIOUS
      <4> QED
        BY <3>1, <4>1, Zenon
    <3>3. Len(history) > 0
      BY <2>2
    <3> QED
      BY <3>1, <3>2, <3>3 DEF LastName
  <2> QED
    BY <2>1, <2>2, <1>5
<1> QED
  BY <1>8, <1>10, <1>11, <1>12 DEF ChainInv

(* The skill's get_previous_handoff_info, without --continues-from, after  *)
(* a handoff was written, returns one of the latest second.                *)
LEMMA SkillLink ==
    ASSUME ChainInv, NEW cf \in Slugs \cup {NoLink}, NEW link \in SkillPrevious(cf)
    PROVE  /\ link \in Files \cup {NoLink}
           /\ cf = NoLink /\ Len(history) > 0 =>
                  link \in DatedFiles /\ link.ts = LastName.ts
<1>1. DOMAIN dir \subseteq Files
  BY DEF ChainInv, ChainTypeOK
<1>2. link \in Files \cup {NoLink}
  BY <1>1, NewestOfSubset DEF SkillPrevious
<1>3. ASSUME cf = NoLink, Len(history) > 0
      PROVE  link \in DatedFiles /\ link.ts = LastName.ts
  <2>1. LastName \in DOMAIN dir \ {UndatedFile}
        /\ \A f \in Dated : f.ts <= LastName.ts
    BY <1>3 DEF ChainInv, Dated
  <2>2. link \in NewestOf(DOMAIN dir)
    BY <1>3, <2>1 DEF SkillPrevious
  <2>3. link \in DOMAIN dir \ {UndatedFile} /\ LastName.ts <= link.ts
    BY <2>1, <2>2, NewestOfDated
  <2>4. link \in DatedFiles /\ link.ts <= LastName.ts
    BY <1>1, <2>1, <2>3 DEF Files, Dated
  <2>5. LastName \in DatedFiles
    BY <1>1, <2>1 DEF Files
  <2> QED
    BY <2>3, <2>4, <2>5 DEF DatedFiles
<1> QED
  BY <1>2, <1>3

(* The docs script's create_handoff, without --continues-from, after a     *)
(* handoff was written, links one of the latest second, when its archive   *)
(* test skips nothing.                                                     *)
LEMMA DocsLink ==
    ASSUME NoArchive, ChainInv, NEW cf \in Files \cup {NoLink},
           NEW link \in DocsPrevious(cf)
    PROVE  /\ link \in Files \cup {NoLink}
           /\ cf = NoLink /\ Len(history) > 0 =>
                  link \in DatedFiles /\ link.ts = LastName.ts
<1>1. DOMAIN dir \subseteq Files
  BY DEF ChainInv, ChainTypeOK
<1>2. link \in Files \cup {NoLink}
  BY <1>1, NewestOfSubset DEF DocsPrevious
<1>3. ASSUME cf = NoLink, Len(history) > 0
      PROVE  link \in DatedFiles /\ link.ts = LastName.ts
  <2>1. LastName \in Dated /\ \A f \in Dated : f.ts <= LastName.ts
    BY <1>3 DEF ChainInv
  <2>2. link \in NewestOf(Dated)
    BY <1>3, <2>1 DEF DocsPrevious, Dated, NoArchive
  <2>3. link \in Dated /\ LastName.ts <= link.ts
    BY <2>1, <2>2, NewestOfDated DEF Dated
  <2>4. link \in DatedFiles /\ LastName \in DatedFiles
    BY <1>1, <2>1, <2>3 DEF Files, Dated
  <2> QED
    BY <2>1, <2>3, <2>4 DEF DatedFiles
<1> QED
  BY <1>2, <1>3

LEMMA ChainStepInv ==
    NoArchive /\ ChainInv /\ [ChainNext]_chainVars => ChainInv'
<1> SUFFICES ASSUME NoArchive, ChainInv, [ChainNext]_chainVars PROVE ChainInv'
  OBVIOUS
<1>1. ASSUME NEW s \in Slugs, NEW cf \in Slugs \cup {NoLink}, CreateSkill(s, cf)
      PROVE  ChainInv'
  <2>1. PICK link \in SkillPrevious(cf) : WriteHandoff(s, link, cf)
    BY <1>1 DEF CreateSkill
  <2> QED
    BY <1>1, <2>1, SkillLink, WriteInv DEF CreateSkill
<1>2. ASSUME NEW s \in Slugs, NEW cf \in Files \cup {NoLink}, CreateDocs(s, cf)
      PROVE  ChainInv'
  <2>1. PICK link \in DocsPrevious(cf) : WriteHandoff(s, link, cf)
    BY <1>2 DEF CreateDocs
  <2> QED
    BY <1>2, <2>1, DocsLink, WriteInv DEF CreateDocs
<1>3. CASE Tick
  <2>1. clock \in 0..MaxClock
    BY DEF ChainInv, ChainTypeOK
  <2>2. clock' = clock + 1 /\ clock + 1 <= MaxClock
        /\ UNCHANGED <<dir, history>>
    BY <1>3, <2>1, ClockBound DEF Tick
  <2>3. /\ Dated' = Dated /\ LastName' = LastName /\ history' = history
        /\ AutoLinkNewest' = AutoLinkNewest
    BY <2>2 DEF Dated, LastName, AutoLinkNewest
  <2>4. ChainTypeOK'
    BY <2>2 DEF ChainInv, ChainTypeOK
  <2>5. \A f \in Dated : f.ts \in Nat
    BY DEF ChainInv, ChainTypeOK, Dated, Files, DatedFiles
  <2>6. \A f \in Dated' : f.ts <= clock'
    BY <2>1, <2>2, <2>3, <2>5 DEF ChainInv
  <2> QED
    BY <2>3, <2>4, <2>6 DEF ChainInv
<1>4. CASE UNCHANGED chainVars
  BY <1>4 DEF chainVars, ChainInv, ChainTypeOK, Dated, LastName,
              AutoLinkNewest
<1> QED
  BY <1>1, <1>2, <1>3, <1>4 DEF ChainNext

(* The links either script can record are files or nothing.              *)
LEMMA PreviousTyped ==
    ASSUME DOMAIN dir \subseteq Files
    PROVE  /\ \A cf \in Slugs \cup {NoLink} : SkillPrevious(cf) \subseteq Files \cup {NoLink}
           /\ \A cf \in Files \cup {NoLink} : DocsPrevious(cf) \subseteq Files \cup {NoLink}
BY NewestOfSubset DEF SkillPrevious, DocsPrevious

LEMMA TypeStep == ChainTypeOK /\ [ChainNext]_chainVars => ChainTypeOK'
<1> SUFFICES ASSUME ChainTypeOK, [ChainNext]_chainVars PROVE ChainTypeOK'
  OBVIOUS
<1>0. DOMAIN dir \subseteq Files
  BY DEF ChainTypeOK
<1>1. ASSUME NEW s \in Slugs, NEW cf \in Slugs \cup {NoLink}, CreateSkill(s, cf)
      PROVE  ChainTypeOK'
  <2>1. PICK link \in SkillPrevious(cf) : WriteHandoff(s, link, cf)
    BY <1>1 DEF CreateSkill
  <2> QED
    BY <1>0, <1>1, <2>1, PreviousTyped, WriteType DEF CreateSkill
<1>2. ASSUME NEW s \in Slugs, NEW cf \in Files \cup {NoLink}, CreateDocs(s, cf)
      PROVE  ChainTypeOK'
  <2>1. PICK link \in DocsPrevious(cf) : WriteHandoff(s, link, cf)
    BY <1>2 DEF CreateDocs
  <2> QED
    BY <1>0, <1>2, <2>1, PreviousTyped, WriteType DEF CreateDocs
<1>3. CASE Tick
  BY <1>3, ClockBound DEF Tick, ChainTypeOK
<1>4. CASE UNCHANGED chainVars
  BY <1>4 DEF chainVars, ChainTypeOK
<1> QED
  BY <1>1, <1>2, <1>3, <1>4 DEF ChainNext

(* Whichever of the two scripts runs, in any order and any number of times *)
(* within a second, a handoff chained without --continues-from continues   *)
(* from a handoff of the second of the one written just before it, as     *)
(* long as no slug and not the project's path contains "archive" (when one *)
(* does, the docs script skips that handoff and links an older one, or     *)
(* none).                                                                  *)
THEOREM AutoLinkNewestHolds ==
    ASSUME NoArchive PROVE ChainSpec => []AutoLinkNewest
<1>1. ChainInv => AutoLinkNewest
  BY DEF ChainInv
<1> QED
  BY <1>1, ChainInitInv, ChainStepInv, PTL DEF ChainSpec
(* The clock stays within its bound, every file in the directory links to  *)
(* a file or to nothing, and each history entry is a dated name, a link    *)
(* and the auto flag, through any sequence of runs of either script.       *)
THEOREM ChainTypeCorrect == ChainSpec => []ChainTypeOK
<1>1. ChainInit => ChainTypeOK
  BY ChainInitInv DEF ChainInv
<1> QED
  BY <1>1, TypeStep, PTL DEF ChainSpec
========================================================================
