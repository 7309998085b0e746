---------------------------- MODULE HandoffChain ----------------------------
(***************************************************************************)
(* The handoff chain: both create_handoff.py scripts (the session-handoff  *)
(* skill's and the one under docs/handoffs/scripts) write                  *)
(* docs/handoffs/<YYYY-MM-DD-HHMMSS>-<slug>.md, and link the new document  *)
(* to the most recent handoff already in that directory, or to the one    *)
(* --continues-from names.                                                 *)
(*                                                                          *)
(* A file name is its second-resolution timestamp and its slug, or        *)
(* UndatedFile, a .md file whose name carries no timestamp.  The           *)
(* directory maps each file to the handoff it links to.  history records   *)
(* every creation in order; it is a history variable, read only by the     *)
(* properties.  Git metadata, titles and the template body are left out:   *)
(* the chain reads none of them.                                           *)
(***************************************************************************)
EXTENDS Naturals, Sequences

CONSTANTS
    Slugs,         \* slugs the user passes (already sanitized)
    MaxClock,      \* the last second the model reaches
    MaxHandoffs,   \* creations in one behaviour
    UndatedFile,   \* a .md file in docs/handoffs without a timestamp
    NoLink,        \* "Continues from: None"
    ArchiveSlugs,  \* the slugs that contain "archive"
    ArchivePath    \* whether the project's path contains "archive"

(* The script needs a slug argument, so there is one; ChainInit starts the  *)
(* clock at second 1, so the bound covers it.                               *)
ASSUME ChainAssumption ==
    /\ Slugs # {}
    /\ MaxClock \in Nat \ {0} /\ MaxHandoffs \in Nat
    /\ UndatedFile \notin [ts : Nat, slug : Slugs]
    /\ NoLink \notin [ts : Nat, slug : Slugs] \cup {UndatedFile}
    /\ ArchiveSlugs \subseteq Slugs /\ ArchivePath \in BOOLEAN

\* f"{file_timestamp}-{slug}.md"
FileName(t, s) == [ts |-> t, slug |-> s]
DatedFiles == [ts : 0..MaxClock, slug : Slugs]
Files == DatedFiles \cup {UndatedFile}

VARIABLES
    clock,     \* datetime.now(), in seconds
    dir,       \* dir[f]: the handoff file f continues from
    history    \* every creation: [name, link, auto]

chainVars == <<clock, dir, history>>

ChainTypeOK ==
    /\ clock \in 0..MaxClock
    /\ DOMAIN dir \subseteq Files
    /\ \A f \in DOMAIN dir : dir[f] \in Files \cup {NoLink}
    /\ history \in Seq([name : DatedFiles, link : Files \cup {NoLink},
                        auto : BOOLEAN])

(* The directory as a later run finds it: empty, or holding an undated     *)
(* note, a handoff of second 0, or both.                                   *)
ChainInit ==
    /\ clock = 1
    /\ \E init \in SUBSET {UndatedFile, FileName(0, CHOOSE s \in Slugs : TRUE)} :
          dir = [f \in init |-> NoLink]
    /\ history = << >>

-----------------------------------------------------------------------------
\* Mutant: the sort's reverse=True is lost, so handoffs[0] is the oldest.
OldestOf(S) ==
    LET dated == S \ {UndatedFile}
    IN  IF dated = {} THEN S
        ELSE {f \in dated : \A g \in dated : f.ts <= g.ts}

(* The sort of find_previous_handoffs: by date, most recent first, an      *)
(* undated file (date None, keyed datetime.min) last; list.sort is stable, *)
(* so among equal dates the order is glob's, which the model leaves open.  *)
(* The candidates for handoffs[0] are the files of S with the latest date, *)
(* or all of S when none is dated.                                         *)
NewestOf(S) ==
    LET dated == S \ {UndatedFile}
    IN  IF dated = {} THEN S
        ELSE {f \in dated : \A g \in dated : g.ts <= f.ts}

(* get_previous_handoff_info (skill, lines 140-165) over                   *)
(* find_previous_handoffs (lines 99-137), which globs every *.md file.     *)
(* With --continues-from, the first listed handoff whose filename contains *)
(* the argument (a slug, here) or, when none does, "exists": False;        *)
(* without it, handoffs[0], if there is any handoff.  The set of links the *)
(* glob order allows.                                                      *)
SkillPrevious(cf) ==
    LET handoffs == DOMAIN dir
        matching == {f \in handoffs \ {UndatedFile} : f.slug = cf}
    IN  IF cf # NoLink
        THEN IF matching = {} THEN {NoLink} ELSE NewestOf(matching)
        ELSE IF handoffs = {} THEN {NoLink} ELSE NewestOf(handoffs)

(* find_previous_handoffs of docs/handoffs/scripts (lines 93-117): only    *)
(* names matching the timestamp pattern are handoffs, and a file is        *)
(* skipped when "archive" occurs anywhere in its path, the project's path  *)
(* and its slug included (the glob is not recursive, so no file of an      *)
(* archive subdirectory ever reaches the test).  create_handoff (lines     *)
(* 162-177) links a --continues-from argument as given, unchecked;         *)
(* otherwise previous_handoffs[0], if any.                                 *)
DocsPrevious(cf) ==
    LET handoffs == {f \in DOMAIN dir \ {UndatedFile} :
                        ~ArchivePath /\ f.slug \notin ArchiveSlugs}
    IN  IF cf # NoLink THEN {cf}
        ELSE IF handoffs = {} THEN {NoLink} ELSE NewestOf(handoffs)

(* Writing the document (skill lines 176-199 and 342; docs lines 128-140   *)
(* and 287-288): the name is taken from the clock before the directory is  *)
(* read, and the write replaces a file of the same name.                   *)
WriteHandoff(s, link, cf) ==
    LET name == FileName(clock, s)
    IN  /\ dir' = [f \in DOMAIN dir \cup {name} |->
                      IF f = name THEN link ELSE dir[f]]
        /\ history' = Append(history, [name |-> name, link |-> link,
                                       auto |-> cf = NoLink])

(* One run of the skill's create_handoff.py: generate_handoff.             *)
CreateSkill(s, cf) ==
    /\ Len(history) < MaxHandoffs
    /\ \E link \in SkillPrevious(cf) : WriteHandoff(s, link, cf)
    /\ UNCHANGED clock

\* One run of docs/handoffs/scripts/create_handoff.py.
CreateDocs(s, cf) ==
    /\ Len(history) < MaxHandoffs
    /\ \E link \in DocsPrevious(cf) : WriteHandoff(s, link, cf)
    /\ UNCHANGED clock

\* A second passes.
Tick ==
    /\ clock < MaxClock
    /\ clock' = clock + 1
    /\ UNCHANGED <<dir, history>>

ChainNext ==
    \/ \E s \in Slugs, cf \in Slugs \cup {NoLink} : CreateSkill(s, cf)
    \/ \E s \in Slugs, cf \in Files \cup {NoLink} : CreateDocs(s, cf)
    \/ Tick

ChainSpec == ChainInit /\ [][ChainNext]_chainVars

-----------------------------------------------------------------------------
(* A handoff created without --continues-from, by either script, after     *)
(* another, continues from a handoff of the same second as the one created *)
(* just before it (the "most_recent" of docs line 173): neither the        *)
(* undated notes the skill's glob picks up, nor an older handoff, is ever  *)
(* suggested over the latest one.                                          *)
AutoLinkNewest ==
    \A k \in 2..Len(history) :
        history[k].auto =>
            /\ history[k].link \in DatedFiles
            /\ history[k].link.ts = history[k - 1].name.ts
=============================================================================
