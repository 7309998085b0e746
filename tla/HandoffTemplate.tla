-------------------------- MODULE HandoffTemplate --------------------------
(***************************************************************************)
(* The handoff workflow across two scripts: create_handoff.py writes a     *)
(* document from its template, the agent replaces its [TODO: ...]         *)
(* placeholders, and validate_handoff.py scores the result.                *)
(*                                                                          *)
(* A document is abstracted to the sections validate_handoff looks for:   *)
(* the heading level each is written at (0 when absent) and what its body  *)
(* holds (the placeholder, a body under 50 characters, or a full one),     *)
(* plus the placeholders of the other sections.  Secrets and file          *)
(* references are left out: the template has none.                        *)
(***************************************************************************)
EXTENDS HandoffQuality, FiniteSets

CONSTANT OtherTodos   \* placeholders of sections validate_handoff ignores

ASSUME TemplateAssumption == OtherTodos \in Nat

\* REQUIRED_SECTIONS and RECOMMENDED_SECTIONS (validate_handoff.py 40-54).
RequiredSections ==
    {"Current State Summary", "Important Context", "Immediate Next Steps"}
RecommendedSections ==
    {"Architecture Overview", "Critical Files", "Files Modified",
     "Decisions Made", "Assumptions Made", "Potential Gotchas"}
Sections == RequiredSections \cup RecommendedSections

Bodies == {"todo", "short", "full"}

VARIABLES
    level,      \* level[s]: number of #'s of the heading of s, 0 if none
    body,       \* body[s]: what the section holds
    otherTodo   \* placeholders left in the other sections

templateVars == <<level, body, otherTodo>>

TTypeOK ==
    /\ level \in [Sections -> 0..3]
    /\ body \in [Sections -> Bodies]
    /\ otherTodo \in 0..OtherTodos

(* generate_handoff's template (create_handoff.py lines 236-330): Current  *)
(* State Summary is a "##" section, every other section validate_handoff   *)
(* looks for is a "###" subsection; all of them but Files Modified (a      *)
(* table of the modified files) hold a [TODO: ...] placeholder.            *)
TInit ==
    /\ level = [s \in Sections |->
                  IF s = "Current State Summary" THEN 2 ELSE 3]
    /\ body = [s \in Sections |->
                  IF s = "Files Modified" THEN "full" ELSE "todo"]
    /\ otherTodo = OtherTodos

\* The agent replaces the placeholder of a section.
FillSection(s, b) ==
    /\ body[s] = "todo"
    /\ body' = [body EXCEPT ![s] = b]
    /\ UNCHANGED <<level, otherTodo>>

\* The agent replaces a placeholder of a section validate_handoff ignores.
FillOther ==
    /\ otherTodo > 0
    /\ otherTodo' = otherTodo - 1
    /\ UNCHANGED <<level, body>>

TNext ==
    \/ \E s \in Sections, b \in Bodies \ {"todo"} : FillSection(s, b)
    \/ FillOther

TSpec == TInit /\ [][TNext]_templateVars

-----------------------------------------------------------------------------
(* The section pattern (?:^|\n)##?\s*<name> (lines 68 and 90) finds a      *)
(* heading of one or two #'s only.                                         *)
Found(s) == level[s] \in {1, 2}

\* check_todos (lines 57-60): the [TODO:...] placeholders anywhere.
TodoCount == Cardinality({s \in Sections : body[s] = "todo"}) + otherTodo

(* check_required_sections (lines 63-83): a required section is missing   *)
(* when its heading is not found, incomplete when its body is under 50     *)
(* characters or holds "[TODO".                                            *)
MissingRequired == {s \in RequiredSections : ~Found(s) \/ body[s] # "full"}

\* check_recommended_sections (lines 86-93): only the heading is looked for.
MissingRecommended == {s \in RecommendedSections : ~Found(s)}

(* validate_handoff (lines 206-240) on the document: the counts            *)
(* calculate_quality_score reads.                                          *)
ValidateHandoff ==
    [todos |-> TodoCount,
     missingRequired |-> Cardinality(MissingRequired),
     missingRecommended |-> Cardinality(MissingRecommended),
     secrets |-> 0, filesMissing |-> 0]

(* check_completion_status of list_handoffs.py (lines 45-57): the status  *)
(* it lists a handoff with, from its count of "[TODO:".                    *)
ListStatus ==
    IF TodoCount = 0 THEN "Complete"
    ELSE IF TodoCount <= 3 THEN "In Progress" ELSE "Needs Work"

-----------------------------------------------------------------------------
(* A document create_handoff generated, once the agent has replaced every  *)
(* placeholder with a full answer, passes validate_handoff: READY and exit *)
(* code 0.  create_handoff's closing steps (lines 380-385) are: replace    *)
(* the placeholders, focus on Important Context and Immediate Next Steps,  *)
(* then run validate_handoff.py, which "checks for completeness".  Such a  *)
(* document is one list_handoffs.py shows as Complete.                     *)
FilledTemplateReady ==
    (ListStatus = "Complete" /\ \A s \in Sections : body[s] = "full")
        => Verdict(ValidateHandoff) = "READY"
=============================================================================
