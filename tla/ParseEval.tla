----------------------------- MODULE ParseEval -----------------------------
(***************************************************************************)
(* scripts/parse_eval.py reading the output of the RLM eval test, whose    *)
(* tiers run on threads of their own: each thread prints its tier header   *)
(* "=== <tier> ===" and then one "[GRADE] model / scenario (Nms) -- ..."    *)
(* line per case, and the lines of the threads interleave.  The parser     *)
(* reads the whole log (readlines) and scans it line by line; a result is  *)
(* filed under the tier infer_tier derives from its scenario, the last     *)
(* header seen being only the fallback.                                    *)
(*                                                                          *)
(* A line is a record: its kind, the tier of the thread that printed it    *)
(* and, for a result, model and scenario.  The eval test is not part of    *)
(* this repository, so a thread may also run a scenario none of            *)
(* infer_tier's sets names (UnlistedScenario, a scenario added to the test *)
(* and not to the parser).  Grades, latencies and the summary lines only   *)
(* feed the printed tables and are left out.                               *)
(***************************************************************************)
EXTENDS Naturals, Sequences

CONSTANTS
    EvalTiers,       \* tiers whose threads print (a subset of TierOrder)
    Models,          \* model names the threads print
    ResultsPerTier,  \* result lines each thread prints
    NoTier,          \* current_tier = None
    UnlistedScenario \* a scenario in none of infer_tier's sets

\* The scenario sets of infer_tier (lines 31-46).
BootstrapScenarios == {"simple_greeting", "research_and_write", "code_task",
                       "no_capabilities", "ping"}
DecideScenarios == {"bash_simple", "web_search", "file_read", "message_parent"}
ChangesetScenarios == {"minor_typo_fix", "new_section", "first_version"}
HarnessScenarios == {"bash_echo", "file_create_read", "multi_step"}
E2EScenarios == {"greeting", "research_task", "code_analysis"}

BootstrapTier == "TIER 1.1: ConductorBootstrapAgenda"
DecideTier == "TIER 1.2: Decide (tool use)"
ChangesetTier == "TIER 1.3: SummarizeChangeset"
HarnessTier == "TIER 2: Full AgentHarness loop"
EndToEndTier == "TIER 3: End-to-end /conductor/execute"

\* TIER_ORDER (lines 141-147).
TierOrder ==
    <<BootstrapTier, DecideTier, ChangesetTier, HarnessTier, EndToEndTier>>

\* The scenarios the thread of each tier runs.
ScenariosOf(t) ==
    CASE t = BootstrapTier -> BootstrapScenarios
      [] t = DecideTier -> DecideScenarios
      [] t = ChangesetTier -> ChangesetScenarios
      [] t = HarnessTier -> HarnessScenarios
      [] t = EndToEndTier -> E2EScenarios

ASSUME EvalAssumption ==
    /\ EvalTiers \subseteq {TierOrder[i] : i \in 1..5}
    /\ ResultsPerTier \in Nat
    /\ NoTier \notin {TierOrder[i] : i \in 1..5}
    /\ UnlistedScenario \notin BootstrapScenarios \cup DecideScenarios
                           \cup ChangesetScenarios \cup HarnessScenarios
                           \cup E2EScenarios

VARIABLES
    progress,     \* progress[t]: lines thread t has printed
    log,          \* the interleaved output
    pos,          \* lines the parser has scanned
    currentTier,  \* current_tier
    tiersSeen,    \* tiers: every header, in order
    results       \* results: [tier, thread] per result line, in order

evalVars == <<progress, log, pos, currentTier, tiersSeen, results>>

Line == [kind : {"header"}, thread : EvalTiers]
          \cup [kind : {"result"}, thread : EvalTiers, model : Models,
                scenario : (UNION {ScenariosOf(t) : t \in EvalTiers})
                             \cup {UnlistedScenario}]

EvalTypeOK ==
    /\ progress \in [EvalTiers -> 0..(ResultsPerTier + 1)]
    /\ log \in Seq(Line)
    /\ pos \in 0..Len(log)
    /\ currentTier \in EvalTiers \cup {NoTier}
    /\ tiersSeen \in Seq(EvalTiers)
    /\ results \in Seq([tier : {TierOrder[i] : i \in 1..5} \cup {NoTier, "?"},
                        thread : EvalTiers])

EvalInit ==
    /\ progress = [t \in EvalTiers |-> 0]
    /\ log = << >> /\ pos = 0
    /\ currentTier = NoTier /\ tiersSeen = << >> /\ results = << >>

-----------------------------------------------------------------------------
\* Mutant: `return "?"` without the fallback.
InferTierNoFallback(model, scenario, fallback) ==
    IF scenario \in BootstrapScenarios THEN BootstrapTier
    ELSE IF scenario \in DecideScenarios THEN DecideTier
    ELSE IF scenario \in ChangesetScenarios THEN ChangesetTier
    ELSE IF scenario \in HarnessScenarios THEN HarnessTier
    ELSE IF scenario \in E2EScenarios \/ model = "server-default"
         THEN EndToEndTier
    ELSE "?"

(* infer_tier(model, scenario, fallback) (lines 49-61): the first scenario *)
(* set that holds the scenario names the tier; "server-default" goes to    *)
(* tier 3; otherwise the fallback, or "?" when there is none.              *)
InferTier(model, scenario, fallback) ==
    IF scenario \in BootstrapScenarios THEN BootstrapTier
    ELSE IF scenario \in DecideScenarios THEN DecideTier
    ELSE IF scenario \in ChangesetScenarios THEN ChangesetTier
    ELSE IF scenario \in HarnessScenarios THEN HarnessTier
    ELSE IF scenario \in E2EScenarios \/ model = "server-default"
         THEN EndToEndTier
    ELSE IF fallback # NoTier THEN fallback ELSE "?"

(* A thread of the eval test prints its next line: its header first, then *)
(* its result lines, each a whole line (println), of one of its tier's     *)
(* scenarios or of a scenario the parser does not list.                    *)
ThreadPrints(t) ==
    /\ progress[t] <= ResultsPerTier
    /\ \/ progress[t] = 0 /\ log' = Append(log, [kind |-> "header", thread |-> t])
       \/ /\ progress[t] > 0
          /\ \E m \in Models, s \in ScenariosOf(t) \cup {UnlistedScenario} :
                log' = Append(log, [kind |-> "result", thread |-> t,
                                    model |-> m, scenario |-> s])
    /\ progress' = [progress EXCEPT ![t] = @ + 1]
    /\ UNCHANGED <<pos, currentTier, tiersSeen, results>>

\* Mutant: a header is appended to tiers without setting current_tier.
ParseLineNoCurrent ==
    /\ \A t \in EvalTiers : progress[t] = ResultsPerTier + 1
    /\ pos < Len(log)
    /\ LET l == log[pos + 1]
       IN  IF l.kind = "header"
           THEN /\ tiersSeen' = Append(tiersSeen, l.thread)
                /\ UNCHANGED <<currentTier, results>>
           ELSE /\ results' = Append(results,
                      [tier |-> InferTier(l.model, l.scenario, currentTier),
                       thread |-> l.thread])
                /\ UNCHANGED <<currentTier, tiersSeen>>
    /\ pos' = pos + 1
    /\ UNCHANGED <<progress, log>>

(* One iteration of main's scan (lines 78-100), once readlines() has the   *)
(* whole log: a header sets current_tier and is appended to tiers; a       *)
(* result is appended with the tier infer_tier gives it.                   *)
ParseLine ==
    /\ \A t \in EvalTiers : progress[t] = ResultsPerTier + 1
    /\ pos < Len(log)
    /\ LET l == log[pos + 1]
       IN  IF l.kind = "header"
           THEN /\ currentTier' = l.thread
                /\ tiersSeen' = Append(tiersSeen, l.thread)
                /\ UNCHANGED results
           ELSE /\ results' = Append(results,
                      [tier |-> InferTier(l.model, l.scenario, currentTier),
                       thread |-> l.thread])
                /\ UNCHANGED <<currentTier, tiersSeen>>
    /\ pos' = pos + 1
    /\ UNCHANGED <<progress, log>>

\* ordered_tiers (lines 148-151): the canonical tiers that have results,
\* then the other headers seen that have results.
OrderedTiers ==
    LET resultTiers == {results[i].tier : i \in DOMAIN results}
    IN  SelectSeq(TierOrder, LAMBDA t : t \in resultTiers)
          \o SelectSeq(tiersSeen, LAMBDA t : t \notin {TierOrder[i] : i \in 1..5}
                                              /\ t \in resultTiers)

EvalNext == (\E t \in EvalTiers : ThreadPrints(t)) \/ ParseLine

EvalSpec == EvalInit /\ [][EvalNext]_evalVars

-----------------------------------------------------------------------------
(* Every result is filed under one of the five canonical tiers, never      *)
(* under "?" and never under None: a result of a scenario infer_tier does  *)
(* not list takes the last header seen, and every thread prints its header *)
(* before its results, so the log opens with a header and current_tier is  *)
(* set before the scan meets a result, however the threads interleave.     *)
ResultTiersCanonical ==
    \A i \in DOMAIN results :
        \E j \in 1..5 : results[i].tier = TierOrder[j]

(* Every result appears in the tables parse_eval.py prints: its tier is    *)
(* one of ordered_tiers (lines 148-151, 163), the only tiers whose rows     *)
(* are printed.                                                            *)
ResultTiersListed ==
    \A i \in DOMAIN results :
        \E j \in DOMAIN OrderedTiers : OrderedTiers[j] = results[i].tier
=============================================================================
