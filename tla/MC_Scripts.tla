----------------------------- MODULE MC_Scripts -----------------------------
(* The repository's scripts, each checked on its own: a behaviour is one   *)
(* run of one script, chosen by Init.  validate_handoff.py and             *)
(* check_staleness.py are pure, so a state is one input of theirs, taken   *)
(* over every combination at and around each threshold; the handoff       *)
(* template being filled in, run_e2e_tests.py, parse_eval.py and the       *)
(* create_handoff.py scripts are state machines run from their initial     *)
(* states.  The scripts a behaviour does not run stay at a fixed state:    *)
(* the scoring inputs at a default, the template as generated, the E2E     *)
(* driver before its first step with no session left over, the parser     *)
(* before any thread has printed, the handoff directory empty.             *)
EXTENDS HandoffQuality, HandoffStaleness, HandoffTemplate, E2EDriver,
        ParseEval, HandoffChain

VARIABLE script   \* the script this behaviour runs

MCTodoCounts == {0, 1}
MCSecretCounts == {0, 1}
MCFileCounts == {0, 1, 4, 5}
MCDayValues == {-1, 0, 1, 2, 7, 8, 30, 31}
MCCommitValues == {0, 5, 6, 20, 21, 50, 51}
MCChangedValues == {0, 5, 6, 20, 21}
MCMissingValues == {0, 1, 5, 6}
MCEvalTiers == {BootstrapTier, HarnessTier, EndToEndTier}
MCModels == {"gpt", "server-default"}
MCSlugs == {"auth", "handoff"}

NoChecks == [todos |-> 0, missingRequired |-> 0, missingRecommended |-> 0,
             secrets |-> 0, filesMissing |-> 0]
NoFacts == [created |-> FALSE, branchKnown |-> FALSE, git |-> FALSE,
            days |-> 0, commits |-> 0, changed |-> 0, sameBranch |-> TRUE,
            missing |-> 0]
E2EIdle ==
    /\ e2ePc = "cleanup" /\ exitCode = 0 /\ sessLive = FALSE
    /\ tmuxWins = [n \in E2ENames |-> 0] /\ winDict = {}
    /\ polls = 0 /\ testDone = FALSE /\ testComplete = FALSE

ChainIdle == clock = 1 /\ dir = [f \in {} |-> NoLink] /\ history = << >>

scoreVars == <<checks, facts>>
allVars == <<scoreVars, templateVars, e2eVars, evalVars, chainVars, script>>

MCInit ==
    /\ EvalInit /\ TInit
    /\ \/ script = "validate" /\ QInit /\ facts = NoFacts /\ E2EIdle
       \/ script = "staleness" /\ SInit /\ checks = NoChecks /\ E2EIdle
       \/ script = "e2e" /\ E2EInit /\ checks = NoChecks /\ facts = NoFacts
       \/ script = "eval" /\ E2EIdle /\ checks = NoChecks /\ facts = NoFacts
       \/ script = "template" /\ E2EIdle /\ checks = NoChecks
          /\ facts = NoFacts
       \/ script = "chain" /\ ChainInit /\ E2EIdle /\ checks = NoChecks
          /\ facts = NoFacts
    /\ script # "chain" => ChainIdle

E2EStep ==
    script = "e2e" /\ UNCHANGED <<scoreVars, templateVars, evalVars,
                                   chainVars, script>>
EvalStep ==
    script = "eval" /\ UNCHANGED <<scoreVars, templateVars, e2eVars,
                                    chainVars, script>>
TemplateStep ==
    script = "template" /\ UNCHANGED <<scoreVars, e2eVars, evalVars,
                                        chainVars, script>>
ChainStep ==
    script = "chain" /\ UNCHANGED <<scoreVars, templateVars, e2eVars,
                                     evalVars, script>>

MCNext ==
    \/ QNext /\ SNext
       /\ UNCHANGED <<templateVars, e2eVars, evalVars, chainVars, script>>
    \/ E2EStep /\ E2ENext
    \/ EvalStep /\ EvalNext
    \/ TemplateStep /\ TNext
    \/ ChainStep /\ ChainNext

(* A run of run_e2e_tests.py always returns (the other behaviours never    *)
(* start it).                                                              *)
E2EScriptTerminates == script = "e2e" => E2ETerminates

MCSpec == MCInit /\ [][MCNext]_allVars /\ WF_allVars(E2EStep /\ DriverStep)
=============================================================================
