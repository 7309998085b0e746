--------------------------- MODULE SessionRestart ---------------------------
(***************************************************************************)
(* A TerminalSession controller process ends and a new one is started with *)
(* the same session name (test_choiros.py, research-dashboard.py and        *)
(* run_e2e_tests.py are each run again and again against a session they    *)
(* leave running).  The tmux server outlives the controller: the new        *)
(* controller starts with an empty self.windows while tmux still holds the  *)
(* windows the old one created.                                             *)
(***************************************************************************)
EXTENDS TerminalSession

(* A new TerminalSession(name, dir): self.windows = {}, then               *)
(* _ensure_session: has-session, and new-session -d only when it fails.    *)
Restart ==
    /\ reg' = [n \in Names |-> NoTarget]
    /\ stamp' = [n \in Names |-> 0]
    /\ IF sessionLive
       THEN UNCHANGED tmuxVars
       ELSE /\ nextWin < MaxWin /\ nextPane < MaxPane
            /\ sessionLive' = TRUE
            /\ wlive' = {nextWin}
            /\ wname' = [wname EXCEPT ![nextWin] = InitialName]
            /\ panes' = [panes EXCEPT ![nextWin] = <<nextPane>>]
            /\ active' = [active EXCEPT ![nextWin] = nextPane]
            /\ plive' = {nextPane}
            /\ cur' = nextWin
            /\ nextWin' = nextWin + 1
            /\ nextPane' = nextPane + 1
    /\ UNCHANGED <<clock, ghostVars>>

RestartNext == Next \/ Restart

RestartSpec == Init /\ [][RestartNext]_vars
=============================================================================
