-------------------------- MODULE TerminalSession --------------------------
(***************************************************************************)
(* TerminalSession (src/skills/multi-terminal/scripts/terminal_session.py)  *)
(* and the tmux session it drives.                                          *)
(*                                                                          *)
(* The controller keeps one dict, self.windows: logical name -> tmux target *)
(* string.  A target is either "sess:<name>" (a window looked up by name,   *)
(* which tmux resolves to that window's ACTIVE pane) or "sess:%<id>" (a     *)
(* pane id read back from list-panes after a split).  The code never looks  *)
(* at a tmux return code, so every tmux call below either has its effect or *)
(* silently does nothing, depending on the tmux state at that moment.       *)
(*                                                                          *)
(* tmux state is kept with fixed-domain functions over bounded id sets:     *)
(* window ids @0..@MaxWin-1 and pane ids %0..%MaxPane-1, both allocated     *)
(* from never-reused counters, as tmux does.  Panes of a window are kept in *)
(* index order (dead ones stay in the sequence and are filtered by plive).  *)
(***************************************************************************)
EXTENDS Naturals, Sequences, FiniteSets

CONSTANTS
    Names,        \* logical window names a caller may pass to add_window
    InitialName,  \* name tmux gives the window created by new-session
    NoPane,       \* "no pane": an empty list-panes answer, an unset ghost
    NoTarget,     \* absent from self.windows
    MaxWin,       \* bound on tmux window ids
    MaxPane,      \* bound on tmux pane ids
    MaxAdds,      \* bound on add_window calls (the insertion clock)
    PrefixOf      \* <<n, m>>: the window name m starts with the name n

ASSUME NamesAssumption == /\ IsFiniteSet(Names) /\ Names # {}
                          /\ InitialName \notin Names
ASSUME BoundsAssumption == /\ MaxWin \in Nat \ {0}
                           /\ MaxPane \in Nat \ {0}
                           /\ MaxAdds \in Nat

WinIds  == 0..(MaxWin - 1)
PaneIds == 0..(MaxPane - 1)
WinNames == Names \cup {InitialName}

\* A name is not counted as a prefix of itself: that case is the exact match.
ASSUME PrefixAssumption ==
    PrefixOf \subseteq {nm \in Names \X WinNames : nm[1] # nm[2]}

\* The two shapes of window_id string built by add_window (lines 95, 99).
WindowTarget(n) == [kind |-> "window", name |-> n]
PaneTarget(p)   == [kind |-> "pane", pane |-> p]
Targets == {WindowTarget(n) : n \in Names}
             \cup {PaneTarget(p) : p \in PaneIds \cup {NoPane}}

\* Absent entries and empty list-panes answers are no target and no pane.
ASSUME TargetAssumption == NoTarget \notin Targets /\ NoPane \notin PaneIds

VARIABLES
    sessionLive,  \* tmux has-session succeeds
    wlive,        \* live tmux windows
    wname,        \* window names
    panes,        \* panes of each window, in pane-index order
    active,       \* active pane of each window
    plive,        \* live panes
    cur,          \* the session's current window
    nextWin,      \* next window id tmux allocates
    nextPane,     \* next pane id tmux allocates
    reg,          \* self.windows: name -> target
    stamp,        \* insertion position of each key of self.windows
    clock,        \* number of add_window calls so far
    home,         \* ghost: the pane tmux created for a name in add_window
    delivered     \* ghost: <<n, p>> when keys sent for n landed in pane p

tmuxVars == <<sessionLive, wlive, wname, panes, active, plive, cur,
              nextWin, nextPane>>
ctlVars  == <<reg, stamp, clock>>
ghostVars == <<home, delivered>>
vars == <<tmuxVars, ctlVars, ghostVars>>

TypeOK ==
    /\ sessionLive \in BOOLEAN
    /\ wlive \subseteq WinIds
    /\ wname \in [WinIds -> WinNames]
    /\ panes \in [WinIds -> Seq(PaneIds)]
    /\ active \in [WinIds -> PaneIds \cup {NoPane}]
    /\ plive \subseteq PaneIds
    /\ cur \in WinIds
    /\ nextWin \in 0..MaxWin
    /\ nextPane \in 0..MaxPane
    /\ reg \in [Names -> Targets \cup {NoTarget}]
    /\ stamp \in [Names -> Nat]
    /\ clock \in 0..MaxAdds
    /\ home \in [Names -> PaneIds \cup {NoPane}]
    /\ delivered \subseteq Names \X (PaneIds \cup {NoPane})

-----------------------------------------------------------------------------
(* How tmux reads the state.                                               *)

\* Live panes of window w, in the set pl.
LiveIn(w, pl) == {panes[w][i] : i \in DOMAIN panes[w]} \cap pl

\* Live windows carrying name n.
Named(n) == {w \in wlive : wname[w] = n}

\* The window of Named(n), when there is exactly one.
UniqueNamed(n) == {w \in Named(n) : Named(n) = {w}}

\* Live windows whose name starts with n.
Prefixed(n) == {w \in wlive : <<n, wname[w]>> \in PrefixOf}

(* The window tmux finds for the window part of "sess:<name>"             *)
(* (cmd-find.c, cmd_find_get_window_with_session): the window with that    *)
(* exact name, an error when two have it; only when none has it, the       *)
(* window whose name starts with it, again an error when two do.  The     *)
(* later index and fnmatch lookups are left out: the callers' names are   *)
(* plain words, neither numbers nor glob patterns.                         *)
FoundWindow(n) ==
    IF Named(n) # {} THEN UniqueNamed(n)
    ELSE {w \in Prefixed(n) : Prefixed(n) = {w}}

\* Panes a target resolves to: at most one; none when tmux would fail.
Resolve(t) ==
    IF t = NoTarget \/ ~sessionLive THEN {}
    ELSE IF t.kind = "window" THEN {active[w] : w \in FoundWindow(t.name)}
    ELSE {t.pane} \cap plive

\* Windows that kill-window -t <target> destroys.
TargetWindows(t) ==
    IF t = NoTarget \/ ~sessionLive THEN {}
    ELSE IF t.kind = "window" THEN FoundWindow(t.name)
    ELSE {w \in wlive : t.pane \in LiveIn(w, plive)}

\* The last live pane of s in pane-index order, or NoPane.
LastLive(s, pl) ==
    LET idx == {i \in DOMAIN s : s[i] \in pl}
    IN  IF idx = {} THEN NoPane
        ELSE s[CHOOSE i \in idx : \A j \in idx : j <= i]

\* "list-panes -t sess -F #{pane_id}" then .split("\n")[-1]: the last pane of
\* the session's CURRENT window, or "" (NoPane) when the session is gone.
ListPanesLast == IF sessionLive THEN LastLive(panes[cur], plive) ELSE NoPane

\* Keys of self.windows; the key added last (dict insertion order).
RegNames == {n \in Names : reg[n] # NoTarget}
LastName == CHOOSE n \in RegNames : \A m \in RegNames : stamp[m] <= stamp[n]

\* Panes in set P die: windows left without live panes close, the session
\* closes with its last window, and tmux picks a new current window when the
\* current one closed (any live window: its last-window stack is abstracted).
PanesDie(P) ==
    LET pl == plive \ P
        wl == {w \in wlive : LiveIn(w, pl) # {}}
    IN  /\ plive' = pl
        /\ wlive' = wl
        /\ sessionLive' = (sessionLive /\ wl # {})
        /\ IF cur \in wl \/ wl = {} THEN cur' = cur
                                     ELSE \E c \in wl : cur' = c

-----------------------------------------------------------------------------
(* TerminalSession.__init__ -> _ensure_session on a host with no session:  *)
(* has-session fails, new-session -d creates window @0 with pane %0.       *)
Init ==
    /\ sessionLive = TRUE
    /\ wlive = {0}
    /\ wname = [w \in WinIds |-> InitialName]
    /\ panes = [w \in WinIds |-> IF w = 0 THEN <<0>> ELSE <<>>]
    /\ active = [w \in WinIds |-> IF w = 0 THEN 0 ELSE NoPane]
    /\ plive = {0}
    /\ cur = 0
    /\ nextWin = 1
    /\ nextPane = 1
    /\ reg = [n \in Names |-> NoTarget]
    /\ stamp = [n \in Names |-> 0]
    /\ clock = 0
    /\ home = [n \in Names |-> NoPane]
    /\ delivered = {}

-----------------------------------------------------------------------------
(* add_window, non-split branch: new-window -t sess -n <name>, selected as *)
(* the current window; it fails silently when the session is gone.         *)
\* new-window -n <title>, recorded under name n.
NewWindowTitled(n, title) ==
    /\ reg' = [reg EXCEPT ![n] = WindowTarget(n)]
    /\ IF sessionLive
       THEN /\ nextWin < MaxWin /\ nextPane < MaxPane
            /\ wlive' = wlive \cup {nextWin}
            /\ wname' = [wname EXCEPT ![nextWin] = title]
            /\ panes' = [panes EXCEPT ![nextWin] = <<nextPane>>]
            /\ active' = [active EXCEPT ![nextWin] = nextPane]
            /\ plive' = plive \cup {nextPane}
            /\ cur' = nextWin
            /\ nextWin' = nextWin + 1
            /\ nextPane' = nextPane + 1
            /\ home' = [home EXCEPT ![n] = nextPane]
            /\ UNCHANGED sessionLive
       ELSE /\ home' = [home EXCEPT ![n] = NoPane]
            /\ UNCHANGED tmuxVars

\* Mutant: the window is titled with its target string instead of its name.
NewWindowTargetTitle(n) == NewWindowTitled(n, WindowTarget(n))

NewWindow(n) == NewWindowTitled(n, n)

\* s with x inserted after position k.
InsertAfter(s, k, x) ==
    [i \in 1..(Len(s) + 1) |-> IF i <= k THEN s[i]
                               ELSE IF i = k + 1 THEN x ELSE s[i - 1]]

(* add_window, split branch: split-window -t <last key's target>; the new  *)
(* pane goes right after the target pane and becomes its window's active   *)
(* pane, the current window is not changed.  Then the entry is whatever    *)
(* list-panes -t sess reports last, read from the CURRENT window.          *)
SplitWindow(n) ==
    /\ \/ /\ Resolve(reg[LastName]) = {}
          /\ home' = [home EXCEPT ![n] = NoPane]
          /\ UNCHANGED tmuxVars
       \/ \E w \in wlive : \E i \in 1..Len(panes[w]) :
            /\ panes[w][i] \in Resolve(reg[LastName])
            /\ nextPane < MaxPane
            /\ panes' = [panes EXCEPT ![w] = InsertAfter(panes[w], i, nextPane)]
            /\ active' = [active EXCEPT ![w] = nextPane]
            /\ plive' = plive \cup {nextPane}
            /\ nextPane' = nextPane + 1
            /\ home' = [home EXCEPT ![n] = nextPane]
            /\ UNCHANGED <<sessionLive, wlive, wname, cur, nextWin>>
    /\ reg' = [reg EXCEPT ![n] = PaneTarget(ListPanesLast')]

\* Mutant: add_window without the duplicate-name check of line 82.
AddWindowNoDupCheck(n, split, command) ==
    /\ clock < MaxAdds
    /\ IF split /\ RegNames # {} THEN SplitWindow(n) ELSE NewWindow(n)
    /\ stamp' = [stamp EXCEPT ![n] = clock]
    /\ clock' = clock + 1
    /\ delivered' = IF command
                    THEN delivered \cup ({n} \X Resolve(reg[n])')
                    ELSE delivered

(* add_window(name, command, split) (lines 65-108): reject a known name,   *)
(* create the window or pane, record it, then send_keys(command) and       *)
(* send_keys("Enter") through the recorded target when command is set.     *)
AddWindow(n, split, command) ==
    /\ reg[n] = NoTarget
    /\ clock < MaxAdds
    /\ IF split /\ RegNames # {} THEN SplitWindow(n) ELSE NewWindow(n)
    /\ stamp' = [stamp EXCEPT ![n] = clock]
    /\ clock' = clock + 1
    /\ delivered' = IF command
                    THEN delivered \cup ({n} \X Resolve(reg[n])')
                    ELSE delivered

(* send_keys(name, keys) (lines 110-150): unknown names raise; otherwise   *)
(* the keys go to whatever pane the recorded target resolves to now.       *)
SendKeys(n) ==
    /\ reg[n] # NoTarget
    /\ delivered' = delivered \cup ({n} \X Resolve(reg[n]))
    /\ UNCHANGED <<tmuxVars, ctlVars, home>>

\* Mutant: kill_window deletes the key but its kill-window call is lost.
KillWindowKeyOnly(n) ==
    /\ reg[n] # NoTarget
    /\ reg' = [reg EXCEPT ![n] = NoTarget]
    /\ UNCHANGED <<tmuxVars, stamp, clock, ghostVars>>

(* kill_window(name) (lines 262-269): kill-window -t <target> destroys the *)
(* whole window the target lies in, then the key is deleted.               *)
KillWindow(n) ==
    /\ reg[n] # NoTarget
    /\ PanesDie(UNION {LiveIn(w, plive) : w \in TargetWindows(reg[n])})
    /\ reg' = [reg EXCEPT ![n] = NoTarget]
    /\ UNCHANGED <<wname, panes, active, nextWin, nextPane, stamp, clock,
                   ghostVars>>

(* kill() (lines 271-274): kill-session, then self.windows.clear().        *)
Kill ==
    /\ PanesDie(plive)
    /\ reg' = [n \in Names |-> NoTarget]
    /\ UNCHANGED <<wname, panes, active, nextWin, nextPane, stamp, clock,
                   ghostVars>>

-----------------------------------------------------------------------------
(* What happens to the tmux session outside the controller's calls.        *)

(* attach() (lines 296-298) hands the session to a human until detach; the *)
(* human may select any window, which changes the session's current window.*)
Attach(w) ==
    /\ w \in wlive
    /\ cur' = w
    /\ UNCHANGED <<sessionLive, wlive, wname, panes, active, plive,
                   nextWin, nextPane, ctlVars, ghostVars>>

(* The shell of pane p exits (a command ran "exit", C-d reached the shell, *)
(* the process crashed).  If it was its window's active pane, tmux makes   *)
(* another live pane of that window active.                                *)
PaneExit(p) ==
    /\ p \in plive
    /\ PanesDie({p})
    /\ \E w \in wlive :
         /\ p \in LiveIn(w, plive)
         /\ IF active[w] = p /\ LiveIn(w, plive) # {p}
            THEN \E q \in LiveIn(w, plive) \ {p} :
                    active' = [active EXCEPT ![w] = q]
            ELSE UNCHANGED active
    /\ UNCHANGED <<wname, panes, nextWin, nextPane, ctlVars, ghostVars>>

(* Another process runs "tmux kill-session -t sess", as run_e2e_tests.py   *)
(* does before it starts and as test_choiros.py tells its user to do.      *)
ExternalKill ==
    /\ sessionLive
    /\ PanesDie(plive)
    /\ UNCHANGED <<wname, panes, active, nextWin, nextPane, ctlVars,
                   ghostVars>>

-----------------------------------------------------------------------------
ControllerNext ==
    \/ \E n \in Names, split, command \in BOOLEAN : AddWindow(n, split, command)
    \/ \E n \in Names : SendKeys(n)
    \/ \E n \in Names : KillWindow(n)
    \/ Kill

EnvironmentNext ==
    \/ \E w \in WinIds : Attach(w)
    \/ \E p \in PaneIds : PaneExit(p)
    \/ ExternalKill

Next == ControllerNext \/ EnvironmentNext

Spec == Init /\ [][Next]_vars

-----------------------------------------------------------------------------
(* Properties.                                                             *)

(* A "sess:<name>" entry of self.windows names at most one live tmux       *)
(* window, so send_keys/capture_output/kill_window on it never hit an      *)
(* ambiguous target.  It rests on the duplicate-name check of add_window   *)
(* (line 82) and on kill_window dropping the key with the window.          *)
NameTargetsUnique ==
    \A n \in Names :
        reg[n] = WindowTarget(n) =>
            \A w1, w2 \in Named(n) : w1 = w2

(* Every live tmux window that carries a caller's name is the window the   *)
(* dict entry of that name points to: no window outlives its entry         *)
(* (kill_window and kill() remove both) and none is created without one.   *)
(* Together with fresh window ids this is why add_window's duplicate check *)
(* (line 82), which only looks at the dict, also keeps tmux names unique.  *)
NamedWindowsRegistered ==
    \A w \in wlive : wname[w] \in Names => reg[wname[w]] = WindowTarget(wname[w])

(* Keys sent for name n (its start command in add_window, any later        *)
(* send_keys) land only in the pane tmux created for n.  The spec (4.3)    *)
(* says a split adopts the newly created pane as the entry for its name.   *)
KeysReachOwnPane ==
    \A d \in delivered : d[2] = home[d[1]]
=============================================================================
