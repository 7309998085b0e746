----------------------- MODULE TerminalSessionProofs -----------------------
(***************************************************************************)
(* Proofs about TerminalSession for every value of the constants.          *)
(***************************************************************************)
EXTENDS TerminalSession, WellFoundedInduction, TLAPS

(* A nonempty set of naturals with an upper bound has a greatest element;  *)
(* it is the least upper bound, which exists because < is well founded.   *)
LEMMA BoundedMax ==
    ASSUME NEW S \in SUBSET Nat, S # {}, NEW b \in Nat, \A j \in S : j <= b
    PROVE  \E i \in S : \A j \in S : j <= i
<1> DEFINE U == {m \in Nat : \A j \in S : j <= m}
<1>1. U # {} /\ U \subseteq Nat
  OBVIOUS
<1>2. \E x \in U : \A y \in U : ~(<<y, x>> \in OpToRel(<, Nat))
  BY <1>1, NatLessThanWellFounded, WFMin
<1>3. PICK m0 \in U : \A y \in U : ~(y < m0)
  BY <1>2 DEF OpToRel
<1>4. m0 \in S
  <2> SUFFICES ASSUME m0 \notin S PROVE FALSE
    OBVIOUS
  <2>1. PICK j \in S : TRUE
    OBVIOUS
  <2>2. m0 - 1 \in U
    BY <2>1
  <2> QED
    BY <2>2, <1>3
<1> QED
  BY <1>3, <1>4

(* list-panes' last line is a pane id or the empty answer.                *)
LEMMA LastLiveType ==
    ASSUME NEW s \in Seq(PaneIds), NEW pl
    PROVE  LastLive(s, pl) \in PaneIds \cup {NoPane}
<1> DEFINE idx == {i \in DOMAIN s : s[i] \in pl}
<1>1. CASE idx = {}
  BY <1>1 DEF LastLive
<1>2. CASE idx # {}
  <2>0. idx \subseteq Nat /\ Len(s) \in Nat /\ \A j \in idx : j <= Len(s)
    OBVIOUS
  <2>1. \E i \in idx : \A j \in idx : j <= i
    BY <1>2, <2>0, BoundedMax
  <2>2. (CHOOSE i \in idx : \A j \in idx : j <= i) \in DOMAIN s
    BY <2>1
  <2> QED
    BY <1>2, <2>2 DEF LastLive
<1> QED
  BY <1>1, <1>2

(* Inserting a pane id after position k keeps a sequence of pane ids.     *)
LEMMA InsertAfterType ==
    ASSUME NEW s \in Seq(PaneIds), NEW k \in 0..Len(s), NEW x \in PaneIds
    PROVE  InsertAfter(s, k, x) \in Seq(PaneIds)
BY DEF InsertAfter

-----------------------------------------------------------------------------
USE NamesAssumption, BoundsAssumption

(* Every action keeps every variable in its type.                         *)
(* A target resolves to a pane id, if to anything: tmux finds a live       *)
(* window, by its exact name or by a prefix of it, or a live pane.         *)
LEMMA ResolveTyped ==
    ASSUME active \in [WinIds -> PaneIds \cup {NoPane}], wlive \subseteq WinIds,
           plive \subseteq PaneIds, NEW t \in Targets \cup {NoTarget}
    PROVE  Resolve(t) \subseteq PaneIds \cup {NoPane}
<1>1. \A n : FoundWindow(n) \subseteq wlive
  BY DEF FoundWindow, UniqueNamed, Named, Prefixed
<1> QED
  BY <1>1 DEF Resolve, Targets, WindowTarget, PaneTarget

\* The same, for the state after a step.
LEMMA ResolveTypedNext ==
    ASSUME active' \in [WinIds -> PaneIds \cup {NoPane}], wlive' \subseteq WinIds,
           plive' \subseteq PaneIds, NEW t \in Targets \cup {NoTarget}
    PROVE  Resolve(t)' \subseteq PaneIds \cup {NoPane}
<1>1. \A n : FoundWindow(n)' \subseteq wlive'
  BY DEF FoundWindow, UniqueNamed, Named, Prefixed
<1> QED
  BY <1>1 DEF Resolve, Targets, WindowTarget, PaneTarget

LEMMA TypeStep == TypeOK /\ [Next]_vars => TypeOK'
<1> SUFFICES ASSUME TypeOK, [Next]_vars PROVE TypeOK'
  OBVIOUS
<1>1. ASSUME NEW n \in Names, NEW split \in BOOLEAN, NEW command \in BOOLEAN,
             AddWindow(n, split, command)
      PROVE  TypeOK'
  <2> DEFINE TmuxTyped ==
               /\ sessionLive' \in BOOLEAN
               /\ wlive' \subseteq WinIds
               /\ wname' \in [WinIds -> WinNames]
               /\ panes' \in [WinIds -> Seq(PaneIds)]
               /\ active' \in [WinIds -> PaneIds \cup {NoPane}]
               /\ plive' \subseteq PaneIds
               /\ cur' \in WinIds
               /\ nextWin' \in 0..MaxWin
               /\ nextPane' \in 0..MaxPane
             HomeTyped ==
               /\ home'[n] \in PaneIds \cup {NoPane}
               /\ home' = [home EXCEPT ![n] = home'[n]]
  <2>3. TmuxTyped /\ HomeTyped
        /\ reg'[n] \in Targets /\ reg' = [reg EXCEPT ![n] = reg'[n]]
    <3>1. CASE split /\ RegNames # {}
      <4>1. SplitWindow(n)
        BY <1>1, <3>1 DEF AddWindow
      <4>2. TmuxTyped /\ HomeTyped
        <5>2. CASE /\ Resolve(reg[LastName]) = {}
                   /\ home' = [home EXCEPT ![n] = NoPane]
                   /\ UNCHANGED tmuxVars
          BY <5>2 DEF TypeOK, tmuxVars
        <5>3. ASSUME NEW w \in wlive, NEW i \in 1..Len(panes[w]),
                     /\ nextPane < MaxPane
                     /\ panes' = [panes EXCEPT ![w] = InsertAfter(panes[w], i, nextPane)]
                     /\ active' = [active EXCEPT ![w] = nextPane]
                     /\ plive' = plive \cup {nextPane}
                     /\ nextPane' = nextPane + 1
                     /\ home' = [home EXCEPT ![n] = nextPane]
                     /\ UNCHANGED <<sessionLive, wlive, wname, cur, nextWin>>
              PROVE  TmuxTyped /\ HomeTyped
          <6>1. nextPane \in PaneIds /\ w \in WinIds /\ panes[w] \in Seq(PaneIds)
            BY <5>3 DEF TypeOK, PaneIds
          <6>2. InsertAfter(panes[w], i, nextPane) \in Seq(PaneIds)
            BY <6>1, InsertAfterType
          <6> QED
            BY <5>3, <6>1, <6>2 DEF TypeOK
        <5> QED
          BY <4>1, <5>2, <5>3 DEF SplitWindow
      <4>3. ListPanesLast' \in PaneIds \cup {NoPane}
        BY <4>2, LastLiveType DEF ListPanesLast
      <4>4. reg'[n] \in Targets /\ reg' = [reg EXCEPT ![n] = reg'[n]]
        BY <4>1, <4>3 DEF SplitWindow, Targets, TypeOK
      <4> QED
        BY <4>2, <4>4
    <3>2. CASE ~(split /\ RegNames # {})
      <4>1. NewWindow(n)
        BY <1>1, <3>2 DEF AddWindow
      <4>2. TmuxTyped /\ HomeTyped
        <5>1. CASE sessionLive
          <6>1. /\ nextWin < MaxWin /\ nextPane < MaxPane
                /\ wlive' = wlive \cup {nextWin}
                /\ wname' = [wname EXCEPT ![nextWin] = n]
                /\ panes' = [panes EXCEPT ![nextWin] = <<nextPane>>]
                /\ active' = [active EXCEPT ![nextWin] = nextPane]
                /\ plive' = plive \cup {nextPane}
                /\ cur' = nextWin /\ nextWin' = nextWin + 1
                /\ nextPane' = nextPane + 1
                /\ home' = [home EXCEPT ![n] = nextPane]
                /\ sessionLive' = sessionLive
            BY <4>1, <5>1 DEF NewWindow, NewWindowTitled
          <6>2. nextWin \in WinIds /\ nextPane \in PaneIds
            BY <6>1 DEF TypeOK, WinIds, PaneIds
          <6>3. <<nextPane>> \in Seq(PaneIds)
            BY <6>2
          <6> QED
            BY <6>1, <6>2, <6>3 DEF TypeOK, WinNames
        <5>2. CASE ~sessionLive
          BY <4>1, <5>2 DEF NewWindow, NewWindowTitled, TypeOK, tmuxVars
        <5> QED
          BY <5>1, <5>2
      <4>3. reg'[n] \in Targets /\ reg' = [reg EXCEPT ![n] = reg'[n]]
        BY <4>1 DEF NewWindow, NewWindowTitled, Targets, TypeOK
      <4> QED
        BY <4>2, <4>3
    <3> QED
      BY <3>1, <3>2
  <2>4. Resolve(reg[n])' \subseteq PaneIds \cup {NoPane}
    BY <2>3, ResolveTypedNext
  <2>5. stamp' \in [Names -> Nat] /\ clock' \in 0..MaxAdds
    BY <1>1 DEF AddWindow, TypeOK
  <2>6. delivered' \subseteq Names \X (PaneIds \cup {NoPane})
    BY <1>1, <2>4 DEF AddWindow, TypeOK
  <2> QED
    BY <2>3, <2>5, <2>6 DEF TypeOK
<1>2. ASSUME NEW n \in Names, SendKeys(n) PROVE TypeOK'
  <2>1. Resolve(reg[n]) \subseteq PaneIds \cup {NoPane}
    BY ResolveTyped DEF TypeOK
  <2> QED
    BY <1>2, <2>1 DEF SendKeys, TypeOK, tmuxVars, ctlVars
<1>3. ASSUME NEW P \in SUBSET PaneIds, PanesDie(P)
      PROVE  /\ sessionLive' \in BOOLEAN /\ wlive' \subseteq WinIds
             /\ plive' \subseteq PaneIds /\ cur' \in WinIds
  BY <1>3 DEF PanesDie, TypeOK
<1>4. ASSUME NEW n \in Names, KillWindow(n) PROVE TypeOK'
  <2>1. UNION {LiveIn(w, plive) : w \in TargetWindows(reg[n])} \in SUBSET PaneIds
    BY DEF LiveIn, TypeOK
  <2> QED
    BY <1>4, <1>3, <2>1 DEF KillWindow, TypeOK, ghostVars
<1>5. CASE Kill
  BY <1>5, <1>3 DEF Kill, TypeOK, ghostVars
<1>6. ASSUME NEW w \in WinIds, Attach(w) PROVE TypeOK'
  BY <1>6 DEF Attach, TypeOK, ctlVars, ghostVars
<1>7. ASSUME NEW p \in PaneIds, PaneExit(p) PROVE TypeOK'
  <2>1. /\ sessionLive' \in BOOLEAN /\ wlive' \subseteq WinIds
        /\ plive' \subseteq PaneIds /\ cur' \in WinIds
    BY <1>7, <1>3 DEF PaneExit
  <2>2. active' \in [WinIds -> PaneIds \cup {NoPane}]
    BY <1>7 DEF PaneExit, TypeOK, LiveIn
  <2> QED
    BY <1>7, <2>1, <2>2 DEF PaneExit, TypeOK, ctlVars, ghostVars
<1>8. CASE ExternalKill
  BY <1>8, <1>3 DEF ExternalKill, TypeOK, ctlVars, ghostVars
<1>9. CASE UNCHANGED vars
  BY <1>9 DEF vars, tmuxVars, ctlVars, ghostVars, TypeOK
<1> QED
  BY <1>1, <1>2, <1>4, <1>5, <1>6, <1>7, <1>8, <1>9
  DEF Next, ControllerNext, EnvironmentNext

(* TerminalSession keeps its state well typed.                            *)
THEOREM TypeCorrect == Spec => []TypeOK
<1>1. Init => TypeOK
  <2> SUFFICES ASSUME Init PROVE TypeOK
    OBVIOUS
  <2>0. 0 \in PaneIds /\ 0 \in WinIds
    BY DEF PaneIds, WinIds
  <2>a. <<0>> \in Seq(PaneIds) /\ << >> \in Seq(PaneIds)
    BY <2>0
  <2>1. panes \in [WinIds -> Seq(PaneIds)]
    BY <2>a DEF Init
  <2>2. reg \in [Names -> Targets \cup {NoTarget}]
    BY DEF Init
  <2> QED
    BY <2>0, <2>1, <2>2 DEF Init, TypeOK, WinNames
<1> QED
  BY <1>1, TypeStep, PTL DEF Spec

-----------------------------------------------------------------------------
(* The inductive strengthening of NameTargetsUnique.  Window ids are fresh *)
(* (new-window never reuses a live id), a dead session has no windows, and *)
(* every named window is registered, so a name the dict lacks names no     *)
(* live window and new-window -n <name> creates the only one.              *)
FreshIds == \A w \in wlive : w < nextWin
SessionInv == ~sessionLive => wlive = {}
UniqueLiveNames ==
    \A w1, w2 \in wlive : wname[w1] \in Names /\ wname[w1] = wname[w2] => w1 = w2
IInv == /\ TypeOK /\ NamedWindowsRegistered /\ FreshIds /\ SessionInv
        /\ UniqueLiveNames

USE TargetAssumption

(* When panes die, windows only disappear and a closed session is empty.  *)
LEMMA PanesDieShrinks ==
    ASSUME TypeOK, SessionInv, NEW P, PanesDie(P)
    PROVE  wlive' \subseteq wlive /\ (~sessionLive' => wlive' = {})
BY DEF PanesDie, SessionInv

(* A name the dict does not hold names no live window.                     *)
LEMMA UnregisteredUnnamed ==
    ASSUME TypeOK, NamedWindowsRegistered, NEW n \in Names, reg[n] = NoTarget
    PROVE  \A w \in wlive : wname[w] # n
<1>1. WindowTarget(n) \in Targets /\ NoTarget \notin Targets
  BY TargetAssumption DEF Targets
<1> QED
  BY <1>1 DEF NamedWindowsRegistered, TypeOK

(* Every action keeps the strengthening; the controller's actions by the   *)
(* duplicate check and fresh ids, tmux's own steps because they only close *)
(* windows.                                                                *)
LEMMA IInvStep == IInv /\ [Next]_vars => IInv'
<1> DEFINE Rest == NamedWindowsRegistered /\ FreshIds /\ SessionInv
                   /\ UniqueLiveNames
<1> SUFFICES ASSUME IInv, [Next]_vars PROVE Rest'
  BY TypeStep DEF IInv
<1>0. TypeOK /\ Rest
  BY DEF IInv
<1>1. ASSUME NEW n \in Names, NEW split \in BOOLEAN, NEW command \in BOOLEAN,
             AddWindow(n, split, command)
      PROVE  Rest'
  <2>0. \A w \in wlive : wname[w] # n
    BY <1>0, <1>1, UnregisteredUnnamed DEF AddWindow
  <2>1. CASE split /\ RegNames # {}
    <3>1. SplitWindow(n)
      BY <1>1, <2>1 DEF AddWindow
    <3>2. /\ UNCHANGED <<sessionLive, wlive, wname, nextWin>>
          /\ reg' = [reg EXCEPT ![n] = PaneTarget(ListPanesLast')]
      BY <3>1 DEF SplitWindow, tmuxVars
    <3> QED
      BY <1>0, <2>0, <3>2
      DEF NamedWindowsRegistered, FreshIds, SessionInv, UniqueLiveNames, TypeOK
  <2>2. CASE ~(split /\ RegNames # {}) /\ sessionLive
    <3>1. NewWindow(n)
      BY <1>1, <2>2 DEF AddWindow
    <3>2. /\ wlive' = wlive \cup {nextWin}
          /\ wname' = [wname EXCEPT ![nextWin] = n]
          /\ reg' = [reg EXCEPT ![n] = WindowTarget(n)]
          /\ nextWin' = nextWin + 1 /\ nextWin < MaxWin
          /\ sessionLive' = sessionLive
      BY <2>2, <3>1 DEF NewWindow, NewWindowTitled
    <3>3. nextWin \in WinIds /\ nextWin \notin wlive
      BY <1>0, <3>2 DEF FreshIds, TypeOK, WinIds
    <3>4. NamedWindowsRegistered'
      BY <1>0, <2>0, <3>2, <3>3 DEF NamedWindowsRegistered, TypeOK
    <3>5. FreshIds'
      BY <1>0, <3>2, <3>3 DEF FreshIds, TypeOK, WinIds
    <3>6. UniqueLiveNames'
      BY <1>0, <2>0, <3>2, <3>3 DEF UniqueLiveNames, TypeOK
    <3> QED
      BY <2>2, <3>2, <3>4, <3>5, <3>6 DEF SessionInv
  <2>3. CASE ~(split /\ RegNames # {}) /\ ~sessionLive
    <3>1. NewWindow(n)
      BY <1>1, <2>3 DEF AddWindow
    <3>2. UNCHANGED tmuxVars /\ wlive = {}
      BY <1>0, <2>3, <3>1 DEF NewWindow, NewWindowTitled, SessionInv
    <3> QED
      BY <3>2 DEF tmuxVars, NamedWindowsRegistered, FreshIds, SessionInv,
                  UniqueLiveNames
  <2> QED
    BY <2>1, <2>2, <2>3
<1>2. ASSUME NEW n \in Names, SendKeys(n) PROVE Rest'
  BY <1>0, <1>2 DEF SendKeys, tmuxVars, ctlVars, NamedWindowsRegistered,
                    FreshIds, SessionInv, UniqueLiveNames
<1>3. ASSUME NEW n \in Names, KillWindow(n) PROVE Rest'
  <2> DEFINE P == UNION {LiveIn(w, plive) : w \in TargetWindows(reg[n])}
  <2>1. /\ PanesDie(P)
        /\ reg' = [reg EXCEPT ![n] = NoTarget]
        /\ UNCHANGED <<wname, nextWin>>
    BY <1>3 DEF KillWindow
  <2>2. wlive' \subseteq wlive /\ (~sessionLive' => wlive' = {})
    BY <1>0, <2>1, PanesDieShrinks
  <2>3. wlive' = {w \in wlive : LiveIn(w, plive \ P) # {}}
    BY <2>1 DEF PanesDie
  <2>4. ASSUME NEW w \in wlive, wname[w] = n PROVE w \notin wlive'
    <3>1. sessionLive /\ reg[n] = WindowTarget(n)
      BY <1>0, <2>4 DEF SessionInv, NamedWindowsRegistered
    <3>2. WindowTarget(n) # NoTarget
      BY TargetAssumption DEF Targets
    <3>3. TargetWindows(reg[n]) = FoundWindow(n)
      BY <3>1, <3>2 DEF TargetWindows, WindowTarget
    <3>4. Named(n) = {w}
      BY <1>0, <2>4 DEF Named, UniqueLiveNames
    <3>5. w \in TargetWindows(reg[n])
      BY <3>3, <3>4 DEF FoundWindow, UniqueNamed
    <3>6. LiveIn(w, plive \ P) = {}
      BY <3>5 DEF LiveIn
    <3> QED
      BY <2>3, <3>6
  <2>5. NamedWindowsRegistered'
    BY <1>0, <2>1, <2>2, <2>4 DEF NamedWindowsRegistered, TypeOK
  <2> QED
    BY <1>0, <2>1, <2>2, <2>5 DEF FreshIds, SessionInv, UniqueLiveNames
<1>4. CASE Kill
  <2>1. PanesDie(plive)
    BY <1>4 DEF Kill
  <2>2. wlive' = {}
    BY <2>1 DEF PanesDie, LiveIn
  <2> QED
    BY <2>1, <2>2 DEF PanesDie, NamedWindowsRegistered, FreshIds, SessionInv,
                      UniqueLiveNames
<1>5. ASSUME NEW w \in WinIds, Attach(w) PROVE Rest'
  BY <1>0, <1>5 DEF Attach, ctlVars, NamedWindowsRegistered, FreshIds,
                    SessionInv, UniqueLiveNames
<1>6. ASSUME NEW P, PanesDie(P), UNCHANGED <<wname, nextWin, reg>>
      PROVE  Rest'
  <2>1. wlive' \subseteq wlive /\ (~sessionLive' => wlive' = {})
    BY <1>0, <1>6, PanesDieShrinks
  <2> QED
    BY <1>0, <1>6, <2>1 DEF NamedWindowsRegistered, FreshIds, SessionInv,
                           UniqueLiveNames
<1>7. ASSUME NEW p \in PaneIds, PaneExit(p) PROVE Rest'
  BY <1>6, <1>7 DEF PaneExit, ctlVars
<1>8. CASE ExternalKill
  BY <1>6, <1>8 DEF ExternalKill, ctlVars
<1>9. CASE UNCHANGED vars
  BY <1>0, <1>9 DEF vars, tmuxVars, ctlVars, ghostVars, NamedWindowsRegistered,
                    FreshIds, SessionInv, UniqueLiveNames
<1> QED
  BY <1>1, <1>2, <1>3, <1>4, <1>5, <1>7, <1>8, <1>9
  DEF Next, ControllerNext, EnvironmentNext

(* __init__ with no session starts in a state of the strengthening.      *)
LEMMA IInvInit == Init => IInv
<1> SUFFICES ASSUME Init PROVE IInv
  OBVIOUS
<1>2. TypeOK
  <2>0. 0 \in PaneIds /\ 0 \in WinIds
    BY DEF PaneIds, WinIds
  <2>1. <<0>> \in Seq(PaneIds) /\ << >> \in Seq(PaneIds)
    BY <2>0
  <2> QED
    BY <2>0, <2>1 DEF Init, TypeOK, WinNames
<1>3. wname[0] \notin Names /\ wlive = {0} /\ nextWin = 1 /\ sessionLive
  BY NamesAssumption, BoundsAssumption DEF Init, WinIds
<1>4. NamedWindowsRegistered
  BY <1>3 DEF NamedWindowsRegistered
<1>5. FreshIds /\ SessionInv /\ UniqueLiveNames
  BY <1>3 DEF FreshIds, SessionInv, UniqueLiveNames
<1> QED
  BY <1>2, <1>4, <1>5 DEF IInv

(* A "sess:<name>" entry of self.windows never names two live tmux windows *)
(* (NameTargetsUnique), for every set of names and every bound: add_window *)
(* checks the dict only (line 82), and the invariant shows this suffices   *)
(* while the controller is the one process owning the session.             *)
THEOREM NameTargetsUniqueHolds == Spec => []NameTargetsUnique
<1>1. IInv => NameTargetsUnique
  BY DEF IInv, UniqueLiveNames, NameTargetsUnique, Named
<1> QED
  BY <1>1, IInvInit, IInvStep, PTL DEF Spec

(* Every live window carrying a caller's name is the one its dict entry    *)
(* names (NamedWindowsRegistered), for every set of names and every bound: *)
(* add_window records the window it creates, and kill_window and kill()   *)
(* erase the entry only with the window, while an exiting shell or an      *)
(* external kill-session only closes windows.                              *)
THEOREM NamedWindowsRegisteredHolds == Spec => []NamedWindowsRegistered
<1>1. IInv => NamedWindowsRegistered
  BY DEF IInv
<1> QED
  BY <1>1, IInvInit, IInvStep, PTL DEF Spec
=============================================================================
