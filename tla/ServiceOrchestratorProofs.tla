---------------------- MODULE ServiceOrchestratorProofs ----------------------
(***************************************************************************)
(* Proofs that MultiServiceOrchestrator marks a service ready only from    *)
(* its own pane (ReadyFromOwnPane) and sends keys only to the panes of its *)
(* services (OwnPanesOnly), for every set of names and every bound.        *)
(***************************************************************************)
EXTENDS ServiceOrchestrator, TerminalSessionProofs, TLAPS

(* The orchestrator's bookkeeping is well formed: wait_for_ready visits    *)
(* only keys of self.services.                                              *)
SvcTypeOK ==
    /\ services \in [Names -> Service \cup {NoService}]
    /\ svcStamp \in [Names -> Nat]
    /\ pending \subseteq SvcNames
    /\ readyFrom \in [Names -> PaneIds \cup {NoPane}]

(* add_service always calls add_window with split=False, so every entry of *)
(* self.windows is "sess:<name>", never a pane id.                         *)
RegWindowsOnly == \A n \in Names : reg[n] \in {NoTarget, WindowTarget(n)}

(* A live window carrying a caller's name has one pane, the one tmux       *)
(* created for that name, and that pane is active: nothing splits it.      *)
OwnWindows ==
    \A w \in wlive :
        wname[w] \in Names =>
            /\ panes[w] = <<home[wname[w]]>>
            /\ active[w] = home[wname[w]]

(* No service name is the start of another window's name ("api" and       *)
(* "api-worker"), so "sess:<name>" never falls back to tmux's prefix match. *)
NoPrefixNames == PrefixOf = {}

(* The inductive invariant: the naming condition, TerminalSession's own    *)
(* invariant, and the three above.                                         *)
OInv == /\ NoPrefixNames
        /\ IInv /\ SvcTypeOK /\ RegWindowsOnly /\ OwnWindows
        /\ ReadyFromOwnPane
USE NamesAssumption, BoundsAssumption, TargetAssumption

\* NoService is a value outside the service records.
LEMMA NoServiceFresh == NoService \notin Service
  BY NoSetContainsEverything DEF NoService
USE NoServiceFresh

(* The service of a nonempty set that comes first in self.services order   *)
(* exists: insertion positions are naturals, which are well founded.       *)
LEMMA FirstOfIn ==
    ASSUME NEW S \in SUBSET Names, S # {}, svcStamp \in [Names -> Nat]
    PROVE  /\ FirstOf(S) \in S
           /\ \A m \in S : svcStamp[FirstOf(S)] <= svcStamp[m]
<1> DEFINE V == {svcStamp[m] : m \in S}
<1>1. V \subseteq Nat /\ V # {}
  OBVIOUS
<1>2. \E x \in V : \A y \in V : ~(<<y, x>> \in OpToRel(<, Nat))
  BY <1>1, NatLessThanWellFounded, WFMin
<1>3. PICK v \in V : \A y \in V : ~(y < v)
  BY <1>1, <1>2 DEF OpToRel
<1>4. \E n \in S : \A m \in S : svcStamp[n] <= svcStamp[m]
  BY <1>1, <1>3
<1> QED
  BY <1>4 DEF FirstOf

(* A name's entry resolves at most to the pane created for that name.     *)
LEMMA ResolveOwn ==
    ASSUME NoPrefixNames, TypeOK, RegWindowsOnly, OwnWindows, NEW n \in Names
    PROVE  Resolve(reg[n]) \subseteq {home[n]}
<1>1. CASE reg[n] = NoTarget \/ ~sessionLive
  BY <1>1 DEF Resolve
<1>2. CASE reg[n] = WindowTarget(n) /\ sessionLive
  <2>1. WindowTarget(n) # NoTarget
    BY DEF Targets
  <2>2. Resolve(reg[n]) = {active[w] : w \in FoundWindow(n)}
    BY <1>2, <2>1 DEF Resolve, WindowTarget
  <2>3. FoundWindow(n) \subseteq UniqueNamed(n)
    BY DEF NoPrefixNames, FoundWindow, Prefixed
  <2> QED
    BY <2>2, <2>3 DEF UniqueNamed, Named, OwnWindows
<1> QED
  BY <1>1, <1>2 DEF RegWindowsOnly

(* The orchestrator starts with no service on a fresh session.            *)
LEMMA OInvInit == NoPrefixNames /\ OInit => OInv
<1> SUFFICES ASSUME NoPrefixNames, OInit PROVE OInv
  OBVIOUS
<1>1. IInv
  BY IInvInit DEF OInit
<1>2. SvcNames = {} /\ SvcTypeOK
  BY DEF OInit, SvcNames, SvcTypeOK
<1>3. RegWindowsOnly
  BY DEF OInit, Init, RegWindowsOnly
<1>4. wlive = {0} /\ wname[0] \notin Names
  BY NamesAssumption, BoundsAssumption DEF OInit, Init, WinIds
<1>5. OwnWindows
  BY <1>4 DEF OwnWindows
<1> QED
  BY <1>1, <1>2, <1>3, <1>5 DEF OInv, ReadyFromOwnPane
(* add_service: add_window(name, command) creates a whole window, so the   *)
(* new entry is "sess:<name>" and the new window's only pane is the one    *)
(* recorded for the name; the record starts not ready.                     *)
LEMMA AddServiceInv ==
    ASSUME OInv, NEW n \in Names, NEW hp \in BOOLEAN, AddService(n, hp)
    PROVE  OInv'
<1>0. IInv /\ TypeOK /\ SvcTypeOK /\ RegWindowsOnly /\ OwnWindows
      /\ ReadyFromOwnPane /\ NamedWindowsRegistered /\ FreshIds /\ SessionInv
  BY DEF OInv, IInv
<1>1. /\ AddWindow(n, FALSE, TRUE)
      /\ services' = [services EXCEPT ![n] = [pattern |-> hp, ready |-> FALSE]]
      /\ svcStamp' = IF services[n] = NoService
                     THEN [svcStamp EXCEPT ![n] = clock] ELSE svcStamp
      /\ pending = {} /\ UNCHANGED <<pending, readyFrom>>
  BY DEF AddService
<1>2. IInv'
  BY <1>0, <1>1, IInvStep, Zenon DEF Next, ControllerNext
<1>3. reg[n] = NoTarget /\ NewWindow(n)
  BY <1>1 DEF AddWindow
<1>4. \A w \in wlive : wname[w] # n
  BY <1>0, <1>3, UnregisteredUnnamed
<1>5. reg' = [reg EXCEPT ![n] = WindowTarget(n)]
      /\ \E hn : home' = [home EXCEPT ![n] = hn]
  BY <1>3 DEF NewWindow, NewWindowTitled
<1>6. RegWindowsOnly'
  BY <1>0, <1>5 DEF RegWindowsOnly, TypeOK
<1>7. OwnWindows'
  <2>1. CASE sessionLive
    <3>1. /\ nextWin < MaxWin /\ nextPane < MaxPane
          /\ wlive' = wlive \cup {nextWin}
          /\ wname' = [wname EXCEPT ![nextWin] = n]
          /\ panes' = [panes EXCEPT ![nextWin] = <<nextPane>>]
          /\ active' = [active EXCEPT ![nextWin] = nextPane]
          /\ home' = [home EXCEPT ![n] = nextPane]
      BY <1>3, <2>1 DEF NewWindow, NewWindowTitled
    <3>2. nextWin \in WinIds /\ nextWin \notin wlive
      <4>1. nextWin \in Nat /\ nextWin < MaxWin
        BY <1>0, <3>1 DEF TypeOK
      <4>2. nextWin \in WinIds
        BY <4>1 DEF WinIds
      <4>3. \A w \in wlive : w \in Nat /\ w < nextWin
        BY <1>0 DEF FreshIds, TypeOK, WinIds
      <4> QED
        BY <4>1, <4>2, <4>3
    <3>3. ASSUME NEW w \in wlive', wname'[w] \in Names
          PROVE  panes'[w] = <<home'[wname'[w]]>> /\ active'[w] = home'[wname'[w]]
      <4>1. CASE w = nextWin
        BY <1>0, <3>1, <3>2, <4>1 DEF TypeOK
      <4>2. CASE w # nextWin
        <5>1. w \in wlive /\ w \in WinIds
          BY <1>0, <3>1, <4>2 DEF TypeOK
        <5>2. wname'[w] = wname[w] /\ wname[w] # n
          BY <1>4, <3>1, <4>2, <5>1
        <5>3. panes'[w] = panes[w] /\ active'[w] = active[w]
              /\ home'[wname[w]] = home[wname[w]]
          BY <1>0, <3>1, <4>2, <5>2 DEF TypeOK
        <5> QED
          BY <1>0, <3>3, <5>1, <5>2, <5>3 DEF OwnWindows
      <4> QED
        BY <4>1, <4>2
    <3> QED
      BY <3>3 DEF OwnWindows
  <2>2. CASE ~sessionLive
    <3>1. UNCHANGED tmuxVars /\ wlive = {}
      BY <1>0, <1>3, <2>2 DEF NewWindow, NewWindowTitled, SessionInv
    <3> QED
      BY <3>1 DEF tmuxVars, OwnWindows
  <2> QED
    BY <2>1, <2>2
<1>8. services[n] # NoService => services[n] \in Service
  BY <1>0 DEF SvcTypeOK
<1>9. SvcTypeOK'
  <2>1. [pattern |-> hp, ready |-> FALSE] \in Service
    BY DEF Service
  <2>2. services' \in [Names -> Service \cup {NoService}]
    BY <1>0, <1>1, <2>1 DEF SvcTypeOK
  <2>3. clock \in Nat
    BY <1>0 DEF TypeOK
  <2>4. svcStamp' \in [Names -> Nat]
    BY <1>0, <1>1, <2>3 DEF SvcTypeOK
  <2> QED
    BY <1>0, <1>1, <2>2, <2>4 DEF SvcTypeOK
<1>10. ReadyFromOwnPane'
  <2> SUFFICES ASSUME NEW m \in SvcNames', services'[m].ready
               PROVE  readyFrom'[m] = home'[m]
    BY DEF ReadyFromOwnPane
  <2>0. services'[n].ready = FALSE
    BY <1>0, <1>1 DEF SvcTypeOK
  <2>1. m \in Names /\ m # n
    BY <2>0 DEF SvcNames
  <2>2. services'[m] = services[m] /\ home'[m] = home[m]
    BY <1>0, <1>1, <1>5, <2>1 DEF SvcTypeOK, TypeOK
  <2> QED
    BY <1>0, <1>1, <2>1, <2>2 DEF ReadyFromOwnPane, SvcNames
<1> QED
  BY <1>2, <1>6, <1>7, <1>9, <1>10 DEF OInv
(* wait_for_ready is entered: it only chooses which services to visit.     *)
LEMMA WaitForReadyInv == ASSUME OInv, WaitForReady PROVE OInv'
<1>1. UNCHANGED <<vars, services, svcStamp, readyFrom>>
      /\ pending' \subseteq SvcNames
  BY DEF WaitForReady, SvcNames
<1>2. IInv'
  BY <1>1, IInvStep DEF OInv
<1> QED
  BY <1>1, <1>2 DEF OInv, vars, tmuxVars, ctlVars, ghostVars, SvcTypeOK,
                    SvcNames, RegWindowsOnly, OwnWindows, ReadyFromOwnPane

(* One wait_for_pattern of wait_for_ready: the pattern is looked for in    *)
(* what the service's entry resolves to, which is the service's own pane.  *)
LEMMA ReadyStepInv == ASSUME OInv, ReadyStep PROVE OInv'
<1>0. /\ NoPrefixNames /\ TypeOK /\ SvcTypeOK /\ RegWindowsOnly /\ OwnWindows
      /\ ReadyFromOwnPane
  BY DEF OInv, IInv
<1> DEFINE f == FirstOf(pending)
<1>1. pending # {} /\ UNCHANGED <<vars, svcStamp>>
  BY DEF ReadyStep
<1>2. IInv' /\ RegWindowsOnly' /\ OwnWindows'
  BY <1>0, <1>1, IInvStep DEF OInv, vars, tmuxVars, ctlVars, ghostVars,
                              RegWindowsOnly, OwnWindows
<1>3. f \in pending /\ f \in Names /\ services[f] \in Service
  BY <1>0, <1>1, FirstOfIn DEF SvcTypeOK, SvcNames
<1>4. CASE reg[f] = NoTarget
  <2>1. pending' = {} /\ UNCHANGED <<services, readyFrom>>
    BY <1>4 DEF ReadyStep
  <2> QED
    BY <1>0, <1>1, <1>2, <2>1 DEF OInv, SvcTypeOK, SvcNames, ReadyFromOwnPane,
                                  vars, ghostVars
<1>5. CASE reg[f] # NoTarget
  <2>1. /\ pending' = pending \ {f}
        /\ \/ UNCHANGED <<services, readyFrom>>
           \/ \E p \in Resolve(reg[f]) :
                /\ services' = [services EXCEPT ![f].ready = TRUE]
                /\ readyFrom' = [readyFrom EXCEPT ![f] = p]
    BY <1>5 DEF ReadyStep
  <2>2. CASE UNCHANGED <<services, readyFrom>>
    BY <1>0, <1>1, <1>2, <2>1, <2>2 DEF OInv, SvcTypeOK, SvcNames,
                                        ReadyFromOwnPane, vars, ghostVars
  <2>3. ASSUME NEW p \in Resolve(reg[f]),
               services' = [services EXCEPT ![f].ready = TRUE],
               readyFrom' = [readyFrom EXCEPT ![f] = p]
        PROVE  OInv'
    <3>1. p = home[f]
      BY <1>0, <1>3, ResolveOwn
    <3>2. [services[f] EXCEPT !.ready = TRUE] \in Service
      BY <1>3 DEF Service
    <3>3. services' \in [Names -> Service \cup {NoService}]
          /\ services'[f] \in Service
      BY <1>0, <1>3, <2>3, <3>2 DEF SvcTypeOK
    <3>4. SvcNames' = SvcNames
      BY <1>0, <1>3, <2>3, <3>3 DEF SvcTypeOK, SvcNames
    <3>5. SvcTypeOK'
      <4>1. home[f] \in PaneIds \cup {NoPane}
        BY <1>0, <1>3 DEF TypeOK
      <4> QED
        BY <1>0, <1>1, <2>1, <2>3, <3>1, <3>3, <3>4, <4>1 DEF SvcTypeOK
    <3>6. home' = home
      BY <1>1 DEF vars, ghostVars
    <3>7. ReadyFromOwnPane'
      <4> SUFFICES ASSUME NEW m \in SvcNames', services'[m].ready
                   PROVE  readyFrom'[m] = home'[m]
        BY DEF ReadyFromOwnPane
      <4>1. CASE m = f
        BY <1>0, <1>3, <2>3, <3>1, <3>6, <4>1 DEF SvcTypeOK
      <4>2. CASE m # f
        BY <1>0, <2>3, <3>4, <3>6, <4>2 DEF ReadyFromOwnPane, SvcNames,
                                             SvcTypeOK
      <4> QED
        BY <4>1, <4>2
    <3> QED
      BY <1>2, <3>5, <3>7 DEF OInv
  <2> QED
    BY <2>1, <2>2, <2>3
<1> QED
  BY <1>4, <1>5
(* shutdown_all(graceful=True): the C-c keys go to the services' own      *)
(* panes; the session is killed and the dict cleared, or, when a stale     *)
(* service raised, tmux and the dict are left as they were.               *)
LEMMA ShutdownAllInv == ASSUME OInv, ShutdownAll PROVE OInv'
<1>0. /\ NoPrefixNames /\ TypeOK /\ SvcTypeOK /\ RegWindowsOnly /\ OwnWindows
      /\ NamedWindowsRegistered /\ FreshIds /\ SessionInv /\ UniqueLiveNames
  BY DEF OInv, IInv
<1> DEFINE hit == Reached(SvcNames)
           sent == UNION {{n} \X Resolve(reg[n]) : n \in hit}
<1>1. /\ delivered' = delivered \cup sent
      /\ IF SvcNames \cap Stale = {}
         THEN /\ PanesDie(plive)
              /\ reg' = [n \in Names |-> NoTarget]
         ELSE UNCHANGED <<sessionLive, wlive, plive, cur, reg>>
      /\ UNCHANGED <<wname, panes, active, nextWin, nextPane, stamp, clock,
                     home, orchVars>>
  BY DEF ShutdownAll
<1>2. hit \subseteq Names
  BY DEF Reached, SvcNames
<1>3. sent \subseteq Names \X (PaneIds \cup {NoPane})
  <2> SUFFICES ASSUME NEW n \in hit PROVE Resolve(reg[n]) \subseteq {home[n]}
                                          /\ home[n] \in PaneIds \cup {NoPane}
    BY <1>2
  <2> QED
    BY <1>0, <1>2, ResolveOwn DEF TypeOK
<1>4. SvcTypeOK' /\ ReadyFromOwnPane'
  BY <1>1 DEF orchVars, SvcTypeOK, SvcNames, ReadyFromOwnPane, OInv
<1>5. CASE SvcNames \cap Stale = {}
  <2>1. PanesDie(plive) /\ reg' = [n \in Names |-> NoTarget]
    BY <1>1, <1>5
  <2>2. wlive' = {} /\ plive' = {} /\ cur' = cur /\ sessionLive' = FALSE
    BY <2>1 DEF PanesDie, LiveIn
  <2>3. TypeOK'
    BY <1>0, <1>1, <1>3, <2>1, <2>2 DEF TypeOK
  <2>4. IInv' /\ RegWindowsOnly' /\ OwnWindows'
    BY <2>1, <2>2, <2>3 DEF IInv, NamedWindowsRegistered, FreshIds, SessionInv,
                            UniqueLiveNames, RegWindowsOnly, OwnWindows
  <2> QED
    BY <1>4, <2>4 DEF OInv
<1>6. CASE SvcNames \cap Stale # {}
  <2>1. UNCHANGED <<sessionLive, wlive, plive, cur, reg>>
    BY <1>1, <1>6
  <2>2. TypeOK'
    BY <1>0, <1>1, <1>3, <2>1 DEF TypeOK
  <2>3. IInv' /\ RegWindowsOnly' /\ OwnWindows'
    BY <1>0, <1>1, <2>1, <2>2 DEF IInv, NamedWindowsRegistered, FreshIds,
                                  SessionInv, UniqueLiveNames, RegWindowsOnly,
                                  OwnWindows
  <2> QED
    BY <1>4, <2>3 DEF OInv
<1> QED
  BY <1>5, <1>6
(* The orchestrator's own state is untouched by a step of the session's    *)
(* state alone.                                                             *)
LEMMA OrchUnchanged ==
    ASSUME OInv, UNCHANGED orchVars, UNCHANGED <<reg, home>>, IInv'
    PROVE  SvcTypeOK' /\ RegWindowsOnly' /\ ReadyFromOwnPane'
BY DEF OInv, orchVars, SvcTypeOK, SvcNames, RegWindowsOnly, ReadyFromOwnPane

(* shutdown_all(graceful=False): session.kill() closes every window.       *)
LEMMA ShutdownAllForcedInv == ASSUME OInv, ShutdownAllForced PROVE OInv'
<1>1. Kill /\ UNCHANGED orchVars
  BY DEF ShutdownAllForced
<1>2. IInv'
  BY <1>1, IInvStep DEF OInv, Next, ControllerNext
<1>3. wlive' = {} /\ reg' = [n \in Names |-> NoTarget] /\ UNCHANGED home
  BY <1>1 DEF Kill, PanesDie, LiveIn, ghostVars
<1>4. SvcTypeOK' /\ RegWindowsOnly' /\ OwnWindows' /\ ReadyFromOwnPane'
  BY <1>1, <1>3 DEF OInv, orchVars, SvcTypeOK, SvcNames, RegWindowsOnly,
                    OwnWindows, ReadyFromOwnPane
<1> QED
  BY <1>2, <1>4 DEF OInv

(* A human attaching, a shell exiting or an external kill-session: windows *)
(* only close, and an exiting shell moves the active pane only in a window *)
(* with another live pane, which a service window never has.              *)
LEMMA EnvInv == ASSUME OInv, OEnvironmentNext PROVE OInv'
<1>0. TypeOK /\ OwnWindows /\ SessionInv
  BY DEF OInv, IInv
<1>1. EnvironmentNext /\ UNCHANGED orchVars
  BY DEF OEnvironmentNext
<1>2. IInv'
  BY <1>1, IInvStep DEF OInv, Next
<1>3. UNCHANGED <<reg, home, wname, panes>>
  BY <1>1 DEF EnvironmentNext, Attach, PaneExit, ExternalKill, ctlVars,
              ghostVars
<1>4. SvcTypeOK' /\ RegWindowsOnly' /\ ReadyFromOwnPane'
  BY <1>1, <1>2, <1>3, OrchUnchanged
<1>5. OwnWindows'
  <2>1. ASSUME NEW w \in WinIds, Attach(w) PROVE OwnWindows'
    BY <1>0, <1>3, <2>1 DEF Attach, OwnWindows
  <2>2. ASSUME NEW P, PanesDie(P), UNCHANGED active PROVE OwnWindows'
    <3>1. wlive' \subseteq wlive
      BY <1>0, <2>2, PanesDieShrinks
    <3> SUFFICES ASSUME NEW w \in wlive', wname'[w] \in Names
                 PROVE  /\ panes'[w] = <<home'[wname'[w]]>>
                        /\ active'[w] = home'[wname'[w]]
      BY DEF OwnWindows
    <3>2. w \in wlive /\ wname[w] \in Names /\ active'[w] = active[w]
      BY <1>3, <2>2, <3>1
    <3> QED
      BY <1>0, <1>3, <3>2 DEF OwnWindows
  <2>3. ASSUME NEW p \in PaneIds, PaneExit(p) PROVE OwnWindows'
    <3>1. PICK w0 \in wlive :
            /\ p \in LiveIn(w0, plive)
            /\ IF active[w0] = p /\ LiveIn(w0, plive) # {p}
               THEN \E q \in LiveIn(w0, plive) \ {p} :
                       active' = [active EXCEPT ![w0] = q]
               ELSE UNCHANGED active
      BY <2>3 DEF PaneExit
    <3>2. wlive' \subseteq wlive
      BY <1>0, <2>3, PanesDieShrinks DEF PaneExit
    <3>3. ASSUME NEW w \in wlive, wname[w] \in Names PROVE active'[w] = active[w]
      <4>1. CASE w = w0
        <5>1. LiveIn(w, plive) = {home[wname[w]]} \cap plive
          BY <1>0, <3>3 DEF OwnWindows, LiveIn
        <5>2. LiveIn(w0, plive) = {p}
          BY <3>1, <4>1, <5>1
        <5> QED
          BY <3>1, <4>1, <5>2
      <4>2. CASE w # w0
        BY <1>0, <3>1, <4>2 DEF TypeOK
      <4> QED
        BY <4>1, <4>2
    <3> SUFFICES ASSUME NEW w \in wlive', wname'[w] \in Names
                 PROVE  /\ panes'[w] = <<home'[wname'[w]]>>
                        /\ active'[w] = home'[wname'[w]]
      BY DEF OwnWindows
    <3>4. w \in wlive /\ wname[w] \in Names
      BY <1>3, <3>2
    <3>5. active'[w] = active[w]
      BY <3>3, <3>4
    <3> QED
      BY <1>0, <1>3, <3>4, <3>5 DEF OwnWindows
  <2>4. CASE ExternalKill
    BY <2>2, <2>4 DEF ExternalKill
  <2> QED
    BY <1>1, <2>1, <2>3, <2>4 DEF EnvironmentNext
<1> QED
  BY <1>2, <1>4, <1>5 DEF OInv

LEMMA OInvStep == OInv /\ [ONext]_allVars => OInv'
<1> SUFFICES ASSUME OInv, [ONext]_allVars PROVE OInv'
  OBVIOUS
<1>1. CASE UNCHANGED allVars
  <2>1. IInv'
    BY <1>1, IInvStep DEF OInv, allVars
  <2> QED
    BY <1>1, <2>1 DEF allVars, vars, tmuxVars, ctlVars, ghostVars, orchVars,
                      OInv, SvcTypeOK, SvcNames, RegWindowsOnly, OwnWindows,
                      ReadyFromOwnPane
<1> QED
  BY <1>1, AddServiceInv, WaitForReadyInv, ReadyStepInv, ShutdownAllInv,
     ShutdownAllForcedInv, EnvInv DEF ONext, OrchestratorNext
(* After a step the entry of a name still resolves at most to that name's  *)
(* own pane (ResolveOwn, for the state after the step).                    *)
LEMMA ResolveOwnNext ==
    ASSUME OInv', NEW n \in Names
    PROVE  Resolve(reg[n])' \subseteq {home'[n]}
<1>0. NoPrefixNames /\ TypeOK' /\ RegWindowsOnly' /\ OwnWindows'
  BY DEF OInv, IInv
<1>1. CASE reg'[n] = NoTarget \/ ~sessionLive'
  BY <1>1 DEF Resolve
<1>2. CASE reg'[n] = WindowTarget(n) /\ sessionLive'
  <2>1. WindowTarget(n) # NoTarget
    BY DEF Targets
  <2>2. Resolve(reg[n])' = {active'[w] : w \in FoundWindow(n)'}
    BY <1>2, <2>1 DEF Resolve, WindowTarget
  <2>3. FoundWindow(n)' \subseteq UniqueNamed(n)'
    BY <1>0 DEF NoPrefixNames, FoundWindow, Prefixed
  <2> QED
    BY <1>0, <2>2, <2>3 DEF UniqueNamed, Named, OwnWindows
<1> QED
  BY <1>0, <1>1, <1>2 DEF RegWindowsOnly

(* Every delivery a step adds lands in the pane of the name it was sent    *)
(* for, as that pane is after the step.                                    *)
LEMMA DeliveredOwn ==
    ASSUME OInv, OInv', [ONext]_allVars
    PROVE  \A d \in delivered' \ delivered : d[2] = home'[d[1]]
<1>1. ASSUME NEW n \in Names, NEW hp \in BOOLEAN, AddService(n, hp)
      PROVE  \A d \in delivered' \ delivered : d[2] = home'[d[1]]
  <2>1. delivered' = delivered \cup ({n} \X Resolve(reg[n])')
    BY <1>1 DEF AddService, AddWindow
  <2>2. Resolve(reg[n])' \subseteq {home'[n]}
    BY ResolveOwnNext
  <2> QED
    BY <2>1, <2>2
<1>2. CASE ShutdownAll
  <2>1. delivered' = delivered \cup
          UNION {{n} \X Resolve(reg[n]) : n \in Reached(SvcNames)}
        /\ home' = home
    BY <1>2 DEF ShutdownAll
  <2>2. \A n \in Reached(SvcNames) : n \in Names /\ Resolve(reg[n]) \subseteq {home[n]}
    BY ResolveOwn DEF OInv, IInv, Reached, SvcNames
  <2> QED
    BY <2>1, <2>2
<1>3. CASE WaitForReady \/ ReadyStep \/ ShutdownAllForced \/ OEnvironmentNext
                        \/ UNCHANGED allVars
  <2>1. delivered' = delivered
    BY <1>3 DEF WaitForReady, ReadyStep, ShutdownAllForced, Kill,
                OEnvironmentNext, EnvironmentNext, Attach, PaneExit,
                ExternalKill, allVars, vars, ghostVars
  <2> QED
    BY <2>1
<1> QED
  BY <1>1, <1>2, <1>3 DEF ONext, OrchestratorNext

(* A service is marked ready only from output of its own pane              *)
(* (ReadyFromOwnPane), for every set of services and every bound, as long  *)
(* as no service name is the start of another window's name (when one is,  *)
(* the run orch_prefix shows a pane of another service answering):         *)
(* add_service creates whole windows only, nothing splits them, so         *)
(* "sess:<name>" resolves to the pane made for the name or to nothing;     *)
(* wait_for_ready polls through that entry, and add_service resets ready   *)
(* whenever a name is given a new pane.                                    *)
THEOREM ReadyFromOwnPaneHolds ==
    ASSUME NoPrefixNames PROVE OSpec => []ReadyFromOwnPane
<1>1. OInv => ReadyFromOwnPane
  BY DEF OInv
<1> QED
  BY <1>1, OInvInit, OInvStep, PTL DEF OSpec

(* The orchestrator sends keys (each start command, the C-c of             *)
(* shutdown_all) only to the pane tmux created for the service they are    *)
(* meant for (OwnPanesOnly), for every set of services and every bound,    *)
(* when no service name starts another window's name: the run orch_prefix  *)
(* shows the C-c of shutdown_all reaching "api-worker" once "api" exited.   *)
THEOREM OwnPanesOnlyHolds ==
    ASSUME NoPrefixNames PROVE OSpec => OwnPanesOnly
<1> DEFINE Own == \A d \in delivered' \ delivered : d[2] = home'[d[1]]
<1>1. OInv /\ OInv' /\ [ONext]_allVars => [Own]_allVars
  BY DeliveredOwn
<1> QED
  BY <1>1, OInvInit, OInvStep, PTL DEF OSpec, OwnPanesOnly
(* The orchestrator's state and the session under it stay well typed       *)
(* through every add_service, wait_for_ready poll, shutdown_all and        *)
(* change tmux makes on its own: services keep records or NoService,       *)
(* insertion positions stay naturals, the waiting set names services only. *)
THEOREM OrchTypeCorrect ==
    ASSUME NoPrefixNames PROVE OSpec => []OrchTypeOK
<1>1. OInv => OrchTypeOK
  BY DEF OInv, IInv, SvcTypeOK, OrchTypeOK, SvcNames
<1> QED
  BY <1>1, OInvInit, OInvStep, PTL DEF OSpec
========================================================================
