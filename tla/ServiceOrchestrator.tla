------------------------- MODULE ServiceOrchestrator -------------------------
(***************************************************************************)
(* MultiServiceOrchestrator (terminal_session.py lines 317-416) on top of  *)
(* the TerminalSession it owns.  self.services maps a service name to its  *)
(* record {command, window_id, ready_pattern, ready}; it keeps its own     *)
(* insertion order, which is not the order of session.windows once a name  *)
(* is registered again.  Every loop over self.services calls a session    *)
(* method that raises ValueError for a name session.windows lacks, which   *)
(* ends the loop there.                                                     *)
(*                                                                          *)
(* wait_for_ready blocks for up to timeout_per_service on each service, so *)
(* it is one step per service, tmux and the panes changing in between.     *)
(* start_all only sleeps and monitor_logs only reads: neither is a step.   *)
(***************************************************************************)
EXTENDS TerminalSession

VARIABLES
    services,   \* self.services: name -> [pattern, ready] or NoService
    svcStamp,   \* insertion position of each key of self.services
    pending,    \* services wait_for_ready has still to visit ({} when idle)
    readyFrom   \* ghost: the pane whose output made a service ready

orchVars == <<services, svcStamp, pending, readyFrom>>
allVars == <<vars, orchVars>>

Service == [pattern : BOOLEAN, ready : BOOLEAN]

\* Absent from self.services: a value that is not a service record.
NoService == CHOOSE x : x \notin Service

OrchTypeOK ==
    /\ TypeOK
    /\ services \in [Names -> Service \cup {NoService}]
    /\ svcStamp \in [Names -> Nat]
    /\ pending \subseteq Names
    /\ readyFrom \in [Names -> PaneIds \cup {NoPane}]

\* Keys of self.services.
SvcNames == {n \in Names : services[n] # NoService}

\* The first of a set of services in self.services order.
FirstOf(S) == CHOOSE n \in S : \A m \in S : svcStamp[n] <= svcStamp[m]

\* Services the session no longer knows: any session call on them raises.
Stale == {n \in SvcNames : reg[n] = NoTarget}

\* Services a loop over self.services reaches before the first one that
\* raises.
Reached(S) ==
    IF S \cap Stale = {} THEN S
    ELSE {n \in S : svcStamp[n] < svcStamp[FirstOf(S \cap Stale)]}

OInit ==
    /\ Init
    /\ services = [n \in Names |-> NoService]
    /\ svcStamp = [n \in Names |-> 0]
    /\ pending = {}
    /\ readyFrom = [n \in Names |-> NoPane]

-----------------------------------------------------------------------------
(* add_service(name, command, ready_pattern=...) (lines 328-346):          *)
(* session.add_window(name, command) raises for a name the session knows;  *)
(* otherwise the record is (re)written with ready False.                   *)
AddService(n, hasPattern) ==
    /\ pending = {}
    /\ AddWindow(n, FALSE, TRUE)
    /\ services' = [services EXCEPT ![n] = [pattern |-> hasPattern,
                                             ready |-> FALSE]]
    /\ svcStamp' = IF services[n] = NoService
                   THEN [svcStamp EXCEPT ![n] = clock] ELSE svcStamp
    /\ UNCHANGED <<pending, readyFrom>>

(* wait_for_ready (lines 359-375) is entered: it will visit every service  *)
(* that has a ready pattern, in self.services order.                       *)
WaitForReady ==
    /\ pending = {}
    /\ pending' = {n \in SvcNames : services[n].pattern}
    /\ pending' # {}
    /\ UNCHANGED <<vars, services, svcStamp, readyFrom>>

(* One wait_for_pattern(name, pattern) of wait_for_ready: ValueError for a *)
(* stale name ends the whole call; otherwise the pattern may or may not    *)
(* show up in the pane the target resolves to (none: the capture is empty *)
(* and the wait times out), and a match sets ready, never clears it.       *)
ReadyStep ==
    /\ pending # {}
    /\ LET n == FirstOf(pending)
       IN  IF reg[n] = NoTarget
           THEN pending' = {} /\ UNCHANGED <<services, readyFrom>>
           ELSE /\ pending' = pending \ {n}
                /\ \/ UNCHANGED <<services, readyFrom>>
                   \/ \E p \in Resolve(reg[n]) :
                        /\ services' = [services EXCEPT ![n].ready = TRUE]
                        /\ readyFrom' = [readyFrom EXCEPT ![n] = p]
    /\ UNCHANGED <<vars, svcStamp>>

(* shutdown_all(graceful=True) (lines 403-416): C-c to every service in    *)
(* self.services order, sleep 2, session.kill().  A stale service raises   *)
(* in send_keys: the services before it got C-c and the session is NOT     *)
(* killed.                                                                 *)
ShutdownAll ==
    /\ pending = {}
    /\ LET hit == Reached(SvcNames)
       IN  /\ delivered' = delivered \cup
                 UNION {{n} \X Resolve(reg[n]) : n \in hit}
           /\ IF SvcNames \cap Stale = {}
              THEN /\ PanesDie(plive)
                   /\ reg' = [n \in Names |-> NoTarget]
              ELSE UNCHANGED <<sessionLive, wlive, plive, cur, reg>>
    /\ UNCHANGED <<wname, panes, active, nextWin, nextPane, stamp, clock,
                   home, orchVars>>

(* shutdown_all(graceful=False): session.kill() straight away.            *)
ShutdownAllForced ==
    /\ pending = {}
    /\ Kill
    /\ UNCHANGED orchVars

-----------------------------------------------------------------------------
OrchestratorNext ==
    \/ \E n \in Names, hasPattern \in BOOLEAN : AddService(n, hasPattern)
    \/ WaitForReady
    \/ ReadyStep
    \/ ShutdownAll
    \/ ShutdownAllForced

\* tmux and the panes change whenever they like; the orchestrator's session
\* is not used directly.
OEnvironmentNext ==
    EnvironmentNext /\ UNCHANGED orchVars

ONext == OrchestratorNext \/ OEnvironmentNext

OSpec == OInit /\ [][ONext]_allVars

-----------------------------------------------------------------------------
(* Every key the orchestrator sends (each start command, the C-c that      *)
(* shutdown_all sends to every service, spec 4.6) lands in the pane tmux   *)
(* created for that service.  Services are whole windows, never splits, so *)
(* "sess:<name>" stays on its pane as long as tmux finds the window by its *)
(* exact name.  A step's deliveries are compared with the homes after the  *)
(* step, as a name registered again after shutdown_all has a new home.     *)
OwnPanesOnly ==
    [][\A d \in delivered' \ delivered : d[2] = home'[d[1]]]_allVars

(* A service is marked ready only by output read from its own pane.        *)
ReadyFromOwnPane ==
    \A n \in SvcNames : services[n].ready => readyFrom[n] = home[n]
=============================================================================
