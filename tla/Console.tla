------------------------------ MODULE Console --------------------------------
(***************************************************************************)
(* The reading side of the system: the endpoints the web console and       *)
(* Prometheus ask, and what the RCA agent looks up.  Six groups are        *)
(* modelled, each with those who write what it reads:                      *)
(*   "handoff"   proposals, their history and the CMMS gauges, over the    *)
(*               approval API                            (HandoffReads)    *)
(*   "runs"      run summaries and repair plans          (PortalRuns)      *)
(*   "outcomes"  the outcomes report and early warnings  (Outcomes)        *)
(*   "edge"      the state of an edge site               (EdgeStatus)      *)
(*   "registry"  failure events, reliability figures     (Registry)        *)
(*   "documents" documents and an event's context        (EventContext)    *)
(* No group writes what another reads, so a behaviour shows one of them    *)
(* and leaves the rest as it was.                                          *)
(***************************************************************************)
EXTENDS HandoffReads, PortalRuns, Outcomes, EdgeStatus, Registry, EventContext

VARIABLE group \* the endpoints asked in this behaviour

consoleVars == <<group, viewVars, portalVars, outcomeVars, edgeVars, registryVars,
                 contextVars>>

ConsoleInit ==
  /\ group \in {"handoff", "runs", "outcomes", "edge", "registry", "documents"}
  /\ Init /\ ReadsInit /\ PortalInit /\ OutcomesInit /\ EdgeStatusInit
  /\ RegistryInit /\ ContextInit
  /\ group # "outcomes" => tables = CHOOSE t \in Tables : TRUE
  /\ group # "edge" => column /\ edgeOn

ConsoleNext ==
  /\ UNCHANGED group
  /\ \/ /\ group = "handoff" /\ ReadsNext
        /\ UNCHANGED <<portalVars, outcomeVars, edgeVars, registryVars, contextVars>>
     \/ /\ group = "runs" /\ PortalNext
        /\ UNCHANGED <<viewVars, outcomeVars, edgeVars, registryVars, contextVars>>
     \/ /\ group = "outcomes" /\ OutcomesNext
        /\ UNCHANGED <<viewVars, portalVars, edgeVars, registryVars, contextVars>>
     \/ /\ group = "edge" /\ EdgeStatusNext
        /\ UNCHANGED <<viewVars, portalVars, outcomeVars, registryVars, contextVars>>
     \/ /\ group = "registry" /\ RegistryNext
        /\ UNCHANGED <<viewVars, portalVars, outcomeVars, edgeVars, contextVars>>
     \/ /\ group = "documents" /\ ContextNext
        /\ UNCHANGED <<viewVars, portalVars, outcomeVars, edgeVars, registryVars>>

ConsoleSpec == ConsoleInit /\ [][ConsoleNext]_consoleVars
=============================================================================
