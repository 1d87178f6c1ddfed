-------------------------- MODULE TelltaleMonitor ---------------------------
(***************************************************************************)
(* What the renderer promises for its telltales, without the widgets, the  *)
(* invalidation flags and the frame loop that implement it: it counts the  *)
(* failed checks of every demanded telltale, and what it presents is       *)
(* exactly the telltales whose count is above their limit, unless the      *)
(* monitor has failed.                                                     *)
(***************************************************************************)
EXTENDS Naturals

CONSTANTS Telltales, Limit, MaxFailures

VARIABLES
  phase,     \* where the monitor is in its cycle
  demanded,  \* the telltales whose picture has to be on the video output
  failures,  \* failed checks of each telltale since it was last not demanded
  shown,     \* the telltales the renderer itself presents as a fallback
  failed     \* a fallback or a reference picture turned out to be missing

monitorVars == <<phase, demanded, failures, shown, failed>>

AboveLimit == {t \in Telltales : failures[t] > Limit[t]}

MonitorInit ==
  /\ phase = "off"
  /\ demanded \in SUBSET Telltales
  /\ failures = [t \in Telltales |-> 0]
  /\ shown = {}
  /\ failed = FALSE

\* The monitor comes up, or fails to.
PowerUp ==
  /\ phase = "off"
  /\ phase' \in {"off", "command", "over"}
  /\ demanded' \in SUBSET Telltales
  /\ UNCHANGED <<failures, shown, failed>>

\* The data demand other telltales.
Command ==
  /\ phase = "command" /\ phase' = "present"
  /\ demanded' \in SUBSET Telltales
  /\ UNCHANGED <<failures, shown, failed>>

\* A frame is presented; a fallback without a picture makes the monitor fail.
Present(missing) ==
  /\ phase = "present" /\ phase' = "check"
  /\ shown' = AboveLimit \ missing
  /\ failed' = (failed \/ AboveLimit \cap missing # {})
  /\ UNCHANGED <<demanded, failures>>

\* The video output is checked once; a check that cannot be done fails.
Check(failing) ==
  /\ phase = "check" /\ phase' = "command"
  /\ failures' = [t \in Telltales |->
       IF t \notin demanded THEN 0
       ELSE IF t \in failing /\ failures[t] < MaxFailures
            THEN failures[t] + 1 ELSE failures[t]]
  /\ failed' \in {failed, TRUE}
  /\ UNCHANGED <<demanded, shown>>

\* The process ends between two cycles.
Stop ==
  /\ phase = "command" /\ phase' = "over"
  /\ UNCHANGED <<demanded, failures, shown, failed>>

MonitorNext ==
  \/ PowerUp
  \/ Command
  \/ \E missing \in SUBSET Telltales : Present(missing)
  \/ \E failing \in SUBSET Telltales : Check(failing)
  \/ Stop

MonitorSpec == MonitorInit /\ [][MonitorNext]_monitorVars
=============================================================================
