------------------------- MODULE MCPositionManager -------------------------
(***************************************************************************)
(* Fault sets for model-checking PositionManager.  One run lets the jobs of *)
(* the thread pool overlap, with a crash between any two steps; one lets    *)
(* them take turns under what the broker and the operator do to them; three *)
(* show what the code does not survive.                                     *)
(***************************************************************************)
EXTENDS PositionManager

(* What can stop a job or the process between two of its steps, a close or a   *)
(* cancel that fails, and the first two failures open() meets.                *)
OverlapFaults == {"crash", "raise", "raise_entry", "close", "cancel", "reject_stop", "unfilled"}

(* The broker and the operator misbehave; jobs and process run on. *)
BrokerFaults ==
  {"reject_stop", "reject_exit", "unfilled", "stop_lost", "cancel", "flatten", "kill_switch"}

(* The kill switch is engaged, and the exit it asks for expires unfilled. *)
UnfilledExit == {"kill_switch", "unfilled"}

(* A read of the broker fails. *)
FailedRead == {"query"}

(* The process dies, once. *)
OneCrash == {"crash"}

(* The exits of _monitor_one (b)-(d) differ only in their tags. *)
NoPlannedExits == {}
SomePlannedExits == {"TP", "TIME_STOP"}

=============================================================================
