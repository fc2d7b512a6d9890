----------------------------- MODULE MCTriggers -----------------------------
(***************************************************************************)
(* Four automations for the model checker: lamp, a rule of commands alone  *)
(* the clock starts, so that a tick waits for it; blinds, which the clock  *)
(* starts too and takes steps; pump, started once a tank has been low for  *)
(* a while; and night, which waits for a room to empty, and may itself     *)
(* change what its condition reads.                                        *)
(***************************************************************************)
EXTENDS Triggers

MCAutomations == {"lamp", "blinds", "pump", "night"}
MCClocked == {"lamp", "blinds"}
MCList == <<"lamp", "blinds", "pump", "night">>
MCSlots == [a \in MCClocked |-> {1}]
MCHold == [a \in MCAutomations |-> IF a = "pump" THEN 1 ELSE 0]
MCSequences == {"blinds", "pump", "night"}
MCEchoes == {"night"}

MCSkips == [a \in MCAutomations |-> "skip"]
MCQueues == [a \in MCAutomations |-> "queue"]

=============================================================================
