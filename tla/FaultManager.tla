----------------------------- MODULE FaultManager -----------------------------
(***************************************************************************)
(* robot_core_api::FaultManager, the process-wide software motion gate.    *)
(* It keeps an atomic mode and, under a mutex, the code of the last fault. *)
(* raise() and clear() each write the code first and the mode afterwards,  *)
(* and nothing holds the two writes together: another caller, or a reader, *)
(* may run between them.  Each write is therefore an operator of its own,  *)
(* and the modules that call raise() or clear() give each its own step.    *)
(*                                                                         *)
(* RaiseModeFromOk and ClearCodeForgotten are faulty variants of the       *)
(* definitions that stand next to them; no action uses them.               *)
(***************************************************************************)

VARIABLES
  mode,        \* mode_, an atomic
  fault_code   \* fault_code_, guarded by mutex_ (detail_ follows it)

FaultMode == {"Ok", "Degraded", "Fault", "Estop"}

\* The codes raised under src/, and the empty code of a cleared manager.
RtCode    == {"RT_LOOP_ERROR", "RT_LOOP_MISSED"}
TaskCode  == {"SAFETY_DENY", "NAV_FAIL", "MANIP_FAIL"}
NoCode    == ""
FaultCode == RtCode \cup TaskCode \cup {NoCode}

FaultTypeOK == mode \in FaultMode /\ fault_code \in FaultCode

FaultInit == mode = "Ok" /\ fault_code = NoCode

ModeAllowsMotion(m) == m \in {"Ok", "Degraded"}
allows_motion == ModeAllowsMotion(mode)

\* raise(m, c, ...): the guarded write of the code, then the store of the mode.
RaiseCode(c) == fault_code' = c
RaiseModeFromOk(m) == mode = "Ok" /\ m # "Ok" /\ mode' = m
RaiseMode(m) == m # "Ok" /\ mode' = m

\* clear(): the same two writes, in the same order.
ClearCodeForgotten == UNCHANGED fault_code
ClearCode == fault_code' = NoCode
ClearMode == mode' = "Ok"

===============================================================================
