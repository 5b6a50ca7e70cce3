---------------------------- MODULE MCHealthMonitor ---------------------------
(***************************************************************************)
(* One task thread beside the monitor; a burst of two misses is a fault.   *)
(***************************************************************************)
EXTENDS HealthMonitor

CONSTANT r1

MCRaiser     == {r1}
MCRaisedCode == {"NAV_FAIL"}
MCThreshold  == 2
MCMaxMissed  == 2

===============================================================================
