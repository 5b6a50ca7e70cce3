-------------------------- MODULE MCRtScheduleFitting --------------------------
(***************************************************************************)
(* Cycles that fit into the period with one unit of time to spare, the     *)
(* work and both latencies at their longest.                               *)
(***************************************************************************)
EXTENDS RtSchedule

MCPeriod        == 8
MCMeasureWindow == 24
MCMaxWork       == 3
MCMaxLatency    == 2
MCMaxTime       == 80

ASSUME FittingAssumption == CyclesFit

===============================================================================
