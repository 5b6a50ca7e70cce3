-------------------------- MODULE MCRtSchedulePrompt --------------------------
(***************************************************************************)
(* The schedule with wake-ups that are never late: what is left is the     *)
(* work of the cycles, up to twice the period.                             *)
(***************************************************************************)
EXTENDS RtSchedule

MCPeriod        == 4
MCMeasureWindow == 12
MCMaxWork       == 8
MCMaxLatency    == 0
MCMaxTime       == 20

===============================================================================
