----------------------------- MODULE MCRtSchedule -----------------------------
(***************************************************************************)
(* A period of two units of time: cycles that fit, that overrun into the   *)
(* next slot and into the one after it, and wake-ups late by a slot and a  *)
(* half; a measurement is due every three periods.                         *)
(***************************************************************************)
EXTENDS RtSchedule

MCPeriod        == 2
MCMeasureWindow == 6
MCMaxWork       == 5
MCMaxLatency    == 3
MCMaxTime       == 14

===============================================================================
