-------------------------- MODULE MCAtomicStateBuffer --------------------------
(***************************************************************************)
(* The six fields of two joints, over three RT cycles: enough for a reader *)
(* to be overtaken and for two snapshots in a row to be torn.              *)
(***************************************************************************)
EXTENDS AtomicStateBuffer

MCN        == 6
MCMaxCycle == 3

===============================================================================
