----------------------------- MODULE MCRtSystem -------------------------------
(***************************************************************************)
(* Three activations: of a new loop, of the same loop again, and of a loop *)
(* made by another on_configure, in any order.                             *)
(***************************************************************************)
EXTENDS RtSystem

MCMaxActivations == 3

===============================================================================
