----------------------------- MODULE MCTaskServer -----------------------------
(***************************************************************************)
(* Two goals sent to the node, one after the other or overlapping, each    *)
(* of which a client may try to cancel at any moment.                      *)
(***************************************************************************)
EXTENDS TaskServer

CONSTANTS t1, t2

MCTask == {t1, t2}

===============================================================================
