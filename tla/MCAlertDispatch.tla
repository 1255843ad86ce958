--------------------------- MODULE MCAlertDispatch ---------------------------
(***************************************************************************)
(* Small instances of AlertDispatch for TLC.                               *)
(***************************************************************************)
EXTENDS AlertDispatch, TLC

CONSTANTS a1, a2, p1, cam

OneKey == [a \in Alerts |-> cam]
=============================================================================
