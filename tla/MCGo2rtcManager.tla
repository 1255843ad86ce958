--------------------------- MODULE MCGo2rtcManager ---------------------------
(***************************************************************************)
(* Small instances of Go2rtcManager for TLC.                               *)
(***************************************************************************)
EXTENDS Go2rtcManager, TLC
CONSTANTS e1, s1
=============================================================================
