---------------------------- MODULE MCLiveSessions ----------------------------
(***************************************************************************)
(* Small instances of LiveSessions for TLC: two viewers.                   *)
(***************************************************************************)
EXTENDS LiveSessions
CONSTANTS s1, s2
=============================================================================
