--------------------------- MODULE MCCameraPipeline ---------------------------
(***************************************************************************)
(* A small instance of CameraPipeline for TLC.                             *)
(***************************************************************************)
EXTENDS CameraPipeline
=============================================================================
