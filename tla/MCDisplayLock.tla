---------------------------- MODULE MCDisplayLock ----------------------------
(***************************************************************************)
(* Instances of DisplayLock for TLC.                                       *)
(***************************************************************************)
EXTENDS DisplayLock
=============================================================================
