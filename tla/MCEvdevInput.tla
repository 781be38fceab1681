---------------------------- MODULE MCEvdevInput ----------------------------
(***************************************************************************)
(* Two keys and one axis over a queue that two small packets overflow, and *)
(* a drain of one event, so that recovered events outlive a drain.         *)
(***************************************************************************)
EXTENDS EvdevInput
=============================================================================
