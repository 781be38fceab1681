------------------------------ MODULE MCReactor ------------------------------
(* Instance of Reactor for TLC. *)
EXTENDS Reactor
CONSTANTS wii, board
MCRoot == {wii, board}
MCSlot == 1..1
=============================================================================
