------------------------------ MODULE MCDevice ------------------------------
(***************************************************************************)
(* A controller with its core and an extension, both required and with the *)
(* same button, and an IR camera that only a capture lease opens.  Two     *)
(* nodes: an interface that returns may get the node of another one.       *)
(***************************************************************************)
EXTENDS Device

CONSTANTS a, none

MCGamepadCode == [c \in {a} |-> c]
MCDesktopCode == [c \in {a} |-> none]
=============================================================================
