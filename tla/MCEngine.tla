------------------------------ MODULE MCEngine ------------------------------
(***************************************************************************)
(* Two sources that share buttons, a D-pad direction, two buttons bound to *)
(* the same desktop key and one with no binding; both outputs and aiming.  *)
(***************************************************************************)
EXTENDS Engine

CONSTANTS a, b, up, click, none

MCButton == {a, b, up}
MCGamepadCode == [c \in MCButton |-> c]
MCDesktopCode == [c \in MCButton |-> IF c \in {a, b} THEN click ELSE none]
=============================================================================
