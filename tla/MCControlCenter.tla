--------------------------- MODULE MCControlCenter ---------------------------
(* Instance of ControlCenter for TLC. *)
EXTENDS ControlCenter
CONSTANTS user, custom, c1, c2
MCPath == {user, custom}
MCContent == {c1, c2}
MCStored == {c1}
MCDetailed == {"config"}
=============================================================================
