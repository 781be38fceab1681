------------------------------ MODULE MCSession ------------------------------
(* Instance of Session for TLC. *)
EXTENDS Session
CONSTANTS dev1, dev2
MCDevice == {dev1, dev2}
=============================================================================
