----------------------------- MODULE MCLifecycle -----------------------------
(* Instance of Lifecycle for TLC. *)
EXTENDS Lifecycle
CONSTANTS d1, d2
MCDaemon == {d1, d2}
MCInode == 1..4
MCSignalled == {d1}
=============================================================================
