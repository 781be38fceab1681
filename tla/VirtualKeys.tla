---------------------------- MODULE VirtualKeys ----------------------------
(***************************************************************************)
(* What a controller promises to the desktop: every virtual key has a set  *)
(* of owners (the physical buttons that drive it), it is down exactly      *)
(* while it has one, and losing the outputs loses every owner with them.   *)
(* Engine and Device are shown to implement this module.                   *)
(***************************************************************************)
CONSTANTS
  Owner,      \* physical buttons, each on one interface of the controller
  VKey,       \* keys of the virtual devices
  Drives      \* [Owner -> SUBSET VKey]: the keys a physical button drives

VARIABLES
  owners,     \* the owners that are pressed
  down        \* the virtual keys the desktop sees down

abstractVars == <<owners, down>>

\* The keys that a set of owners keeps down.
DrivenBy(S) == UNION {Drives[o] : o \in S}

Init ==
  /\ owners = {}
  /\ down = {}

\* One button goes down: keys that another owner already holds do not change.
Acquire(o) ==
  /\ owners' = owners \cup {o}
  /\ down' = down \cup Drives[o]

\* Some buttons go up: only the keys that no remaining owner drives go up.
Release(S) ==
  /\ owners' = owners \ S
  /\ down' = down \ (DrivenBy(S) \ DrivenBy(owners \ S))

\* The virtual devices are destroyed, and every key with them.
Lose ==
  /\ owners' = {}
  /\ down' = {}

Next ==
  \/ \E o \in Owner : Acquire(o)
  \/ \E S \in SUBSET owners : Release(S)
  \/ Lose

Spec == Init /\ [][Next]_abstractVars
=============================================================================
