------------------------------- MODULE Engine -------------------------------
(***************************************************************************)
(* The deterministic engine of one controller                              *)
(* (crates/wiiland-core/src/engine.rs) and the key state of the two        *)
(* virtual devices that the bridge drives with its actions.                *)
(*                                                                         *)
(* The engine keeps, per input source, the buttons that are held, and      *)
(* turns the changes of their union into key actions: a gamepad key per    *)
(* button, and a desktop key that several buttons may be bound to.  The    *)
(* D-pad also moves the pointer and one button may gate aiming.            *)
(***************************************************************************)
EXTENDS FiniteSets

CONSTANTS
  Source,        \* the interfaces that carry buttons (InputSource)
  Button,
  GamepadCode,   \* [Button -> code]: mapping::map_button
  DesktopCode,   \* [Button -> code]: the configured desktop bindings
  NoCode,        \* the code of a disabled desktop binding
  Gamepad,       \* needs_gamepad: the gamepad output exists
  Desktop,       \* the profile contains DESKTOP
  Direction,     \* the D-pad buttons
  AimEnabled,    \* aim_mode is not off
  AimAlways,     \* aim_activation is always
  AimButton      \* the activation button otherwise

ASSUME ModesAssumption ==
  /\ Gamepad \in BOOLEAN
  /\ Desktop \in BOOLEAN
  /\ AimEnabled \in BOOLEAN
  /\ AimAlways \in BOOLEAN

\* map_button gives each button a gamepad key of its own.
ASSUME GamepadAssumption ==
  \A a, b \in Button : GamepadCode[a] = GamepadCode[b] => a = b

VARIABLES
  held,          \* [Source -> SUBSET Button]: DeviceEngine.held
  pointerKeys,   \* PointerState.pointer_keys, the directions that move the pointer
  aimHeld,       \* AimState.held
  emitted,       \* the key actions of the last step: per value, the keys written with it
  keysDown       \* the keys the virtual devices hold down

engineVars == <<held, pointerKeys, aimHeld, emitted, keysDown>>

ButtonState == {"Released", "Pressed", "Repeated"}

VKey ==
  ({"gamepad"} \X {GamepadCode[b] : b \in Button})
    \cup ({"desktop"} \X ({DesktopCode[b] : b \in Button} \ {NoCode}))

\* OutputAction::Key, grouped by the value written.
KeyAction == [ButtonState -> SUBSET VKey]
NoAction == [v \in ButtonState |-> {}]
-----------------------------------------------------------------------------
(***************************************************************************)
(* Ownership of buttons and keys.                                          *)
(***************************************************************************)
\* held_buttons
HeldIn(h) == UNION {h[s] : s \in Source}

\* desktop_key_held
DesktopHeld(buttons, code) == \E b \in buttons : DesktopCode[b] = code

-----------------------------------------------------------------------------
(***************************************************************************)
(* One key event.                                                          *)
(***************************************************************************)
\* Fault: every report is written, whether or not ownership changed.
OutcomeEveryReport(before, after, state) == {state}

\* emit_key_transition: at most one value, chosen by the change of ownership.
Outcome(before, after, state) ==
  {v \in ButtonState :
     \/ v = "Pressed"  /\ ~before /\ after
     \/ v = "Released" /\ before /\ ~after
     \/ v = "Repeated" /\ before /\ after /\ state = "Repeated"}

\* The virtual keys of a button, and how a report of it changes who holds them.
GamepadKeys(b) == IF Gamepad THEN {<<"gamepad", GamepadCode[b]>>} ELSE {}

\* Fault: a disabled desktop binding is written as if it were a key.
DesktopKeysDisabled(b) == IF Desktop THEN {<<"desktop", DesktopCode[b]>>} ELSE {}
DesktopKeys(b) ==
  IF Desktop /\ DesktopCode[b] # NoCode THEN {<<"desktop", DesktopCode[b]>>} ELSE {}

\* The keys that a set of held buttons should keep down.
KeysOf(buttons) == UNION {GamepadKeys(b) \cup DesktopKeys(b) : b \in buttons}

\* Fault: a desktop key follows the button alone, not all the buttons bound to it.
KeyActionsPerButton(b, before, after, state) ==
  [v \in ButtonState |->
     {k \in GamepadKeys(b) \cup DesktopKeys(b) :
        v \in Outcome(b \in before, b \in after, state)}]

\* The actions of DeviceEngine::key, for the held buttons before and after it.
KeyActions(b, before, after, state) ==
  [v \in ButtonState |->
     {k \in GamepadKeys(b) : v \in Outcome(b \in before, b \in after, state)}
       \cup
     {k \in DesktopKeys(b) : v \in Outcome(DesktopHeld(before, DesktopCode[b]),
                                           DesktopHeld(after, DesktopCode[b]), state)}]

\* The virtual devices after they were written these actions.
Written(keys, actions) == (keys \ actions["Released"]) \cup actions["Pressed"]

\* held[source] after a button event
Owned(buttons, b, state) ==
  IF state = "Released" THEN buttons \ {b} ELSE buttons \cup {b}

\* PointerState::update_key, called when the button changed for all sources
PointerAfter(keys, b, before, after) ==
  IF ~Desktop \/ b \notin Direction \/ ((b \in before) = (b \in after)) THEN keys
  ELSE IF b \in after THEN keys \cup {b} ELSE keys \ {b}

\* AimState::activation_key, called when the button changed for all sources
AimAfter(aim, b, before, after) ==
  IF ~AimEnabled \/ ((b \in before) = (b \in after)) THEN aim
  ELSE IF AimAlways THEN TRUE
  ELSE IF b = AimButton THEN b \in after
  ELSE aim

\* DeviceEngine::key
Key(s, b, state) ==
  LET owned  == [held EXCEPT ![s] = Owned(@, b, state)]
      before == HeldIn(held)
      after  == HeldIn(owned)
      out    == KeyActions(b, before, after, state)
  IN /\ held' = owned
     /\ emitted' = out
     /\ keysDown' = Written(keysDown, out)
     /\ pointerKeys' = PointerAfter(pointerKeys, b, before, after)
     /\ aimHeld' = AimAfter(aimHeld, b, before, after)
-----------------------------------------------------------------------------
(***************************************************************************)
(* The other inputs of DeviceEngine::process.                              *)
(***************************************************************************)
\* SourceRemoved: every held button of the source gets a Released event, one
\* after the other.  A key goes up once, with the last of its owners.
ReleasedWith(before, after) ==
  [NoAction EXCEPT !["Released"] = KeysOf(before) \ KeysOf(after)]

\* Fault: the source is forgotten without releasing its keys.
SourceForgotten(s) ==
  /\ held' = [held EXCEPT ![s] = {}]
  /\ UNCHANGED <<pointerKeys, aimHeld, emitted, keysDown>>

SourceRemoved(s) ==
  LET owned  == [held EXCEPT ![s] = {}]
      before == HeldIn(held)
      after  == HeldIn(owned)
      gone   == before \ after
  IN /\ held' = owned
     /\ emitted' = ReleasedWith(before, after)
     /\ keysDown' = Written(keysDown, ReleasedWith(before, after))
     /\ pointerKeys' = IF Desktop THEN pointerKeys \ (gone \cap Direction) ELSE pointerKeys
     /\ aimHeld' = IF ~AimEnabled \/ gone = {} THEN aimHeld
                   ELSE IF AimAlways THEN TRUE
                   ELSE aimHeld /\ AimButton \notin gone

\* Fault: a reset forgets the activation button but not that it was held.
ResetKeepsAim ==
  /\ held' = [s \in Source |-> {}]
  /\ pointerKeys' = {}
  /\ emitted' = NoAction
  /\ keysDown' = {}
  /\ UNCHANGED aimHeld

\* Fault: a reset leaves the pointer moving.
ResetKeepsPointer ==
  /\ held' = [s \in Source |-> {}]
  /\ aimHeld' = FALSE
  /\ emitted' = NoAction
  /\ keysDown' = {}
  /\ UNCHANGED pointerKeys

\* Reset: a new session, after the adapter destroyed the previous outputs.
Reset ==
  /\ held' = [s \in Source |-> {}]
  /\ pointerKeys' = {}
  /\ aimHeld' = FALSE
  /\ emitted' = NoAction
  /\ keysDown' = {}

\* DeviceEngine::new, with newly created outputs
EngineInit ==
  /\ held = [s \in Source |-> {}]
  /\ pointerKeys = {}
  /\ aimHeld = FALSE
  /\ emitted = NoAction
  /\ keysDown = {}

EngineNext ==
  \/ \E s \in Source, b \in Button, state \in ButtonState : Key(s, b, state)
  \/ \E s \in Source : SourceRemoved(s)
  \/ Reset

EngineSpec == EngineInit /\ [][EngineNext]_engineVars
-----------------------------------------------------------------------------
(***************************************************************************)
(* Properties.                                                             *)
(***************************************************************************)
\* The values of the engine's fields and of the virtual devices.
EngineTypeOK ==
  /\ held \in [Source -> SUBSET Button]
  /\ pointerKeys \in SUBSET Direction
  /\ aimHeld \in BOOLEAN
  /\ emitted \in KeyAction
  /\ keysDown \in SUBSET VKey

\* A virtual key is down exactly while some held button, on whatever source,
\* drives it (DeviceEngine::key compares ownership before and after): two
\* sources that hold one button, or two buttons bound to one desktop key, press
\* it once and release it with the last of them.
KeysOwned == keysDown = KeysOf(HeldIn(held))

\* The pointer moves exactly while the D-pad is held on some source, so that
\* PointerTick cannot keep drifting after the last owner let go.
PointerOwned == pointerKeys = IF Desktop THEN HeldIn(held) \cap Direction ELSE {}

\* Aiming follows its activation button over all sources: releasing it on one
\* source while another holds it must not end the aim session, and a reset ends it.
AimOwned ==
  /\ AimEnabled /\ ~AimAlways => (aimHeld <=> AimButton \in HeldIn(held))
  /\ HeldIn(held) # {} => (AimEnabled /\ AimAlways => aimHeld)

\* Every action written to a virtual device fits its state: it presses only keys
\* that are up, and releases and repeats only keys that are down.
ActionsFit ==
  [][/\ emitted'["Pressed"] \cap keysDown = {}
     /\ (emitted'["Released"] \cup emitted'["Repeated"]) \subseteq keysDown]_engineVars

\* Engine implements VirtualKeys: its owners are the held buttons.
Owners(h) == {o \in Source \X Button : o[2] \in h[o[1]]}

Abstract == INSTANCE VirtualKeys WITH
  Owner  <- Source \X Button,
  Drives <- [o \in Source \X Button |-> KeysOf({o[2]})],
  owners <- Owners(held),
  down   <- keysDown

ImplementsVirtualKeys == Abstract!Spec
=============================================================================
