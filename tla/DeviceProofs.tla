---------------------------- MODULE DeviceProofs ----------------------------
(***************************************************************************)
(* Theorems about Engine for every set of sources and buttons, every       *)
(* desktop binding and every profile, and, from its lemmas, theorems about *)
(* Device for every set of interfaces and every behaviour of the kernel    *)
(* and udevd.                                                              *)
(***************************************************************************)
EXTENDS Device, TLAPS

(***************************************************************************)
(* Membership in the sets that HeldIn and KeysOf collect.                  *)
(***************************************************************************)
LEMMA HeldInMember ==
  ASSUME NEW h, NEW x
  PROVE  x \in HeldIn(h) <=> \E s \in Source : x \in h[s]
BY DEF HeldIn

\* A key is driven by a set of buttons iff one of them drives it.
LEMMA KeysOfMember ==
  ASSUME NEW buttons, NEW k
  PROVE  k \in KeysOf(buttons) <=>
           \/ Gamepad /\ \E b \in buttons : k = <<"gamepad", GamepadCode[b]>>
           \/ Desktop /\ \E b \in buttons : /\ DesktopCode[b] # NoCode
                                            /\ k = <<"desktop", DesktopCode[b]>>
<1>1. k \in KeysOf(buttons) <=> \E b \in buttons : k \in GamepadKeys(b) \cup DesktopKeys(b)
  BY DEF KeysOf
<1> QED
  BY <1>1 DEF GamepadKeys, DesktopKeys

\* The keys of buttons are virtual keys.
LEMMA KeysOfType ==
  ASSUME NEW buttons \in SUBSET Button
  PROVE  KeysOf(buttons) \subseteq VKey
BY KeysOfMember DEF VKey

(***************************************************************************)
(* A key event changes whether its own button is held, and no other.       *)
(***************************************************************************)
LEMMA OtherButtons ==
  ASSUME NEW h \in [Source -> SUBSET Button], NEW s \in Source,
         NEW b \in Button, NEW state
  PROVE  LET owned == [h EXCEPT ![s] = Owned(@, b, state)]
         IN /\ owned \in [Source -> SUBSET Button]
            /\ HeldIn(h) \subseteq Button
            /\ HeldIn(owned) \subseteq Button
            /\ \A x \in Button \ {b} : x \in HeldIn(h) <=> x \in HeldIn(owned)
<1> DEFINE owned == [h EXCEPT ![s] = Owned(@, b, state)]
<1>1. owned \in [Source -> SUBSET Button]
  BY DEF Owned
<1>2. ASSUME NEW t \in Source, NEW x \in Button \ {b}
      PROVE  x \in h[t] <=> x \in owned[t]
  BY DEF Owned
<1>3. HeldIn(h) \subseteq Button /\ HeldIn(owned) \subseteq Button
  BY <1>1, HeldInMember
<1>4. \A x \in Button \ {b} : x \in HeldIn(h) <=> x \in HeldIn(owned)
  BY <1>2, HeldInMember
<1> QED
  BY <1>1, <1>3, <1>4

(***************************************************************************)
(* The actions of a key event, written to devices that hold exactly the    *)
(* keys of the buttons held before, leave them with the keys of the        *)
(* buttons held after.  Gamepad codes are distinct; desktop codes need not *)
(* be, and are compared through DesktopHeld.                               *)
(***************************************************************************)
LEMMA WrittenActions ==
  ASSUME NEW before \in SUBSET Button, NEW after \in SUBSET Button,
         NEW b \in Button, NEW state,
         \A x \in Button \ {b} : x \in before <=> x \in after
  PROVE  Written(KeysOf(before), KeyActions(b, before, after, state)) = KeysOf(after)
<1> DEFINE code    == DesktopCode[b]
           out     == KeyActions(b, before, after, state)
           PutG(v) == Gamepad /\ v \in Outcome(b \in before, b \in after, state)
           PutD(v) == /\ Desktop /\ code # NoCode
                      /\ v \in Outcome(DesktopHeld(before, code), DesktopHeld(after, code), state)
<1>1. ASSUME NEW v \in ButtonState, NEW k
      PROVE  k \in out[v] <=> \/ PutG(v) /\ k = <<"gamepad", GamepadCode[b]>>
                              \/ PutD(v) /\ k = <<"desktop", code>>
  BY DEF KeyActions, GamepadKeys, DesktopKeys
<1>2. /\ PutG("Pressed")  <=> Gamepad /\ b \notin before /\ b \in after
      /\ PutG("Released") <=> Gamepad /\ b \in before /\ b \notin after
  BY DEF Outcome, ButtonState
<1>3. /\ PutD("Pressed")  <=> /\ Desktop /\ code # NoCode
                              /\ ~DesktopHeld(before, code) /\ DesktopHeld(after, code)
      /\ PutD("Released") <=> /\ Desktop /\ code # NoCode
                              /\ DesktopHeld(before, code) /\ ~DesktopHeld(after, code)
  BY DEF Outcome, ButtonState
<1>4. ASSUME NEW k
      PROVE  k \in Written(KeysOf(before), out) <=> k \in KeysOf(after)
  <2> HIDE DEF out, PutG, PutD
  <2>1. k \in Written(KeysOf(before), out) <=>
          \/ k \in KeysOf(before) /\ k \notin out["Released"]
          \/ k \in out["Pressed"]
    BY DEF Written
  <2>2. /\ k \in out["Pressed"] <=> \/ PutG("Pressed") /\ k = <<"gamepad", GamepadCode[b]>>
                                    \/ PutD("Pressed") /\ k = <<"desktop", code>>
        /\ k \in out["Released"] <=> \/ PutG("Released") /\ k = <<"gamepad", GamepadCode[b]>>
                                     \/ PutD("Released") /\ k = <<"desktop", code>>
    BY <1>1 DEF ButtonState
  <2>3. CASE \E c \in Button : k = <<"gamepad", GamepadCode[c]>>
    <3>1. PICK c \in Button : k = <<"gamepad", GamepadCode[c]>>
      BY <2>3
    <3>2. ASSUME NEW d \in Button
          PROVE  k = <<"gamepad", GamepadCode[d]>> <=> d = c
      BY <3>1, GamepadAssumption
    <3>3. ASSUME NEW d PROVE k # <<"desktop", DesktopCode[d]>>
      BY <3>1
    <3>4. k \in KeysOf(before) <=> Gamepad /\ c \in before
      BY <3>2, <3>3, KeysOfMember
    <3>5. k \in KeysOf(after) <=> Gamepad /\ c \in after
      BY <3>2, <3>3, KeysOfMember
    <3>6. CASE c = b
      BY <2>1, <2>2, <3>1, <3>3, <3>4, <3>5, <3>6, <1>2
    <3>7. CASE c # b
      BY <2>1, <2>2, <3>2, <3>3, <3>4, <3>5, <3>7
    <3> QED
      BY <3>6, <3>7
  <2>4. CASE \E c \in Button : k = <<"desktop", DesktopCode[c]>> /\ DesktopCode[c] # NoCode
    <3>1. PICK c \in Button : k = <<"desktop", DesktopCode[c]>> /\ DesktopCode[c] # NoCode
      BY <2>4
    <3>2. ASSUME NEW d PROVE k = <<"desktop", DesktopCode[d]>> <=> DesktopCode[d] = DesktopCode[c]
      BY <3>1
    <3>3. ASSUME NEW d PROVE k # <<"gamepad", GamepadCode[d]>>
      BY <3>1
    <3>4. k \in KeysOf(before) <=> Desktop /\ DesktopHeld(before, DesktopCode[c])
      BY <3>1, <3>2, <3>3, KeysOfMember DEF DesktopHeld
    <3>5. k \in KeysOf(after) <=> Desktop /\ DesktopHeld(after, DesktopCode[c])
      BY <3>1, <3>2, <3>3, KeysOfMember DEF DesktopHeld
    <3>6. CASE DesktopCode[c] = code
      BY <2>1, <2>2, <3>1, <3>3, <3>4, <3>5, <3>6, <1>3
    <3>7. CASE DesktopCode[c] # code
      <4>1. DesktopHeld(before, DesktopCode[c]) <=> DesktopHeld(after, DesktopCode[c])
        BY <3>7 DEF DesktopHeld
      <4> QED
        BY <2>1, <2>2, <3>2, <3>3, <3>4, <3>5, <3>7, <4>1
    <3> QED
      BY <3>6, <3>7
  <2>5. CASE /\ \A c \in Button : k # <<"gamepad", GamepadCode[c]>>
             /\ \A c \in Button : k = <<"desktop", DesktopCode[c]>> => DesktopCode[c] = NoCode
    <3>1. k \notin KeysOf(before) /\ k \notin KeysOf(after)
      BY <2>5, KeysOfMember
    <3>2. k \notin out["Pressed"]
      BY <2>2, <2>5, <1>3
    <3> QED
      BY <2>1, <3>1, <3>2
  <2> QED
    BY <2>3, <2>4, <2>5
<1> QED
  BY <1>4

\* The same, for the keys that go up with a set of buttons: SourceRemoved.
LEMMA WrittenReleases ==
  ASSUME NEW before \in SUBSET Button, NEW after \in SUBSET Button, after \subseteq before
  PROVE  Written(KeysOf(before), ReleasedWith(before, after)) = KeysOf(after)
<1>1. KeysOf(after) \subseteq KeysOf(before)
  BY DEF KeysOf
<1>2. /\ ReleasedWith(before, after)["Released"] = KeysOf(before) \ KeysOf(after)
      /\ ReleasedWith(before, after)["Pressed"] = {}
  BY DEF ReleasedWith, NoAction, ButtonState
<1> QED
  BY <1>1, <1>2 DEF Written

\* The keys an event writes: all are virtual keys; it presses keys that no
\* button held before it, and releases and repeats keys that one did.
LEMMA ActionsOfKeys ==
  ASSUME NEW before \in SUBSET Button, NEW after \in SUBSET Button,
         NEW b \in Button, NEW state,
         \A x \in Button \ {b} : x \in before <=> x \in after
  PROVE  LET out == KeyActions(b, before, after, state)
         IN /\ out \in KeyAction
            /\ out["Pressed"] \cap KeysOf(before) = {}
            /\ (out["Released"] \cup out["Repeated"]) \subseteq KeysOf(before)
<1> DEFINE out == KeyActions(b, before, after, state)
<1>1. ASSUME NEW v \in ButtonState, NEW k
      PROVE  k \in out[v] <=>
               \/ /\ Gamepad /\ k = <<"gamepad", GamepadCode[b]>>
                  /\ v \in Outcome(b \in before, b \in after, state)
               \/ /\ Desktop /\ DesktopCode[b] # NoCode /\ k = <<"desktop", DesktopCode[b]>>
                  /\ v \in Outcome(DesktopHeld(before, DesktopCode[b]),
                                   DesktopHeld(after, DesktopCode[b]), state)
  BY DEF KeyActions, GamepadKeys, DesktopKeys
<1>2. out \in KeyAction
  <2>1. ASSUME NEW v \in ButtonState PROVE out[v] \subseteq VKey
    BY <1>1 DEF VKey
  <2> QED
    BY <2>1 DEF KeyAction, KeyActions
<1>3. /\ <<"gamepad", GamepadCode[b]>> \in KeysOf(before) <=> Gamepad /\ b \in before
      /\ DesktopCode[b] # NoCode =>
           (<<"desktop", DesktopCode[b]>> \in KeysOf(before) <=>
              Desktop /\ DesktopHeld(before, DesktopCode[b]))
  <2>1. ASSUME NEW c \in Button
        PROVE  <<"gamepad", GamepadCode[b]>> = <<"gamepad", GamepadCode[c]>> => c = b
    BY GamepadAssumption
  <2> QED
    BY <2>1, KeysOfMember DEF DesktopHeld
<1>4. /\ "Pressed" \in Outcome(b \in before, b \in after, state) => b \notin before
      /\ "Released" \in Outcome(b \in before, b \in after, state) => b \in before
      /\ "Repeated" \in Outcome(b \in before, b \in after, state) => b \in before
  BY DEF Outcome
<1>5. LET had == DesktopHeld(before, DesktopCode[b])
          has == DesktopHeld(after, DesktopCode[b])
      IN /\ "Pressed" \in Outcome(had, has, state) => ~had
         /\ "Released" \in Outcome(had, has, state) => had
         /\ "Repeated" \in Outcome(had, has, state) => had
  BY DEF Outcome
<1> HIDE DEF out
<1>6. out["Pressed"] \cap KeysOf(before) = {}
  BY <1>1, <1>3, <1>4, <1>5 DEF ButtonState
<1>7. (out["Released"] \cup out["Repeated"]) \subseteq KeysOf(before)
  BY <1>1, <1>3, <1>4, <1>5 DEF ButtonState
<1> QED
  BY <1>2, <1>6, <1>7 DEF out

(***************************************************************************)
(* The inductive invariant.  Each part is inductive beside the type of     *)
(* held; the aim part needs that an empty engine is not aiming.            *)
(***************************************************************************)
EngineInv == EngineTypeOK /\ KeysOwned /\ PointerOwned /\ AimOwned

\* The invariant holds for a new engine with new outputs (DeviceEngine::new).
LEMMA EngineInitInv == EngineInit => EngineInv
<1> SUFFICES ASSUME EngineInit PROVE EngineInv
  OBVIOUS
<1>1. HeldIn(held) = {}
  BY HeldInMember DEF EngineInit
<1>2. KeysOf({}) = {}
  BY DEF KeysOf
<1>3. NoAction \in KeyAction
  BY DEF NoAction, KeyAction
<1> QED
  BY <1>1, <1>2, <1>3 DEF EngineInit, EngineInv, EngineTypeOK, KeysOwned, PointerOwned, AimOwned

\* DeviceEngine::key keeps the invariant, for every report of every source.
LEMMA KeyInv ==
  ASSUME EngineInv, NEW s \in Source, NEW b \in Button, NEW state, Key(s, b, state)
  PROVE  EngineInv'
<1> DEFINE owned  == [held EXCEPT ![s] = Owned(@, b, state)]
           before == HeldIn(held)
           after  == HeldIn(owned)
           out    == KeyActions(b, before, after, state)
<1>1. held \in [Source -> SUBSET Button]
  BY DEF EngineInv, EngineTypeOK
<1>2. /\ owned \in [Source -> SUBSET Button]
      /\ before \in SUBSET Button /\ after \in SUBSET Button
      /\ \A x \in Button \ {b} : x \in before <=> x \in after
  BY <1>1, OtherButtons
<1>3. /\ held' = owned /\ emitted' = out /\ keysDown' = Written(keysDown, out)
      /\ pointerKeys' = PointerAfter(pointerKeys, b, before, after)
      /\ aimHeld' = AimAfter(aimHeld, b, before, after)
  BY DEF Key
<1>4. HeldIn(held)' = after
  BY <1>3 DEF HeldIn
<1>5. keysDown = KeysOf(before)
  BY DEF EngineInv, KeysOwned
<1> HIDE DEF owned, before, after, out
<1>6. keysDown' = KeysOf(after)
  BY <1>2, <1>3, <1>5, WrittenActions DEF out
<1>7. KeysOwned'
  BY <1>4, <1>6 DEF KeysOwned
<1>8. PointerOwned'
  <2>1. pointerKeys = IF Desktop THEN before \cap Direction ELSE {}
    BY DEF EngineInv, PointerOwned, before
  <2> QED
    BY <1>2, <1>3, <1>4, <2>1 DEF PointerOwned, PointerAfter
<1>9. AimOwned'
  <2>1. /\ AimEnabled /\ ~AimAlways => (aimHeld <=> AimButton \in before)
        /\ before # {} => (AimEnabled /\ AimAlways => aimHeld)
    BY DEF EngineInv, AimOwned, before
  <2>2. aimHeld \in BOOLEAN
    BY DEF EngineInv, EngineTypeOK
  <2>3. CASE AimEnabled /\ ~AimAlways
    <3>1. aimHeld' <=> AimButton \in after
      <4>1. CASE (b \in before) = (b \in after)
        <5>1. AimButton \in before <=> AimButton \in after
          BY <1>2, <4>1
        <5> QED
          BY <1>3, <2>1, <2>3, <4>1, <5>1 DEF AimAfter
      <4>2. CASE (b \in before) # (b \in after) /\ b = AimButton
        BY <1>3, <2>3, <4>2 DEF AimAfter
      <4>3. CASE (b \in before) # (b \in after) /\ b # AimButton
        <5>1. AimButton \in before <=> AimButton \in after
          BY <1>2, <4>3
        <5> QED
          BY <1>3, <2>1, <2>3, <4>3, <5>1 DEF AimAfter
      <4> QED
        BY <4>1, <4>2, <4>3
    <3> QED
      BY <1>4, <2>3, <3>1 DEF AimOwned
  <2>4. CASE AimEnabled /\ AimAlways
    <3>1. after # {} => aimHeld'
      <4>1. CASE (b \in before) = (b \in after)
        BY <1>2, <1>3, <2>1, <2>4, <4>1 DEF AimAfter
      <4>2. CASE (b \in before) # (b \in after)
        BY <1>3, <2>4, <4>2 DEF AimAfter
      <4> QED
        BY <4>1, <4>2
    <3> QED
      BY <1>4, <2>4, <3>1 DEF AimOwned
  <2>5. CASE ~AimEnabled
    BY <2>5 DEF AimOwned
  <2> QED
    BY <2>3, <2>4, <2>5, ModesAssumption
<1>10. EngineTypeOK'
  <2>1. out \in KeyAction
    BY <1>2, ActionsOfKeys DEF out
  <2>2. keysDown' \in SUBSET VKey
    BY <1>2, <1>6, KeysOfType
  <2>3. pointerKeys' \in SUBSET Direction
    BY <1>3 DEF PointerAfter, EngineInv, EngineTypeOK
  <2>4. aimHeld' \in BOOLEAN
    <3>1. aimHeld \in BOOLEAN
      BY DEF EngineInv, EngineTypeOK
    <3>2. (b \in after) \in BOOLEAN
      OBVIOUS
    <3> QED
      BY <1>3, <3>1, <3>2, Zenon DEF AimAfter
  <2> QED
    BY <1>2, <1>3, <2>1, <2>2, <2>3, <2>4 DEF EngineTypeOK
<1> QED
  BY <1>7, <1>8, <1>9, <1>10 DEF EngineInv

\* SourceRemoved keeps the invariant: exactly the keys without another owner go up.
LEMMA SourceRemovedInv ==
  ASSUME EngineInv, NEW s \in Source, SourceRemoved(s)
  PROVE  EngineInv'
<1> DEFINE owned  == [held EXCEPT ![s] = {}]
           before == HeldIn(held)
           after  == HeldIn(owned)
           gone   == before \ after
<1>1. held \in [Source -> SUBSET Button]
  BY DEF EngineInv, EngineTypeOK
<1>2. /\ owned \in [Source -> SUBSET Button]
      /\ before \in SUBSET Button /\ after \in SUBSET Button /\ after \subseteq before
  <2>1. owned \in [Source -> SUBSET Button]
    BY <1>1
  <2>2. \A t \in Source : owned[t] \subseteq held[t]
    BY <1>1
  <2>3. before \subseteq Button /\ after \subseteq before
    BY <1>1, <2>2, HeldInMember
  <2> QED
    BY <2>1, <2>3
<1>3. /\ held' = owned
      /\ emitted' = ReleasedWith(before, after)
      /\ keysDown' = Written(keysDown, ReleasedWith(before, after))
      /\ pointerKeys' = IF Desktop THEN pointerKeys \ (gone \cap Direction) ELSE pointerKeys
      /\ aimHeld' = IF ~AimEnabled \/ gone = {} THEN aimHeld
                    ELSE IF AimAlways THEN TRUE
                    ELSE aimHeld /\ AimButton \notin gone
  BY DEF SourceRemoved
<1>4. HeldIn(held)' = after
  BY <1>3 DEF HeldIn
<1>5. /\ keysDown = KeysOf(before)
      /\ pointerKeys = IF Desktop THEN before \cap Direction ELSE {}
      /\ AimEnabled /\ ~AimAlways => (aimHeld <=> AimButton \in before)
      /\ before # {} => (AimEnabled /\ AimAlways => aimHeld)
      /\ aimHeld \in BOOLEAN
  BY DEF EngineInv, EngineTypeOK, KeysOwned, PointerOwned, AimOwned
<1> HIDE DEF owned, before, after
<1>6. keysDown' = KeysOf(after)
  BY <1>2, <1>3, <1>5, WrittenReleases
<1>7. KeysOwned'
  BY <1>4, <1>6 DEF KeysOwned
<1>8. PointerOwned'
  BY <1>2, <1>3, <1>4, <1>5 DEF PointerOwned
<1>9. AimOwned' /\ aimHeld' \in BOOLEAN
  <2>1. CASE ~AimEnabled
    BY <1>3, <1>5, <2>1 DEF AimOwned
  <2>2. CASE AimEnabled /\ gone = {}
    <3>1. before = after
      BY <1>2, <2>2
    <3> QED
      BY <1>3, <1>4, <1>5, <2>2, <3>1 DEF AimOwned
  <2>3. CASE AimEnabled /\ AimAlways /\ gone # {}
    BY <1>3, <2>3 DEF AimOwned
  <2>4. CASE AimEnabled /\ ~AimAlways /\ gone # {}
    <3>1. aimHeld' <=> AimButton \in after
      BY <1>2, <1>3, <1>5, <2>4
    <3>2. aimHeld' \in BOOLEAN
      BY <1>3, <2>4
    <3> QED
      BY <1>4, <2>4, <3>1, <3>2 DEF AimOwned
  <2> QED
    BY <2>1, <2>2, <2>3, <2>4, ModesAssumption
<1>10. emitted' \in KeyAction
  <2>1. KeysOf(before) \ KeysOf(after) \in SUBSET VKey
    BY <1>2, KeysOfType
  <2>2. NoAction \in KeyAction
    BY DEF NoAction, KeyAction
  <2> QED
    BY <1>3, <2>1, <2>2 DEF ReleasedWith, KeyAction
<1>11. pointerKeys' \in SUBSET Direction /\ keysDown' \in SUBSET VKey
  BY <1>2, <1>3, <1>5, <1>6, KeysOfType
<1> QED
  BY <1>2, <1>3, <1>7, <1>8, <1>9, <1>10, <1>11 DEF EngineInv, EngineTypeOK

\* A reset establishes the invariant, whatever held before (EngineInput::Reset).
LEMMA ResetInv ==
  ASSUME EngineInv, Reset
  PROVE  EngineInv'
<1>1. HeldIn(held)' = {}
  BY HeldInMember DEF Reset
<1>2. KeysOf({}) = {}
  BY DEF KeysOf
<1>3. NoAction \in KeyAction
  BY DEF NoAction, KeyAction
<1> QED
  BY <1>1, <1>2, <1>3 DEF Reset, EngineInv, EngineTypeOK, KeysOwned, PointerOwned, AimOwned

\* A step that leaves the engine alone keeps the invariant.
LEMMA StutterInv ==
  ASSUME EngineInv, UNCHANGED engineVars
  PROVE  EngineInv'
BY DEF EngineInv, EngineTypeOK, KeysOwned, PointerOwned, AimOwned, HeldIn, engineVars

\* One step of the engine keeps the invariant: for modules that compose it.
LEMMA EngineNextInv ==
  ASSUME EngineInv, [EngineNext]_engineVars
  PROVE  EngineInv'
BY KeyInv, SourceRemovedInv, ResetInv, StutterInv DEF EngineNext

(***************************************************************************)
(* DeviceEngine and the virtual devices agree after every event, release   *)
(* of a source and reset.                                                  *)
(***************************************************************************)
THEOREM EngineInvariant == EngineSpec => []EngineInv
<1>1. EngineInit => EngineInv
  BY EngineInitInv
<1>2. EngineInv /\ [EngineNext]_engineVars => EngineInv'
  BY EngineNextInv
<1> QED
  BY <1>1, <1>2, PTL DEF EngineSpec

\* The fields of the engine and the virtual devices keep their types.
THEOREM EngineTypeCorrect == EngineSpec => []EngineTypeOK
<1>1. EngineInv => EngineTypeOK
  BY DEF EngineInv
<1> QED
  BY <1>1, EngineInvariant, PTL

\* Virtual keys are down exactly while a held button drives them.
THEOREM EngineKeysOwned == EngineSpec => []KeysOwned
<1>1. EngineInv => KeysOwned
  BY DEF EngineInv
<1> QED
  BY <1>1, EngineInvariant, PTL

\* The pointer moves in the directions whose buttons are held on some source.
THEOREM EnginePointerOwned == EngineSpec => []PointerOwned
<1>1. EngineInv => PointerOwned
  BY DEF EngineInv
<1> QED
  BY <1>1, EngineInvariant, PTL

\* The aim is held exactly while its activation button is, on any source.
THEOREM EngineAimOwned == EngineSpec => []AimOwned
<1>1. EngineInv => AimOwned
  BY DEF EngineInv
<1> QED
  BY <1>1, EngineInvariant, PTL

(***************************************************************************)
(* What a step writes fits what the devices hold.                          *)
(***************************************************************************)
LEMMA KeyFits ==
  ASSUME EngineInv, NEW s \in Source, NEW b \in Button, NEW state, Key(s, b, state)
  PROVE  /\ emitted'["Pressed"] \cap keysDown = {}
         /\ (emitted'["Released"] \cup emitted'["Repeated"]) \subseteq keysDown
<1> DEFINE owned  == [held EXCEPT ![s] = Owned(@, b, state)]
           before == HeldIn(held)
           after  == HeldIn(owned)
<1>1. /\ before \in SUBSET Button /\ after \in SUBSET Button
      /\ \A x \in Button \ {b} : x \in before <=> x \in after
  BY OtherButtons DEF EngineInv, EngineTypeOK
<1>2. emitted' = KeyActions(b, before, after, state) /\ keysDown = KeysOf(before)
  BY DEF Key, EngineInv, KeysOwned
<1> HIDE DEF before, after
<1> QED
  BY <1>1, <1>2, ActionsOfKeys

\* The releases of SourceRemoved are of keys that are down.
LEMMA SourceRemovedFits ==
  ASSUME EngineInv, NEW s \in Source, SourceRemoved(s)
  PROVE  /\ emitted'["Pressed"] \cap keysDown = {}
         /\ (emitted'["Released"] \cup emitted'["Repeated"]) \subseteq keysDown
BY DEF SourceRemoved, ReleasedWith, NoAction, ButtonState, EngineInv, KeysOwned

\* One step of the engine writes only what fits.
LEMMA StepFits ==
  ASSUME EngineInv, EngineNext
  PROVE  /\ emitted'["Pressed"] \cap keysDown = {}
         /\ (emitted'["Released"] \cup emitted'["Repeated"]) \subseteq keysDown
<1>1. ASSUME Reset
      PROVE  /\ emitted'["Pressed"] \cap keysDown = {}
             /\ (emitted'["Released"] \cup emitted'["Repeated"]) \subseteq keysDown
  BY <1>1 DEF Reset, NoAction, ButtonState
<1> QED
  BY <1>1, KeyFits, SourceRemovedFits DEF EngineNext

\* No key is pressed twice, and none is released or repeated while it is up.
THEOREM EngineActionsFit == EngineSpec => ActionsFit
<1>1. EngineInv /\ [EngineNext]_engineVars =>
        [/\ emitted'["Pressed"] \cap keysDown = {}
         /\ (emitted'["Released"] \cup emitted'["Repeated"]) \subseteq keysDown]_engineVars
  BY StepFits
<1> QED
  BY <1>1, EngineInvariant, PTL DEF EngineSpec, ActionsFit

(***************************************************************************)
(* Engine implements VirtualKeys: a press acquires, a release of one       *)
(* button or of a source releases, a reset loses, a repeat stutters.       *)
(***************************************************************************)
LEMMA OwnersOf ==
  ASSUME NEW h \in [Source -> SUBSET Button]
  PROVE  /\ \A t \in Source, x \in Button : <<t, x>> \in Owners(h) <=> x \in h[t]
         /\ Owners(h) \subseteq Source \X Button
         /\ Abstract!DrivenBy(Owners(h)) = KeysOf(HeldIn(h))
<1>1. /\ \A t \in Source, x \in Button : <<t, x>> \in Owners(h) <=> x \in h[t]
      /\ Owners(h) \subseteq Source \X Button
  BY DEF Owners
<1>2. ASSUME NEW k
      PROVE  k \in Abstract!DrivenBy(Owners(h)) <=> k \in KeysOf(HeldIn(h))
  <2>1. k \in Abstract!DrivenBy(Owners(h)) <=> \E o \in Owners(h) : k \in KeysOf({o[2]})
    BY <1>1 DEF Abstract!DrivenBy
  <2>2. \A x : k \in KeysOf({x}) <=> k \in GamepadKeys(x) \cup DesktopKeys(x)
    BY DEF KeysOf
  <2>3. k \in KeysOf(HeldIn(h)) <=> \E x \in HeldIn(h) : k \in GamepadKeys(x) \cup DesktopKeys(x)
    BY DEF KeysOf
  <2>4. ASSUME NEW x
        PROVE  x \in HeldIn(h) <=> \E o \in Owners(h) : o[2] = x
    <3>1. x \in HeldIn(h) => \E o \in Owners(h) : o[2] = x
      <4> SUFFICES ASSUME x \in HeldIn(h) PROVE \E o \in Owners(h) : o[2] = x
        OBVIOUS
      <4>1. PICK t \in Source : x \in h[t]
        BY HeldInMember
      <4>2. <<t, x>> \in Owners(h) /\ <<t, x>>[2] = x
        BY <1>1, <4>1
      <4> QED
        BY <4>2
    <3>2. ASSUME NEW o \in Owners(h), o[2] = x PROVE x \in HeldIn(h)
      BY <3>2, HeldInMember DEF Owners
    <3> QED
      BY <3>1, <3>2
  <2> QED
    BY <2>1, <2>2, <2>3, <2>4
<1> QED
  BY <1>1, <1>2

\* The keys of a union of buttons are those of its parts.
LEMMA KeysOfUnion ==
  ASSUME NEW S, NEW T
  PROVE  KeysOf(S \cup T) = KeysOf(S) \cup KeysOf(T)
BY DEF KeysOf

\* Releasing owners leaves exactly the keys of the others.
LEMMA DrivenByRest ==
  ASSUME NEW O \in SUBSET (Source \X Button), NEW S \in SUBSET O
  PROVE  Abstract!DrivenBy(O) \ (Abstract!DrivenBy(S) \ Abstract!DrivenBy(O \ S))
           = Abstract!DrivenBy(O \ S)
BY DEF Abstract!DrivenBy

\* A step that only takes owners away is the abstract Release.
LEMMA ReleaseStep ==
  ASSUME EngineInv, EngineInv', NEW S \in SUBSET Owners(held),
         Owners(held)' = Owners(held) \ S
  PROVE  Abstract!Next
<1>1. /\ Owners(held) \subseteq Source \X Button
      /\ keysDown = Abstract!DrivenBy(Owners(held))
  BY OwnersOf DEF EngineInv, EngineTypeOK, KeysOwned
<1>2. keysDown' = Abstract!DrivenBy(Owners(held)')
  <2>1. held' \in [Source -> SUBSET Button] /\ keysDown' = KeysOf(HeldIn(held'))
    BY DEF EngineInv, EngineTypeOK, KeysOwned, HeldIn
  <2>2. Abstract!DrivenBy(Owners(held')) = KeysOf(HeldIn(held'))
    BY <2>1, OwnersOf
  <2> QED
    BY <2>1, <2>2 DEF Owners
<1>3. Abstract!Release(S)
  BY <1>1, <1>2, DrivenByRest DEF Abstract!Release
<1> QED
  BY <1>3 DEF Abstract!Next

\* DeviceEngine::key is an Acquire or a Release of the abstract keys, or a stutter.
LEMMA KeyRefines ==
  ASSUME EngineInv, EngineInv', NEW s \in Source, NEW b \in Button, NEW state \in ButtonState,
         Key(s, b, state)
  PROVE  Abstract!Next
<1>1. /\ held \in [Source -> SUBSET Button]
      /\ held' = [held EXCEPT ![s] = Owned(@, b, state)]
      /\ held' \in [Source -> SUBSET Button]
  BY DEF Key, EngineInv, EngineTypeOK
<1>2. Owners(held)' = Owners(held')
  BY DEF Owners
<1>3. CASE state = "Released"
  <2>1. Owners(held') = Owners(held) \ {<<s, b>>}
    BY <1>1, <1>3 DEF Owners, Owned
  <2>2. Owners(held)' = Owners(held) \ (Owners(held) \cap {<<s, b>>})
    BY <1>2, <2>1
  <2> QED
    BY <2>2, ReleaseStep
<1>4. CASE state # "Released"
  <2> DEFINE o == <<s, b>>
  <2>1. Owners(held)' = Owners(held) \cup {o}
    BY <1>1, <1>2, <1>4 DEF Owners, Owned
  <2>2. HeldIn(held') = HeldIn(held) \cup {b}
    <3>1. ASSUME NEW x PROVE x \in HeldIn(held') <=> x \in HeldIn(held) \cup {b}
      <4>1. \A t \in Source : held'[t] = IF t = s THEN held[t] \cup {b} ELSE held[t]
        BY <1>1, <1>4 DEF Owned
      <4> QED
        BY <4>1, HeldInMember
    <3> QED
      BY <3>1
  <2>3. keysDown = KeysOf(HeldIn(held)) /\ keysDown' = KeysOf(HeldIn(held'))
    BY DEF EngineInv, KeysOwned, HeldIn
  <2>4. keysDown' = keysDown \cup KeysOf({b})
    BY <2>2, <2>3, KeysOfUnion
  <2>5. Abstract!Acquire(o)
    BY <2>1, <2>4 DEF Abstract!Acquire
  <2> QED
    BY <2>5 DEF Abstract!Next
<1> QED
  BY <1>3, <1>4

\* SourceRemoved is one Release of all owners on the source.
LEMMA SourceRemovedRefines ==
  ASSUME EngineInv, EngineInv', NEW s \in Source, SourceRemoved(s)
  PROVE  Abstract!Next
<1> DEFINE S == {o \in Owners(held) : o[1] = s}
<1>1. /\ held \in [Source -> SUBSET Button]
      /\ held' = [held EXCEPT ![s] = {}]
  BY DEF SourceRemoved, EngineInv, EngineTypeOK
<1>2. Owners(held)' = Owners(held) \ S
  BY <1>1 DEF Owners
<1> QED
  BY <1>2, ReleaseStep

\* A reset loses the outputs with every owner.
LEMMA ResetRefines ==
  ASSUME EngineInv, Reset
  PROVE  Abstract!Next
<1>1. Abstract!Lose
  BY DEF Reset, Abstract!Lose, Owners
<1> QED
  BY <1>1 DEF Abstract!Next

\* One step of the engine is a step of VirtualKeys: for modules that compose it.
LEMMA EngineStepRefines ==
  ASSUME EngineInv, EngineNext
  PROVE  Abstract!Next
<1>1. EngineInv'
  BY EngineNextInv
<1> QED
  BY <1>1, KeyRefines, SourceRemovedRefines, ResetRefines DEF EngineNext

\* A controller's events change the virtual keys as their ownership promises.
THEOREM EngineRefinement == EngineSpec => ImplementsVirtualKeys
<1>1. EngineInit => Abstract!Init
  BY DEF EngineInit, Abstract!Init, Owners
<1>2. EngineInv /\ [EngineNext]_engineVars => [Abstract!Next]_(Abstract!abstractVars)
  BY EngineStepRefines DEF engineVars, Abstract!abstractVars, Owners
<1> QED
  BY <1>1, <1>2, EngineInvariant, PTL DEF EngineSpec, ImplementsVirtualKeys, Abstract!Spec

-----------------------------------------------------------------------------
(***************************************************************************)
(* The device.                                                             *)
(***************************************************************************)

(***************************************************************************)
(* The inductive invariant: the properties of the runs, the engine's own   *)
(* invariant, and that a slot which is not owned holds nothing.            *)
(***************************************************************************)
NothingHeld == \A s \in Source : held[s] = {}

Idle ==
  phase # "owned" =>
    /\ fd = Closed
    /\ opened = {} /\ pending = {} /\ capture = FALSE
    /\ NothingHeld

DeviceInv ==
  /\ DeviceTypeOK /\ EngineInv
  /\ MasksMatch /\ OpenKnown /\ HeldOpen /\ SlotUseful /\ CaptureOnly
  /\ Idle

\* Opening interfaces adds them to the open ones (Interface::open).
LEMMA OpenAfter ==
  ASSUME NEW f, NEW got \in SUBSET Interface
  PROVE  Open(WithOpen(f, got)) = Open(f) \cup got
BY DEF Open, WithOpen

\* Only wanted interfaces with a known node are opened (Interface::open).
LEMMA OpensFound ==
  ASSUME NEW wanted \in SUBSET Interface, NEW found, NEW got \in Opens(wanted, found)
  PROVE  got \subseteq wanted /\ \A i \in got : found[i] # NoNode
BY DEF Opens

\* A reset leaves nothing held and nothing written (EngineInput::Reset).
LEMMA ResetHolds ==
  ASSUME Reset
  PROVE  NothingHeld'
BY DEF Reset, NothingHeld

\* The invariant holds before any controller is plugged in.
LEMMA DeviceInitInv == DeviceInit => DeviceInv
<1> SUFFICES ASSUME DeviceInit PROVE DeviceInv
  OBVIOUS
<1>1. EngineInv
  BY EngineInitInv DEF DeviceInit
<1>2. NothingHeld
  BY DEF DeviceInit, EngineInit, NothingHeld
<1>3. Open(fd) = {}
  BY DEF DeviceInit, Closed, Open
<1>4. /\ node \in [Interface -> Node \cup {NoNode}]
      /\ known \in [Interface -> Node \cup {NoNode}]
      /\ fd \in [Interface -> {"closed", "live", "hung"}]
  BY DEF DeviceInit, None, Closed
<1>5. DeviceTypeOK
  BY <1>1, <1>4 DEF DeviceInit, DeviceTypeOK, EngineInv
<1> QED
  BY <1>1, <1>2, <1>3, <1>5
     DEF DeviceInit, DeviceInv, MasksMatch, OpenKnown, HeldOpen, SlotUseful, CaptureOnly,
         Idle, NothingHeld, Closed

\* Dropping the slot needs nothing but the types of the kernel's part.
LEMMA DroppedInv ==
  ASSUME DeviceInv, Dropped
  PROVE  DeviceInv'
<1>1. EngineInv'
  BY ResetInv DEF DeviceInv, Dropped
<1>2. NothingHeld'
  BY ResetHolds DEF Dropped
<1>3. Open(fd') = {}
  BY DEF Dropped, Closed, Open
<1>4. /\ known' \in [Interface -> Node \cup {NoNode}]
      /\ fd' \in [Interface -> {"closed", "live", "hung"}]
  BY DEF Dropped, None, Closed
<1>5. DeviceTypeOK'
  BY <1>1, <1>4 DEF DeviceInv, DeviceTypeOK, EngineInv, Dropped, kernelVars
<1> QED
  BY <1>1, <1>2, <1>3, <1>5
     DEF Dropped, DeviceInv, MasksMatch, OpenKnown, HeldOpen, SlotUseful, CaptureOnly,
         Idle, NothingHeld, Closed, Open

(***************************************************************************)
(* handle_watch, from any descriptors that a refresh can leave: the buttons*)
(* of an interface it lost are forgotten with the outputs, so what is still*)
(* held is still open.                                                     *)
(***************************************************************************)
LEMMA HandleWatchInv ==
  ASSUME DeviceInv, phase = "owned",
         NEW found \in [Interface -> Node \cup {NoNode}],
         NEW f \in [Interface -> {"closed", "live", "hung"}],
         NEW unread \in BOOLEAN,
         Open(f) \subseteq Open(fd),
         \A i \in Open(f) : found[i] # NoNode,
         HandleWatch(found, f, unread)
  PROVE  DeviceInv'
<1> DEFINE wanted == Requested(capture) \ Open(f)
<1>1. PICK got \in Opens(wanted, found) :
        \/ Dropped
        \/ /\ ~Useless(wanted, WithOpen(f, got))
           /\ uevent' = unread /\ known' = found
           /\ fd' = WithOpen(f, got)
           /\ opened' = Open(WithOpen(f, got))
           /\ pending' = Missing(wanted, got)
           /\ Session(Lost(f, WithOpen(f, got)))
           /\ UNCHANGED <<kernelVars, phase, capture>>
  BY DEF HandleWatch
<1>2. wanted \in SUBSET Interface /\ Requested(capture) \subseteq Interface
      /\ Required \subseteq Requested(capture)
  BY InterfaceAssumption DEF Requested
<1>3. got \subseteq wanted /\ \A i \in got : found[i] # NoNode
  BY <1>2, OpensFound
<1>4. CASE Dropped
  BY <1>4, DroppedInv
<1>5. CASE ~Dropped
  <2> DEFINE now == WithOpen(f, got)
  <2>1. /\ ~Useless(wanted, now)
        /\ uevent' = unread /\ known' = found /\ fd' = now
        /\ opened' = Open(now) /\ pending' = Missing(wanted, got)
        /\ Session(Lost(f, now))
        /\ UNCHANGED <<kernelVars, phase, capture>>
    BY <1>1, <1>5
  <2>2. Open(now) = Open(f) \cup got
    BY <1>2, <1>3, OpenAfter
  <2>3. now \in [Interface -> {"closed", "live", "hung"}]
    BY DEF WithOpen
  <2>4. opened = Open(fd)
    BY DEF DeviceInv, MasksMatch
  <2>5. EngineInv'
    <3>1. EngineInv
      BY DEF DeviceInv
    <3> QED
      BY <2>1, <3>1, ResetInv, StutterInv DEF Session
  <2>6. DeviceTypeOK'
    BY <1>2, <2>1, <2>2, <2>3, <1>3, <2>5
       DEF DeviceInv, DeviceTypeOK, EngineInv, kernelVars, Missing, Open
  <2>7. MasksMatch'
    <3>1. Requested(capture)' = Requested(capture)
      BY <2>1 DEF Requested
    <3>2. Open(fd)' = Open(f) \cup got
      BY <2>1, <2>2 DEF Open
    <3> QED
      BY <2>1, <2>2, <3>1, <3>2 DEF MasksMatch, Missing
  <2>8. OpenKnown'
    BY <1>3, <2>1, <2>2 DEF OpenKnown, Open
  <2>9. HeldOpen'
    <3>1. CASE Lost(f, now) = {}
      <4>1. held' = held
        BY <2>1, <3>1 DEF Session, engineVars
      <4>2. ASSUME NEW s \in Source, held[s] # {}
            PROVE  s \in Required /\ now[s] # "closed"
        <5>1. s \in Required /\ s \in Open(fd)
          BY <4>2, InterfaceAssumption DEF DeviceInv, HeldOpen, Open
        <5>2. s \in Open(f)
          BY <2>4, <3>1, <5>1 DEF Lost
        <5> QED
          BY <2>2, <5>1, <5>2 DEF Open
      <4> QED
        BY <2>1, <4>1, <4>2 DEF HeldOpen
    <3>2. CASE Lost(f, now) # {}
      BY <2>1, <3>2, ResetHolds DEF Session, HeldOpen, NothingHeld
    <3> QED
      BY <3>1, <3>2
  <2>10. SlotUseful'
    <3>1. Open(now) \cap Required # {}
      <4>1. CASE wanted = {}
        BY <1>2, <2>2, <4>1, InterfaceAssumption
      <4>2. CASE wanted # {}
        BY <2>1, <4>2 DEF Useless
      <4> QED
        BY <4>1, <4>2
    <3> QED
      BY <2>1, <3>1 DEF SlotUseful, Open
  <2>11. CaptureOnly'
    <3>1. ~capture => Open(fd) \subseteq Required /\ wanted \subseteq Required
      BY DEF DeviceInv, CaptureOnly, Requested
    <3>2. ~capture => Open(now) \subseteq Required
      BY <1>3, <2>2, <3>1
    <3> QED
      BY <2>1, <3>2 DEF CaptureOnly, Open
  <2>12. Idle'
    BY <2>1 DEF Idle
  <2> QED
    BY <2>5, <2>6, <2>7, <2>8, <2>9, <2>10, <2>11, <2>12 DEF DeviceInv
<1> QED
  BY <1>4, <1>5

\* The descriptors that a refresh leaves, after one may have been closed.
LEMMA RefreshedLeaves ==
  ASSUME DeviceInv,
         NEW found \in [Interface -> Node \cup {NoNode}],
         NEW f \in [Interface -> {"closed", "live", "hung"}],
         Open(f) \subseteq Open(fd)
  PROVE  /\ Refreshed(f, found) \in [Interface -> {"closed", "live", "hung"}]
         /\ Open(Refreshed(f, found)) \subseteq Open(fd)
         /\ \A i \in Open(Refreshed(f, found)) : found[i] # NoNode
BY DEF Refreshed, Shut, Outdated, Open

(***************************************************************************)
(* Every action keeps the invariant.                                       *)
(***************************************************************************)
LEMMA KernelInv ==
  ASSUME DeviceInv, NEW i \in Interface, Plug(i) \/ Unplug(i) \/ Settle(i)
  PROVE  DeviceInv'
<1>1. EngineInv'
  BY StutterInv DEF DeviceInv, Plug, Unplug, Settle
<1>2. /\ held' = held
      /\ UNCHANGED <<phase, known, opened, pending, capture>>
  BY DEF Plug, Unplug, Settle, bridgeVars, engineVars
<1>3. /\ fd' \in [Interface -> {"closed", "live", "hung"}]
      /\ \A j \in Interface : fd'[j] = "closed" <=> fd[j] = "closed"
  BY DEF DeviceInv, DeviceTypeOK, Plug, Unplug, Settle, bridgeVars
<1>4. Open(fd') = Open(fd)
  BY <1>3 DEF Open
<1>5. /\ node' \in [Interface -> Node \cup {NoNode}]
      /\ unsettled' \subseteq Interface /\ uevent' \in BOOLEAN
  BY DEF DeviceInv, DeviceTypeOK, Plug, Unplug, Settle
<1>6. DeviceTypeOK'
  BY <1>1, <1>2, <1>3, <1>5 DEF DeviceInv, DeviceTypeOK, EngineInv
<1>7. MasksMatch' /\ SlotUseful' /\ CaptureOnly'
  BY <1>2, <1>4 DEF DeviceInv, MasksMatch, SlotUseful, CaptureOnly, Requested, Open
<1>8. OpenKnown' /\ HeldOpen'
  BY <1>2, <1>3, InterfaceAssumption DEF DeviceInv, OpenKnown, HeldOpen
<1>9. Idle'
  <2>1. fd = Closed => fd' = Closed
    BY <1>3 DEF Closed
  <2> QED
    BY <1>2, <2>1 DEF DeviceInv, Idle, NothingHeld, Closed
<1> QED
  BY <1>1, <1>6, <1>7, <1>8, <1>9 DEF DeviceInv

\* Interface::new keeps the invariant: no descriptor is open yet.
LEMMA DiscoverInv ==
  ASSUME DeviceInv, Discover
  PROVE  DeviceInv'
<1>1. EngineInv'
  BY StutterInv DEF DeviceInv, Discover
<1>2. Open(fd) = {}
  BY DEF DeviceInv, Idle, Discover, Closed, Open
<1> QED
  BY <1>1, <1>2
     DEF Discover, DeviceInv, DeviceTypeOK, EngineInv, MasksMatch, OpenKnown, HeldOpen,
         SlotUseful, CaptureOnly, Idle, NothingHeld, Closed, engineVars, kernelVars, Open

\* with_backend_outputs keeps the invariant, with its partial opens and failures.
LEMMA OwnInv ==
  ASSUME DeviceInv, Own
  PROVE  DeviceInv'
<1>1. CASE Dropped
  BY <1>1, DroppedInv
<1>2. CASE ~Dropped
  <2>1. PICK got \in Opens(Required, known) \ {{}} :
          /\ phase' = "owned" /\ fd' = WithOpen(fd, got)
          /\ opened' = got /\ pending' = Required \ got
          /\ UNCHANGED <<kernelVars, uevent, known, capture, engineVars>>
    BY <1>2 DEF Own
  <2>2. /\ fd = Closed /\ capture = FALSE /\ NothingHeld
    BY DEF DeviceInv, Idle, Own
  <2>3. got \subseteq Required /\ got # {} /\ \A i \in got : known[i] # NoNode
    BY InterfaceAssumption, OpensFound
  <2>4. Open(fd') = got
    BY <2>1, <2>2, <2>3, InterfaceAssumption DEF WithOpen, Closed, Open
  <2>5. EngineInv'
    BY <2>1, StutterInv DEF DeviceInv
  <2>6. fd' \in [Interface -> {"closed", "live", "hung"}]
    BY <2>1 DEF DeviceInv, DeviceTypeOK, WithOpen
  <2>7. DeviceTypeOK'
    BY <2>1, <2>3, <2>5, <2>6, InterfaceAssumption DEF DeviceInv, DeviceTypeOK, EngineInv, kernelVars
  <2>8. MasksMatch' /\ SlotUseful' /\ CaptureOnly'
    BY <2>1, <2>2, <2>3, <2>4 DEF MasksMatch, SlotUseful, CaptureOnly, Requested, Open
  <2>9. OpenKnown'
    BY <2>1, <2>3, <2>4 DEF OpenKnown, Open
  <2>10. HeldOpen' /\ Idle'
    BY <2>1, <2>2 DEF HeldOpen, Idle, NothingHeld, engineVars
  <2> QED
    BY <2>5, <2>7, <2>8, <2>9, <2>10 DEF DeviceInv
<1> QED
  BY <1>1, <1>2

\* monitor_event keeps the invariant, whether or not the refresh finds a change.
LEMMA MonitorEventInv ==
  ASSUME DeviceInv, MonitorEvent
  PROVE  DeviceInv'
<1>1. CASE node = known /\ uevent' = FALSE /\ UNCHANGED <<kernelVars, bridgeVars, engineVars>>
  <2>1. EngineInv'
    BY <1>1, StutterInv DEF DeviceInv
  <2> QED
    BY <1>1, <2>1
       DEF DeviceInv, DeviceTypeOK, EngineInv, MasksMatch, OpenKnown, HeldOpen, SlotUseful,
           CaptureOnly, Idle, NothingHeld, kernelVars, bridgeVars, engineVars, Requested, Open
<1>2. CASE HandleWatch(node, Refreshed(fd, node), FALSE)
  <2>1. node \in [Interface -> Node \cup {NoNode}] /\ fd \in [Interface -> {"closed", "live", "hung"}]
    BY DEF DeviceInv, DeviceTypeOK
  <2>2. phase = "owned"
    BY DEF MonitorEvent, Watching
  <2> QED
    BY <1>2, <2>1, <2>2, RefreshedLeaves, HandleWatchInv
<1> QED
  BY <1>1, <1>2 DEF MonitorEvent, Watching

\* A failed read or recovery query of read_one keeps the invariant.
LEMMA ReadFailureInv ==
  ASSUME DeviceInv, NEW i \in Interface, ReadFailure(i)
  PROVE  DeviceInv'
<1> DEFINE f == Shut(fd, {i})
<1>1. PICK found \in {node, known} : HandleWatch(found, Refreshed(f, found), uevent)
  BY DEF ReadFailure, CloseAndRefresh
<1>2. /\ found \in [Interface -> Node \cup {NoNode}]
      /\ fd \in [Interface -> {"closed", "live", "hung"}]
      /\ uevent \in BOOLEAN
  BY DEF DeviceInv, DeviceTypeOK
<1>3. f \in [Interface -> {"closed", "live", "hung"}] /\ Open(f) \subseteq Open(fd)
  BY <1>2 DEF Open, Shut
<1>4. phase = "owned"
  BY DEF ReadFailure
<1> HIDE DEF f
<1>5. /\ Refreshed(f, found) \in [Interface -> {"closed", "live", "hung"}]
      /\ Open(Refreshed(f, found)) \subseteq Open(fd)
      /\ \A j \in Open(Refreshed(f, found)) : found[j] # NoNode
  BY <1>2, <1>3, RefreshedLeaves
<1> QED
  BY <1>1, <1>2, <1>4, <1>5, HandleWatchInv

\* handle_event keeps the invariant: only required, open interfaces feed the engine.
LEMMA KeyEventInv ==
  ASSUME DeviceInv, NEW i \in Source, NEW b \in Button, NEW state \in ButtonState,
         KeyEvent(i, b, state)
  PROVE  DeviceInv'
<1>1. EngineInv'
  BY KeyInv, StutterInv DEF DeviceInv, KeyEvent
<1>2. UNCHANGED <<kernelVars, uevent, bridgeVars>> /\ phase = "owned" /\ fd[i] # "closed"
  BY DEF KeyEvent
<1>3. HeldOpen'
  <2>1. CASE i \in Required
    <3>1. held' = [held EXCEPT ![i] = Owned(@, b, state)]
      BY <2>1 DEF KeyEvent, Key
    <3>2. \A s \in Source : s # i => held'[s] = held[s]
      BY <3>1 DEF DeviceInv, EngineInv, EngineTypeOK
    <3> QED
      BY <1>2, <2>1, <3>2 DEF DeviceInv, HeldOpen, bridgeVars
  <2>2. CASE i \notin Required
    BY <1>2, <2>2 DEF KeyEvent, DeviceInv, HeldOpen, bridgeVars, engineVars
  <2> QED
    BY <2>1, <2>2
<1>4. DeviceTypeOK'
  BY <1>1, <1>2 DEF DeviceInv, DeviceTypeOK, EngineInv, kernelVars, bridgeVars
<1> QED
  BY <1>1, <1>2, <1>3, <1>4
     DEF DeviceInv, MasksMatch, OpenKnown, SlotUseful, CaptureOnly, Idle, bridgeVars, Requested, Open

\* set_capture keeps the invariant: it closes only what the profile does not need.
LEMMA SetCaptureInv ==
  ASSUME DeviceInv, SetCapture
  PROVE  DeviceInv'
<1> DEFINE desired == Requested(~capture)
           left    == Shut(fd, Surplus(desired))
           wanted  == desired \ Open(left)
<1>1. PICK got \in Opens(wanted, known) :
        /\ fd' = WithOpen(left, got)
        /\ opened' = Open(left) \cup got
        /\ pending' = Missing(wanted, got)
  BY DEF SetCapture
<1>2. /\ phase = "owned" /\ capture' = ~capture
      /\ UNCHANGED <<kernelVars, uevent, phase, known, engineVars>>
  BY DEF SetCapture
<1>3. desired \subseteq Interface /\ Required \subseteq desired
  BY InterfaceAssumption DEF Requested
<1>4. got \subseteq wanted /\ \A i \in got : known[i] # NoNode
  BY <1>3, OpensFound
<1>5. Open(left) = Open(fd) \cap desired
  BY DEF Open, Surplus, Shut
<1>6. Open(fd') = Open(left) \cup got
  BY <1>1, <1>3, <1>4, OpenAfter
<1>7. EngineInv'
  BY <1>2, StutterInv DEF DeviceInv
<1>8. fd' \in [Interface -> {"closed", "live", "hung"}]
  BY <1>1 DEF DeviceInv, DeviceTypeOK, WithOpen, Shut
<1>9. DeviceTypeOK'
  <2>1. opened' \subseteq Interface /\ pending' \subseteq Interface
    BY <1>1, <1>3, <1>4, <1>5 DEF Missing, Open
  <2> QED
    BY <1>2, <1>7, <1>8, <2>1 DEF DeviceInv, DeviceTypeOK, EngineInv, kernelVars
<1>10. MasksMatch'
  <2>1. Requested(capture)' = desired
    BY <1>2 DEF Requested
  <2> QED
    BY <1>1, <1>4, <1>6, <2>1 DEF MasksMatch, Missing, Open
<1>11. OpenKnown'
  <2>1. \A i \in Open(fd) : known[i] # NoNode
    BY DEF DeviceInv, OpenKnown, Open
  <2>2. \A i \in Open(fd') : known[i] # NoNode
    BY <1>4, <1>5, <1>6, <2>1
  <2> QED
    BY <1>2, <2>2 DEF OpenKnown, Open
<1>12. HeldOpen'
  <2>1. \A s \in Source : held[s] # {} => s \in Required /\ s \in Open(fd)
    BY InterfaceAssumption DEF DeviceInv, HeldOpen, Open
  <2>2. \A s \in Source : held[s] # {} => s \in Required /\ s \in Open(fd')
    BY <1>3, <1>5, <1>6, <2>1
  <2>3. \A s \in Open(fd') : fd'[s] # "closed"
    BY DEF Open
  <2>4. held' = held
    BY <1>2 DEF engineVars
  <2> QED
    BY <2>2, <2>3, <2>4 DEF HeldOpen
<1>13. SlotUseful'
  BY <1>2, <1>3, <1>5, <1>6 DEF DeviceInv, SlotUseful, Open
<1>14. CaptureOnly'
  <2>1. Open(fd') \subseteq desired
    BY <1>4, <1>5, <1>6
  <2>2. ~capture' => desired = Required
    BY <1>2 DEF Requested
  <2> QED
    BY <2>1, <2>2 DEF CaptureOnly, Open
<1>15. Idle'
  BY <1>2 DEF Idle
<1> QED
  BY <1>7, <1>9, <1>10, <1>11, <1>12, <1>13, <1>14, <1>15 DEF DeviceInv

\* A step that changes nothing keeps the invariant.
LEMMA DeviceStutterInv ==
  ASSUME DeviceInv, UNCHANGED deviceVars
  PROVE  DeviceInv'
<1>1. EngineInv'
  BY StutterInv DEF DeviceInv, deviceVars
<1> QED
  BY <1>1
     DEF DeviceInv, DeviceTypeOK, EngineInv, MasksMatch, OpenKnown, HeldOpen, SlotUseful,
         CaptureOnly, Idle, NothingHeld, deviceVars, kernelVars, bridgeVars, engineVars,
         Requested, Open

\* Every step of the kernel, udevd and the daemon keeps the invariant.
LEMMA DeviceNextInv ==
  ASSUME DeviceInv, [DeviceNext]_deviceVars
  PROVE  DeviceInv'
BY KernelInv, DiscoverInv, OwnInv, MonitorEventInv, ReadFailureInv, KeyEventInv, SetCaptureInv,
   DroppedInv, DeviceStutterInv DEF DeviceNext, Drop

(***************************************************************************)
(* The theorems.                                                           *)
(***************************************************************************)
\* The hid layer, the bridge, the engine and the virtual devices agree after
\* every step, whatever the kernel and udevd did in between.
THEOREM DeviceInvariant == DeviceSpec => []DeviceInv
<1>1. DeviceInit => DeviceInv
  BY DeviceInitInv
<1>2. DeviceInv /\ [DeviceNext]_deviceVars => DeviceInv'
  BY DeviceNextInv
<1> QED
  BY <1>1, <1>2, PTL DEF DeviceSpec

\* The variables of the kernel, the hid layer and the bridge keep their types.
THEOREM DeviceTypeCorrect == DeviceSpec => []DeviceTypeOK
<1>1. DeviceInv => DeviceTypeOK
  BY DEF DeviceInv
<1> QED
  BY <1>1, DeviceInvariant, PTL

\* Buttons are held only on interfaces that are open and required.
THEOREM DeviceHeldOpen == DeviceSpec => []HeldOpen
<1>1. DeviceInv => HeldOpen
  BY DEF DeviceInv
<1> QED
  BY <1>1, DeviceInvariant, PTL

\* The masks the bridge reports match the descriptors; an owned controller has a
\* required interface open; capture-only interfaces are open only under a lease.
THEOREM DeviceMasks == DeviceSpec => [](MasksMatch /\ OpenKnown /\ SlotUseful /\ CaptureOnly)
<1>1. DeviceInv => MasksMatch /\ OpenKnown /\ SlotUseful /\ CaptureOnly
  BY DEF DeviceInv
<1> QED
  BY <1>1, DeviceInvariant, PTL

(***************************************************************************)
(* An interface that hung up does not come back with its buttons.          *)
(***************************************************************************)
\* A descriptor that a watch handling gives up or reopens was closed by the refresh,
\* so that a required interface was lost and the engine reset.
LEMMA HandleWatchReleases ==
  ASSUME DeviceInv, phase = "owned",
         NEW found, NEW f \in [Interface -> {"closed", "live", "hung"}], NEW unread,
         \A i \in Interface : f[i] = fd[i] \/ f[i] = "closed",
         HandleWatch(found, f, unread),
         NEW s \in Source, fd[s] = "hung", fd'[s] # "hung"
  PROVE  held'[s] = {}
<1>1. CASE Reset
  BY <1>1 DEF Reset
<1>2. CASE ~Reset
  <2>1. PICK got \in Opens(Requested(capture) \ Open(f), found) :
           /\ fd' = WithOpen(f, got)
           /\ Session(Lost(f, WithOpen(f, got)))
    BY <1>2 DEF HandleWatch, Dropped
  <2>2. Lost(f, WithOpen(f, got)) = {} /\ UNCHANGED engineVars
    BY <1>2, <2>1 DEF Session
  <2>3. s \in Interface
    BY InterfaceAssumption
  <2>4. f[s] = "closed"
    <3>1. f[s] # "hung"
      <4> SUFFICES ASSUME f[s] = "hung" PROVE FALSE
        OBVIOUS
      <4>1. s \notin got
        BY <2>3 DEF Opens, Open
      <4> QED
        BY <2>1, <2>3, <4>1 DEF WithOpen
    <3> QED
      BY <2>3, <3>1
  <2>5. s \in opened /\ s \notin Open(f)
    BY <2>3, <2>4 DEF DeviceInv, MasksMatch, Open
  <2>6. s \notin Required
    BY <2>2, <2>5 DEF Lost
  <2>7. held[s] = {}
    BY <2>6 DEF DeviceInv, HeldOpen
  <2> QED
    BY <2>2, <2>7 DEF engineVars
<1> QED
  BY <1>1, <1>2

\* No interface that hung up is reopened, or given up, with buttons still held.
THEOREM DeviceReopenedReleased == DeviceSpec => ReopenedReleased
<1> DEFINE Released == \A s \in Source : fd[s] = "hung" /\ fd'[s] # "hung" => held'[s] = {}
<1>1. DeviceInv /\ [DeviceNext]_deviceVars => [Released]_deviceVars
  <2> SUFFICES ASSUME DeviceInv, DeviceNext, NEW s \in Source, fd[s] = "hung", fd'[s] # "hung"
               PROVE  held'[s] = {}
    OBVIOUS
  <2>1. s \in Interface /\ fd \in [Interface -> {"closed", "live", "hung"}]
    BY InterfaceAssumption DEF DeviceInv, DeviceTypeOK
  <2>2. ASSUME NEW i \in Interface, Plug(i) \/ Unplug(i) \/ Settle(i) PROVE FALSE
    BY <2>1, <2>2 DEF Plug, Unplug, Settle, bridgeVars
  <2>3. ASSUME NEW i \in Interface, ReadFailure(i) PROVE held'[s] = {}
    <3> DEFINE f(found) == Refreshed(Shut(fd, {i}), found)
    <3>1. PICK found \in {node, known} : HandleWatch(found, f(found), uevent)
      BY <2>3 DEF ReadFailure, CloseAndRefresh
    <3>2. f(found) \in [Interface -> {"closed", "live", "hung"}]
      BY <2>1 DEF Refreshed, Shut, Outdated
    <3>3. \A j \in Interface : f(found)[j] = fd[j] \/ f(found)[j] = "closed"
      BY <2>1 DEF Refreshed, Shut, Outdated
    <3> QED
      BY <2>3, <3>1, <3>2, <3>3, HandleWatchReleases DEF ReadFailure
  <2>4. ASSUME NEW i \in Source, NEW b \in Button, NEW state \in ButtonState, KeyEvent(i, b, state)
        PROVE  FALSE
    BY <2>4 DEF KeyEvent, bridgeVars
  <2>5. CASE Discover
    BY <2>5 DEF Discover
  <2>6. CASE Own
    <3>1. CASE Dropped
      BY <3>1 DEF Dropped, Reset
    <3>2. CASE \E got \in Opens(Required, known) \ {{}} : fd' = WithOpen(fd, got) /\ phase = "refreshed"
      BY <2>1, <3>2 DEF DeviceInv, Idle, Closed
    <3> QED
      BY <2>6, <3>1, <3>2 DEF Own
  <2>7. CASE MonitorEvent
    <3>1. CASE HandleWatch(node, Refreshed(fd, node), FALSE)
      <4>1. Refreshed(fd, node) \in [Interface -> {"closed", "live", "hung"}]
        BY <2>1 DEF Refreshed, Shut, Outdated
      <4>2. \A j \in Interface : Refreshed(fd, node)[j] = fd[j] \/ Refreshed(fd, node)[j] = "closed"
        BY DEF Refreshed, Shut, Outdated
      <4> QED
        BY <2>7, <3>1, <4>1, <4>2, HandleWatchReleases DEF MonitorEvent, Watching
    <3>2. CASE UNCHANGED bridgeVars
      BY <3>2 DEF bridgeVars
    <3> QED
      BY <2>7, <3>1, <3>2 DEF MonitorEvent, Watching
  <2>8. CASE SetCapture
    <3> DEFINE desired == Requested(capture')
               left == Shut(fd, Surplus(desired))
    <3>1. PICK got \in Opens(desired \ Open(left), known) : fd' = WithOpen(left, got)
      BY <2>8 DEF SetCapture
    <3>2. UNCHANGED engineVars
      BY <2>8 DEF SetCapture
    <3>3. s \notin Required
      <4> SUFFICES ASSUME s \in Required PROVE FALSE
        OBVIOUS
      <4>1. s \in desired
        BY <2>1 DEF Requested
      <4>2. left[s] = "hung" /\ s \in Open(left)
        BY <2>1, <4>1 DEF Surplus, Open, Shut
      <4>3. s \notin got
        BY <4>2 DEF Opens
      <4> QED
        BY <2>1, <3>1, <4>2, <4>3 DEF WithOpen
    <3> QED
      BY <3>2, <3>3 DEF DeviceInv, HeldOpen, engineVars
  <2>9. CASE Drop
    BY <2>9 DEF Drop, Dropped, Reset
  <2> QED
    BY <2>2, <2>3, <2>4, <2>5, <2>6, <2>7, <2>8, <2>9 DEF DeviceNext
<1> QED
  BY <1>1, DeviceInvariant, PTL DEF DeviceSpec, ReopenedReleased

(***************************************************************************)
(* Device implements VirtualKeys: each step is one of the engine's, or     *)
(* leaves it alone.                                                        *)
(***************************************************************************)
LEMMA DeviceStepIsEngineStep ==
  ASSUME [DeviceNext]_deviceVars
  PROVE  [EngineNext]_engineVars
<1>1. ASSUME NEW found, NEW f, NEW unread, HandleWatch(found, f, unread)
      PROVE  Reset \/ UNCHANGED engineVars
  BY <1>1 DEF HandleWatch, Dropped, Session
<1>2. ASSUME NEW i \in Interface, Plug(i) \/ Unplug(i) \/ Settle(i)
      PROVE  UNCHANGED engineVars
  BY <1>2 DEF Plug, Unplug, Settle
<1>3. ASSUME NEW i \in Interface, ReadFailure(i)
      PROVE  Reset \/ UNCHANGED engineVars
  BY <1>1, <1>3 DEF ReadFailure, CloseAndRefresh
<1>4. ASSUME NEW i \in Source, NEW b \in Button, NEW state \in ButtonState, KeyEvent(i, b, state)
      PROVE  Key(i, b, state) \/ UNCHANGED engineVars
  BY <1>4 DEF KeyEvent
<1>5. Discover \/ SetCapture \/ UNCHANGED deviceVars => UNCHANGED engineVars
  BY DEF Discover, SetCapture, deviceVars
<1>6. Own \/ MonitorEvent \/ Drop => Reset \/ UNCHANGED engineVars
  BY <1>1 DEF Own, MonitorEvent, Drop, Dropped
<1> QED
  BY <1>2, <1>3, <1>4, <1>5, <1>6 DEF DeviceNext, EngineNext

\* However interfaces come, go, fail and are leased, the virtual keys change only
\* as the ownership of the physical buttons promises.
THEOREM DeviceRefinement == DeviceSpec => ImplementsVirtualKeys
<1>1. DeviceInit => Abstract!Init
  BY DEF DeviceInit, EngineInit, Abstract!Init, Owners
<1>2. DeviceInv /\ [DeviceNext]_deviceVars => [Abstract!Next]_(Abstract!abstractVars)
  <2> SUFFICES ASSUME DeviceInv, [DeviceNext]_deviceVars
               PROVE  [Abstract!Next]_(Abstract!abstractVars)
    OBVIOUS
  <2>1. CASE EngineNext
    BY <2>1, EngineStepRefines DEF DeviceInv
  <2>2. CASE UNCHANGED engineVars
    BY <2>2 DEF engineVars, Abstract!abstractVars, Owners
  <2> QED
    BY <2>1, <2>2, DeviceStepIsEngineStep
<1> QED
  BY <1>1, <1>2, DeviceInvariant, PTL DEF DeviceSpec, ImplementsVirtualKeys, Abstract!Spec
=============================================================================
