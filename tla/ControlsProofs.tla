--------------------------- MODULE ControlsProofs ---------------------------
(***************************************************************************)
(* Theorems about Controls for all files, forms, command lines,            *)
(* controllers and reports.                                                *)
(***************************************************************************)
EXTENDS Controls, FiniteSetTheorems, SequenceTheorems, TLAPS

-----------------------------------------------------------------------------
(***************************************************************************)
(* The aim.  A step of it takes the aim and gives the next one and a       *)
(* vector; what holds of an aim that is not active is kept by every step,  *)
(* and a step that leaves the aim inactive ends what it drove.             *)
(***************************************************************************)
IsAim(a) ==
  /\ a = [held |-> a.held, source |-> a.source, ir |-> a.ir, zero |-> a.zero, last |-> a.last]
  /\ a.held \in BOOLEAN

LEMMA TwoFields ==
  ASSUME NEW a, IsAim(a), NEW x, NEW y
  PROVE  /\ [a EXCEPT !.ir = x, !.source = y] =
              [held |-> a.held, source |-> y, ir |-> x, zero |-> a.zero, last |-> a.last]
         /\ [a EXCEPT !.zero = x, !.source = y] =
              [held |-> a.held, source |-> y, ir |-> a.ir, zero |-> x, last |-> a.last]
<1> DEFINE b == [a EXCEPT !.ir = x]
           d == [a EXCEPT !.zero = x]
<1>1. b = [held |-> a.held, source |-> a.source, ir |-> x, zero |-> a.zero, last |-> a.last]
  BY DEF IsAim
<1>2. d = [held |-> a.held, source |-> a.source, ir |-> a.ir, zero |-> x, last |-> a.last]
  BY DEF IsAim
<1>3. /\ [a EXCEPT !.ir = x, !.source = y] = [b EXCEPT !.source = y]
      /\ [a EXCEPT !.zero = x, !.source = y] = [d EXCEPT !.source = y]
  OBVIOUS
<1> HIDE DEF b, d
<1>4. [b EXCEPT !.source = y] =
        [held |-> a.held, source |-> y, ir |-> x, zero |-> a.zero, last |-> a.last]
  BY <1>1
<1>5. [d EXCEPT !.source = y] =
        [held |-> a.held, source |-> y, ir |-> a.ir, zero |-> x, last |-> a.last]
  BY <1>2
<1> QED
  BY <1>3, <1>4, <1>5

\* Nothing is left of an earlier activation; a zero is the latest sample.
Still(c, a, accel) ==
  /\ a.last = Zero
  /\ a.ir = None
  /\ a.source \in {"none", "accel"}
  /\ c.aim_accel_zero = <<>> =>
       a.zero = None \/ (a.zero = accel /\ c.opt.aim_source \in {"auto", "accel"})

StillUnlessActive(c, a, accel) == IsAim(a) /\ (~IsActive(c.opt, a) => Still(c, a, accel))

\* r is a step from aim a.
Releases(c, a, r, accel) ==
  /\ StillUnlessActive(c, r.aim, accel)
  /\ ~IsActive(c.opt, r.aim) => r.out = Zero \/ (r.out = None /\ ~IsActive(c.opt, a))

\* A reset leaves the aim still, and emits a vector of rest (aim.rs reset).
LEMMA ResetReleases ==
  ASSUME NEW c, NEW a, NEW b, NEW accel, b.held \in BOOLEAN
  PROVE  Releases(c, a, AimReset(b), accel) /\ AimReset(b).aim.ir = None
<1> DEFINE n == [held |-> b.held, source |-> "none", ir |-> None, zero |-> None, last |-> Zero]
<1>1. AimReset(b) = [aim |-> n, out |-> Zero]
  BY DEF AimReset, Result, NewAim
<1>2. IsAim(n)
  BY DEF IsAim
<1>3. Still(c, n, accel)
  BY DEF Still
<1> QED
  BY <1>1, <1>2, <1>3 DEF Releases, StillUnlessActive

\* An emission of an inactive aim is a reset (aim.rs emit).
LEMMA EmitReleases ==
  ASSUME NEW c, NEW a, NEW b, NEW accel, NEW vector, IsAim(b)
  PROVE  /\ Releases(c, a, Emit(c.opt, b, vector), accel)
         /\ Emit(c.opt, b, vector).aim.ir \in {None, b.ir}
<1> DEFINE inverted == <<IF c.opt.aim_invert_x THEN -vector[1] ELSE vector[1],
                         IF c.opt.aim_invert_y THEN -vector[2] ELSE vector[2]>>
           smoothed == AimSmooth(c.opt, b.last, inverted)
           next == [b EXCEPT !.last = smoothed]
<1>1. Emit(c.opt, b, vector) =
        IF IsActive(c.opt, b) THEN Result(next, smoothed) ELSE AimReset(b)
  BY DEF Emit
<1> HIDE DEF smoothed
<1>2. b.held \in BOOLEAN
  BY DEF IsAim
<1>3. next = [held |-> b.held, source |-> b.source, ir |-> b.ir, zero |-> b.zero, last |-> smoothed]
  BY DEF IsAim
<1>4. CASE IsActive(c.opt, b)
  <2>1. IsActive(c.opt, next)
    BY <1>2, <1>3, <1>4 DEF IsActive
  <2>2. IsAim(next)
    BY <1>3 DEF IsAim
  <2>3. Emit(c.opt, b, vector) = [aim |-> next, out |-> smoothed]
    BY <1>1, <1>4 DEF Result
  <2> QED
    BY <1>2, <1>3, <2>1, <2>2, <2>3 DEF Releases, StillUnlessActive
<1>5. CASE ~IsActive(c.opt, b)
  BY <1>1, <1>2, <1>5, ResetReleases
<1> QED
  BY <1>4, <1>5

\* Of the three sources the infrared camera alone leaves a point behind.
LEMMA ProcessIrReleases ==
  ASSUME NEW c, NEW a, NEW accel, NEW point, StillUnlessActive(c, a, accel)
  PROVE  /\ Releases(c, a, ProcessIr(c, a, point), accel)
         /\ point = None => ProcessIr(c, a, point).aim.ir = None
<1> DEFINE b == [a EXCEPT !.ir = point, !.source = "ir"]
           gone == [a EXCEPT !.ir = None]
<1>1. CASE point = None /\ a.source = "ir"
  BY <1>1, ResetReleases DEF ProcessIr, StillUnlessActive, IsAim
<1>2. CASE point = None /\ a.source # "ir"
  <2>1. ProcessIr(c, a, point) = [aim |-> gone, out |-> None]
    BY <1>2 DEF ProcessIr, Result
  <2>2. gone = [held |-> a.held, source |-> a.source, ir |-> None, zero |-> a.zero, last |-> a.last]
    BY DEF StillUnlessActive, IsAim
  <2>3. IsAim(gone) /\ (IsActive(c.opt, gone) <=> IsActive(c.opt, a))
    BY <2>2 DEF StillUnlessActive, IsAim, IsActive
  <2>4. Still(c, a, accel) => Still(c, gone, accel)
    BY <2>2 DEF Still
  <2> QED
    BY <2>1, <2>2, <2>3, <2>4 DEF Releases, StillUnlessActive
<1>3. CASE point # None /\ ~AimAccepts(c.opt, a, "ir")
  BY <1>3 DEF ProcessIr, Result, Releases, StillUnlessActive
<1>4. CASE point # None /\ AimAccepts(c.opt, a, "ir")
  <2>1. PICK vector : ProcessIr(c, a, point) = Emit(c.opt, b, vector)
    BY <1>4 DEF ProcessIr
  <2>2. b = [held |-> a.held, source |-> "ir", ir |-> point, zero |-> a.zero, last |-> a.last]
    BY TwoFields DEF StillUnlessActive
  <2>3. IsAim(b)
    BY <2>2 DEF StillUnlessActive, IsAim
  <2> QED
    BY <1>4, <2>1, <2>3, EmitReleases
<1> QED
  BY <1>1, <1>2, <1>3, <1>4

LEMMA ProcessMotionPlusReleases ==
  ASSUME NEW c, NEW a, NEW accel, NEW sample, StillUnlessActive(c, a, accel)
  PROVE  /\ Releases(c, a, ProcessMotionPlus(c, a, sample), accel)
         /\ ProcessMotionPlus(c, a, sample).aim.ir \in {None, a.ir}
<1> DEFINE b == [a EXCEPT !.source = "motion_plus"]
<1>1. CASE ~AimAccepts(c.opt, a, "motion_plus")
  BY <1>1 DEF ProcessMotionPlus, Result, Releases, StillUnlessActive
<1>2. CASE AimAccepts(c.opt, a, "motion_plus")
  <2>1. PICK vector : ProcessMotionPlus(c, a, sample) = Emit(c.opt, b, vector)
    BY <1>2 DEF ProcessMotionPlus
  <2>2. b = [held |-> a.held, source |-> "motion_plus", ir |-> a.ir, zero |-> a.zero, last |-> a.last]
    BY DEF StillUnlessActive, IsAim
  <2>3. IsAim(b)
    BY <2>2 DEF StillUnlessActive, IsAim
  <2> QED
    BY <2>1, <2>2, <2>3, EmitReleases
<1> QED
  BY <1>1, <1>2

\* A sample that is not accepted leaves no zero behind, for an aim that is not
\* active has none of a source that goes before.
LEMMA ProcessAccelerometerReleases ==
  ASSUME NEW c, NEW a, NEW accel, NEW sample, StillUnlessActive(c, a, accel), sample # None
  PROVE  /\ Releases(c, a, ProcessAccelerometer(c, a, sample), sample)
         /\ ProcessAccelerometer(c, a, sample).aim.ir \in {None, a.ir}
<1> DEFINE cal == c.aim_accel_zero
           zero == IF cal # <<>> THEN <<cal["x"], cal["y"], cal["z"]>>
                   ELSE IF a.zero # None THEN a.zero ELSE sample
           after == [a EXCEPT !.zero = zero, !.source = "accel"]
<1>1. after = [held |-> a.held, source |-> "accel", ir |-> a.ir, zero |-> zero, last |-> a.last]
  <2> HIDE DEF zero
  <2> QED
    BY TwoFields DEF StillUnlessActive
<1>2. IsAim(after) /\ (IsActive(c.opt, after) <=> IsActive(c.opt, a))
  <2> HIDE DEF zero, after
  <2> QED
    BY <1>1 DEF StillUnlessActive, IsAim, IsActive
<1>3. CASE ~AimAccepts(c.opt, a, "accel")
  <2>1. ProcessAccelerometer(c, a, sample) = [aim |-> a, out |-> None]
    BY <1>3 DEF ProcessAccelerometer, Result
  <2>2. Still(c, a, accel) => Still(c, a, sample)
    BY <1>3 DEF Still, AimAccepts
  <2> QED
    BY <2>1, <2>2 DEF Releases, StillUnlessActive
<1>4. CASE AimAccepts(c.opt, a, "accel") /\ cal = <<>> /\ a.zero = None
  <2>1. ProcessAccelerometer(c, a, sample) = [aim |-> after, out |-> None]
    BY <1>4 DEF ProcessAccelerometer, Result
  <2>2. c.opt.aim_source \in {"auto", "accel"}
    BY <1>4 DEF AimAccepts
  <2>3. Still(c, a, accel) => Still(c, after, sample)
    BY <1>1, <1>4, <2>2 DEF Still
  <2> QED
    <3> HIDE DEF after, zero
    <3> QED
      BY <1>1, <1>2, <2>1, <2>3 DEF Releases, StillUnlessActive
<1>5. CASE AimAccepts(c.opt, a, "accel") /\ ~(cal = <<>> /\ a.zero = None)
  <2>1. PICK vector : ProcessAccelerometer(c, a, sample) = Emit(c.opt, after, vector)
    BY <1>5 DEF ProcessAccelerometer
  <2> HIDE DEF after, zero
  <2> QED
    BY <1>1, <1>2, <2>1, EmitReleases
<1> QED
  BY <1>3, <1>4, <1>5

LEMMA ActivationReleases ==
  ASSUME NEW c, NEW a, NEW accel, NEW button \in {"b", "z", "c"}, NEW pressed \in BOOLEAN,
         StillUnlessActive(c, a, accel)
  PROVE  /\ Releases(c, a, ActivationKey(c.opt, a, button, pressed), accel)
         /\ ActivationKey(c.opt, a, button, pressed).aim.ir \in {None, a.ir}
<1> DEFINE up == [a EXCEPT !.held = TRUE]
           next == [a EXCEPT !.held = pressed]
<1>1. /\ up = [held |-> TRUE, source |-> a.source, ir |-> a.ir, zero |-> a.zero, last |-> a.last]
      /\ next = [held |-> pressed, source |-> a.source, ir |-> a.ir, zero |-> a.zero, last |-> a.last]
  <2>1. \A h : [a EXCEPT !.held = h] =
          [held |-> h, source |-> a.source, ir |-> a.ir, zero |-> a.zero, last |-> a.last]
    BY DEF StillUnlessActive, IsAim
  <2> QED
    BY <2>1, Zenon
<1>2. ActivationKey(c.opt, a, button, pressed) =
        CASE ~Enabled(c.opt) -> Result(a, None)
          [] Enabled(c.opt) /\ c.opt.aim_activation = "always" -> Result(up, None)
          [] Enabled(c.opt) /\ c.opt.aim_activation \notin {"always", button} -> Result(a, None)
          [] Enabled(c.opt) /\ c.opt.aim_activation = button ->
               IF a.held /\ ~pressed THEN AimReset(next) ELSE Result(next, None)
  BY Zenon DEF ActivationKey
<1> HIDE DEF up, next
<1>3. IsAim(up) /\ IsAim(next) /\ (Still(c, a, accel) => Still(c, next, accel))
  BY <1>1 DEF IsAim, Still
<1>4. CASE ~Enabled(c.opt) \/ (Enabled(c.opt) /\ c.opt.aim_activation \notin {"always", button})
  BY <1>2, <1>4 DEF Result, Releases, StillUnlessActive
<1>5. CASE Enabled(c.opt) /\ c.opt.aim_activation = "always"
  <2>1. ActivationKey(c.opt, a, button, pressed) = [aim |-> up, out |-> None]
    BY <1>2, <1>5 DEF Result
  <2>2. IsActive(c.opt, up)
    BY <1>5 DEF IsActive
  <2> QED
    BY <1>1, <1>3, <2>1, <2>2 DEF Releases, StillUnlessActive
<1>6. CASE Enabled(c.opt) /\ c.opt.aim_activation = button
  <2>1. ActivationKey(c.opt, a, button, pressed) =
          IF a.held /\ ~pressed THEN AimReset(next) ELSE [aim |-> next, out |-> None]
    BY <1>2, <1>6 DEF Result
  <2>2. CASE a.held /\ ~pressed
    BY <1>1, <2>1, <2>2, ResetReleases
  <2>3. CASE ~(a.held /\ ~pressed)
    <3>1. IsActive(c.opt, next) => pressed
      BY <1>1, <1>6 DEF IsActive
    <3>2. pressed => IsActive(c.opt, next)
      BY <1>1, <1>6 DEF IsActive
    <3>3. ~pressed => ~IsActive(c.opt, a)
      BY <1>6, <2>3 DEF IsActive
    <3>4. ActivationKey(c.opt, a, button, pressed) = [aim |-> next, out |-> None]
      BY <2>1, <2>3
    <3> QED
      BY <1>1, <1>3, <3>2, <3>3, <3>4 DEF Releases, StillUnlessActive
  <2> QED
    BY <2>2, <2>3
<1> QED
  BY <1>4, <1>5, <1>6

(***************************************************************************)
(* The session.                                                            *)
(***************************************************************************)
AimInv ==
  /\ IsAim(aim)
  /\ seen = [accel |-> seen.accel, ir |-> seen.ir]
  /\ Running =>
       /\ ~IsActive(config.opt, aim) => Still(config, aim, seen.accel) /\ stick = Zero
       /\ config.opt.aim_mode # "right-stick" => stick = Zero
       /\ seen.ir = None => aim.ir = None /\ base = None
       /\ ~Has(Profile, "desktop") => base = None

\* A session starts with nothing (engine.rs reset).
LEMMA NewSessionStill == ASSUME NewSession PROVE AimInv'
<1>1. /\ aim' = [held |-> FALSE, source |-> "none", ir |-> None, zero |-> None, last |-> Zero]
      /\ seen' = [accel |-> None, ir |-> None] /\ stick' = Zero /\ base' = None
  BY DEF NewSession, NewAim
<1>2. IsAim(aim') /\ \A c : Still(c, aim', seen'.accel)
  BY <1>1 DEF IsAim, Still
<1> QED
  BY <1>1, <1>2 DEF AimInv

\* What a step of the aim leaves on the right stick (engine.rs emit_aim).
LEMMA EmitAimKeeps ==
  ASSUME AimInv, Running, UNCHANGED <<config, device>>, NEW r, NEW mapped, EmitAim(r, mapped),
         Releases(config, aim, r, seen'.accel),
         seen' = [accel |-> seen'.accel, ir |-> seen'.ir],
         seen'.ir = None => r.aim.ir = None /\ base' = None,
         ~Has(Profile, "desktop") => base' = None
  PROVE  AimInv'
<1> DEFINE right == <<Clamp(r.out[1], -32768, 32767), Clamp(r.out[2], -32768, 32767)>>
           writes == r.out # None /\ config.opt.aim_mode = "right-stick"
<1>1. aim' = r.aim /\ stick' = IF writes THEN right ELSE stick
  BY DEF EmitAim
<1>2. r.out = Zero => right = Zero /\ Zero # None
  BY DEF Clamp, Zero, None
<1>3. ~IsActive(config.opt, r.aim) => stick' = Zero
  BY <1>1, <1>2 DEF Releases, AimInv
<1>4. config.opt.aim_mode # "right-stick" => stick' = Zero
  BY <1>1 DEF AimInv
<1>5. IsAim(r.aim) /\ (~IsActive(config.opt, r.aim) => Still(config, r.aim, seen'.accel))
  BY DEF Releases, StillUnlessActive
<1> QED
  BY <1>1, <1>3, <1>4, <1>5 DEF AimInv, Running, Has, Profile

\* Every report has the slots of its interface (decode.rs).
LEMMA SampleThere ==
  ASSUME NEW raw
  PROVE  Decoded("accel", raw)[1] # None
<1>1. DOMAIN AxisCodes["accel"][1] = {1, 2, 3} /\ 1 \in DOMAIN AxisCodes["accel"]
  BY DEF AxisCodes
<1>2. Decoded("accel", raw)[1] = [i \in {1, 2, 3} |-> raw[AxisCodes["accel"][1][i]]]
  BY <1>1 DEF Decoded
<1>3. DOMAIN None = {}
  BY DEF None
<1> QED
  BY <1>2, <1>3

LEMMA ReportKeeps == ASSUME AimInv, Report PROVE AimInv'
<1>0. PICK kind \in DOMAIN AxisCodes \ {"ir"} :
        \E raw : Playing(kind) /\ MotionInput(kind, Decoded(kind, raw))
  BY DEF Report
<1>1. PICK raw : Playing(kind) /\ MotionInput(kind, Decoded(kind, raw))
  BY <1>0
<1> DEFINE slots == Decoded(kind, raw)
           mapped == IF NeedsGamepad THEN MapMotion(kind, slots) ELSE {}
           r == CASE kind = "accel" -> ProcessAccelerometer(config, aim, slots[1])
                  [] kind = "motion_plus" -> ProcessMotionPlus(config, aim, slots[1])
                  [] OTHER -> Result(aim, None)
<1>2. Running /\ UNCHANGED <<config, device, base>> /\ EmitAim(r, mapped)
  BY <1>1 DEF Playing, MotionInput
<1>3. seen' = IF kind = "accel" THEN [seen EXCEPT !.accel = slots[1]] ELSE seen
  BY <1>1 DEF MotionInput
<1>4. StillUnlessActive(config, aim, seen.accel)
  BY <1>2 DEF AimInv, StillUnlessActive
<1>5. CASE kind = "accel"
  <2>1. r = ProcessAccelerometer(config, aim, slots[1])
    BY <1>5
  <2>2. slots[1] # None
    BY <1>5, SampleThere
  <2>3. seen' = [accel |-> slots[1], ir |-> seen.ir]
    BY <1>3, <1>5 DEF AimInv
  <2> HIDE DEF slots, r, mapped
  <2>4. Releases(config, aim, r, slots[1]) /\ r.aim.ir \in {None, aim.ir}
    BY <1>4, <2>1, <2>2, ProcessAccelerometerReleases
  <2> QED
    BY <1>2, <2>3, <2>4, EmitAimKeeps DEF AimInv
<1>6. CASE kind = "motion_plus"
  <2>1. r = ProcessMotionPlus(config, aim, slots[1])
    BY <1>6
  <2> HIDE DEF slots, r, mapped
  <2>2. Releases(config, aim, r, seen.accel) /\ r.aim.ir \in {None, aim.ir}
    BY <1>4, <2>1, ProcessMotionPlusReleases
  <2>3. seen' = seen
    BY <1>3, <1>6
  <2> QED
    BY <1>2, <2>2, <2>3, EmitAimKeeps DEF AimInv
<1>7. CASE kind \notin {"accel", "motion_plus"}
  <2>1. r = [aim |-> aim, out |-> None]
    BY <1>7 DEF Result
  <2> HIDE DEF slots, r, mapped
  <2>2. Releases(config, aim, r, seen.accel) /\ r.aim.ir = aim.ir
    BY <1>4, <2>1 DEF Releases, StillUnlessActive
  <2>3. seen' = seen
    BY <1>3, <1>7
  <2> QED
    BY <1>2, <2>2, <2>3, EmitAimKeeps DEF AimInv
<1> QED
  BY <1>5, <1>6, <1>7

\* A frame without points ends the tracking: of the pointer, if the profile has
\* one, and of the aim.
LEMMA IrReportKeeps == ASSUME AimInv, IrReport PROVE AimInv'
<1>1. PICK frame \in Frames :
        LET point == SelectIr(frame, config.opt.ir_tracking)
        IN /\ Playing("ir")
           /\ base' = IF Has(Profile, "desktop") THEN UpdateIr(config.opt, base, point).base ELSE base
           /\ EmitAim(ProcessIr(config, aim, point), {})
           /\ seen' = [seen EXCEPT !.ir = point]
  BY DEF IrReport
<1> DEFINE point == SelectIr(frame, config.opt.ir_tracking)
           r == ProcessIr(config, aim, point)
<1> HIDE DEF point
<1>2. Running /\ UNCHANGED <<config, device>> /\ EmitAim(r, {})
  BY <1>1 DEF Playing, point
<1>3. base' = IF Has(Profile, "desktop") THEN UpdateIr(config.opt, base, point).base ELSE base
  BY <1>1 DEF point
<1>4. seen' = [accel |-> seen.accel, ir |-> point]
  BY <1>1 DEF AimInv, point
<1>5. Releases(config, aim, r, seen.accel) /\ (point = None => r.aim.ir = None)
  <2>1. StillUnlessActive(config, aim, seen.accel)
    BY <1>2 DEF AimInv, StillUnlessActive
  <2> QED
    BY <2>1, ProcessIrReleases
<1>6. point = None => base' = None
  BY <1>2, <1>3 DEF UpdateIr, AimInv
<1>7. ~Has(Profile, "desktop") => base' = None
  BY <1>2, <1>3 DEF AimInv
<1> HIDE DEF r
<1> QED
  BY <1>2, <1>4, <1>5, <1>6, <1>7, EmitAimKeeps

LEMMA AimKeyKeeps == ASSUME AimInv, AimKey PROVE AimInv'
<1>1. PICK button \in {"b", "z", "c"}, pressed \in BOOLEAN :
        /\ Playing(Interface(button))
        /\ EmitAim(ActivationKey(config.opt, aim, button, pressed), {})
        /\ UNCHANGED <<base, seen>>
  BY DEF AimKey
<1> DEFINE r == ActivationKey(config.opt, aim, button, pressed)
<1>2. Running /\ UNCHANGED <<config, device>>
  BY <1>1 DEF Playing
<1>3. StillUnlessActive(config, aim, seen.accel)
  BY <1>2 DEF AimInv, StillUnlessActive
<1>4. Releases(config, aim, r, seen.accel) /\ r.aim.ir \in {None, aim.ir}
  BY <1>3, ActivationReleases
<1> HIDE DEF r
<1> QED
  BY <1>1, <1>2, <1>4, EmitAimKeeps DEF AimInv, r

\* The control center and the files are apart from the session.
LEMMA EditingKeeps ==
  ASSUME AimInv,
         \/ Choose \/ ToggleScreen \/ DragScreen \/ ToggleCalibration \/ Calibrate
         \/ AddRule \/ ChangeRule \/ MoveRule \/ RemoveRule
         \/ Retarget \/ Load \/ Save \/ Administer \/ PasteCalibration
         \/ UNCHANGED vars
  PROVE  AimInv'
<1>1. UNCHANGED <<config, device, session>>
  BY DEF Choose, ToggleScreen, DragScreen, ToggleCalibration, Calibrate, AddRule, ChangeRule,
     MoveRule, RemoveRule, Edited, Retarget, Load, Save, Administer, PasteCalibration, vars
<1> QED
  BY <1>1 DEF AimInv, session, Running, Profile, Has

THEOREM ControlsAim == ControlsSpec => []AimInv
<1>1. ControlsInit => AimInv
  <2> SUFFICES ASSUME ControlsInit PROVE AimInv
    OBVIOUS
  <2>1. aim = [held |-> FALSE, source |-> "none", ir |-> None, zero |-> None, last |-> Zero]
    BY DEF ControlsInit, NewAim
  <2>2. IsAim(aim) /\ ~Running
    BY <2>1 DEF IsAim, ControlsInit, Running
  <2>3. seen = [accel |-> None, ir |-> None]
    BY DEF ControlsInit
  <2> QED
    BY <2>2, <2>3 DEF AimInv
<1>2. AimInv /\ [ControlsNext]_vars => AimInv'
  <2> SUFFICES ASSUME AimInv, [ControlsNext]_vars PROVE AimInv'
    OBVIOUS
  <2>1. CASE Start \/ Stop \/ InterfaceLost
    BY <2>1, NewSessionStill DEF Start, Stop, InterfaceLost
  <2>2. CASE Report \/ IrReport \/ AimKey
    BY <2>2, ReportKeeps, IrReportKeeps, AimKeyKeeps
  <2> QED
    BY <2>1, <2>2, EditingKeeps DEF ControlsNext
<1> QED
  BY <1>1, <1>2, PTL DEF ControlsSpec

\* A released aim leaves the stick at rest and no vector to smooth the next with
\* (aim.rs reset, emit; engine.rs emit_aim).
THEOREM ControlsAimReleased == ControlsSpec => []AimReleased
<1>1. AimInv => AimReleased
  BY DEF AimInv, AimReleased, Still
<1> QED
  BY <1>1, ControlsAim, PTL

\* No baseline outlives the activation or the visibility it was taken in
\* (aim.rs process_ir, process_accelerometer; pointer.rs update_ir).
THEOREM ControlsBaselineFresh == ControlsSpec => []BaselineFresh
<1>1. AimInv => BaselineFresh
  BY DEF AimInv, BaselineFresh, Still
<1> QED
  BY <1>1, ControlsAim, PTL

-----------------------------------------------------------------------------
(***************************************************************************)
(* Recursive functions.  Such a function is the one that satisfies its     *)
(* equation; that there is one is shown for longer and longer intervals.   *)
(***************************************************************************)
\* Induction over the naturals, with a set in place of a predicate.
LEMMA SetInduction ==
  ASSUME NEW S, 0 \in S, \A n \in Nat : n \in S => n + 1 \in S
  PROVE  Nat \subseteq S
<1> DEFINE T == Nat \ S
           R == OpToRel(<, Nat)
<1>1. SUFFICES ASSUME T # {} PROVE FALSE
  OBVIOUS
<1>2. IsWellFoundedOn(R, Nat)
  BY NatLessThanWellFounded
<1>3. PICK x \in T : \A y \in T : <<y, x>> \notin R
  <2>1. T \subseteq Nat
    OBVIOUS
  <2> HIDE DEF R, T
  <2> QED
    BY <1>1, <1>2, <2>1, WFMin
<1>4. x \in Nat /\ x # 0 /\ x - 1 \in Nat
  OBVIOUS
<1>5. x - 1 \in T
  BY <1>4
<1>6. <<x - 1, x>> \in R
  BY <1>4, <1>5 DEF OpToRel
<1> QED
  BY <1>3, <1>5, <1>6

\* The configurations after each line (config.rs apply_bytes).
AfterLines(c, lines, m, f) ==
  f = [n \in 0..m |->
        IF n = 0 THEN c
        ELSE LET before == f[n - 1]
             IN IF before = Refused THEN Refused ELSE ApplyLine(before, lines[n])]

LEMMA AfterLinesExists ==
  ASSUME NEW c, NEW lines, NEW m \in Nat
  PROVE  \E f : AfterLines(c, lines, m, f)
<1> DEFINE After(before, n) == IF before = Refused THEN Refused ELSE ApplyLine(before, lines[n])
           S == {k \in Nat : \E f : f = [n \in 0..k |-> IF n = 0 THEN c ELSE After(f[n - 1], n)]}
<1> HIDE DEF After
<1>1. 0 \in S
  <2> DEFINE f == [n \in 0..0 |-> c]
  <2>1. f = [n \in 0..0 |-> IF n = 0 THEN c ELSE After(f[n - 1], n)]
    OBVIOUS
  <2> QED
    BY <2>1
<1>2. ASSUME NEW k \in Nat, k \in S PROVE k + 1 \in S
  <2>1. PICK f : f = [n \in 0..k |-> IF n = 0 THEN c ELSE After(f[n - 1], n)]
    BY <1>2
  <2> DEFINE g == [n \in 0..(k + 1) |-> IF n \in 0..k THEN f[n] ELSE After(f[k], n)]
  <2>2. ASSUME NEW n \in 0..(k + 1) PROVE g[n] = IF n = 0 THEN c ELSE After(g[n - 1], n)
    <3>1. n = 0 \/ n - 1 \in 0..k
      OBVIOUS
    <3>2. n # 0 => g[n - 1] = f[n - 1]
      BY <3>1
    <3>3. n \in 0..k => f[n] = IF n = 0 THEN c ELSE After(f[n - 1], n)
      BY <2>1
    <3> QED
      BY <3>2, <3>3
  <2>3. g = [n \in 0..(k + 1) |-> IF n = 0 THEN c ELSE After(g[n - 1], n)]
    BY <2>2
  <2> HIDE DEF g
  <2> QED
    BY <2>3
<1>3. Nat \subseteq S
  <2> HIDE DEF S
  <2> QED
    BY <1>1, <1>2, SetInduction
<1> QED
  BY <1>3 DEF AfterLines, After

LEMMA ApplyBytesLines ==
  ASSUME NEW c, NEW lines, Len(lines) \in Nat
  PROVE  \E f : AfterLines(c, lines, Len(lines), f) /\ ApplyBytes(c, lines) = f[Len(lines)]
<1> DEFINE F == CHOOSE f : AfterLines(c, lines, Len(lines), f)
<1>1. AfterLines(c, lines, Len(lines), F)
  BY AfterLinesExists, Zenon
<1>2. ApplyBytes(c, lines) = F[Len(lines)]
  BY DEF ApplyBytes, AfterLines
<1> QED
  BY <1>1, <1>2

\* What is kept of each prefix of a sequence (config.rs set_rule, pointer.rs
\* select_ir_point).
KeptUpto(s, keep, m, f) ==
  f = [n \in 0..m |->
        IF n = 0 THEN <<>> ELSE IF n \in keep THEN Append(f[n - 1], s[n]) ELSE f[n - 1]]

LEMMA KeptUptoExists ==
  ASSUME NEW s, NEW keep, NEW m \in Nat
  PROVE  \E f : KeptUpto(s, keep, m, f)
<1> DEFINE After(before, n) == IF n \in keep THEN Append(before, s[n]) ELSE before
           S == {k \in Nat : \E f : f = [n \in 0..k |-> IF n = 0 THEN <<>> ELSE After(f[n - 1], n)]}
<1> HIDE DEF After
<1>1. 0 \in S
  <2> DEFINE f == [n \in 0..0 |-> <<>>]
  <2>1. f = [n \in 0..0 |-> IF n = 0 THEN <<>> ELSE After(f[n - 1], n)]
    OBVIOUS
  <2> QED
    BY <2>1
<1>2. ASSUME NEW k \in Nat, k \in S PROVE k + 1 \in S
  <2>1. PICK f : f = [n \in 0..k |-> IF n = 0 THEN <<>> ELSE After(f[n - 1], n)]
    BY <1>2
  <2> DEFINE g == [n \in 0..(k + 1) |-> IF n \in 0..k THEN f[n] ELSE After(f[k], n)]
  <2>2. ASSUME NEW n \in 0..(k + 1) PROVE g[n] = IF n = 0 THEN <<>> ELSE After(g[n - 1], n)
    <3>1. n = 0 \/ n - 1 \in 0..k
      OBVIOUS
    <3>2. n # 0 => g[n - 1] = f[n - 1]
      BY <3>1
    <3>3. n \in 0..k => f[n] = IF n = 0 THEN <<>> ELSE After(f[n - 1], n)
      BY <2>1
    <3> QED
      BY <3>2, <3>3
  <2>3. g = [n \in 0..(k + 1) |-> IF n = 0 THEN <<>> ELSE After(g[n - 1], n)]
    BY <2>2
  <2> HIDE DEF g
  <2> QED
    BY <2>3
<1>3. Nat \subseteq S
  <2> HIDE DEF S
  <2> QED
    BY <1>1, <1>2, SetInduction
<1> QED
  BY <1>3 DEF KeptUpto, After

LEMMA KeptIsUpto ==
  ASSUME NEW s, NEW keep, Len(s) \in Nat
  PROVE  \E f : KeptUpto(s, keep, Len(s), f) /\ Kept(s, keep) = f[Len(s)]
<1> DEFINE F == CHOOSE f : KeptUpto(s, keep, Len(s), f)
<1>1. KeptUpto(s, keep, Len(s), F)
  BY KeptUptoExists, Zenon
<1>2. Kept(s, keep) = F[Len(s)]
  BY DEF Kept, KeptUpto
<1> QED
  BY <1>1, <1>2

\* t holds what s has at the positions to keep up to n, in the order of s, and idx
\* says where it was.
Picks(s, keep, n, t, idx) ==
  /\ Len(t) \in 0..n
  /\ t = [j \in 1..Len(t) |-> s[idx[j]]]
  /\ idx \in [1..Len(t) -> (1..n) \cap keep]
  /\ \A i, j \in 1..Len(t) : i < j => idx[i] < idx[j]
  /\ \A i \in (1..n) \cap keep : \E j \in 1..Len(t) : idx[j] = i

LEMMA PicksNone == ASSUME NEW s, NEW keep PROVE Picks(s, keep, 0, <<>>, <<>>)
<1>1. Len(<<>>) = 0 /\ 1..0 = {} /\ <<>> = [j \in 1..0 |-> s[<<>>[j]]]
  OBVIOUS
<1>2. <<>> \in [1..0 -> (1..0) \cap keep]
  OBVIOUS
<1> QED
  BY <1>1, <1>2 DEF Picks

\* An element is kept: it comes last.
LEMMA PicksNext ==
  ASSUME NEW s, NEW keep, NEW n \in Nat, NEW t, NEW idx, Picks(s, keep, n, t, idx), n + 1 \in keep
  PROVE  \E i : Picks(s, keep, n + 1, Append(t, s[n + 1]), i)
<1> DEFINE l == Len(t)
           u == [j \in 1..(l + 1) |-> IF j = l + 1 THEN s[n + 1] ELSE t[j]]
           i == [j \in 1..(l + 1) |-> IF j = l + 1 THEN n + 1 ELSE idx[j]]
<1>1. l \in 0..n /\ t = [j \in 1..l |-> s[idx[j]]]
  BY DEF Picks
<1>2. t \in Seq({s[idx[j]] : j \in 1..l})
  BY <1>1
<1>3. Append(t, s[n + 1]) = u /\ Len(u) = l + 1
  <2>1. t \in Seq({s[idx[j]] : j \in 1..l} \cup {s[n + 1]})
    BY <1>1
  <2> QED
    BY <1>1, <2>1
<1> HIDE DEF l
<1>4. \A j \in 1..l : i[j] = idx[j] /\ idx[j] \in (1..n) \cap keep
  BY <1>1 DEF Picks, l
<1>5. i[l + 1] = n + 1 /\ i \in [1..(l + 1) -> (1..(n + 1)) \cap keep]
  BY <1>1, <1>4
<1>6. u = [j \in 1..(l + 1) |-> s[i[j]]]
  BY <1>1
<1>7. \A a, b \in 1..(l + 1) : a < b => i[a] < i[b]
  <2> SUFFICES ASSUME NEW a \in 1..(l + 1), NEW b \in 1..(l + 1), a < b PROVE i[a] < i[b]
    OBVIOUS
  <2>1. a \in 1..l
    BY <1>1
  <2>2. i[a] = idx[a] /\ idx[a] \in 1..n
    BY <1>4, <2>1
  <2> HIDE DEF i
  <2>3. CASE b = l + 1
    BY <1>5, <2>2, <2>3
  <2>4. CASE b # l + 1
    <3>1. b \in 1..l
      BY <1>1, <2>4
    <3> QED
      BY <1>4, <2>1, <2>2, <3>1 DEF Picks, l
  <2> QED
    BY <2>3, <2>4
<1>8. \A a \in (1..(n + 1)) \cap keep : \E j \in 1..(l + 1) : i[j] = a
  <2> SUFFICES ASSUME NEW a \in (1..(n + 1)) \cap keep PROVE \E j \in 1..(l + 1) : i[j] = a
    OBVIOUS
  <2>1. CASE a = n + 1
    BY <1>1, <1>5, <2>1
  <2>2. CASE a # n + 1
    <3>1. PICK j \in 1..l : idx[j] = a
      BY <2>2 DEF Picks, l
    <3> QED
      BY <1>1, <1>4, <3>1
  <2> QED
    BY <2>1, <2>2
<1> HIDE DEF u, i
<1>9. Picks(s, keep, n + 1, u, i)
  BY <1>1, <1>3, <1>5, <1>6, <1>7, <1>8 DEF Picks
<1> QED
  BY <1>3, <1>9

LEMMA PicksSkip ==
  ASSUME NEW s, NEW keep, NEW n \in Nat, NEW t, NEW idx, Picks(s, keep, n, t, idx), n + 1 \notin keep
  PROVE  Picks(s, keep, n + 1, t, idx)
<1>1. (1..(n + 1)) \cap keep = (1..n) \cap keep
  OBVIOUS
<1> QED
  BY <1>1 DEF Picks

LEMMA KeptPicks ==
  ASSUME NEW s, NEW keep, Len(s) \in Nat
  PROVE  \E idx : Picks(s, keep, Len(s), Kept(s, keep), idx)
<1> DEFINE len == Len(s)
<1>1. PICK f : KeptUpto(s, keep, len, f) /\ Kept(s, keep) = f[len]
  BY KeptIsUpto
<1> DEFINE S == {n \in Nat : n <= len => \E idx : Picks(s, keep, n, f[n], idx)}
<1> HIDE DEF len
<1>2. 0 \in S
  <2>1. len \in Nat => f[0] = <<>>
    BY <1>1 DEF KeptUpto
  <2> QED
    BY <2>1, PicksNone DEF len
<1>3. ASSUME NEW n \in Nat, n \in S PROVE n + 1 \in S
  <2> SUFFICES ASSUME n + 1 <= len PROVE \E idx : Picks(s, keep, n + 1, f[n + 1], idx)
    OBVIOUS
  <2>1. f[n + 1] = IF n + 1 \in keep THEN Append(f[n], s[n + 1]) ELSE f[n]
    <3>1. n + 1 \in 0..len /\ n + 1 # 0 /\ (n + 1) - 1 = n
      BY DEF len
    <3> QED
      BY <1>1, <3>1 DEF KeptUpto
  <2>2. PICK idx : Picks(s, keep, n, f[n], idx)
    BY <1>3 DEF len
  <2> QED
    BY <2>1, <2>2, PicksNext, PicksSkip
<1>4. Nat \subseteq S
  <2> HIDE DEF S
  <2> QED
    BY <1>2, <1>3, SetInduction
<1> QED
  BY <1>1, <1>4 DEF len

-----------------------------------------------------------------------------
(***************************************************************************)
(* The rules for devices.  A rule that is set again takes its place at the *)
(* end, so the last rule that matches a device is the last one that was    *)
(* set (config.rs set_rule, profile_for_device).                           *)
(***************************************************************************)
Same(rule, other) == rule.kind = other.kind /\ rule.match_text = other.match_text
KeysOf(rules) == {<<rules[i].kind, rules[i].match_text>> : i \in DOMAIN rules}

Rule(kind, text, value) == [kind |-> kind, match_text |-> text, profile |-> value]
IsRule(rule) == rule = Rule(rule.kind, rule.match_text, rule.profile)

\* No two rules of a configuration are for the same text.
RulesOK(rules) ==
  /\ IsSeq(rules)
  /\ \A i \in DOMAIN rules : rules[i].kind \in RuleKinds /\ IsRule(rules[i])
  /\ \A i, j \in DOMAIN rules : Same(rules[i], rules[j]) => i = j

Suits(rule, d) == rule.match_text \in d[rule.kind]

\* The rules give the device d the profile p.
Decides(rules, d, p) ==
  \E i \in DOMAIN rules :
    /\ Suits(rules[i], d) /\ rules[i].profile = p
    /\ \A j \in DOMAIN rules : Suits(rules[j], d) => j <= i

Differing(rules, kind, text) == {i \in DOMAIN rules : rules[i].kind # kind \/ rules[i].match_text # text}
Renewed(rules, kind, text, value) ==
  Append(Kept(rules, Differing(rules, kind, text)), Rule(kind, text, value))

\* An element is put at the end of a sequence.
LEMMA AppendIs ==
  ASSUME NEW t, IsSeq(t), NEW e
  PROVE  /\ Len(Append(t, e)) = Len(t) + 1
         /\ Append(t, e) = [j \in 1..(Len(t) + 1) |-> IF j = Len(t) + 1 THEN e ELSE t[j]]
         /\ IsSeq(Append(t, e))
<1> DEFINE l == Len(t)
           U == {t[j] : j \in 1..l} \cup {e}
           u == [j \in 1..(l + 1) |-> IF j = l + 1 THEN e ELSE t[j]]
<1>1. l \in Nat /\ t = [j \in 1..l |-> t[j]]
  BY DEF IsSeq
<1>2. t \in Seq(U)
  BY <1>1
<1>3. Append(t, e) = u /\ Len(u) = l + 1
  <2> DEFINE a == Append(t, e)
  <2>1. e \in U
    OBVIOUS
  <2> HIDE DEF U
  <2>2. Len(a) = l + 1
    BY <1>2, <2>1
  <2>3. a = [j \in 1..Len(a) |-> a[j]]
    <3>1. a \in Seq(U)
      BY <1>2, <2>1
    <3> HIDE DEF a
    <3> QED
      BY <3>1
  <2>4. \A j \in 1..(l + 1) : a[j] = IF j = l + 1 THEN e ELSE t[j]
    BY <1>1, <1>2, <2>1
  <2> HIDE DEF a, l
  <2>5. a = u
    BY <2>2, <2>3, <2>4
  <2>6. Len(u) = l + 1
    BY <2>2, <2>5
  <2> QED
    BY <2>5, <2>6 DEF a
<1>4. IsSeq(u)
  BY <1>1, <1>3 DEF IsSeq
<1> QED
  BY <1>1, <1>3, <1>4

\* The rules before the new one are others, each from its place in idx.
Renews(rules, kind, text, value, next, m, idx) ==
  LET keep == Differing(rules, kind, text)
  IN /\ m \in 0..Len(rules)
     /\ m = Len(Kept(rules, keep))
     /\ Len(next) = m + 1
     /\ next = [j \in 1..(m + 1) |-> IF j = m + 1 THEN Rule(kind, text, value) ELSE rules[idx[j]]]
     /\ \A j \in 1..m : idx[j] \in keep
     /\ idx \in [1..m -> 1..Len(rules)]
     /\ \A i, j \in 1..m : i < j => idx[i] < idx[j]
     /\ \A i \in keep : \E j \in 1..m : idx[j] = i

LEMMA RenewedRules ==
  ASSUME NEW rules, IsSeq(rules), NEW kind, NEW text, NEW value
  PROVE  \E m, idx : Renews(rules, kind, text, value, Renewed(rules, kind, text, value), m, idx)
<1> DEFINE n == Len(rules)
           keep == Differing(rules, kind, text)
           others == Kept(rules, keep)
           m == Len(others)
           rule == Rule(kind, text, value)
           next == [j \in 1..(m + 1) |-> IF j = m + 1 THEN rule ELSE others[j]]
<1>1. n \in Nat /\ DOMAIN rules = 1..n
  BY DEF IsSeq
<1>2. keep \subseteq 1..n
  BY <1>1 DEF Differing
<1>3. PICK idx : Picks(rules, keep, n, others, idx)
  BY <1>1, KeptPicks
<1> HIDE DEF n, keep
<1>4. m \in 0..n /\ others = [j \in 1..m |-> rules[idx[j]]]
  BY <1>3 DEF Picks
<1>5. Append(others, rule) = next /\ Len(next) = m + 1
  <2>1. IsSeq(others)
    <3> DEFINE l == m
    <3>1. l \in Nat /\ l = Len(others) /\ others = [a \in 1..l |-> rules[idx[a]]]
      BY <1>1, <1>4
    <3> HIDE DEF others, l
    <3> QED
      BY <3>1 DEF IsSeq
  <2> QED
    BY <2>1, AppendIs
<1>6. (1..n) \cap keep = keep
  BY <1>2
<1>7. idx \in [1..m -> keep] /\ \A i \in keep : \E j \in 1..m : idx[j] = i
  BY <1>3, <1>6 DEF Picks
<1>8. \A i, j \in 1..m : i < j => idx[i] < idx[j]
  BY <1>3 DEF Picks
<1>9. next = [j \in 1..(m + 1) |-> IF j = m + 1 THEN rule ELSE rules[idx[j]]]
  <2> DEFINE l == m
  <2>1. l \in Nat /\ others = [j \in 1..l |-> rules[idx[j]]]
    BY <1>1, <1>4
  <2>2. next = [j \in 1..(l + 1) |-> IF j = l + 1 THEN rule ELSE others[j]]
    OBVIOUS
  <2> HIDE DEF next, l, others
  <2>3. \A j \in 1..(l + 1) : j # l + 1 => j \in 1..l
    BY <2>1
  <2>4. next = [j \in 1..(l + 1) |-> IF j = l + 1 THEN rule ELSE rules[idx[j]]]
    BY <2>1, <2>2, <2>3
  <2> QED
    BY <2>4 DEF l
<1> HIDE DEF m, rule, next
<1>10. Renews(rules, kind, text, value, next, m, idx)
  BY <1>2, <1>4, <1>5, <1>7, <1>8, <1>9 DEF Renews, n, keep, others, rule, m
<1> QED
  BY <1>5, <1>10 DEF Renewed, others, keep, rule

LEMMA RenewedOK ==
  ASSUME NEW rules, RulesOK(rules), NEW kind \in RuleKinds, NEW text, NEW value,
         NEW next, NEW m, NEW idx, Renews(rules, kind, text, value, next, m, idx)
  PROVE  /\ RulesOK(next)
         /\ KeysOf(next) = KeysOf(rules) \cup {<<kind, text>>}
         /\ m = Len(rules) => <<kind, text>> \notin KeysOf(rules)
<1> DEFINE n == Len(rules)
           keep == Differing(rules, kind, text)
           rule == Rule(kind, text, value)
<1>1. n \in Nat /\ DOMAIN rules = 1..n
  BY DEF RulesOK, IsSeq
<1>2. /\ m \in 0..n /\ Len(next) = m + 1
      /\ next = [j \in 1..(m + 1) |-> IF j = m + 1 THEN rule ELSE rules[idx[j]]]
      /\ \A j \in 1..m : idx[j] \in keep
      /\ idx \in [1..m -> 1..n]
      /\ \A i, j \in 1..m : i < j => idx[i] < idx[j]
      /\ \A i \in keep : \E j \in 1..m : idx[j] = i
  BY DEF Renews
<1>3. /\ rule.kind = kind /\ rule.match_text = text /\ IsRule(rule)
      /\ \A i \in 1..n : i \in keep <=> rules[i].kind # kind \/ rules[i].match_text # text
      /\ keep \subseteq 1..n
  BY <1>1 DEF Rule, IsRule, Differing
<1> HIDE DEF n, keep, rule
<1>4. /\ DOMAIN next = 1..(m + 1) /\ next[m + 1] = rule
      /\ \A j \in 1..m : next[j] = rules[idx[j]] /\ idx[j] \in 1..n /\ idx[j] \in keep
  BY <1>1, <1>2
<1>5. IsSeq(next)
  BY <1>1, <1>2, <1>4 DEF IsSeq
<1>6. \A j \in 1..(m + 1) : j = m + 1 \/ j \in 1..m
  BY <1>1, <1>2
<1>7. \A j \in DOMAIN next : next[j].kind \in RuleKinds /\ IsRule(next[j])
  <2>1. \A i \in 1..n : rules[i].kind \in RuleKinds /\ IsRule(rules[i])
    BY <1>1 DEF RulesOK
  <2> QED
    BY <1>3, <1>4, <1>6, <2>1
<1>8. ASSUME NEW i \in DOMAIN next, NEW j \in DOMAIN next, Same(next[i], next[j])
      PROVE  i = j
  <2>1. CASE i \in 1..m /\ j \in 1..m
    <3>1. Same(rules[idx[i]], rules[idx[j]]) /\ idx[i] \in 1..n /\ idx[j] \in 1..n
      BY <1>4, <1>8, <2>1
    <3>2. idx[i] = idx[j]
      BY <1>1, <3>1 DEF RulesOK
    <3>3. ~(i < j) /\ ~(j < i)
      BY <1>2, <1>4, <2>1, <3>2
    <3> QED
      BY <1>1, <1>2, <2>1, <3>3
  <2>2. \A k \in 1..m : ~Same(rule, next[k]) /\ ~Same(next[k], rule)
    BY <1>3, <1>4 DEF Same
  <2> QED
    BY <1>4, <1>6, <1>8, <2>1, <2>2
<1>9. KeysOf(next) = KeysOf(rules) \cup {<<kind, text>>}
  <2>1. ASSUME NEW k \in KeysOf(next) PROVE k \in KeysOf(rules) \cup {<<kind, text>>}
    <3>1. PICK j \in 1..(m + 1) : k = <<next[j].kind, next[j].match_text>>
      BY <1>4, <2>1 DEF KeysOf
    <3>2. CASE j = m + 1
      BY <1>3, <1>4, <3>1, <3>2
    <3>3. CASE j \in 1..m
      <4>1. k = <<rules[idx[j]].kind, rules[idx[j]].match_text>> /\ idx[j] \in DOMAIN rules
        BY <1>1, <1>4, <3>1, <3>3
      <4> QED
        BY <4>1 DEF KeysOf
    <3> QED
      BY <1>6, <3>2, <3>3
  <2>2. ASSUME NEW k \in KeysOf(rules) PROVE k \in KeysOf(next)
    <3>1. PICK i \in 1..n : k = <<rules[i].kind, rules[i].match_text>>
      BY <1>1, <2>2 DEF KeysOf
    <3>2. CASE i \in keep
      <4>1. PICK j \in 1..m : idx[j] = i
        BY <1>2, <3>2
      <4>2. j \in DOMAIN next /\ k = <<next[j].kind, next[j].match_text>>
        BY <1>1, <1>2, <1>4, <3>1, <4>1
      <4> QED
        BY <4>2 DEF KeysOf
    <3>3. CASE i \notin keep
      <4>1. k = <<next[m + 1].kind, next[m + 1].match_text>> /\ m + 1 \in DOMAIN next
        BY <1>1, <1>2, <1>3, <1>4, <3>1, <3>3
      <4> QED
        BY <4>1 DEF KeysOf
    <3> QED
      BY <3>2, <3>3
  <2>3. <<kind, text>> \in KeysOf(next)
    <3>1. <<kind, text>> = <<next[m + 1].kind, next[m + 1].match_text>> /\ m + 1 \in DOMAIN next
      BY <1>1, <1>2, <1>3, <1>4
    <3> QED
      BY <3>1 DEF KeysOf
  <2> QED
    BY <2>1, <2>2, <2>3
<1>10. ASSUME m = n, <<kind, text>> \in KeysOf(rules) PROVE FALSE
  <2>1. PICK i \in 1..n : rules[i].kind = kind /\ rules[i].match_text = text
    BY <1>1, <1>10 DEF KeysOf
  <2>2. i \notin keep
    BY <1>3, <2>1
  <2> DEFINE rest == (1..n) \ {i}
             all == 1..m
  <2>3. IsFiniteSet(1..n) /\ Cardinality(1..n) = n
    BY <1>1, FS_Interval
  <2>4. IsFiniteSet(rest) /\ Cardinality(rest) = n - 1
    BY <2>3, FS_RemoveElement
  <2>5. IsFiniteSet(all) /\ Cardinality(all) = n
    BY <1>10, <2>3
  <2>6. idx \in [all -> rest]
    BY <1>2, <1>4, <2>2
  <2>7. Cardinality(rest) < Cardinality(all)
    BY <1>1, <2>4, <2>5
  <2> HIDE DEF rest, all
  <2>8. \E x, y \in all : x # y /\ idx[x] = idx[y]
    BY <2>4, <2>5, <2>6, <2>7, FS_PigeonHole
  <2> USE DEF all
  <2>9. PICK x \in 1..m, y \in 1..m : x # y /\ idx[x] = idx[y]
    BY <2>8
  <2>10. x < y \/ y < x
    BY <1>1, <1>2, <2>9
  <2>11. idx[x] \in Int
    BY <1>2
  <2> QED
    BY <1>2, <2>9, <2>10, <2>11
<1> QED
  BY <1>5, <1>7, <1>8, <1>9, <1>10 DEF RulesOK, n

\* The rule that was set decides for the devices it is for; for others nothing
\* changes.
LEMMA RenewedDecides ==
  ASSUME NEW rules, RulesOK(rules), NEW kind \in RuleKinds, NEW text, NEW value,
         NEW next, NEW m, NEW idx, Renews(rules, kind, text, value, next, m, idx), NEW d, NEW p
  PROVE  /\ text \in d[kind] => Decides(next, d, value)
         /\ text \notin d[kind] /\ Decides(rules, d, p) => Decides(next, d, p)
<1> DEFINE n == Len(rules)
           keep == Differing(rules, kind, text)
           rule == Rule(kind, text, value)
<1>1. n \in Nat /\ DOMAIN rules = 1..n
  BY DEF RulesOK, IsSeq
<1>2. /\ m \in 0..n
      /\ next = [j \in 1..(m + 1) |-> IF j = m + 1 THEN rule ELSE rules[idx[j]]]
      /\ idx \in [1..m -> 1..n]
      /\ \A i, j \in 1..m : i < j => idx[i] < idx[j]
      /\ \A i \in keep : \E j \in 1..m : idx[j] = i
  BY DEF Renews
<1>3. /\ rule.kind = kind /\ rule.match_text = text /\ rule.profile = value
      /\ \A i \in 1..n : i \notin keep => rules[i].kind = kind /\ rules[i].match_text = text
  BY <1>1 DEF Rule, Differing
<1> HIDE DEF n, keep, rule
<1>4. /\ DOMAIN next = 1..(m + 1) /\ next[m + 1] = rule /\ m + 1 \in 1..(m + 1)
      /\ \A j \in 1..m : next[j] = rules[idx[j]] /\ idx[j] \in 1..n
      /\ \A j \in 1..(m + 1) : j <= m + 1 /\ (j = m + 1 \/ j \in 1..m)
      /\ \A j \in 1..m : j \in 1..(m + 1)
  BY <1>1, <1>2
<1>5. Suits(rule, d) <=> text \in d[kind]
  BY <1>3 DEF Suits
<1>6. text \in d[kind] => Decides(next, d, value)
  BY <1>3, <1>4, <1>5 DEF Decides
<1>7. ASSUME text \notin d[kind], Decides(rules, d, p) PROVE Decides(next, d, p)
  <2>1. PICK i \in 1..n : /\ Suits(rules[i], d) /\ rules[i].profile = p
                          /\ \A j \in 1..n : Suits(rules[j], d) => j <= i
    BY <1>1, <1>7 DEF Decides
  <2>2. i \in keep
    BY <1>3, <1>7, <2>1 DEF Suits
  <2>3. PICK k \in 1..m : idx[k] = i
    BY <1>2, <2>2
  <2>4. Suits(next[k], d) /\ next[k].profile = p /\ k \in DOMAIN next
    BY <1>4, <2>1, <2>3
  <2>5. ASSUME NEW j \in DOMAIN next, Suits(next[j], d) PROVE j <= k
    <3>1. j \in 1..m
      BY <1>4, <1>5, <1>7, <2>5
    <3>2. idx[j] <= i
      BY <1>4, <2>1, <2>5, <3>1
    <3>3. ~(k < j)
      BY <1>1, <1>2, <1>4, <2>1, <2>3, <3>1, <3>2
    <3> QED
      BY <1>1, <1>2, <3>1, <3>3
  <2> QED
    BY <2>4, <2>5 DEF Decides
<1> QED
  BY <1>6, <1>7

\* There are as many rules as texts they are for.
LEMMA KeyBound ==
  ASSUME NEW rules, RulesOK(rules)
  PROVE  IsFiniteSet(KeysOf(rules)) /\ Len(rules) <= Cardinality(KeysOf(rules))
<1> DEFINE n == Len(rules)
           all == 1..n
           f == [i \in all |-> <<rules[i].kind, rules[i].match_text>>]
           K == KeysOf(rules)
<1>1. n \in Nat /\ DOMAIN rules = all
  BY DEF RulesOK, IsSeq
<1>2. IsFiniteSet(all) /\ Cardinality(all) = n
  <2> HIDE DEF n
  <2> QED
    BY <1>1, FS_Interval
<1>3. f \in Surjection(all, K)
  BY <1>1 DEF Surjection, KeysOf
<1>4. IsFiniteSet(K)
  BY <1>2, <1>3, FS_Surjection
<1>5. Cardinality(K) \in Nat
  BY <1>4, FS_CardinalityType
<1>6. ASSUME Cardinality(K) < n PROVE FALSE
  <2>1. f \in [all -> K]
    BY <1>1 DEF KeysOf
  <2> HIDE DEF all, f, K
  <2>2. PICK x \in all, y \in all : x # y /\ f[x] = f[y]
    <3>1. \E x, y \in all : x # y /\ f[x] = f[y]
      BY <1>2, <1>4, <1>6, <2>1, FS_PigeonHole
    <3> QED
      BY <3>1
  <2>3. Same(rules[x], rules[y])
    BY <2>2 DEF Same, f
  <2> QED
    BY <1>1, <2>2, <2>3 DEF RulesOK
<1> HIDE DEF K
<1> QED
  BY <1>1, <1>4, <1>5, <1>6 DEF n, K

-----------------------------------------------------------------------------
(***************************************************************************)
(* The configuration: what the lines of any files and the arguments of any *)
(* command line make of the default is refused or has numbers and names    *)
(* where the engine reads them (config.rs apply_line, cli.rs parse_pass2). *)
(***************************************************************************)
OptionsOK(opt) == opt = [o \in Options |-> opt[o]] /\ \A o \in Options : opt[o] \in Accepted[o]
ScreenOK(screen) ==
  screen # <<>> =>
    /\ screen = [side \in ScreenSides |-> screen[side]]
    /\ \A side \in ScreenSides : screen[side] \in Int
CalibrationOK(cal) ==
  /\ cal = [a \in DOMAIN cal |-> cal[a]]
  /\ DOMAIN cal \subseteq Axes
  /\ \A a \in DOMAIN cal : cal[a] \in Int

Fields(c) ==
  c = [opt |-> c.opt, ir_screen |-> c.ir_screen, aim_accel_zero |-> c.aim_accel_zero,
       aim_motion_plus_bias |-> c.aim_motion_plus_bias, device_rules |-> c.device_rules]

ConfigOK(c) ==
  /\ Fields(c)
  /\ OptionsOK(c.opt)
  /\ ScreenOK(c.ir_screen)
  /\ CalibrationOK(c.aim_accel_zero)
  /\ CalibrationOK(c.aim_motion_plus_bias)
  /\ RulesOK(c.device_rules)

RefusedOrOK(c) == c = Refused \/ ConfigOK(c)

LEMMA ParsedInt ==
  ASSUME NEW value, NEW low \in Int, NEW high \in Int, Parsed(value, low, high)
  PROVE  value \in Int
BY DEF Parsed

\* A configuration with one field changed.
LEMMA Rebuilt ==
  ASSUME NEW opt, NEW screen, NEW accel, NEW bias, NEW rules,
         OptionsOK(opt), ScreenOK(screen), CalibrationOK(accel), CalibrationOK(bias),
         RulesOK(rules)
  PROVE  ConfigOK([opt |-> opt, ir_screen |-> screen, aim_accel_zero |-> accel,
                   aim_motion_plus_bias |-> bias, device_rules |-> rules])
BY DEF ConfigOK, Fields

LEMMA DefaultOK == ConfigOK(Default)
<1>1. ScreenOK(<<>>) /\ CalibrationOK(<<>>) /\ RulesOK(<<>>)
  BY DEF ScreenOK, CalibrationOK, RulesOK, IsSeq
<1>2. OptionsOK(Default.opt)
  <2>1. DOMAIN Default.opt = Options
    BY DEF Default, Options, Accepted
  <2>2. Default.opt = [o \in Options |-> Default.opt[o]]
    BY <2>1 DEF Default
  <2>3. \A o \in Options : Default.opt[o] \in Accepted[o]
    <3> DEFINE D(o) == Default.opt[o]
               A(o) == Accepted[o]
    <3>1. /\ D("backend") \in A("backend") /\ D("profile") \in A("profile")
          /\ D("ir_tracking") \in A("ir_tracking") /\ D("ir_aim_mapping") \in A("ir_aim_mapping")
          /\ D("aim_mode") \in A("aim_mode") /\ D("aim_source") \in A("aim_source")
          /\ D("aim_activation") \in A("aim_activation")
      BY DEF Default, Accepted, Profiles
    <3>2. /\ D("desktop_a") \in A("desktop_a") /\ D("desktop_b") \in A("desktop_b")
          /\ D("desktop_plus") \in A("desktop_plus") /\ D("desktop_minus") \in A("desktop_minus")
          /\ D("desktop_home") \in A("desktop_home") /\ D("desktop_one") \in A("desktop_one")
          /\ D("desktop_two") \in A("desktop_two")
      BY DEF Default, Accepted, DesktopActions
    <3>3. /\ D("pointer_speed") \in A("pointer_speed") /\ D("ir_speed") \in A("ir_speed")
          /\ D("ir_deadzone") \in A("ir_deadzone") /\ D("ir_smoothing") \in A("ir_smoothing")
          /\ D("aim_sensitivity") \in A("aim_sensitivity")
          /\ D("aim_smoothing") \in A("aim_smoothing")
          /\ D("aim_calibration_duration") \in A("aim_calibration_duration")
      BY DEF Default, Accepted
    <3>4. D("aim_deadzone") \in A("aim_deadzone")
      <4>1. A("aim_deadzone") = 0..DeadzoneMax /\ D("aim_deadzone") = 4
        BY DEF Default, Accepted
      <4>2. DeadzoneMax \in Int /\ 4 <= DeadzoneMax
        BY DEF DeadzoneMax
      <4> QED
        BY <4>1, <4>2
    <3>5. D("aim_invert_x") \in A("aim_invert_x") /\ D("aim_invert_y") \in A("aim_invert_y")
      <4>1. D("aim_invert_x") = FALSE /\ D("aim_invert_y") = FALSE
        BY Zenon DEF Default
      <4>2. A("aim_invert_x") = BOOLEAN /\ A("aim_invert_y") = BOOLEAN
        BY DEF Accepted
      <4> QED
        BY <4>1, <4>2
    <3>6. Options =
            {"backend", "profile", "pointer_speed", "ir_speed", "ir_deadzone", "ir_smoothing",
             "ir_tracking", "ir_aim_mapping", "aim_mode", "aim_source", "aim_activation",
             "aim_sensitivity", "aim_deadzone", "aim_smoothing", "aim_invert_x", "aim_invert_y",
             "aim_calibration_duration", "desktop_a", "desktop_b", "desktop_plus",
             "desktop_minus", "desktop_home", "desktop_one", "desktop_two"}
      BY DEF Options, Accepted
    <3> HIDE DEF D, A
    <3>7. \A o \in Options : D(o) \in A(o)
      BY <3>1, <3>2, <3>3, <3>4, <3>5, <3>6
    <3> QED
      BY <3>7 DEF D, A
  <2> QED
    BY <2>2, <2>3 DEF OptionsOK
<1> DEFINE opt == Default.opt
<1>3. Default = [opt |-> opt, ir_screen |-> <<>>, aim_accel_zero |-> <<>>,
                 aim_motion_plus_bias |-> <<>>, device_rules |-> <<>>]
  BY DEF Default
<1> HIDE DEF opt
<1>4. OptionsOK(opt)
  BY <1>2 DEF opt
<1> QED
  BY <1>1, <1>3, <1>4, Rebuilt

LEMMA SetOptionOK ==
  ASSUME NEW c, ConfigOK(c), NEW key, NEW value
  PROVE  RefusedOrOK(SetOption(c, key, value))
<1> DEFINE opt == [c.opt EXCEPT ![key] = value]
           d == [c EXCEPT !.opt = opt]
<1>1. CASE key \in Options /\ value \in Accepted[key]
  <2>1. SetOption(c, key, value) = d
    BY <1>1 DEF SetOption
  <2>2. OptionsOK(opt)
    BY <1>1 DEF ConfigOK, OptionsOK
  <2> HIDE DEF opt
  <2>3. d = [opt |-> opt, ir_screen |-> c.ir_screen, aim_accel_zero |-> c.aim_accel_zero,
             aim_motion_plus_bias |-> c.aim_motion_plus_bias, device_rules |-> c.device_rules]
    BY DEF ConfigOK, Fields
  <2> HIDE DEF d
  <2>4. ConfigOK(d)
    BY <2>2, <2>3, Rebuilt DEF ConfigOK
  <2> QED
    BY <2>1, <2>4 DEF RefusedOrOK
<1>2. CASE ~(key \in Options /\ value \in Accepted[key])
  BY <1>2 DEF SetOption, RefusedOrOK
<1> QED
  BY <1>1, <1>2

LEMMA SetScreenOK ==
  ASSUME NEW c, ConfigOK(c), NEW side \in ScreenSides, NEW value
  PROVE  RefusedOrOK(SetScreen(c, side, value))
<1> DEFINE before == IF c.ir_screen = <<>> THEN DefaultScreen ELSE c.ir_screen
           screen == With(before, side, value)
           d == [c EXCEPT !.ir_screen = screen]
<1>1. CASE Parsed(value, 0, 32767)
  <2>1. SetScreen(c, side, value) = d
    BY <1>1 DEF SetScreen
  <2>2. DOMAIN before = ScreenSides /\ \A s \in ScreenSides : before[s] \in Int
    <3>1. DOMAIN DefaultScreen = ScreenSides /\ \A s \in ScreenSides : DefaultScreen[s] \in Int
      BY DEF DefaultScreen, ScreenSides
    <3> QED
      BY <3>1 DEF ConfigOK, ScreenOK
  <2>3. ScreenOK(screen)
    <3>1. value \in Int
      BY <1>1, ParsedInt
    <3> HIDE DEF before
    <3> QED
      BY <3>1, <2>2 DEF With, ScreenOK
  <2> HIDE DEF screen
  <2>4. d = [opt |-> c.opt, ir_screen |-> screen, aim_accel_zero |-> c.aim_accel_zero,
             aim_motion_plus_bias |-> c.aim_motion_plus_bias, device_rules |-> c.device_rules]
    BY DEF ConfigOK, Fields
  <2> HIDE DEF d
  <2>5. ConfigOK(d)
    BY <2>3, <2>4, Rebuilt DEF ConfigOK
  <2> QED
    BY <2>1, <2>5 DEF RefusedOrOK
<1>2. CASE ~Parsed(value, 0, 32767)
  BY <1>2 DEF SetScreen, RefusedOrOK
<1> QED
  BY <1>1, <1>2

LEMMA SetCalOK ==
  ASSUME NEW c, ConfigOK(c), NEW group \in Calibrations, NEW axis \in Axes, NEW value
  PROVE  RefusedOrOK(SetCal(c, group, axis, value))
<1> DEFINE cal == With(c[group], axis, value)
           d == [c EXCEPT ![group] = cal]
<1>1. CASE Parsed(value, -32768, 32767)
  <2>1. SetCal(c, group, axis, value) = d
    BY <1>1 DEF SetCal
  <2>2. CalibrationOK(c[group])
    BY DEF ConfigOK, Calibrations
  <2>3. CalibrationOK(cal)
    <3> DEFINE old == c[group]
    <3>0. value \in Int
      BY <1>1, ParsedInt
    <3> HIDE DEF old
    <3>1. DOMAIN old \subseteq Axes /\ \A a \in DOMAIN old : old[a] \in Int
      BY <2>2 DEF CalibrationOK, old
    <3>2. cal = [a \in DOMAIN old \cup {axis} |-> IF a = axis THEN value ELSE old[a]]
      BY DEF With, old
    <3> HIDE DEF cal
    <3> QED
      BY <3>0, <3>1, <3>2 DEF CalibrationOK
  <2> HIDE DEF cal
  <2>4. CASE group = "aim_accel_zero"
    <3> DEFINE e == [c EXCEPT !.aim_accel_zero = cal]
    <3>0. d = e
      BY <2>4
    <3>1. e = [opt |-> c.opt, ir_screen |-> c.ir_screen, aim_accel_zero |-> cal,
               aim_motion_plus_bias |-> c.aim_motion_plus_bias, device_rules |-> c.device_rules]
      BY DEF ConfigOK, Fields
    <3> HIDE DEF d, e
    <3>2. ConfigOK(e)
      BY <2>3, <3>1, Rebuilt DEF ConfigOK
    <3> QED
      BY <2>1, <3>0, <3>2 DEF RefusedOrOK
  <2>5. CASE group = "aim_motion_plus_bias"
    <3> DEFINE e == [c EXCEPT !.aim_motion_plus_bias = cal]
    <3>0. d = e
      BY <2>5
    <3>1. e = [opt |-> c.opt, ir_screen |-> c.ir_screen, aim_accel_zero |-> c.aim_accel_zero,
               aim_motion_plus_bias |-> cal, device_rules |-> c.device_rules]
      BY DEF ConfigOK, Fields
    <3> HIDE DEF d, e
    <3>2. ConfigOK(e)
      BY <2>3, <3>1, Rebuilt DEF ConfigOK
    <3> QED
      BY <2>1, <3>0, <3>2 DEF RefusedOrOK
  <2> QED
    BY <2>4, <2>5 DEF Calibrations
<1>2. CASE ~Parsed(value, -32768, 32767)
  BY <1>2 DEF SetCal, RefusedOrOK
<1> QED
  BY <1>1, <1>2

WithRules(c, rules) == [c EXCEPT !.device_rules = rules]

LEMMA SetRuleIs ==
  ASSUME NEW c, NEW kind, NEW text, NEW value, SetRule(c, kind, text, value) # Refused
  PROVE  /\ value \in Profiles /\ text # ""
         /\ SetRule(c, kind, text, value) =
              WithRules(c, Renewed(c.device_rules, kind, text, value))
BY DEF SetRule, WithRules, Renewed, Rule, Differing

LEMMA SetRuleOK ==
  ASSUME NEW c, ConfigOK(c), NEW kind \in RuleKinds, NEW text, NEW value
  PROVE  RefusedOrOK(SetRule(c, kind, text, value))
<1> SUFFICES ASSUME SetRule(c, kind, text, value) # Refused
             PROVE  ConfigOK(SetRule(c, kind, text, value))
  BY DEF RefusedOrOK
<1> DEFINE rules == Renewed(c.device_rules, kind, text, value)
           d == [c EXCEPT !.device_rules = rules]
<1>1. SetRule(c, kind, text, value) = d
  <2>1. SetRule(c, kind, text, value) = WithRules(c, rules)
    BY SetRuleIs
  <2> HIDE DEF rules
  <2> QED
    BY <2>1 DEF WithRules
<1>2. RulesOK(rules)
  <2>1. RulesOK(c.device_rules) /\ IsSeq(c.device_rules)
    BY DEF ConfigOK, RulesOK
  <2>2. PICK m, idx : Renews(c.device_rules, kind, text, value, rules, m, idx)
    BY <2>1, RenewedRules
  <2> QED
    BY <2>1, <2>2, RenewedOK
<1> HIDE DEF rules
<1>3. d = [opt |-> c.opt, ir_screen |-> c.ir_screen, aim_accel_zero |-> c.aim_accel_zero,
           aim_motion_plus_bias |-> c.aim_motion_plus_bias, device_rules |-> rules]
  BY DEF ConfigOK, Fields
<1> HIDE DEF d
<1>4. ConfigOK(d)
  BY <1>2, <1>3, Rebuilt DEF ConfigOK
<1> QED
  BY <1>1, <1>4

\* A line of the file grammar (config.rs apply_line).
LEMMA ApplyLineOK ==
  ASSUME NEW c, ConfigOK(c), NEW lines, IsFile(lines), NEW n \in DOMAIN lines
  PROVE  RefusedOrOK(ApplyLine(c, lines[n]))
<1> DEFINE line == lines[n]
<1>1. /\ line.group \in {"option", "screen", "blank", "junk"} \cup Calibrations \cup RuleKinds
      /\ line.group = "screen" => line.key \in ScreenSides
      /\ line.group \in Calibrations => line.key \in Axes
  BY DEF IsFile
<1> HIDE DEF line
<1>2. CASE line.group = "option"
  <2>1. ApplyLine(c, line) = SetOption(c, line.key, line.value)
    BY <1>2 DEF ApplyLine, Calibrations, RuleKinds
  <2> QED
    BY <2>1, SetOptionOK DEF line
<1>3. CASE line.group = "screen"
  <2>1. ApplyLine(c, line) = SetScreen(c, line.key, line.value)
    BY <1>3 DEF ApplyLine, Calibrations, RuleKinds
  <2> QED
    BY <1>1, <1>3, <2>1, SetScreenOK DEF line
<1>4. CASE line.group \in Calibrations
  <2>1. ApplyLine(c, line) = SetCal(c, line.group, line.key, line.value)
    BY <1>4 DEF ApplyLine, Calibrations, RuleKinds
  <2> QED
    BY <1>1, <1>4, <2>1, SetCalOK DEF line
<1>5. CASE line.group \in RuleKinds
  <2>1. ApplyLine(c, line) = SetRule(c, line.group, line.key, line.value)
    BY <1>5 DEF ApplyLine, Calibrations, RuleKinds
  <2> QED
    BY <1>5, <2>1, SetRuleOK DEF line
<1>6. CASE line.group \in {"blank", "junk"}
  <2>1. ApplyLine(c, line) \in {c, Refused}
    BY <1>6 DEF ApplyLine, Calibrations, RuleKinds
  <2> QED
    BY <2>1 DEF RefusedOrOK, line
<1> QED
  BY <1>1, <1>2, <1>3, <1>4, <1>5, <1>6

LEMMA ApplyBytesOK ==
  ASSUME NEW c, ConfigOK(c), NEW lines, IsFile(lines)
  PROVE  RefusedOrOK(ApplyBytes(c, lines))
<1> DEFINE len == Len(lines)
<1>1. len \in Nat /\ DOMAIN lines = 1..len
  BY DEF IsFile, IsSeq
<1>2. PICK f : AfterLines(c, lines, len, f) /\ ApplyBytes(c, lines) = f[len]
  BY <1>1, ApplyBytesLines
<1> HIDE DEF len
<1> DEFINE S == {n \in Nat : n <= len => RefusedOrOK(f[n])}
<1>3. 0 \in S
  <2>1. f[0] = c
    BY <1>1, <1>2 DEF AfterLines
  <2> QED
    BY <2>1 DEF RefusedOrOK
<1>4. ASSUME NEW n \in Nat, n \in S PROVE n + 1 \in S
  <2> SUFFICES ASSUME n + 1 <= len PROVE RefusedOrOK(f[n + 1])
    OBVIOUS
  <2>1. n + 1 \in 0..len /\ n + 1 # 0 /\ (n + 1) - 1 = n /\ n + 1 \in DOMAIN lines
    BY <1>1
  <2>2. f[n + 1] = IF f[n] = Refused THEN Refused ELSE ApplyLine(f[n], lines[n + 1])
    BY <1>2, <2>1 DEF AfterLines
  <2>3. RefusedOrOK(f[n])
    BY <1>1, <1>4
  <2> QED
    BY <2>1, <2>2, <2>3, ApplyLineOK DEF RefusedOrOK
<1>5. Nat \subseteq S
  <2> HIDE DEF S
  <2> QED
    BY <1>3, <1>4, SetInduction
<1> QED
  BY <1>1, <1>2, <1>5

\* The layers of files there are (config_io.rs).
LEMMA ReadLayerOK ==
  ASSUME NEW c, ConfigOK(c), NEW fs, \A p \in DOMAIN fs : IsFile(fs[p]), NEW path, NEW required
  PROVE  RefusedOrOK(ReadLayer(c, fs, path, required))
<1>1. CASE path \in DOMAIN fs
  BY <1>1, ApplyBytesOK DEF ReadLayer
<1>2. CASE path \notin DOMAIN fs
  BY <1>2 DEF ReadLayer, RefusedOrOK
<1> QED
  BY <1>1, <1>2

LEMMA LayersOK ==
  ASSUME NEW fs, \A p \in DOMAIN fs : IsFile(fs[p]), NEW path
  PROVE  RefusedOrOK(LoadFile(fs, path)) /\ RefusedOrOK(LoadDefaultLayers(fs))
<1>1. RefusedOrOK(LoadFile(fs, path))
  BY DefaultOK, ReadLayerOK DEF LoadFile, Checked, RefusedOrOK
<1>2. RefusedOrOK(LoadDefaultLayers(fs))
  <2> DEFINE system == ReadLayer(Default, fs, "system", FALSE)
             both == ReadLayer(system, fs, "user", FALSE)
  <2>1. RefusedOrOK(system)
    BY DefaultOK, ReadLayerOK
  <2>2. LoadDefaultLayers(fs) = IF system = Refused THEN Refused ELSE Checked(both)
    BY DEF LoadDefaultLayers
  <2> HIDE DEF system
  <2>3. system # Refused => RefusedOrOK(both)
    BY <2>1, ReadLayerOK DEF RefusedOrOK
  <2> HIDE DEF both
  <2> QED
    BY <2>2, <2>3 DEF Checked, RefusedOrOK
<1> QED
  BY <1>1, <1>2

\* The configurations after each argument (cli.rs parse_pass2).
Known == {"config", "no_config", "no_ipc", "ipc_socket", "action"}
AfterArg(before, arg) ==
  CASE before = Refused \/ arg.name \in Known -> before
    [] before # Refused /\ arg.name \in Overridable -> SetOption(before, arg.name, arg.value)
    [] OTHER -> Refused
AfterArgs(c, args, m, f) ==
  f = [n \in 0..m |-> IF n = 0 THEN c ELSE AfterArg(f[n - 1], args[n])]

LEMMA AfterArgsExists ==
  ASSUME NEW c, NEW args, NEW m \in Nat
  PROVE  \E f : AfterArgs(c, args, m, f)
<1> DEFINE S == {k \in Nat : \E f : AfterArgs(c, args, k, f)}
<1>1. 0 \in S
  <2> DEFINE f == [n \in 0..0 |-> c]
  <2>1. f = [n \in 0..0 |-> IF n = 0 THEN c ELSE AfterArg(f[n - 1], args[n])]
    OBVIOUS
  <2> QED
    BY <2>1 DEF AfterArgs
<1>2. ASSUME NEW k \in Nat, k \in S PROVE k + 1 \in S
  <2>1. PICK f : f = [n \in 0..k |-> IF n = 0 THEN c ELSE AfterArg(f[n - 1], args[n])]
    BY <1>2 DEF AfterArgs
  <2> DEFINE g == [n \in 0..(k + 1) |-> IF n \in 0..k THEN f[n] ELSE AfterArg(f[k], args[n])]
  <2>2. ASSUME NEW n \in 0..(k + 1)
        PROVE  g[n] = IF n = 0 THEN c ELSE AfterArg(g[n - 1], args[n])
    <3>1. n = 0 \/ n - 1 \in 0..k
      OBVIOUS
    <3>2. n # 0 => g[n - 1] = f[n - 1]
      BY <3>1
    <3>3. n \in 0..k => f[n] = IF n = 0 THEN c ELSE AfterArg(f[n - 1], args[n])
      BY <2>1
    <3> QED
      BY <3>2, <3>3
  <2>3. g = [n \in 0..(k + 1) |-> IF n = 0 THEN c ELSE AfterArg(g[n - 1], args[n])]
    BY <2>2
  <2> HIDE DEF g
  <2> QED
    BY <2>3 DEF AfterArgs
<1>3. Nat \subseteq S
  <2> HIDE DEF S
  <2> QED
    BY <1>1, <1>2, SetInduction
<1> QED
  BY <1>3

LEMMA Pass2Args ==
  ASSUME NEW c, NEW args, Len(args) \in Nat
  PROVE  \E f : /\ AfterArgs(Checked(c), args, Len(args), f)
                /\ Pass2(args, c) = Checked(f[Len(args)])
<1> DEFINE F == CHOOSE f : AfterArgs(Checked(c), args, Len(args), f)
<1>1. AfterArgs(Checked(c), args, Len(args), F)
  BY AfterArgsExists, Zenon
<1>2. Pass2(args, c) = Checked(F[Len(args)])
  BY DEF Pass2, AfterArgs, AfterArg, Known
<1> QED
  BY <1>1, <1>2

LEMMA Pass2OK ==
  ASSUME NEW c, RefusedOrOK(c), NEW args, IsSeq(args), Pass2(args, c) # Refused
  PROVE  ConfigOK(Pass2(args, c)) /\ Valid(Pass2(args, c))
<1> DEFINE len == Len(args)
<1>1. len \in Nat
  BY DEF IsSeq
<1>2. PICK f : AfterArgs(Checked(c), args, len, f) /\ Pass2(args, c) = Checked(f[len])
  BY <1>1, Pass2Args
<1> HIDE DEF len
<1> DEFINE S == {n \in Nat : n <= len => RefusedOrOK(f[n])}
<1>3. 0 \in S
  <2>1. f[0] = Checked(c)
    BY <1>1, <1>2 DEF AfterArgs
  <2> QED
    BY <2>1 DEF Checked, RefusedOrOK
<1>4. ASSUME NEW n \in Nat, n \in S PROVE n + 1 \in S
  <2> SUFFICES ASSUME n + 1 <= len PROVE RefusedOrOK(f[n + 1])
    OBVIOUS
  <2>1. n + 1 \in 0..len /\ n + 1 # 0 /\ (n + 1) - 1 = n
    BY <1>1
  <2>2. f[n + 1] = AfterArg(f[n], args[n + 1])
    BY <1>2, <2>1 DEF AfterArgs
  <2>3. RefusedOrOK(f[n])
    BY <1>1, <1>4
  <2>4. \A before, arg : RefusedOrOK(before) => RefusedOrOK(AfterArg(before, arg))
    <3> SUFFICES ASSUME NEW before, NEW arg, RefusedOrOK(before) PROVE RefusedOrOK(AfterArg(before, arg))
      OBVIOUS
    <3>1. CASE before = Refused \/ arg.name \in Known
      <4>1. AfterArg(before, arg) \in {before, Refused}
        BY <3>1 DEF AfterArg, Known, Overridable, Options, Accepted
      <4> QED
        BY <4>1 DEF RefusedOrOK
    <3>2. CASE before # Refused /\ arg.name \notin Known
      <4>1. AfterArg(before, arg) \in {SetOption(before, arg.name, arg.value), Refused}
        BY <3>2 DEF AfterArg
      <4>2. ConfigOK(before)
        BY <3>2 DEF RefusedOrOK
      <4> QED
        BY <4>1, <4>2, SetOptionOK DEF RefusedOrOK
    <3> QED
      BY <3>1, <3>2
  <2> QED
    BY <2>2, <2>3, <2>4
<1>5. Nat \subseteq S
  <2> HIDE DEF S
  <2> QED
    BY <1>3, <1>4, SetInduction
<1>6. RefusedOrOK(f[len])
  BY <1>1, <1>5
<1> QED
  BY <1>2, <1>6 DEF Checked, RefusedOrOK

\* What a daemon is started with (cli.rs parse).
LEMMA ParseOK ==
  ASSUME NEW args, IsSeq(args), NEW fs, \A p \in DOMAIN fs : IsFile(fs[p]),
         Parse(args, fs) # Refused
  PROVE  ConfigOK(Parse(args, fs)) /\ Valid(Parse(args, fs))
<1>1. PICK c : RefusedOrOK(c) /\ Parse(args, fs) = Pass2(args, c)
  <2>1. RefusedOrOK(Default) /\ RefusedOrOK(LoadDefaultLayers(fs)) /\ \A p : RefusedOrOK(LoadFile(fs, p))
    BY DefaultOK, LayersOK DEF RefusedOrOK
  <2> QED
    BY <2>1 DEF Parse
<1> QED
  BY <1>1, Pass2OK

-----------------------------------------------------------------------------
(***************************************************************************)
(* Numbers stay numbers: of a configuration, of the aim, and of a point.   *)
(***************************************************************************)
Pair(p) == p[1] \in Int /\ p[2] \in Int

Numbers(c) ==
  /\ c.opt.aim_deadzone \in Int /\ c.opt.aim_sensitivity \in Int /\ c.opt.aim_smoothing \in Int
  /\ c.ir_screen # <<>> => \A side \in ScreenSides : c.ir_screen[side] \in Int
  /\ c.aim_accel_zero # <<>> => \A a \in Axes : c.aim_accel_zero[a] \in Int
  /\ c.aim_motion_plus_bias # <<>> => \A a \in Axes : c.aim_motion_plus_bias[a] \in Int

LEMMA ConfigNumbers ==
  ASSUME NEW c, ConfigOK(c), Valid(c)
  PROVE  Numbers(c)
<1>1. /\ c.opt.aim_deadzone \in Int /\ c.opt.aim_sensitivity \in Int /\ c.opt.aim_smoothing \in Int
  <2>1. {"aim_deadzone", "aim_sensitivity", "aim_smoothing"} \subseteq Options
    BY DEF Options, Accepted
  <2>2. /\ Accepted["aim_deadzone"] = 0..DeadzoneMax
        /\ Accepted["aim_sensitivity"] = 1..127
        /\ Accepted["aim_smoothing"] = 0..95
    BY DEF Accepted
  <2>3. /\ c.opt.aim_deadzone \in Accepted["aim_deadzone"]
        /\ c.opt.aim_sensitivity \in Accepted["aim_sensitivity"]
        /\ c.opt.aim_smoothing \in Accepted["aim_smoothing"]
    BY <2>1 DEF ConfigOK, OptionsOK
  <2>4. DeadzoneMax \in Int
    BY DEF DeadzoneMax
  <2>5. c.opt.aim_deadzone \in 0..DeadzoneMax /\ c.opt.aim_sensitivity \in 1..127
        /\ c.opt.aim_smoothing \in 0..95
    BY <2>2, <2>3
  <2> DEFINE d == c.opt.aim_deadzone
             s == c.opt.aim_sensitivity
             m == c.opt.aim_smoothing
  <2>6. d \in 0..DeadzoneMax /\ s \in 1..127 /\ m \in 0..95
    BY <2>5
  <2> HIDE DEF d, s, m
  <2>7. d \in Int /\ s \in Int /\ m \in Int
    BY <2>4, <2>6
  <2> QED
    BY <2>7 DEF d, s, m
<1>2. c.ir_screen # <<>> => \A side \in ScreenSides : c.ir_screen[side] \in Int
  BY DEF ConfigOK, ScreenOK
<1>3. \A g \in Calibrations : c[g] # <<>> => DOMAIN c[g] = Axes
  BY DEF Valid, Complete
<1>4. /\ c.aim_accel_zero # <<>> => DOMAIN c.aim_accel_zero = Axes
      /\ c.aim_motion_plus_bias # <<>> => DOMAIN c.aim_motion_plus_bias = Axes
  BY <1>3 DEF Calibrations
<1> QED
  BY <1>1, <1>2, <1>4 DEF ConfigOK, CalibrationOK, Numbers

LEMMA QuotInt == ASSUME NEW a \in Int, NEW b \in Int, b > 0 PROVE Quot(a, b) \in Int
BY DEF Quot

LEMMA SmoothInt ==
  ASSUME NEW a \in Int, NEW b \in Int, NEW s \in Int
  PROVE  SmoothAxis(a, b, s) \in Int
<1>1. a * s + b * (100 - s) \in Int
  OBVIOUS
<1> QED
  BY <1>1, QuotInt DEF SmoothAxis

LEMMA ScaleInt ==
  ASSUME NEW c, Numbers(c), NEW v \in Int
  PROVE  AimScale(c.opt, v) \in Int
<1> DEFINE dead == c.opt.aim_deadzone
           sensitivity == c.opt.aim_sensitivity
           product == (Abs(v) - dead) * sensitivity
<1>1. dead \in Int /\ sensitivity \in Int
  BY DEF Numbers
<1>2. Abs(v) \in Int
  BY DEF Abs
<1> HIDE DEF dead, sensitivity
<1>3. product \in Int
  BY <1>1, <1>2
<1>4. AimScale(c.opt, v) =
        IF Abs(v) <= dead THEN 0
        ELSE IF v < 0 THEN -Least(product \div 16, 32767) ELSE Least(product \div 16, 32767)
  BY DEF AimScale, dead, sensitivity
<1> HIDE DEF product
<1>5. Least(product \div 16, 32767) \in Int
  BY <1>3 DEF Least
<1> QED
  BY <1>4, <1>5

LEMMA AbsoluteInt ==
  ASSUME NEW v \in Int, NEW low \in Int, NEW high \in Int
  PROVE  AbsoluteAxis(v, low, high) \in Int
<1> DEFINE half == Quot(high - low, 2)
           middle == Quot(low + high, 2)
           scaled == Quot((v - middle) * 32767, half)
<1>1. half \in Int /\ middle \in Int
  BY QuotInt
<1>2. AbsoluteAxis(v, low, high) = IF half <= 0 THEN 0 ELSE Clamp(scaled, -32767, 32767)
  BY DEF AbsoluteAxis
<1> HIDE DEF half, middle
<1>3. half > 0 => scaled \in Int
  <2>1. (v - middle) * 32767 \in Int
    BY <1>1
  <2> QED
    BY <1>1, <2>1, QuotInt
<1> HIDE DEF scaled
<1> QED
  BY <1>1, <1>2, <1>3 DEF Clamp

(***************************************************************************)
(* A step of the aim.                                                      *)
(***************************************************************************)
AimNumbers(a) ==
  /\ IsAim(a)
  /\ Pair(a.last)
  /\ a.ir # None => Pair(a.ir)
  /\ a.zero # None => Pair(a.zero)

StepNumbers(r) == AimNumbers(r.aim) /\ (r.out # None => Pair(r.out))

LEMMA ResetNumbers == ASSUME NEW b, b.held \in BOOLEAN PROVE StepNumbers(AimReset(b))
<1> DEFINE n == [held |-> b.held, source |-> "none", ir |-> None, zero |-> None, last |-> Zero]
<1>1. AimReset(b) = [aim |-> n, out |-> Zero]
  BY DEF AimReset, Result, NewAim
<1>2. Pair(Zero)
  BY DEF Pair, Zero
<1>3. AimNumbers(n)
  BY <1>2 DEF AimNumbers, IsAim
<1> QED
  BY <1>1, <1>2, <1>3 DEF StepNumbers

LEMMA QuietNumbers == ASSUME NEW b, AimNumbers(b) PROVE StepNumbers(Result(b, None))
BY DEF StepNumbers, Result

LEMMA EmitNumbers ==
  ASSUME NEW c, Numbers(c), NEW b, AimNumbers(b), NEW vector, Pair(vector)
  PROVE  StepNumbers(Emit(c.opt, b, vector))
<1> DEFINE inverted == <<IF c.opt.aim_invert_x THEN -vector[1] ELSE vector[1],
                         IF c.opt.aim_invert_y THEN -vector[2] ELSE vector[2]>>
           s == c.opt.aim_smoothing
           smoothed == AimSmooth(c.opt, b.last, inverted)
           next == [b EXCEPT !.last = smoothed]
<1>1. Emit(c.opt, b, vector) =
        IF IsActive(c.opt, b) THEN Result(next, smoothed) ELSE AimReset(b)
  BY DEF Emit
<1>2. Pair(inverted)
  BY DEF Pair
<1>3. s \in Int
  BY DEF Numbers
<1> HIDE DEF inverted
<1>4. smoothed[1] = SmoothAxis(b.last[1], inverted[1], s) /\ smoothed[2] = SmoothAxis(b.last[2], inverted[2], s)
  BY DEF AimSmooth
<1> HIDE DEF s, smoothed
<1>5. Pair(smoothed)
  <2>1. /\ b.last[1] \in Int /\ b.last[2] \in Int /\ inverted[1] \in Int /\ inverted[2] \in Int
    BY <1>2 DEF Pair, AimNumbers
  <2>2. /\ SmoothAxis(b.last[1], inverted[1], s) \in Int
        /\ SmoothAxis(b.last[2], inverted[2], s) \in Int
    <3> DEFINE p1 == b.last[1]
               p2 == b.last[2]
               q1 == inverted[1]
               q2 == inverted[2]
    <3>1. p1 \in Int /\ p2 \in Int /\ q1 \in Int /\ q2 \in Int
      BY <2>1
    <3> HIDE DEF p1, p2, q1, q2
    <3>2. SmoothAxis(p1, q1, s) \in Int /\ SmoothAxis(p2, q2, s) \in Int
      BY <1>3, <3>1, SmoothInt
    <3> QED
      BY <3>2 DEF p1, p2, q1, q2
  <2> QED
    BY <1>4, <2>2 DEF Pair
<1>6. next = [held |-> b.held, source |-> b.source, ir |-> b.ir, zero |-> b.zero, last |-> smoothed]
  BY DEF AimNumbers, IsAim
<1> HIDE DEF next
<1>7. b.held \in BOOLEAN
  BY DEF AimNumbers, IsAim
<1>8. AimNumbers(next)
  BY <1>5, <1>6, <1>7 DEF AimNumbers, IsAim
<1>9. StepNumbers(Result(next, smoothed))
  BY <1>5, <1>8 DEF StepNumbers, Result
<1> QED
  BY <1>1, <1>7, <1>9, ResetNumbers

LEMMA ProcessIrNumbers ==
  ASSUME NEW c, Numbers(c), NEW a, AimNumbers(a), NEW point, point # None => Pair(point)
  PROVE  StepNumbers(ProcessIr(c, a, point))
<1> DEFINE b == [a EXCEPT !.ir = point, !.source = "ir"]
           gone == [a EXCEPT !.ir = None]
           s == c.ir_screen
           absolute == s # <<>> /\ c.opt.ir_aim_mapping = "absolute"
           x == AimScale(c.opt, AbsoluteAxis(point[1], s["left"], s["right"]))
           y == AimScale(c.opt, AbsoluteAxis(point[2], s["top"], s["bottom"]))
           moved == [i \in 1..2 |-> AimScale(c.opt, point[i] - a.ir[i])]
           vector == IF absolute THEN <<x, y>> ELSE IF a.ir # None THEN moved ELSE Zero
<1>1. CASE point = None /\ a.source = "ir"
  BY <1>1, ResetNumbers DEF ProcessIr, AimNumbers, IsAim
<1>2. CASE point = None /\ a.source # "ir"
  <2>1. ProcessIr(c, a, point) = Result(gone, None)
    BY <1>2 DEF ProcessIr
  <2>2. gone = [held |-> a.held, source |-> a.source, ir |-> None, zero |-> a.zero, last |-> a.last]
    BY DEF AimNumbers, IsAim
  <2> HIDE DEF gone
  <2>3. AimNumbers(gone)
    BY <2>2 DEF AimNumbers, IsAim
  <2> QED
    BY <2>1, <2>3, QuietNumbers
<1>3. CASE point # None /\ ~AimAccepts(c.opt, a, "ir")
  BY <1>3, QuietNumbers DEF ProcessIr
<1>4. CASE point # None /\ AimAccepts(c.opt, a, "ir")
  <2>1. ProcessIr(c, a, point) = Emit(c.opt, b, vector)
    BY <1>4 DEF ProcessIr
  <2>2. b = [held |-> a.held, source |-> "ir", ir |-> point, zero |-> a.zero, last |-> a.last]
    BY TwoFields DEF AimNumbers
  <2> HIDE DEF b
  <2>3. AimNumbers(b)
    BY <1>4, <2>2 DEF AimNumbers, IsAim
  <2>4. absolute => x \in Int /\ y \in Int
    <3> SUFFICES ASSUME absolute PROVE x \in Int /\ y \in Int
      OBVIOUS
    <3>1. s["left"] \in Int /\ s["right"] \in Int /\ s["top"] \in Int /\ s["bottom"] \in Int
      BY DEF Numbers, ScreenSides
    <3>2. point[1] \in Int /\ point[2] \in Int
      BY <1>4 DEF Pair
    <3> HIDE DEF s
    <3>3. /\ AbsoluteAxis(point[1], s["left"], s["right"]) \in Int
          /\ AbsoluteAxis(point[2], s["top"], s["bottom"]) \in Int
      BY <3>1, <3>2, AbsoluteInt
    <3> QED
      BY <3>3, ScaleInt
  <2>5. a.ir # None => Pair(moved)
    <3> SUFFICES ASSUME a.ir # None PROVE Pair(moved)
      OBVIOUS
    <3>1. point[1] - a.ir[1] \in Int /\ point[2] - a.ir[2] \in Int
      BY <1>4 DEF AimNumbers, Pair
    <3>2. AimScale(c.opt, point[1] - a.ir[1]) \in Int /\ AimScale(c.opt, point[2] - a.ir[2]) \in Int
      BY <3>1, ScaleInt
    <3> QED
      BY <3>2 DEF Pair
  <2>6. Pair(vector)
    <3>1. absolute => Pair(<<x, y>>)
      <4> HIDE DEF x, y, absolute
      <4> QED
        BY <2>4 DEF Pair
    <3>2. Pair(Zero)
      BY DEF Pair, Zero
    <3> HIDE DEF x, y, absolute, moved
    <3> QED
      BY <2>5, <3>1, <3>2
  <2> HIDE DEF vector
  <2> QED
    BY <2>1, <2>3, <2>6, EmitNumbers
<1> QED
  BY <1>1, <1>2, <1>3, <1>4

LEMMA ProcessMotionPlusNumbers ==
  ASSUME NEW c, Numbers(c), NEW a, AimNumbers(a), NEW sample, Pair(sample)
  PROVE  StepNumbers(ProcessMotionPlus(c, a, sample))
<1> DEFINE b == [a EXCEPT !.source = "motion_plus"]
           bias == IF c.aim_motion_plus_bias = <<>> THEN [axis \in {"x", "y"} |-> 0]
                   ELSE c.aim_motion_plus_bias
           x == AimScale(c.opt, sample[1] - bias["x"])
           y == AimScale(c.opt, sample[2] - bias["y"])
<1>1. CASE ~AimAccepts(c.opt, a, "motion_plus")
  BY <1>1, QuietNumbers DEF ProcessMotionPlus
<1>2. CASE AimAccepts(c.opt, a, "motion_plus")
  <2>1. ProcessMotionPlus(c, a, sample) = Emit(c.opt, b, <<x, y>>)
    BY <1>2 DEF ProcessMotionPlus
  <2>2. b = [held |-> a.held, source |-> "motion_plus", ir |-> a.ir, zero |-> a.zero, last |-> a.last]
    BY DEF AimNumbers, IsAim
  <2> HIDE DEF b
  <2>3. AimNumbers(b)
    BY <2>2 DEF AimNumbers, IsAim
  <2>4. bias["x"] \in Int /\ bias["y"] \in Int
    BY DEF Numbers, Axes
  <2> HIDE DEF bias
  <2>5. x \in Int /\ y \in Int
    BY <2>4, ScaleInt DEF Pair
  <2> HIDE DEF x, y
  <2>6. Pair(<<x, y>>)
    BY <2>5 DEF Pair
  <2> QED
    BY <2>1, <2>3, <2>6, EmitNumbers
<1> QED
  BY <1>1, <1>2

LEMMA ProcessAccelerometerNumbers ==
  ASSUME NEW c, Numbers(c), NEW a, AimNumbers(a), NEW sample, Pair(sample)
  PROVE  StepNumbers(ProcessAccelerometer(c, a, sample))
<1> DEFINE cal == c.aim_accel_zero
           zero == IF cal # <<>> THEN <<cal["x"], cal["y"], cal["z"]>>
                   ELSE IF a.zero # None THEN a.zero ELSE sample
           after == [a EXCEPT !.zero = zero, !.source = "accel"]
           vector == [i \in 1..2 |-> AimScale(c.opt, sample[i] - zero[i])]
<1>1. Pair(zero)
  BY DEF Numbers, Axes, Pair, AimNumbers
<1>2. AimNumbers(after)
  <2>1. after = [held |-> a.held, source |-> "accel", ir |-> a.ir, zero |-> zero, last |-> a.last]
    <3> HIDE DEF zero
    <3> QED
      BY TwoFields DEF AimNumbers
  <2> HIDE DEF after, zero
  <2> QED
    BY <1>1, <2>1 DEF AimNumbers, IsAim
<1>3. Pair(vector)
  <2> HIDE DEF zero
  <2>1. AimScale(c.opt, sample[1] - zero[1]) \in Int /\ AimScale(c.opt, sample[2] - zero[2]) \in Int
    BY <1>1, ScaleInt DEF Pair
  <2> QED
    BY <2>1 DEF Pair
<1>4. ProcessAccelerometer(c, a, sample) \in {Result(a, None), Result(after, None), Emit(c.opt, after, vector)}
  BY DEF ProcessAccelerometer
<1> HIDE DEF after, vector
<1> QED
  BY <1>2, <1>3, <1>4, QuietNumbers, EmitNumbers

LEMMA ActivationNumbers ==
  ASSUME NEW c, NEW a, AimNumbers(a), NEW button \in {"b", "z", "c"}, NEW pressed \in BOOLEAN
  PROVE  StepNumbers(ActivationKey(c.opt, a, button, pressed))
<1> DEFINE up == [a EXCEPT !.held = TRUE]
           next == [a EXCEPT !.held = pressed]
<1>1. \A h \in BOOLEAN : AimNumbers([a EXCEPT !.held = h])
  <2> SUFFICES ASSUME NEW h \in BOOLEAN PROVE AimNumbers([a EXCEPT !.held = h])
    OBVIOUS
  <2> DEFINE n == [a EXCEPT !.held = h]
  <2>1. n = [held |-> h, source |-> a.source, ir |-> a.ir, zero |-> a.zero, last |-> a.last]
    BY DEF AimNumbers, IsAim
  <2> HIDE DEF n
  <2>2. n.held = h
    BY <2>1, Zenon
  <2>3. AimNumbers(n)
    BY <2>1, <2>2 DEF AimNumbers, IsAim
  <2> QED
    BY <2>3 DEF n
<1>2. AimNumbers(up) /\ AimNumbers(next)
  BY <1>1, Zenon
<1>3. ActivationKey(c.opt, a, button, pressed) \in
        {Result(a, None), Result(up, None), Result(next, None), AimReset(next)}
  <2>1. ActivationKey(c.opt, a, button, pressed) =
          CASE ~Enabled(c.opt) -> Result(a, None)
            [] Enabled(c.opt) /\ c.opt.aim_activation = "always" -> Result(up, None)
            [] Enabled(c.opt) /\ c.opt.aim_activation \notin {"always", button} -> Result(a, None)
            [] Enabled(c.opt) /\ c.opt.aim_activation = button ->
                 IF a.held /\ ~pressed THEN AimReset(next) ELSE Result(next, None)
    BY Zenon DEF ActivationKey
  <2> HIDE DEF up, next
  <2> QED
    BY <2>1
<1> HIDE DEF up, next
<1>4. next.held \in BOOLEAN
  BY <1>2 DEF AimNumbers, IsAim
<1> QED
  BY <1>2, <1>3, <1>4, QuietNumbers, ResetNumbers

-----------------------------------------------------------------------------
(***************************************************************************)
(* The point of an infrared frame is a pair of numbers, or there is none.  *)
(***************************************************************************)
\* The sums over each prefix of the points (pointer.rs select_ir_point).
TotalUpto(points, among, m, f) ==
  f = [n \in 0..m |->
        IF n = 0 THEN Zero
        ELSE IF n \in among THEN <<f[n - 1][1] + points[n][1], f[n - 1][2] + points[n][2]>>
        ELSE f[n - 1]]

LEMMA TotalExists ==
  ASSUME NEW points, NEW among, NEW m \in Nat
  PROVE  \E f : TotalUpto(points, among, m, f)
<1> DEFINE Step(before, n) ==
             IF n \in among THEN <<before[1] + points[n][1], before[2] + points[n][2]>> ELSE before
           S == {k \in Nat : \E f : f = [n \in 0..k |-> IF n = 0 THEN Zero ELSE Step(f[n - 1], n)]}
<1> HIDE DEF Step
<1>1. 0 \in S
  <2> DEFINE f == [n \in 0..0 |-> Zero]
  <2>1. f = [n \in 0..0 |-> IF n = 0 THEN Zero ELSE Step(f[n - 1], n)]
    OBVIOUS
  <2> QED
    BY <2>1
<1>2. ASSUME NEW k \in Nat, k \in S PROVE k + 1 \in S
  <2>1. PICK f : f = [n \in 0..k |-> IF n = 0 THEN Zero ELSE Step(f[n - 1], n)]
    BY <1>2
  <2> DEFINE g == [n \in 0..(k + 1) |-> IF n \in 0..k THEN f[n] ELSE Step(f[k], n)]
  <2>2. ASSUME NEW n \in 0..(k + 1) PROVE g[n] = IF n = 0 THEN Zero ELSE Step(g[n - 1], n)
    <3>1. n = 0 \/ n - 1 \in 0..k
      OBVIOUS
    <3>2. n # 0 => g[n - 1] = f[n - 1]
      BY <3>1
    <3>3. n \in 0..k => f[n] = IF n = 0 THEN Zero ELSE Step(f[n - 1], n)
      BY <2>1
    <3> QED
      BY <3>2, <3>3
  <2>3. g = [n \in 0..(k + 1) |-> IF n = 0 THEN Zero ELSE Step(g[n - 1], n)]
    BY <2>2
  <2> HIDE DEF g
  <2> QED
    BY <2>3
<1>3. Nat \subseteq S
  <2> HIDE DEF S
  <2> QED
    BY <1>1, <1>2, SetInduction
<1> QED
  BY <1>3 DEF TotalUpto, Step

LEMMA CentrePair ==
  ASSUME NEW points, NEW among, Len(points) \in Nat,
         \A n \in 1..Len(points) : Pair(points[n]),
         Cardinality(among) \in Nat, Cardinality(among) > 0
  PROVE  Pair(Centre(points, among)) /\ Centre(points, among) # None
<1> DEFINE len == Len(points)
           count == Cardinality(among)
           F == CHOOSE f : TotalUpto(points, among, len, f)
           sum == F[len]
<1>1. TotalUpto(points, among, len, F)
  BY TotalExists, Zenon
<1>2. Centre(points, among) = <<Quot(sum[1], count), Quot(sum[2], count)>>
  BY DEF Centre, TotalUpto
<1> HIDE DEF F, len
<1> DEFINE S == {n \in Nat : n <= len => Pair(F[n])}
<1>3. 0 \in S
  <2>1. F[0] = Zero
    BY <1>1 DEF TotalUpto, len
  <2> QED
    BY <2>1 DEF Pair, Zero
<1>4. ASSUME NEW n \in Nat, n \in S PROVE n + 1 \in S
  <2> SUFFICES ASSUME n + 1 <= len PROVE Pair(F[n + 1])
    OBVIOUS
  <2>1. n + 1 \in 0..len /\ n + 1 # 0 /\ (n + 1) - 1 = n /\ n + 1 \in 1..len /\ n <= len
    BY DEF len
  <2> DEFINE before == F[n]
             point == points[n + 1]
  <2>2. F[n + 1] = IF n + 1 \in among THEN <<before[1] + point[1], before[2] + point[2]>> ELSE before
    BY <1>1, <2>1 DEF TotalUpto
  <2>3. Pair(before) /\ Pair(point)
    BY <1>4, <2>1 DEF len
  <2> HIDE DEF before, point
  <2> QED
    BY <2>2, <2>3 DEF Pair
<1>5. Nat \subseteq S
  <2> HIDE DEF S
  <2> QED
    BY <1>3, <1>4, SetInduction
<1>6. Pair(sum)
  BY <1>5 DEF len
<1> HIDE DEF sum
<1>7. count \in Int /\ count > 0
  OBVIOUS
<1> HIDE DEF count
<1>8. Quot(sum[1], count) \in Int /\ Quot(sum[2], count) \in Int
  BY <1>6, <1>7, QuotInt DEF Pair
<1>9. DOMAIN Centre(points, among) = 1..2
  BY <1>2
<1> QED
  BY <1>2, <1>8, <1>9 DEF Pair, None

\* The farthest pair is of one point or two.
LEMMA TwoAtMost ==
  ASSUME NEW a, NEW b
  PROVE  Cardinality({a, b}) \in Nat /\ Cardinality({a, b}) > 0
<1>1. IsFiniteSet({a}) /\ Cardinality({a}) = 1
  BY FS_Singleton
<1> DEFINE two == {a} \cup {b}
<1>2. Cardinality(two) = IF b \in {a} THEN Cardinality({a}) ELSE Cardinality({a}) + 1
  BY <1>1, FS_AddElement
<1>3. two = {a, b}
  OBVIOUS
<1>4. Cardinality(two) = 1 \/ Cardinality(two) = 2
  BY <1>1, <1>2
<1> HIDE DEF two
<1> QED
  BY <1>3, <1>4

LEMMA PointPair ==
  ASSUME NEW frame \in Seq(Int \X Int), NEW tracking
  PROVE  LET point == SelectIr(frame, tracking) IN point # None => Pair(point)
<1> DEFINE points == VisiblePoints(frame)
           len == Len(points)
           visible == {i \in DOMAIN frame : Visible(frame[i])}
           pair == FarthestPair(points)
           both == {pair[1], pair[2]}
<1>1. PICK idx : Picks(frame, visible, Len(frame), points, idx)
  <2>1. Len(frame) \in Nat /\ points = Kept(frame, visible)
    BY DEF VisiblePoints
  <2> HIDE DEF visible, points
  <2> QED
    BY <2>1, KeptPicks
<1> HIDE DEF visible, points
<1>2. /\ len \in Nat /\ points = [j \in 1..len |-> frame[idx[j]]]
      /\ \A j \in 1..len : idx[j] \in DOMAIN frame
  <2> DEFINE n == Len(frame)
  <2>1. n \in Nat /\ DOMAIN frame = 1..n
    OBVIOUS
  <2>2. len \in 0..n /\ idx \in [1..len -> (1..n) \cap visible]
    BY <1>1 DEF Picks
  <2>3. points = [j \in 1..len |-> frame[idx[j]]]
    BY <1>1 DEF Picks
  <2> HIDE DEF n, len
  <2> QED
    BY <2>1, <2>2, <2>3
<1> HIDE DEF len
<1>3. \A j \in 1..len : Pair(points[j])
  <2>1. \A i \in DOMAIN frame : frame[i] \in Int \X Int
    OBVIOUS
  <2>2. \A p \in Int \X Int : Pair(p)
    BY DEF Pair
  <2> QED
    BY <1>2, <2>1, <2>2
<1> USE DEF len
<1>4. points = <<>> \/ len > 0
  BY <1>2
<1>5. len > 0 => Pair(points[1])
  BY <1>2, <1>3
<1>6. len > 0 => Pair(Centre(points, DOMAIN points))
  <2> SUFFICES ASSUME len > 0 PROVE Pair(Centre(points, DOMAIN points))
    OBVIOUS
  <2>1. DOMAIN points = 1..len
    BY <1>2
  <2>2. Cardinality(1..len) = len
    BY <1>2, FS_Interval
  <2> QED
    BY <1>2, <1>3, <2>1, <2>2, CentrePair
<1>7. len > 0 => Pair(Centre(points, both))
  <2>1. Cardinality(both) \in Nat /\ Cardinality(both) > 0
    BY TwoAtMost
  <2> HIDE DEF both
  <2> QED
    BY <1>2, <1>3, <2>1, CentrePair
<1>8. SelectIr(frame, tracking) =
        IF points = <<>> THEN None
        ELSE IF tracking = "centroid" THEN Centre(points, DOMAIN points)
        ELSE IF tracking = "first" \/ Len(points) = 1 THEN points[1]
        ELSE Centre(points, both)
  BY DEF SelectIr, points
<1> HIDE DEF both, len
<1> QED
  BY <1>4, <1>5, <1>6, <1>7, <1>8

-----------------------------------------------------------------------------
(***************************************************************************)
(* The axes.  What a report puts on an axis is within what the virtual     *)
(* gamepad was created with, whatever the controller sends.                *)
(***************************************************************************)
LEMMA Extents ==
  /\ VIRTUAL_AXIS_MIN \in Int /\ VIRTUAL_AXIS_MIN < 0
  /\ VIRTUAL_AXIS_MAX \in Nat /\ VIRTUAL_TRIGGER_MAX \in Nat /\ WeightMax \in Nat
BY DEF VIRTUAL_AXIS_MIN, VIRTUAL_AXIS_MAX, VIRTUAL_TRIGGER_MAX, WeightMax

\* A part of an extent, scaled, is a part of the target.
LEMMA PartOf ==
  ASSUME NEW v \in Nat, NEW m \in Nat, v < m, NEW t \in Nat
  PROVE  (v * t) \div m \in 0..t
<1> DEFINE q == (v * t) \div m
<1>1. q \in Int /\ m * q <= v * t /\ v * t < m * (q + 1)
  OBVIOUS
<1>2. v * t <= m * t /\ 0 <= v * t
  OBVIOUS
<1> HIDE DEF q
<1>3. q >= 0
  BY <1>1, <1>2
<1>4. q <= t
  BY <1>1, <1>2
<1> QED
  BY <1>1, <1>3, <1>4 DEF q

LEMMA ScaleUnsignedRange ==
  ASSUME NEW value \in Int, NEW source \in Nat, source > 0, NEW scale \in Nat
  PROVE  ScaleUnsigned(value, source, scale) \in 0..scale
<1> DEFINE q == (value * scale) \div source
<1>1. CASE value <= 0
  BY <1>1 DEF ScaleUnsigned
<1>2. CASE value >= source
  BY <1>2 DEF ScaleUnsigned
<1>3. CASE 0 < value /\ value < source
  <2>1. ScaleUnsigned(value, source, scale) = q
    BY <1>3 DEF ScaleUnsigned
  <2>2. value \in Nat
    BY <1>3
  <2>3. q \in 0..scale
    BY <1>3, <2>2, PartOf
  <2> QED
    BY <2>1, <2>3
<1> QED
  BY <1>1, <1>2, <1>3

LEMMA ScaleSignedRange ==
  ASSUME NEW value \in Int, NEW negative \in Nat, negative > 0, NEW positive \in Nat, positive > 0
  PROVE  ScaleSigned(value, negative, positive) \in VIRTUAL_AXIS_MIN..VIRTUAL_AXIS_MAX
<1> DEFINE h == -VIRTUAL_AXIS_MIN
           v == -value
<1>1. h \in Nat /\ h > 0 /\ VIRTUAL_AXIS_MIN = -h
  BY Extents
<1> DEFINE low == Quot(value * h, negative)
           high == (value * VIRTUAL_AXIS_MAX) \div positive
<1>2. ScaleSigned(value, negative, positive) =
        CASE value <= -negative -> VIRTUAL_AXIS_MIN
          [] -negative < value /\ value < 0 -> low
          [] 0 <= value /\ value < positive -> high
          [] value >= positive -> VIRTUAL_AXIS_MAX
  BY DEF ScaleSigned
<1> HIDE DEF h
<1>3. CASE value <= -negative
  BY <1>2, <1>3, Extents
<1>4. CASE -negative < value /\ value < 0
  <2>1. ScaleSigned(value, negative, positive) = low
    BY <1>2, <1>4
  <2>2. v \in Nat /\ v < negative /\ value * h < 0 /\ -(value * h) = v * h
    BY <1>1, <1>4
  <2>3. low = -((v * h) \div negative)
    <3> DEFINE p == value * h
    <3>1. p \in Int /\ p < 0 /\ -p = v * h
      BY <1>1, <2>2
    <3> HIDE DEF p
    <3>2. Quot(p, negative) = -((-p) \div negative)
      BY <3>1 DEF Quot
    <3> QED
      BY <3>1, <3>2 DEF p
  <2> DEFINE q == (v * h) \div negative
  <2>4. q \in 0..h
    BY <1>1, <2>2, PartOf
  <2> HIDE DEF v, q, low
  <2>5. low \in VIRTUAL_AXIS_MIN..0
    BY <1>1, <2>3, <2>4 DEF q
  <2> QED
    BY <2>1, <2>5, Extents
<1>5. CASE 0 <= value /\ value < positive
  <2>1. ScaleSigned(value, negative, positive) = high
    BY <1>2, <1>5
  <2>2. high \in 0..VIRTUAL_AXIS_MAX
    BY <1>5, PartOf, Extents
  <2> HIDE DEF high
  <2> QED
    BY <2>1, <2>2, Extents
<1>6. CASE value >= positive
  BY <1>2, <1>6, Extents
<1> QED
  BY <1>3, <1>4, <1>5, <1>6

Triggers == {"Z", "RZ", "HAT3Y", "MISC"}
Weights == {"PRESSURE", "DISTANCE", "TILT_X", "TILT_Y"}
Full == CoreAxes \ (Triggers \cup Weights)

LEMMA Infos ==
  /\ \A code \in Triggers : AxisInfo(code) = 0..VIRTUAL_TRIGGER_MAX
  /\ \A code \in Weights : AxisInfo(code) = 0..WeightMax
  /\ \A code \in Full : AxisInfo(code) = VIRTUAL_AXIS_MIN..VIRTUAL_AXIS_MAX
<1> DEFINE trigger == 0..VIRTUAL_TRIGGER_MAX
           weight == 0..WeightMax
           full == VIRTUAL_AXIS_MIN..VIRTUAL_AXIS_MAX
<1>1. \A code : AxisInfo(code) =
        CASE code \in Triggers -> trigger
          [] code \in Weights -> weight
          [] OTHER -> full
  BY DEF AxisInfo, Triggers, Weights
<1> HIDE DEF trigger, weight, full
<1>2. \A code \in Triggers : code \notin Weights
  BY DEF Triggers, Weights
<1>3. \A code \in Full : code \notin Weights /\ code \notin Triggers
  BY DEF Full
<1> QED
  BY <1>1, <1>2, <1>3 DEF trigger, weight, full

\* An axis of the map is one of the gamepad's, reads a component the report has,
\* and is scaled to what the gamepad was told of it.
Placed(kind, axis) ==
  axis.slot \in DOMAIN AxisCodes[kind] /\ axis.i \in DOMAIN AxisCodes[kind][axis.slot]

Fits(axis) ==
  \/ axis.scale = "signed" /\ axis.code \in Full /\ axis.low > 0 /\ axis.high > 0
     /\ axis.low \in Nat /\ axis.high \in Nat
  \/ axis.scale = "unsigned" /\ axis.code \in Full /\ axis.low > 0 /\ axis.low \in Nat
     /\ axis.high = VIRTUAL_AXIS_MAX
  \/ axis.scale = "unsigned" /\ axis.code \in Triggers /\ axis.low > 0 /\ axis.low \in Nat
     /\ axis.high = VIRTUAL_TRIGGER_MAX

LEMMA FitsInRange ==
  ASSUME NEW axis, Fits(axis), NEW kind, kind # "balance", NEW value \in Int
  PROVE  axis.code \in CoreAxes /\ Scaled(axis, kind, value) \in AxisInfo(axis.code)
<1> DEFINE v == Scaled(axis, kind, value)
           low == axis.low
           high == axis.high
           code == axis.code
<1>0. v = IF axis.scale = "signed" THEN ScaleSigned(value, low, high) ELSE ScaleUnsigned(value, low, high)
  BY DEF Scaled
<1> HIDE DEF v, low, high, code
<1>1. code \in Full \/ code \in Triggers
  BY DEF Fits, code
<1>2. code \in CoreAxes
  BY <1>1 DEF Full, Triggers, CoreAxes
<1> SUFFICES v \in AxisInfo(code)
  BY <1>2 DEF v, code
<1>3. CASE axis.scale = "signed" /\ code \in Full /\ low > 0 /\ high > 0 /\ low \in Nat /\ high \in Nat
  BY <1>0, <1>3, ScaleSignedRange, Infos
<1>4. CASE axis.scale = "unsigned" /\ code \in Full /\ low > 0 /\ low \in Nat /\ high = VIRTUAL_AXIS_MAX
  <2>1. v = ScaleUnsigned(value, low, high)
    BY <1>0, <1>4
  <2>2. v \in 0..VIRTUAL_AXIS_MAX
    BY <1>4, <2>1, ScaleUnsignedRange, Extents
  <2>3. AxisInfo(code) = VIRTUAL_AXIS_MIN..VIRTUAL_AXIS_MAX
    BY <1>4, Infos
  <2> QED
    BY <2>2, <2>3, Extents
<1>5. CASE axis.scale = "unsigned" /\ code \in Triggers /\ low > 0 /\ low \in Nat /\ high = VIRTUAL_TRIGGER_MAX
  <2>1. v = ScaleUnsigned(value, low, high)
    BY <1>0, <1>5
  <2>2. v \in 0..VIRTUAL_TRIGGER_MAX
    BY <1>5, <2>1, ScaleUnsignedRange, Extents
  <2> QED
    BY <1>5, <2>2, Infos
<1> QED
  BY <1>3, <1>4, <1>5 DEF Fits, low, high, code

LEMMA SignedFits ==
  ASSUME NEW kind, NEW slot \in DOMAIN AxisCodes[kind], NEW i \in DOMAIN AxisCodes[kind][slot],
         NEW code \in Full, NEW low \in Nat, low > 0, NEW high \in Nat, high > 0
  PROVE  Fits(Signed(slot, i, code, low, high)) /\ Placed(kind, Signed(slot, i, code, low, high))
BY DEF Fits, Placed, Signed

LEMMA TriggerFits ==
  ASSUME NEW kind, NEW slot \in DOMAIN AxisCodes[kind], 1 \in DOMAIN AxisCodes[kind][slot],
         NEW code \in Triggers, NEW low \in Nat, low > 0
  PROVE  /\ Fits(Unsigned(slot, code, low, VIRTUAL_TRIGGER_MAX))
         /\ Placed(kind, Unsigned(slot, code, low, VIRTUAL_TRIGGER_MAX))
BY DEF Fits, Placed, Unsigned

LEMMA HalfFits ==
  ASSUME NEW kind, NEW slot \in DOMAIN AxisCodes[kind], 1 \in DOMAIN AxisCodes[kind][slot],
         NEW code \in Full, NEW low \in Nat, low > 0
  PROVE  /\ Fits(Unsigned(slot, code, low, VIRTUAL_AXIS_MAX))
         /\ Placed(kind, Unsigned(slot, code, low, VIRTUAL_AXIS_MAX))
BY DEF Fits, Placed, Unsigned

LEMMA StickFits ==
  ASSUME NEW kind, NEW slot \in DOMAIN AxisCodes[kind],
         1 \in DOMAIN AxisCodes[kind][slot], 2 \in DOMAIN AxisCodes[kind][slot],
         NEW x \in Full, NEW y \in Full, NEW extent \in Nat, extent > 0
  PROVE  \A axis \in Stick(slot, x, y, extent) : Fits(axis) /\ Placed(kind, axis)
BY SignedFits DEF Stick

LEMMA TripleFits ==
  ASSUME NEW kind, NEW slot \in DOMAIN AxisCodes[kind], 1..3 \subseteq DOMAIN AxisCodes[kind][slot],
         NEW codes, \A i \in 1..3 : codes[i] \in Full, NEW extent \in Nat, extent > 0
  PROVE  \A axis \in Triple(slot, codes, extent) : Fits(axis) /\ Placed(kind, axis)
BY SignedFits DEF Triple

\* The tables of mapping.rs, a kind of report at a time.
LEMMA FullCodes ==
  /\ {"X", "Y", "RX", "RY", "HAT3X", "THROTTLE", "RUDDER", "WHEEL", "GAS", "BRAKE", "HAT0X",
      "HAT1X", "HAT1Y", "HAT2X"} \subseteq Full
  /\ {"Z", "RZ", "HAT3Y", "MISC"} \subseteq Triggers
BY DEF Full, Triggers, Weights, CoreAxes

MapsWell(kind) == \A axis \in AxisMap(kind) : Fits(axis) /\ Placed(kind, axis)

LEMMA AccelMaps == MapsWell("accel")
<1> DEFINE codes == <<"THROTTLE", "RUDDER", "WHEEL">>
<1>1. AxisMap("accel") = Triple(1, codes, 500)
  BY DEF AxisMap
<1>2. 1 \in DOMAIN AxisCodes["accel"] /\ 1..3 \subseteq DOMAIN AxisCodes["accel"][1]
  BY DEF AxisCodes
<1>3. \A i \in 1..3 : codes[i] \in Full
  BY FullCodes
<1> QED
  BY <1>1, <1>2, <1>3, TripleFits DEF MapsWell

LEMMA MotionPlusMaps == MapsWell("motion_plus")
<1> DEFINE codes == <<"GAS", "BRAKE", "HAT0X">>
<1>1. AxisMap("motion_plus") = Triple(1, codes, 16000)
  BY DEF AxisMap
<1>2. 1 \in DOMAIN AxisCodes["motion_plus"] /\ 1..3 \subseteq DOMAIN AxisCodes["motion_plus"][1]
  BY DEF AxisCodes
<1>3. \A i \in 1..3 : codes[i] \in Full
  BY FullCodes
<1> QED
  BY <1>1, <1>2, <1>3, TripleFits DEF MapsWell

LEMMA NunchukMaps == MapsWell("nunchuk")
<1> DEFINE codes == <<"HAT1X", "HAT1Y", "HAT2X">>
<1>1. AxisMap("nunchuk") = Stick(1, "X", "Y", 120) \cup Triple(2, codes, 500)
  BY DEF AxisMap
<1>2. /\ {1, 2} \subseteq DOMAIN AxisCodes["nunchuk"]
      /\ {1, 2} \subseteq DOMAIN AxisCodes["nunchuk"][1]
      /\ 1..3 \subseteq DOMAIN AxisCodes["nunchuk"][2]
  BY DEF AxisCodes
<1>3. \A i \in 1..3 : codes[i] \in Full
  BY FullCodes
<1>4. \A axis \in Triple(2, codes, 500) : Fits(axis) /\ Placed("nunchuk", axis)
  BY <1>2, <1>3, TripleFits
<1>5. \A axis \in Stick(1, "X", "Y", 120) : Fits(axis) /\ Placed("nunchuk", axis)
  BY <1>2, FullCodes, StickFits
<1> QED
  BY <1>1, <1>4, <1>5 DEF MapsWell

LEMMA ClassicMaps == MapsWell("classic")
<1> DEFINE left == Unsigned(3, "Z", 62, VIRTUAL_TRIGGER_MAX)
           other == Unsigned(3, "RZ", 62, VIRTUAL_TRIGGER_MAX)
           right == [other EXCEPT !.i = 2]
<1>1. AxisMap("classic") = Stick(1, "X", "Y", 30) \cup Stick(2, "RX", "RY", 30) \cup {left, right}
  BY DEF AxisMap
<1>2. /\ {1, 2, 3} \subseteq DOMAIN AxisCodes["classic"]
      /\ \A s \in {1, 2, 3} : {1, 2} \subseteq DOMAIN AxisCodes["classic"][s]
  BY DEF AxisCodes
<1>3. \A axis \in Stick(1, "X", "Y", 30) \cup Stick(2, "RX", "RY", 30) :
        Fits(axis) /\ Placed("classic", axis)
  BY <1>2, FullCodes, StickFits
<1>4. Fits(left) /\ Placed("classic", left)
  BY <1>2, FullCodes, TriggerFits
<1>5. other = [slot |-> 3, i |-> 1, code |-> "RZ", scale |-> "unsigned", low |-> 62,
               high |-> VIRTUAL_TRIGGER_MAX]
  BY DEF Unsigned
<1> HIDE DEF left, other
<1>6. right = [slot |-> 3, i |-> 2, code |-> "RZ", scale |-> "unsigned", low |-> 62,
               high |-> VIRTUAL_TRIGGER_MAX]
  BY <1>5
<1> HIDE DEF right
<1>7. Fits(right) /\ Placed("classic", right)
  BY <1>2, <1>6, FullCodes DEF Fits, Placed
<1> QED
  BY <1>1, <1>3, <1>4, <1>7 DEF MapsWell

LEMMA ProMaps == MapsWell("pro")
<1>1. AxisMap("pro") = Stick(1, "X", "Y", 1024) \cup Stick(2, "RX", "RY", 1024)
  BY DEF AxisMap
<1>2. {1, 2} \subseteq DOMAIN AxisCodes["pro"] /\ \A s \in {1, 2} : {1, 2} \subseteq DOMAIN AxisCodes["pro"][s]
  BY DEF AxisCodes
<1> QED
  BY <1>1, <1>2, FullCodes, StickFits DEF MapsWell

LEMMA RhythmFits ==
  ASSUME NEW kind, 1 \in DOMAIN AxisCodes[kind], {1, 2} \subseteq DOMAIN AxisCodes[kind][1]
  PROVE  \A axis \in RhythmStick : Fits(axis) /\ Placed(kind, axis)
<1>1. Fits(Signed(1, 1, "X", 32, 31)) /\ Placed(kind, Signed(1, 1, "X", 32, 31))
  BY FullCodes, SignedFits
<1>2. Fits(Signed(1, 2, "Y", 32, 31)) /\ Placed(kind, Signed(1, 2, "Y", 32, 31))
  BY FullCodes, SignedFits
<1> QED
  BY <1>1, <1>2 DEF RhythmStick

LEMMA GuitarMaps == MapsWell("guitar")
<1> DEFINE bar == Signed(2, 1, "HAT3X", 16, 15)
           slider == Unsigned(3, "HAT3Y", 31, VIRTUAL_TRIGGER_MAX)
<1>1. AxisMap("guitar") = RhythmStick \cup {bar, slider}
  BY DEF AxisMap
<1>2. /\ {1, 2, 3} \subseteq DOMAIN AxisCodes["guitar"]
      /\ {1, 2} \subseteq DOMAIN AxisCodes["guitar"][1]
      /\ 1 \in DOMAIN AxisCodes["guitar"][2] /\ 1 \in DOMAIN AxisCodes["guitar"][3]
  BY DEF AxisCodes
<1>3. Fits(bar) /\ Placed("guitar", bar)
  BY <1>2, FullCodes, SignedFits
<1>4. Fits(slider) /\ Placed("guitar", slider)
  BY <1>2, FullCodes, TriggerFits
<1> HIDE DEF bar, slider
<1> QED
  BY <1>1, <1>2, <1>3, <1>4, RhythmFits DEF MapsWell

\* A drum drives a full axis or a trigger, and that is what its axis is.
LEMMA DrumsMaps == MapsWell("drums")
<1> DEFINE high(n) == IF n \in FullDrums THEN VIRTUAL_AXIS_MAX ELSE VIRTUAL_TRIGGER_MAX
           drum(n) == Unsigned(n + 1, DrumCodes[n], 7, high(n))
<1>1. AxisMap("drums") = RhythmStick \cup {drum(n) : n \in 1..7}
  BY DEF AxisMap, DrumsMap
<1>2. /\ \A s \in 1..8 : s \in DOMAIN AxisCodes["drums"] /\ 1 \in DOMAIN AxisCodes["drums"][s]
      /\ {1, 2} \subseteq DOMAIN AxisCodes["drums"][1]
  BY DEF AxisCodes
<1>3. \A n \in 1..7 : \/ DrumCodes[n] \in Full /\ high(n) = VIRTUAL_AXIS_MAX
                      \/ DrumCodes[n] \in Triggers /\ high(n) = VIRTUAL_TRIGGER_MAX
  BY FullCodes DEF DrumCodes, FullDrums
<1> HIDE DEF high
<1>4. \A n \in 1..7 : n + 1 \in 1..8
  OBVIOUS
<1>5. \A n \in 1..7 : Fits(drum(n)) /\ Placed("drums", drum(n))
  <2> SUFFICES ASSUME NEW n \in 1..7 PROVE Fits(drum(n)) /\ Placed("drums", drum(n))
    OBVIOUS
  <2>1. n + 1 \in DOMAIN AxisCodes["drums"] /\ 1 \in DOMAIN AxisCodes["drums"][n + 1]
    BY <1>2, <1>4
  <2>2. CASE DrumCodes[n] \in Full /\ high(n) = VIRTUAL_AXIS_MAX
    BY <2>1, <2>2, HalfFits
  <2>3. CASE DrumCodes[n] \in Triggers /\ high(n) = VIRTUAL_TRIGGER_MAX
    BY <2>1, <2>3, TriggerFits
  <2> QED
    BY <1>3, <2>2, <2>3
<1> HIDE DEF drum
<1> QED
  BY <1>1, <1>2, <1>5, RhythmFits DEF MapsWell

\* The weights of the balance board are passed on as they are.
LEMMA BalanceMaps ==
  ASSUME NEW axis \in AxisMap("balance")
  PROVE  axis.code \in Weights /\ axis.code \in CoreAxes /\ Placed("balance", axis)
<1> DEFINE codes == <<"PRESSURE", "DISTANCE", "TILT_X", "TILT_Y">>
<1>1. AxisMap("balance") = {Unsigned(n, codes[n], WeightMax, WeightMax) : n \in 1..4}
  BY DEF AxisMap
<1>2. \A s \in 1..4 : s \in DOMAIN AxisCodes["balance"] /\ 1 \in DOMAIN AxisCodes["balance"][s]
  BY DEF AxisCodes
<1>3. \A n \in 1..4 : codes[n] \in Weights /\ codes[n] \in CoreAxes
  BY DEF Weights, CoreAxes
<1>4. PICK n \in 1..4 : axis = Unsigned(n, codes[n], WeightMax, WeightMax)
  BY <1>1
<1> HIDE DEF codes
<1>5. axis.slot = n /\ axis.i = 1 /\ axis.code = codes[n]
  BY <1>4 DEF Unsigned
<1> QED
  BY <1>2, <1>3, <1>5 DEF Placed

\* A component of a report is the value of its code.
LEMMA DecodedValue ==
  ASSUME NEW kind, NEW raw, NEW slot \in DOMAIN AxisCodes[kind],
         NEW i \in DOMAIN AxisCodes[kind][slot]
  PROVE  \E code \in Codes(kind) : Decoded(kind, raw)[slot][i] = raw[code]
<1>1. Decoded(kind, raw)[slot][i] = raw[AxisCodes[kind][slot][i]]
  BY DEF Decoded
<1>2. AxisCodes[kind][slot][i] \in Codes(kind)
  BY DEF Codes
<1> QED
  BY <1>1, <1>2

InRange(a) == a[1] \in CoreAxes /\ a[2] \in AxisInfo(a[1])

\* raw is what the controller says, a number for each code.
LEMMA MapMotionInRange ==
  ASSUME NEW kind \in DOMAIN AxisCodes \ {"ir"}, NEW raw,
         \A code \in Codes(kind) : raw[code] \in Int,
         kind = "balance" => \A code \in Codes(kind) : raw[code] \in 0..WeightMax
  PROVE  \A a \in MapMotion(kind, Decoded(kind, raw)) : InRange(a)
<1> DEFINE slots == Decoded(kind, raw)
           value(axis) == slots[axis.slot][axis.i]
<1>1. MapMotion(kind, slots) = {<<axis.code, Scaled(axis, kind, value(axis))>> : axis \in AxisMap(kind)}
  BY DEF MapMotion
<1>2. \A axis : Placed(kind, axis) => \E code \in Codes(kind) : value(axis) = raw[code]
  BY DecodedValue DEF Placed
<1> HIDE DEF value, slots
<1> SUFFICES ASSUME NEW axis \in AxisMap(kind)
             PROVE  axis.code \in CoreAxes /\ Scaled(axis, kind, value(axis)) \in AxisInfo(axis.code)
  BY <1>1 DEF InRange, slots
<1>3. CASE kind = "balance"
  <2>1. axis.code \in Weights /\ axis.code \in CoreAxes /\ Placed(kind, axis)
    BY <1>3, BalanceMaps
  <2>2. value(axis) \in 0..WeightMax
    BY <1>2, <1>3, <2>1
  <2>3. Scaled(axis, kind, value(axis)) = value(axis)
    BY <1>3 DEF Scaled
  <2> QED
    BY <2>1, <2>2, <2>3, Infos
<1>4. CASE kind # "balance"
  <2>1. kind \in {"accel", "motion_plus", "nunchuk", "classic", "pro", "drums", "guitar"}
    BY <1>4 DEF AxisCodes
  <2>2. MapsWell(kind)
    BY <2>1, AccelMaps, MotionPlusMaps, NunchukMaps, ClassicMaps, ProMaps, DrumsMaps, GuitarMaps
  <2>3. Fits(axis) /\ Placed(kind, axis)
    BY <2>2 DEF MapsWell
  <2>4. value(axis) \in Int
    BY <1>2, <2>3
  <2> QED
    BY <1>4, <2>3, <2>4, FitsInRange
<1> QED
  BY <1>3, <1>4

LEMMA SamplePair ==
  ASSUME NEW kind \in {"accel", "motion_plus"}, NEW raw,
         \A code \in Codes(kind) : raw[code] \in Int
  PROVE  Pair(Decoded(kind, raw)[1])
<1>1. 1 \in DOMAIN AxisCodes[kind] /\ {1, 2} \subseteq DOMAIN AxisCodes[kind][1]
  BY DEF AxisCodes
<1> QED
  BY <1>1, DecodedValue DEF Pair

(***************************************************************************)
(* The session's numbers.  A daemon's configuration is one that was read,  *)
(* so its options are numbers of their ranges; what a report or a frame    *)
(* gives the aim are numbers, and so is all it keeps and emits.            *)
(***************************************************************************)
RangeInv ==
  /\ edits \in Nat
  /\ edits = 0 /\ DOMAIN saved = {} => files \in Installed
  /\ Running => Numbers(config)
  /\ AimNumbers(aim)
  /\ AxesInRange

LEMMA StickInRange ==
  ASSUME NEW v \in Int
  PROVE  /\ InRange(<<"RX", Clamp(v, VIRTUAL_AXIS_MIN, VIRTUAL_AXIS_MAX)>>)
         /\ InRange(<<"RY", Clamp(v, VIRTUAL_AXIS_MIN, VIRTUAL_AXIS_MAX)>>)
<1> DEFINE w == Clamp(v, VIRTUAL_AXIS_MIN, VIRTUAL_AXIS_MAX)
<1>1. "RX" \in Full /\ "RY" \in Full
  BY FullCodes
<1>2. "RX" \in CoreAxes /\ "RY" \in CoreAxes
  BY <1>1 DEF Full
<1>3. w \in VIRTUAL_AXIS_MIN..VIRTUAL_AXIS_MAX
  BY Extents DEF Clamp
<1> HIDE DEF w
<1>4. w \in AxisInfo("RX") /\ w \in AxisInfo("RY")
  BY <1>1, <1>3, Infos
<1>5. InRange(<<"RX", w>>) /\ InRange(<<"RY", w>>)
  BY <1>2, <1>4 DEF InRange
<1> QED
  BY <1>5 DEF w

LEMMA EmitAimInRange ==
  ASSUME NEW r, StepNumbers(r), NEW mapped, \A a \in mapped : InRange(a), EmitAim(r, mapped)
  PROVE  AimNumbers(aim') /\ AxesInRange'
<1> DEFINE x == Clamp(r.out[1], -32768, 32767)
           y == Clamp(r.out[2], -32768, 32767)
           writes == r.out # None /\ config.opt.aim_mode = "right-stick"
           written == {<<"RX", x>>, <<"RY", y>>}
<1>1. aim' = r.aim
  BY DEF EmitAim
<1>2. abs' = mapped \cup (IF writes THEN written ELSE {})
  BY DEF EmitAim
<1>3. ASSUME writes PROVE InRange(<<"RX", x>>) /\ InRange(<<"RY", y>>)
  <2>1. r.out[1] \in Int /\ r.out[2] \in Int
    BY <1>3 DEF StepNumbers, Pair
  <2>2. VIRTUAL_AXIS_MIN = -32768 /\ VIRTUAL_AXIS_MAX = 32767
    BY DEF VIRTUAL_AXIS_MIN, VIRTUAL_AXIS_MAX
  <2>3. /\ x = Clamp(r.out[1], VIRTUAL_AXIS_MIN, VIRTUAL_AXIS_MAX)
        /\ y = Clamp(r.out[2], VIRTUAL_AXIS_MIN, VIRTUAL_AXIS_MAX)
    BY <2>2
  <2> HIDE DEF x, y
  <2> QED
    BY <2>1, <2>3, StickInRange
<1> HIDE DEF x, y, writes
<1>4. \A a \in abs' : InRange(a)
  BY <1>2, <1>3
<1> QED
  BY <1>1, <1>4 DEF StepNumbers, AxesInRange, InRange

LEMMA NewSessionInRange ==
  ASSUME NewSession
  PROVE  AimNumbers(aim') /\ AxesInRange'
<1>1. aim' = [held |-> FALSE, source |-> "none", ir |-> None, zero |-> None, last |-> Zero] /\ abs' = {}
  BY DEF NewSession, NewAim
<1>2. Pair(Zero)
  BY DEF Pair, Zero
<1> QED
  BY <1>1, <1>2 DEF AimNumbers, IsAim, AxesInRange

\* A report: the axes are mapped, and the two sensors drive the aim.
LEMMA ReportInRange == ASSUME RangeInv, Report PROVE RangeInv'
<1>1. PICK kind \in DOMAIN AxisCodes \ {"ir"} :
        /\ Playing(kind)
        /\ \E code \in Codes(kind), value \in Raws :
             /\ kind = "balance" => value \in 0..WeightMax
             /\ MotionInput(kind, Decoded(kind, [c \in Codes(kind) |-> IF c = code THEN value ELSE 0]))
  BY DEF Report
<1>2. PICK code \in Codes(kind), value \in Raws :
        /\ kind = "balance" => value \in 0..WeightMax
        /\ MotionInput(kind, Decoded(kind, [c \in Codes(kind) |-> IF c = code THEN value ELSE 0]))
  BY <1>1
<1> DEFINE raw == [c \in Codes(kind) |-> IF c = code THEN value ELSE 0]
           slots == Decoded(kind, raw)
           mapped == IF NeedsGamepad THEN MapMotion(kind, slots) ELSE {}
           r == CASE kind = "accel" -> ProcessAccelerometer(config, aim, slots[1])
                  [] kind = "motion_plus" -> ProcessMotionPlus(config, aim, slots[1])
                  [] OTHER -> Result(aim, None)
<1>3. /\ Running /\ UNCHANGED <<editing, config>> /\ EmitAim(r, mapped)
  BY <1>1, <1>2 DEF Playing, MotionInput
<1>4. \A c \in Codes(kind) : raw[c] \in Int
  BY <1>2, ReportsAssumption
<1>5. kind = "balance" => \A c \in Codes(kind) : raw[c] \in 0..WeightMax
  BY <1>2, Extents
<1> HIDE DEF raw
<1>6. \A a \in mapped : InRange(a)
  BY <1>4, <1>5, MapMotionInRange
<1>7. kind \in {"accel", "motion_plus"} => Pair(slots[1])
  BY <1>4, SamplePair
<1> HIDE DEF slots
<1>8. AimNumbers(aim) /\ Numbers(config)
  BY <1>3 DEF RangeInv
<1>9. StepNumbers(r)
  <2>1. CASE kind = "accel"
    BY <1>7, <1>8, <2>1, ProcessAccelerometerNumbers
  <2>2. CASE kind = "motion_plus"
    BY <1>7, <1>8, <2>2, ProcessMotionPlusNumbers
  <2>3. CASE kind \notin {"accel", "motion_plus"}
    BY <1>8, <2>3, QuietNumbers
  <2> QED
    BY <2>1, <2>2, <2>3
<1> HIDE DEF r, mapped
<1>10. AimNumbers(aim') /\ AxesInRange'
  BY <1>3, <1>6, <1>9, EmitAimInRange
<1> QED
  BY <1>3, <1>10 DEF RangeInv, editing, Running

LEMMA IrReportInRange == ASSUME RangeInv, IrReport PROVE RangeInv'
<1>1. PICK frame \in Frames :
        LET point == SelectIr(frame, config.opt.ir_tracking)
        IN Playing("ir") /\ EmitAim(ProcessIr(config, aim, point), {})
  BY DEF IrReport
<1> DEFINE point == SelectIr(frame, config.opt.ir_tracking)
           r == ProcessIr(config, aim, point)
<1>2. frame \in Seq(Int \X Int)
  BY ReportsAssumption
<1>3. point # None => Pair(point)
  BY <1>2, PointPair
<1>4. Running /\ UNCHANGED <<editing, config>> /\ EmitAim(r, {})
  BY <1>1 DEF Playing
<1> HIDE DEF point
<1>5. StepNumbers(r)
  BY <1>3, <1>4, ProcessIrNumbers DEF RangeInv
<1> HIDE DEF r
<1>6. AimNumbers(aim') /\ AxesInRange'
  BY <1>4, <1>5, EmitAimInRange
<1> QED
  BY <1>4, <1>6 DEF RangeInv, editing, Running

LEMMA AimKeyInRange == ASSUME RangeInv, AimKey PROVE RangeInv'
<1>1. PICK button \in {"b", "z", "c"}, pressed \in BOOLEAN :
        /\ Playing(Interface(button))
        /\ EmitAim(ActivationKey(config.opt, aim, button, pressed), {})
  BY DEF AimKey
<1> DEFINE r == ActivationKey(config.opt, aim, button, pressed)
<1>2. Running /\ UNCHANGED <<editing, config>> /\ EmitAim(r, {})
  BY <1>1 DEF Playing
<1>3. StepNumbers(r)
  BY ActivationNumbers DEF RangeInv
<1> HIDE DEF r
<1>4. AimNumbers(aim') /\ AxesInRange'
  BY <1>2, <1>3, EmitAimInRange
<1> QED
  BY <1>2, <1>4 DEF RangeInv, editing, Running

\* A daemon that starts reads files and arguments as they were installed.
LEMMA StartInRange == ASSUME RangeInv, Start PROVE RangeInv'
<1>1. PICK args \in CommandLines : config' = Parse(args, files)
  BY DEF Start
<1>2. files \in Installed
  BY DEF Start, RangeInv
<1>3. IsSeq(args) /\ \A p \in DOMAIN files : IsFile(files[p])
  BY <1>2, FilesAssumption
<1>4. config' # Refused
  BY DEF Start
<1>5. Numbers(config')
  BY <1>1, <1>3, <1>4, ParseOK, ConfigNumbers
<1>6. AimNumbers(aim') /\ AxesInRange'
  BY NewSessionInRange DEF Start
<1> QED
  BY <1>5, <1>6 DEF RangeInv, Start, editing

LEMMA OverInRange == ASSUME RangeInv, Stop \/ InterfaceLost PROVE RangeInv'
<1>1. AimNumbers(aim') /\ AxesInRange'
  BY NewSessionInRange DEF Stop, InterfaceLost
<1>2. UNCHANGED editing /\ (Running' => Running /\ config' = config)
  BY DEF Stop, InterfaceLost, Playing, Running
<1> QED
  BY <1>1, <1>2 DEF RangeInv, editing

\* An edit of a file or of the form is counted, and a save remembered.
LEMMA EditingInRange ==
  ASSUME RangeInv,
         \/ Choose \/ ToggleScreen \/ DragScreen \/ ToggleCalibration \/ Calibrate
         \/ AddRule \/ ChangeRule \/ MoveRule \/ RemoveRule
         \/ Retarget \/ Load \/ Save \/ Administer \/ PasteCalibration
         \/ UNCHANGED vars
  PROVE  RangeInv'
<1>1. UNCHANGED <<config, aim, abs>>
  BY DEF Choose, ToggleScreen, DragScreen, ToggleCalibration, Calibrate, AddRule, ChangeRule,
     MoveRule, RemoveRule, Edited, Retarget, Load, Save, Administer, PasteCalibration, vars, session
<1>2. edits \in Nat
  BY DEF RangeInv
<1>3. \/ edits' = edits + 1
      \/ edits' = edits /\ saved' = With(saved, target, form)
      \/ UNCHANGED <<edits, saved, files>>
  <2>1. CASE \/ Choose \/ ToggleScreen \/ DragScreen \/ ToggleCalibration \/ Calibrate
             \/ AddRule \/ ChangeRule \/ MoveRule \/ RemoveRule
    BY <2>1 DEF Choose, ToggleScreen, DragScreen, ToggleCalibration, Calibrate, AddRule,
       ChangeRule, MoveRule, RemoveRule, Edited
  <2>2. CASE Administer \/ PasteCalibration
    BY <2>2 DEF Administer, PasteCalibration
  <2>3. CASE Save
    BY <2>3 DEF Save
  <2>4. CASE Retarget \/ Load \/ UNCHANGED vars
    BY <2>4 DEF Retarget, Load, vars, editing
  <2> QED
    BY <2>1, <2>2, <2>3, <2>4
<1>4. edits' \in Nat /\ (edits' = 0 /\ DOMAIN saved' = {} => files' \in Installed)
  <2>1. CASE edits' = edits + 1
    BY <1>2, <2>1
  <2>2. CASE edits' = edits /\ saved' = With(saved, target, form)
    <3>1. target \in DOMAIN saved'
      BY <2>2 DEF With
    <3> QED
      BY <1>2, <2>2, <3>1
  <2>3. CASE UNCHANGED <<edits, saved, files>>
    BY <2>3 DEF RangeInv
  <2> QED
    BY <1>3, <2>1, <2>2, <2>3
<1> QED
  BY <1>1, <1>4 DEF RangeInv, Running, AxesInRange

\* The inductive invariant: the numbers of the configuration and of the aim with
\* the axes (config.rs parse_int, aim.rs emit, engine.rs emit_aim).
THEOREM ControlsNumbers == ControlsSpec => []RangeInv
<1>1. ControlsInit => RangeInv
  <2> SUFFICES ASSUME ControlsInit PROVE RangeInv
    OBVIOUS
  <2>1. aim = [held |-> FALSE, source |-> "none", ir |-> None, zero |-> None, last |-> Zero]
    BY DEF ControlsInit, NewAim
  <2>2. Pair(Zero)
    BY DEF Pair, Zero
  <2>3. AimNumbers(aim)
    BY <2>1, <2>2 DEF AimNumbers, IsAim
  <2>4. ~Running /\ abs = {} /\ edits = 0 /\ files \in Installed
    BY DEF ControlsInit, Running
  <2> QED
    BY <2>3, <2>4 DEF RangeInv, AxesInRange
<1>2. RangeInv /\ [ControlsNext]_vars => RangeInv'
  <2> SUFFICES ASSUME RangeInv, [ControlsNext]_vars PROVE RangeInv'
    OBVIOUS
  <2>1. CASE Start \/ Stop \/ InterfaceLost
    BY <2>1, StartInRange, OverInRange
  <2>2. CASE Report \/ IrReport \/ AimKey
    BY <2>2, ReportInRange, IrReportInRange, AimKeyInRange
  <2> QED
    BY <2>1, <2>2, EditingInRange DEF ControlsNext
<1> QED
  BY <1>1, <1>2, PTL DEF ControlsSpec

\* No report and no aim puts a value on an axis outside of what uinput was told
\* of it (mapping.rs map_motion, axis_info; engine.rs emit_aim; uinput.rs configure).
THEOREM ControlsAxesInRange == ControlsSpec => []AxesInRange
<1>1. RangeInv => AxesInRange
  BY DEF RangeInv
<1> QED
  BY <1>1, ControlsNumbers, PTL

-----------------------------------------------------------------------------
(***************************************************************************)
(* A saved form takes effect: the lines it is rendered to, read over any   *)
(* configuration, give what the form says (config.rs dump, apply_bytes).   *)
(***************************************************************************)
LEMMA ConcatIs ==
  ASSUME NEW a, IsSeq(a), NEW b, IsSeq(b)
  PROVE  /\ IsSeq(a \o b)
         /\ Len(a \o b) = Len(a) + Len(b)
         /\ \A i \in 1..Len(a) : (a \o b)[i] = a[i]
         /\ \A i \in 1..Len(b) : (a \o b)[Len(a) + i] = b[i]
<1> DEFINE la == Len(a)
           lb == Len(b)
           U == {a[i] : i \in 1..la} \cup {b[i] : i \in 1..lb}
           s == a \o b
<1>1. la \in Nat /\ a = [i \in 1..la |-> a[i]] /\ lb \in Nat /\ b = [i \in 1..lb |-> b[i]]
  BY DEF IsSeq
<1>2. a \in Seq(U)
  BY <1>1
<1>3. b \in Seq(U)
  BY <1>1
<1> HIDE DEF U
<1>4. Len(s) = la + lb
  BY <1>2, <1>3
<1>5. s = [i \in 1..Len(s) |-> s[i]]
  <2>1. s \in Seq(U)
    BY <1>2, <1>3
  <2> HIDE DEF s
  <2> QED
    BY <2>1
<1>6. \A i \in 1..la : s[i] = a[i]
  BY <1>1, <1>2, <1>3
<1>7. \A i \in 1..lb : s[la + i] = b[i]
  BY <1>1, <1>2, <1>3
<1> HIDE DEF s
<1>8. IsSeq(s)
  <2> HIDE DEF la, lb
  <2> QED
    BY <1>1, <1>4, <1>5 DEF IsSeq
<1> QED
  BY <1>4, <1>6, <1>7, <1>8 DEF s

LEMMA ApplyConcat ==
  ASSUME NEW c, NEW a, IsSeq(a), NEW b, IsSeq(b)
  PROVE  ApplyBytes(c, a \o b) =
           IF ApplyBytes(c, a) = Refused THEN Refused ELSE ApplyBytes(ApplyBytes(c, a), b)
<1> DEFINE la == Len(a)
           lb == Len(b)
           s == a \o b
           l == la + lb
<1>1. la \in Nat /\ lb \in Nat /\ Len(s) = l /\ Len(s) \in Nat
  BY ConcatIs DEF IsSeq
<1>2. /\ \A i \in 1..la : s[i] = a[i]
      /\ \A i \in 1..lb : s[la + i] = b[i]
  BY ConcatIs
<1>3. PICK f : AfterLines(c, a, la, f) /\ ApplyBytes(c, a) = f[la]
  BY <1>1, ApplyBytesLines
<1>4. PICK g : AfterLines(f[la], b, lb, g) /\ ApplyBytes(f[la], b) = g[lb]
  BY <1>1, ApplyBytesLines
<1>5. PICK h : AfterLines(c, s, Len(s), h) /\ ApplyBytes(c, s) = h[Len(s)]
  BY <1>1, ApplyBytesLines
<1> HIDE DEF la, lb, s
<1>6. /\ \A n \in 0..la : f[n] = IF n = 0 THEN c ELSE IF f[n - 1] = Refused THEN Refused ELSE ApplyLine(f[n - 1], a[n])
      /\ \A n \in 0..lb : g[n] = IF n = 0 THEN f[la] ELSE IF g[n - 1] = Refused THEN Refused ELSE ApplyLine(g[n - 1], b[n])
      /\ \A n \in 0..l : h[n] = IF n = 0 THEN c ELSE IF h[n - 1] = Refused THEN Refused ELSE ApplyLine(h[n - 1], s[n])
  BY <1>1, <1>3, <1>4, <1>5 DEF AfterLines
<1> DEFINE S == {n \in Nat : n <= la => h[n] = f[n]}
           T == {n \in Nat : n <= lb => h[la + n] = IF f[la] = Refused THEN Refused ELSE g[n]}
<1>7. 0 \in S
  BY <1>1, <1>6
<1>8. ASSUME NEW n \in Nat, n \in S PROVE n + 1 \in S
  <2> SUFFICES ASSUME n + 1 <= la PROVE h[n + 1] = f[n + 1]
    OBVIOUS
  <2>1. /\ n + 1 \in 0..la /\ n + 1 \in 0..l /\ n + 1 \in 1..la /\ n + 1 # 0
        /\ (n + 1) - 1 = n /\ n <= la
    BY <1>1
  <2>2. h[n] = f[n] /\ s[n + 1] = a[n + 1]
    BY <1>2, <1>8, <2>1
  <2> QED
    BY <1>6, <2>1, <2>2
<1>9. h[la] = f[la]
  <2>1. Nat \subseteq S
    <3> HIDE DEF S
    <3> QED
      BY <1>7, <1>8, SetInduction
  <2> QED
    BY <1>1, <2>1
<1>10. 0 \in T
  <2>1. g[0] = f[la] /\ la + 0 = la
    BY <1>1, <1>6
  <2> QED
    BY <1>9, <2>1
<1>11. ASSUME NEW n \in Nat, n \in T PROVE n + 1 \in T
  <2> SUFFICES ASSUME n + 1 <= lb
               PROVE  h[la + (n + 1)] = IF f[la] = Refused THEN Refused ELSE g[n + 1]
    OBVIOUS
  <2> DEFINE k == la + (n + 1)
  <2>1. /\ n + 1 \in 0..lb /\ n + 1 \in 1..lb /\ n + 1 # 0 /\ (n + 1) - 1 = n /\ n <= lb
        /\ k \in 0..l /\ k # 0 /\ k - 1 = la + n
    BY <1>1
  <2>2. h[la + n] = (IF f[la] = Refused THEN Refused ELSE g[n]) /\ s[k] = b[n + 1]
    BY <1>2, <1>11, <2>1
  <2> HIDE DEF k
  <2>3. h[k] = IF h[la + n] = Refused THEN Refused ELSE ApplyLine(h[la + n], s[k])
    BY <1>6, <2>1
  <2>4. g[n + 1] = IF g[n] = Refused THEN Refused ELSE ApplyLine(g[n], b[n + 1])
    BY <1>6, <2>1
  <2>5. h[k] = IF f[la] = Refused THEN Refused ELSE g[n + 1]
    BY <2>2, <2>3, <2>4
  <2> QED
    BY <2>5 DEF k
<1>12. h[l] = IF f[la] = Refused THEN Refused ELSE g[lb]
  <2>1. Nat \subseteq T
    <3> HIDE DEF T
    <3> QED
      BY <1>10, <1>11, SetInduction
  <2> QED
    BY <1>1, <2>1
<1> HIDE DEF l, S, T
<1> QED
  BY <1>1, <1>3, <1>4, <1>5, <1>12 DEF s

Made(opt, screen, accel, bias, rules) ==
  [opt |-> opt, ir_screen |-> screen, aim_accel_zero |-> accel,
   aim_motion_plus_bias |-> bias, device_rules |-> rules]

LEMMA MadeIs ==
  ASSUME NEW opt, NEW screen, NEW accel, NEW bias, NEW rules
  PROVE  LET c == Made(opt, screen, accel, bias, rules)
         IN /\ c # Refused /\ Fields(c)
            /\ c.opt = opt /\ c.ir_screen = screen /\ c.aim_accel_zero = accel
            /\ c.aim_motion_plus_bias = bias /\ c.device_rules = rules
            /\ \A x : [c EXCEPT !.opt = x] = Made(x, screen, accel, bias, rules)
            /\ \A x : [c EXCEPT !.ir_screen = x] = Made(opt, x, accel, bias, rules)
            /\ \A x : [c EXCEPT !.aim_accel_zero = x] = Made(opt, screen, x, bias, rules)
            /\ \A x : [c EXCEPT !.aim_motion_plus_bias = x] = Made(opt, screen, accel, x, rules)
            /\ \A x : [c EXCEPT !.device_rules = x] = Made(opt, screen, accel, bias, x)
BY DEF Made, Fields, Refused

LEMMA MadeOfFields ==
  ASSUME NEW c, Fields(c)
  PROVE  c = Made(c.opt, c.ir_screen, c.aim_accel_zero, c.aim_motion_plus_bias, c.device_rules)
BY DEF Fields, Made

LEMMA ApplyNone == ASSUME NEW c PROVE ApplyBytes(c, <<>>) = c
<1>1. PICK f : AfterLines(c, <<>>, Len(<<>>), f) /\ ApplyBytes(c, <<>>) = f[Len(<<>>)]
  BY ApplyBytesLines
<1>2. Len(<<>>) = 0
  OBVIOUS
<1> QED
  BY <1>1, <1>2 DEF AfterLines

\* The values f[0], ..., f[m] that reading lines one at a time passes through.
Walked(c, lines, m, f) ==
  /\ f[0] = c
  /\ ApplyBytes(c, lines) = f[m]
  /\ \A n \in Nat : n + 1 <= m =>
       f[n + 1] = IF f[n] = Refused THEN Refused ELSE ApplyLine(f[n], lines[n + 1])

\* Reading lines, a line at a time.
LEMMA Walk ==
  ASSUME NEW c, NEW lines, NEW m \in Nat, Len(lines) = m
  PROVE  \E f : Walked(c, lines, m, f)
<1>1. PICK f : AfterLines(c, lines, Len(lines), f) /\ ApplyBytes(c, lines) = f[Len(lines)]
  BY ApplyBytesLines
<1>2. f = [n \in 0..m |->
            IF n = 0 THEN c
            ELSE LET before == f[n - 1]
                 IN IF before = Refused THEN Refused ELSE ApplyLine(before, lines[n])]
  BY <1>1 DEF AfterLines
<1>3. f[0] = c
  BY <1>2
<1>4. ASSUME NEW n \in Nat, n + 1 <= m
      PROVE  f[n + 1] = IF f[n] = Refused THEN Refused ELSE ApplyLine(f[n], lines[n + 1])
  <2>1. n + 1 \in 0..m /\ n + 1 # 0 /\ (n + 1) - 1 = n
    BY <1>4
  <2> QED
    BY <1>2, <2>1
<1>5. ApplyBytes(c, lines) = f[m]
  BY <1>1
<1> QED
  BY <1>3, <1>4, <1>5 DEF Walked

\* Lines that make one value after another, none of them refused.
LEMMA Steps ==
  ASSUME NEW c, NEW lines, NEW m \in Nat, Len(lines) = m, NEW v, v[0] = c,
         \A n \in Nat : n + 1 <= m => v[n] # Refused /\ ApplyLine(v[n], lines[n + 1]) = v[n + 1]
  PROVE  ApplyBytes(c, lines) = v[m]
<1>0. \E f : Walked(c, lines, m, f)
  BY Walk
<1>1. PICK f : /\ f[0] = c /\ ApplyBytes(c, lines) = f[m]
               /\ \A n \in Nat : n + 1 <= m =>
                    f[n + 1] = IF f[n] = Refused THEN Refused ELSE ApplyLine(f[n], lines[n + 1])
  BY <1>0 DEF Walked
<1> DEFINE S == {n \in Nat : n <= m => f[n] = v[n]}
<1>2. 0 \in S
  BY <1>1
<1>3. ASSUME NEW n \in Nat, n \in S PROVE n + 1 \in S
  BY <1>1, <1>3
<1>4. Nat \subseteq S
  <2> HIDE DEF S
  <2> QED
    BY <1>2, <1>3, SetInduction
<1> QED
  BY <1>1, <1>4

\* What is not refused in the end was not refused on the way.
LEMMA NeverRefused ==
  ASSUME NEW c, NEW lines, NEW m \in Nat, Len(lines) = m, ApplyBytes(c, lines) # Refused
  PROVE  \E f : /\ f[0] = c /\ ApplyBytes(c, lines) = f[m]
                /\ \A n \in Nat : n + 1 <= m =>
                     f[n] # Refused /\ f[n + 1] = ApplyLine(f[n], lines[n + 1])
<1>0. \E f : Walked(c, lines, m, f)
  BY Walk
<1>1. PICK f : /\ f[0] = c /\ ApplyBytes(c, lines) = f[m]
               /\ \A n \in Nat : n + 1 <= m =>
                    f[n + 1] = IF f[n] = Refused THEN Refused ELSE ApplyLine(f[n], lines[n + 1])
  BY <1>0 DEF Walked
<1> DEFINE S == {n \in Nat : n <= m => f[m - n] # Refused}
<1>2. 0 \in S
  BY <1>1
<1>3. ASSUME NEW n \in Nat, n \in S PROVE n + 1 \in S
  <2> SUFFICES ASSUME n + 1 <= m PROVE f[m - (n + 1)] # Refused
    OBVIOUS
  <2> DEFINE k == m - (n + 1)
  <2>1. k \in Nat /\ k + 1 <= m /\ k + 1 = m - n
    OBVIOUS
  <2>2. f[k + 1] # Refused
    BY <1>3, <2>1
  <2> HIDE DEF k
  <2>3. f[k] # Refused
    BY <1>1, <2>1, <2>2
  <2> QED
    BY <2>3 DEF k
<1>4. Nat \subseteq S
  <2> HIDE DEF S
  <2> QED
    BY <1>2, <1>3, SetInduction
<1>5. ASSUME NEW n \in Nat, n + 1 <= m PROVE f[n] # Refused
  <2>1. m - n \in Nat /\ m - n <= m /\ m - (m - n) = n
    BY <1>5
  <2> QED
    BY <1>4, <2>1
<1> QED
  BY <1>1, <1>5

LEMMA OptionSet ==
  Options =
    {"backend", "profile", "pointer_speed", "ir_speed", "ir_deadzone", "ir_smoothing",
     "ir_tracking", "ir_aim_mapping", "aim_mode", "aim_source", "aim_activation",
     "aim_sensitivity", "aim_deadzone", "aim_smoothing", "aim_invert_x", "aim_invert_y",
     "aim_calibration_duration", "desktop_a", "desktop_b", "desktop_plus",
     "desktop_minus", "desktop_home", "desktop_one", "desktop_two"}
BY DEF Options, Accepted

LEMMA OptionOrderIs ==
  /\ DOMAIN OptionOrder = 1..24 /\ IsSeq(OptionOrder)
  /\ \A i \in 1..24 : OptionOrder[i] \in Options
  /\ \A o \in Options : \E i \in 1..24 : OptionOrder[i] = o
<1>1. DOMAIN OptionOrder = 1..24 /\ Len(OptionOrder) = 24
  BY DEF OptionOrder
<1>2. IsSeq(OptionOrder)
  <2>1. OptionOrder = [i \in 1..24 |-> OptionOrder[i]]
    BY DEF OptionOrder
  <2> QED
    BY <1>1, <2>1 DEF IsSeq
<1>3. \A i \in 1..24 : OptionOrder[i] \in Options
  BY OptionSet DEF OptionOrder
<1> DEFINE O(i) == OptionOrder[i]
<1>4. /\ O(1) = "backend" /\ O(2) = "profile" /\ O(3) = "pointer_speed" /\ O(4) = "ir_speed"
      /\ O(5) = "ir_deadzone" /\ O(6) = "ir_smoothing" /\ O(7) = "ir_tracking"
      /\ O(8) = "ir_aim_mapping" /\ O(9) = "aim_mode" /\ O(10) = "aim_source"
      /\ O(11) = "aim_activation" /\ O(12) = "aim_sensitivity" /\ O(13) = "aim_deadzone"
      /\ O(14) = "aim_smoothing" /\ O(15) = "aim_invert_x" /\ O(16) = "aim_invert_y"
      /\ O(17) = "aim_calibration_duration" /\ O(18) = "desktop_a" /\ O(19) = "desktop_b"
      /\ O(20) = "desktop_plus" /\ O(21) = "desktop_minus" /\ O(22) = "desktop_home"
      /\ O(23) = "desktop_one" /\ O(24) = "desktop_two"
  BY DEF OptionOrder
<1>5. \A o \in Options : \E i \in 1..24 : O(i) = o
  <2> HIDE DEF O
  <2> QED
    BY <1>4, OptionSet
<1> QED
  BY <1>1, <1>2, <1>3, <1>5

\* All options of a form, over any others.
LEMMA OptionLines ==
  ASSUME NEW c, Fields(c), c.opt = [o \in Options |-> c.opt[o]], NEW opt, OptionsOK(opt)
  PROVE  LET lines == DumpGroup("option", OptionOrder, opt)
         IN /\ IsSeq(lines)
            /\ ApplyBytes(c, lines) = Made(opt, c.ir_screen, c.aim_accel_zero,
                                           c.aim_motion_plus_bias, c.device_rules)
<1> DEFINE lines == DumpGroup("option", OptionOrder, opt)
           L == [i \in 1..24 |-> Line("option", OptionOrder[i], opt[OptionOrder[i]])]
           Mix(n) == [o \in Options |-> IF \E i \in 1..n : OptionOrder[i] = o THEN opt[o] ELSE c.opt[o]]
           At(x) == Made(x, c.ir_screen, c.aim_accel_zero, c.aim_motion_plus_bias, c.device_rules)
<1>1. lines = L
  <2>1. opt # <<>>
    BY OptionSet DEF OptionsOK
  <2>2. "option" \notin Calibrations
    BY DEF Calibrations
  <2> QED
    BY <2>1, <2>2, OptionOrderIs DEF DumpGroup
<1>2. /\ Len(L) = 24 /\ Len(L) \in Nat /\ IsSeq(L) /\ 24 \in Nat
      /\ \A n \in 1..24 : L[n] = Line("option", OptionOrder[n], opt[OptionOrder[n]])
  BY DEF IsSeq
<1> HIDE DEF L
<1>5. ASSUME NEW n \in 1..24, NEW x
      PROVE  ApplyLine(At(x), L[n]) = At([x EXCEPT ![OptionOrder[n]] = opt[OptionOrder[n]]])
  <2> DEFINE key == OptionOrder[n]
             value == opt[key]
             line == Line("option", key, value)
             d == At(x)
  <2>1. L[n] = line
    BY <1>2
  <2>2. key \in Options /\ value \in Accepted[key]
    BY OptionOrderIs DEF OptionsOK
  <2> HIDE DEF key, value
  <2>3. line.group = "option" /\ line.key = key /\ line.value = value
    BY DEF Line
  <2> HIDE DEF line
  <2>4. ApplyLine(d, line) = SetOption(d, key, value)
    BY <2>3 DEF ApplyLine, Calibrations, RuleKinds
  <2>5. d.opt = x /\ \A y : [d EXCEPT !.opt = y] = At(y)
    BY MadeIs
  <2> HIDE DEF d
  <2>6. SetOption(d, key, value) = [d EXCEPT !.opt[key] = value]
    BY <2>2 DEF SetOption
  <2>7. [d EXCEPT !.opt[key] = value] = [d EXCEPT !.opt = [x EXCEPT ![key] = value]]
    BY <2>5
  <2> HIDE DEF L, At
  <2> QED
    BY <2>1, <2>4, <2>5, <2>6, <2>7 DEF d, key, value
<1>6. ASSUME NEW n \in Nat, n + 1 <= 24
      PROVE  [Mix(n) EXCEPT ![OptionOrder[n + 1]] = opt[OptionOrder[n + 1]]] = Mix(n + 1)
  <2>1. OptionOrder[n + 1] \in Options
    BY <1>6, OptionOrderIs
  <2>2. \A o : (\E i \in 1..(n + 1) : OptionOrder[i] = o) <=>
               (o = OptionOrder[n + 1] \/ \E i \in 1..n : OptionOrder[i] = o)
    <3>1. \A i \in 1..(n + 1) : i = n + 1 \/ i \in 1..n
      OBVIOUS
    <3>2. n + 1 \in 1..(n + 1) /\ \A i \in 1..n : i \in 1..(n + 1)
      OBVIOUS
    <3> QED
      BY <3>1, <3>2
  <2> QED
    BY <2>1, <2>2
<1>7. At(Mix(0)) = c
  <2>1. Mix(0) = c.opt
    <3>1. \A o \in Options : ~\E i \in 1..0 : OptionOrder[i] = o
      OBVIOUS
    <3> QED
      BY <3>1
  <2> HIDE DEF Mix
  <2> QED
    BY <2>1, MadeOfFields
<1>8. ASSUME NEW n \in Nat, n + 1 <= 24
      PROVE  At(Mix(n)) # Refused /\ ApplyLine(At(Mix(n)), L[n + 1]) = At(Mix(n + 1))
  <2>1. n + 1 \in 1..24
    BY <1>8
  <2>2. At(Mix(n)) # Refused
    BY MadeIs
  <2>3. ApplyLine(At(Mix(n)), L[n + 1]) = At([Mix(n) EXCEPT ![OptionOrder[n + 1]] = opt[OptionOrder[n + 1]]])
    BY <1>5, <2>1
  <2> HIDE DEF At, Mix, L
  <2> QED
    BY <1>6, <1>8, <2>2, <2>3
<1>9. ApplyBytes(c, L) = At(Mix(24))
  <2> DEFINE m == 24
             v == [n \in Nat |-> At(Mix(n))]
  <2> HIDE DEF At, Mix, L
  <2>1. m \in Nat /\ Len(L) = m /\ v[0] = c
    BY <1>2, <1>7
  <2>2. \A n \in Nat : n + 1 <= m => v[n] # Refused /\ ApplyLine(v[n], L[n + 1]) = v[n + 1]
    BY <1>8
  <2>3. v[m] = At(Mix(24))
    BY <2>1
  <2> HIDE DEF v, m
  <2> QED
    BY <2>1, <2>2, <2>3, Steps
<1>10. Mix(24) = opt
  BY OptionOrderIs DEF OptionsOK
<1> HIDE DEF L, Mix, At
<1>11. ApplyBytes(c, lines) = At(opt)
  BY <1>1, <1>9, <1>10
<1> HIDE DEF lines
<1> QED
  BY <1>1, <1>2, <1>11 DEF At, lines

ScreenParsed(screen) == screen # <<>> => \A side \in ScreenSides : Parsed(screen[side], 0, 32767)

\* Functions of a few values.
LEMMA FourSides ==
  ASSUME NEW screen, screen = [side \in ScreenSides |-> screen[side]], NEW v
  PROVE  v = [side \in ScreenSides |-> v[side]] =>
           With(With(With(With(screen, "left", v["left"]), "right", v["right"]),
                     "top", v["top"]), "bottom", v["bottom"]) = v
<1> DEFINE s1 == With(screen, "left", v["left"])
           s2 == With(s1, "right", v["right"])
           s3 == With(s2, "top", v["top"])
           s4 == With(s3, "bottom", v["bottom"])
<1>1. ScreenSides = {"left", "right", "top", "bottom"}
  BY DEF ScreenSides
<1>2. DOMAIN screen = ScreenSides
  OBVIOUS
<1>3. s1 = [k \in ScreenSides |-> IF k = "left" THEN v["left"] ELSE screen[k]]
  BY <1>1, <1>2 DEF With
<1> HIDE DEF s1
<1>4. s2 = [k \in ScreenSides |-> IF k = "right" THEN v["right"] ELSE s1[k]]
  BY <1>1, <1>3 DEF With
<1> HIDE DEF s2
<1>5. s3 = [k \in ScreenSides |-> IF k = "top" THEN v["top"] ELSE s2[k]]
  BY <1>1, <1>4 DEF With
<1> HIDE DEF s3
<1>6. s4 = [k \in ScreenSides |-> IF k = "bottom" THEN v["bottom"] ELSE s3[k]]
  BY <1>1, <1>5 DEF With
<1> HIDE DEF s4
<1>7. \A k \in ScreenSides : s4[k] = v[k]
  BY <1>1, <1>3, <1>4, <1>5, <1>6
<1>8. v = [side \in ScreenSides |-> v[side]] => s4 = v
  BY <1>6, <1>7
<1> QED
  BY <1>8 DEF s1, s2, s3, s4

\* A line of a side.
LEMMA SideLine ==
  ASSUME NEW opt, NEW screen, NEW accel, NEW bias, NEW rules, NEW side, NEW value
  PROVE  LET c == Made(opt, screen, accel, bias, rules)
             old == IF screen = <<>> THEN DefaultScreen ELSE screen
             r == ApplyLine(c, Line("screen", side, value))
         IN /\ r # Refused => Parsed(value, 0, 32767)
            /\ Parsed(value, 0, 32767) => r = Made(opt, With(old, side, value), accel, bias, rules)
<1> DEFINE c == Made(opt, screen, accel, bias, rules)
           old == IF screen = <<>> THEN DefaultScreen ELSE screen
           line == Line("screen", side, value)
           r == ApplyLine(c, line)
<1>1. line.group = "screen" /\ line.key = side /\ line.value = value
  BY DEF Line
<1> HIDE DEF line
<1>2. r = SetScreen(c, side, value)
  BY <1>1 DEF ApplyLine, Calibrations, RuleKinds
<1>3. c.ir_screen = screen /\ \A x : [c EXCEPT !.ir_screen = x] = Made(opt, x, accel, bias, rules)
  BY MadeIs
<1> HIDE DEF c
<1>4. ~Parsed(value, 0, 32767) => r = Refused
  BY <1>2 DEF SetScreen
<1>5. Parsed(value, 0, 32767) => r = [c EXCEPT !.ir_screen = With(old, side, value)]
  BY <1>2, <1>3 DEF SetScreen
<1>6. Parsed(value, 0, 32767) => r = Made(opt, With(old, side, value), accel, bias, rules)
  BY <1>3, <1>5
<1> QED
  BY <1>4, <1>6 DEF c, line

LEMMA WithSome ==
  ASSUME NEW screen, NEW side, NEW value
  PROVE  With(screen, side, value) # <<>>
<1>1. With(screen, side, value)[side] = value /\ side \in DOMAIN With(screen, side, value)
  BY DEF With
<1>2. DOMAIN <<>> = {}
  OBVIOUS
<1> QED
  BY <1>1, <1>2

\* The sides of the screen of a form, over any others.
LEMMA ScreenLines ==
  ASSUME NEW c, Fields(c), ScreenOK(c.ir_screen), NEW v,
         v # <<>> => v = [side \in ScreenSides |-> v[side]]
  PROVE  LET lines == DumpGroup("screen", <<"left", "right", "top", "bottom">>, v)
         IN /\ IsSeq(lines)
            /\ ApplyBytes(c, lines) # Refused => ScreenParsed(v)
            /\ ScreenParsed(v) =>
                 ApplyBytes(c, lines) = Made(c.opt, IF v = <<>> THEN c.ir_screen ELSE v,
                                             c.aim_accel_zero, c.aim_motion_plus_bias,
                                             c.device_rules)
<1> DEFINE order == <<"left", "right", "top", "bottom">>
           lines == DumpGroup("screen", order, v)
           At(x) == Made(c.opt, x, c.aim_accel_zero, c.aim_motion_plus_bias, c.device_rules)
<1>0. c = At(c.ir_screen)
  BY MadeOfFields
<1>1. CASE v = <<>>
  <2>1. lines = <<>>
    BY <1>1 DEF DumpGroup
  <2>2. IsSeq(<<>>)
    BY DEF IsSeq
  <2> HIDE DEF lines, At
  <2>3. ApplyBytes(c, lines) = At(c.ir_screen)
    BY <1>0, <2>1, ApplyNone
  <2> QED
    BY <1>1, <2>1, <2>2, <2>3 DEF ScreenParsed, At, lines
<1>2. CASE v # <<>>
  <2> DEFINE L == [i \in 1..4 |-> Line("screen", order[i], v[order[i]])]
             old == IF c.ir_screen = <<>> THEN DefaultScreen ELSE c.ir_screen
             x1 == With(old, "left", v["left"])
             x2 == With(x1, "right", v["right"])
             x3 == With(x2, "top", v["top"])
             x4 == With(x3, "bottom", v["bottom"])
  <2>1. lines = L
    <3>1. DOMAIN order = 1..4
      OBVIOUS
    <3>2. "screen" \notin Calibrations
      BY DEF Calibrations
    <3> QED
      BY <1>2, <3>1, <3>2 DEF DumpGroup
  <2>2. /\ Len(L) = 4 /\ IsSeq(L)
        /\ L[1] = Line("screen", "left", v["left"]) /\ L[2] = Line("screen", "right", v["right"])
        /\ L[3] = Line("screen", "top", v["top"]) /\ L[4] = Line("screen", "bottom", v["bottom"])
    BY DEF IsSeq
  <2>3. old = [side \in ScreenSides |-> old[side]]
    <3>1. DefaultScreen = [side \in ScreenSides |-> DefaultScreen[side]]
      BY DEF DefaultScreen, ScreenSides
    <3> QED
      BY <3>1 DEF ScreenOK
  <2>4. x4 = v
    BY <1>2, <2>3, FourSides
  <2> DEFINE B(value) == Parsed(value, 0, 32767)
  <2> HIDE DEF L, At, old, lines
  <2>5. /\ ApplyLine(At(c.ir_screen), L[1]) # Refused => B(v["left"])
        /\ B(v["left"]) => ApplyLine(At(c.ir_screen), L[1]) = At(x1)
    BY <2>2, SideLine DEF At, old
  <2>6. /\ ApplyLine(At(x1), L[2]) # Refused => B(v["right"])
        /\ B(v["right"]) => ApplyLine(At(x1), L[2]) = At(x2)
    <3> HIDE DEF x1
    <3>1. x1 # <<>>
      BY WithSome DEF x1
    <3> QED
      BY <2>2, <3>1, SideLine DEF At
  <2>7. /\ ApplyLine(At(x2), L[3]) # Refused => B(v["top"])
        /\ B(v["top"]) => ApplyLine(At(x2), L[3]) = At(x3)
    <3> HIDE DEF x2
    <3>1. x2 # <<>>
      BY WithSome DEF x2
    <3> QED
      BY <2>2, <3>1, SideLine DEF At
  <2>8. /\ ApplyLine(At(x3), L[4]) # Refused => B(v["bottom"])
        /\ B(v["bottom"]) => ApplyLine(At(x3), L[4]) = At(x4)
    <3> HIDE DEF x3
    <3>1. x3 # <<>>
      BY WithSome DEF x3
    <3> QED
      BY <2>2, <3>1, SideLine DEF At
  <2> HIDE DEF x1, x2, x3, x4, B
  <2>9. ScreenParsed(v) <=> B(v["left"]) /\ B(v["right"]) /\ B(v["top"]) /\ B(v["bottom"])
    BY <1>2 DEF ScreenParsed, ScreenSides, B
  <2>10. \A x : At(x) # Refused
    BY MadeIs DEF At
  <2> DEFINE m == 4
  <2>11. m \in Nat /\ Len(L) = m
    BY <2>2
  <2>12. ASSUME ApplyBytes(c, L) # Refused PROVE ScreenParsed(v)
    <3> HIDE DEF m
    <3>1. PICK f : /\ f[0] = c
                   /\ \A n \in Nat : n + 1 <= m =>
                        f[n] # Refused /\ f[n + 1] = ApplyLine(f[n], L[n + 1])
                   /\ f[m] # Refused
      BY <2>11, <2>12, NeverRefused
    <3> USE DEF m
    <3>2. f[1] = ApplyLine(At(c.ir_screen), L[1]) /\ f[1] # Refused
      <4>1. 0 \in Nat /\ 0 + 1 <= m /\ 1 \in Nat /\ 1 + 1 <= m /\ 0 + 1 = 1
        OBVIOUS
      <4> QED
        BY <1>0, <3>1, <4>1
    <3>3. f[2] = ApplyLine(f[1], L[2]) /\ f[2] # Refused
      <4>1. 1 \in Nat /\ 1 + 1 <= m /\ 2 \in Nat /\ 2 + 1 <= m /\ 1 + 1 = 2
        OBVIOUS
      <4> QED
        BY <3>1, <4>1
    <3>4. f[3] = ApplyLine(f[2], L[3]) /\ f[3] # Refused
      <4>1. 2 \in Nat /\ 2 + 1 <= m /\ 3 \in Nat /\ 3 + 1 <= m /\ 2 + 1 = 3
        OBVIOUS
      <4> QED
        BY <3>1, <4>1
    <3>5. f[4] = ApplyLine(f[3], L[4]) /\ f[4] # Refused
      <4>1. 3 \in Nat /\ 3 + 1 <= m /\ 3 + 1 = 4 /\ m = 4
        OBVIOUS
      <4> QED
        BY <3>1, <4>1
    <3> QED
      BY <2>5, <2>6, <2>7, <2>8, <2>9, <3>2, <3>3, <3>4, <3>5
  <2>13. ASSUME ScreenParsed(v) PROVE ApplyBytes(c, L) = At(v)
    <3> DEFINE w == [n \in 0..4 |-> CASE n = 0 -> c [] n = 1 -> At(x1) [] n = 2 -> At(x2)
                                      [] n = 3 -> At(x3) [] OTHER -> At(x4)]
    <3>1. w[0] = c /\ w[1] = At(x1) /\ w[2] = At(x2) /\ w[3] = At(x3) /\ w[4] = At(v)
      BY <2>4
    <3> HIDE DEF w
    <3>2. ASSUME NEW n \in Nat, n + 1 <= m
          PROVE  w[n] # Refused /\ ApplyLine(w[n], L[n + 1]) = w[n + 1]
      <4>1. n = 0 \/ n = 1 \/ n = 2 \/ n = 3
        BY <3>2
      <4>2. w[0] # Refused /\ w[1] # Refused /\ w[2] # Refused /\ w[3] # Refused
        BY <1>0, <2>10, <3>1
      <4>3. /\ ApplyLine(w[0], L[1]) = w[1] /\ ApplyLine(w[1], L[2]) = w[2]
            /\ ApplyLine(w[2], L[3]) = w[3] /\ ApplyLine(w[3], L[4]) = w[4]
        BY <1>0, <2>4, <2>5, <2>6, <2>7, <2>8, <2>9, <2>13, <3>1
      <4>4. 0 + 1 = 1 /\ 1 + 1 = 2 /\ 2 + 1 = 3 /\ 3 + 1 = 4
        OBVIOUS
      <4> QED
        BY <4>1, <4>2, <4>3, <4>4
    <3>3. w[m] = At(v)
      BY <3>1
    <3> HIDE DEF m
    <3> QED
      BY <2>11, <3>1, <3>2, <3>3, Steps
  <2> QED
    BY <1>2, <2>1, <2>2, <2>12, <2>13 DEF At, lines
<1> QED
  BY <1>1, <1>2

CalParsed(cal) == cal # <<>> => \A a \in Axes : Parsed(cal[a], -32768, 32767)
WithCal(c, group, cal) ==
  Made(c.opt, c.ir_screen,
       IF group = "aim_accel_zero" THEN cal ELSE c.aim_accel_zero,
       IF group = "aim_motion_plus_bias" THEN cal ELSE c.aim_motion_plus_bias,
       c.device_rules)

LEMMA WithCalIs ==
  ASSUME NEW c, NEW group \in Calibrations, NEW cal
  PROVE  LET d == WithCal(c, group, cal)
         IN /\ d # Refused /\ d[group] = cal
            /\ \A x : [d EXCEPT ![group] = x] = WithCal(c, group, x)
<1> DEFINE opt == c.opt
           screen == c.ir_screen
           accel == c.aim_accel_zero
           bias == c.aim_motion_plus_bias
           rules == c.device_rules
<1>1. group = "aim_accel_zero" \/ group = "aim_motion_plus_bias"
  BY DEF Calibrations
<1>2. CASE group = "aim_accel_zero"
  <2>1. \A x : WithCal(c, group, x) = Made(opt, screen, x, bias, rules)
    BY <1>2 DEF WithCal
  <2> HIDE DEF opt, screen, bias, rules
  <2> QED
    BY <1>2, <2>1, MadeIs
<1>3. CASE group = "aim_motion_plus_bias"
  <2>1. \A x : WithCal(c, group, x) = Made(opt, screen, accel, x, rules)
    BY <1>3 DEF WithCal
  <2> HIDE DEF opt, screen, accel, rules
  <2> QED
    BY <1>3, <2>1, MadeIs
<1> QED
  BY <1>1, <1>2, <1>3

\* A line of an axis.
LEMMA AxisLine ==
  ASSUME NEW c, NEW group \in Calibrations, NEW cal, NEW axis, NEW value
  PROVE  LET r == ApplyLine(WithCal(c, group, cal), Line(group, axis, value))
         IN /\ r # Refused => Parsed(value, -32768, 32767)
            /\ Parsed(value, -32768, 32767) => r = WithCal(c, group, With(cal, axis, value))
<1> DEFINE d == WithCal(c, group, cal)
           line == Line(group, axis, value)
           r == ApplyLine(d, line)
           B == Parsed(value, -32768, 32767)
<1>1. line.group = group /\ line.key = axis /\ line.value = value
  BY DEF Line
<1>2. d[group] = cal /\ \A x : [d EXCEPT ![group] = x] = WithCal(c, group, x)
  BY WithCalIs
<1> HIDE DEF line, d
<1>3. r = SetCal(d, group, axis, value)
  <2>1. group # "option" /\ group # "screen" /\ group \notin RuleKinds /\ group # "blank" /\ group # "junk"
    BY DEF Calibrations, RuleKinds
  <2> QED
    BY <1>1, <2>1 DEF ApplyLine
<1>4. SetCal(d, group, axis, value) = IF B THEN [d EXCEPT ![group] = With(d[group], axis, value)] ELSE Refused
  BY DEF SetCal
<1> HIDE DEF B, r
<1>5. /\ r # Refused => B
      /\ B => r = WithCal(c, group, With(cal, axis, value))
  BY <1>2, <1>3, <1>4
<1> QED
  BY <1>5 DEF r, B, d, line

LEMMA ThreeAxes ==
  ASSUME NEW old, DOMAIN old \subseteq Axes, NEW v, v = [a \in Axes |-> v[a]]
  PROVE  With(With(With(old, "x", v["x"]), "y", v["y"]), "z", v["z"]) = v
<1> DEFINE s1 == With(old, "x", v["x"])
           s2 == With(s1, "y", v["y"])
           s3 == With(s2, "z", v["z"])
<1>1. Axes = {"x", "y", "z"}
  BY DEF Axes
<1>2. DOMAIN s1 = DOMAIN old \cup {"x"} /\ s1["x"] = v["x"]
  BY DEF With
<1> HIDE DEF s1
<1>3. DOMAIN s2 = DOMAIN s1 \cup {"y"} /\ s2["y"] = v["y"] /\ s2["x"] = v["x"]
  BY <1>2 DEF With
<1> HIDE DEF s2
<1>4. DOMAIN s3 = Axes
  BY <1>1, <1>2, <1>3 DEF With
<1>5. s3 = [a \in DOMAIN s3 |-> s3[a]]
  BY DEF With
<1>6. s3["z"] = v["z"] /\ s3["y"] = v["y"] /\ s3["x"] = v["x"]
  BY <1>2, <1>3 DEF With
<1> HIDE DEF s3
<1>7. \A a \in Axes : s3[a] = v[a]
  BY <1>1, <1>6
<1>8. s3 = v
  BY <1>4, <1>5, <1>7
<1> QED
  BY <1>8 DEF s1, s2, s3

\* The axes of a calibration of a form, over any others.
LEMMA CalLines ==
  ASSUME NEW c, Fields(c), NEW group \in Calibrations, DOMAIN c[group] \subseteq Axes, NEW v,
         v # <<>> => v = [a \in Axes |-> v[a]]
  PROVE  LET lines == DumpGroup(group, <<"x", "y", "z">>, v)
         IN /\ IsSeq(lines)
            /\ ApplyBytes(c, lines) # Refused => CalParsed(v)
            /\ CalParsed(v) =>
                 ApplyBytes(c, lines) = WithCal(c, group, IF v = <<>> THEN c[group] ELSE v)
<1> DEFINE order == <<"x", "y", "z">>
           lines == DumpGroup(group, order, v)
           At(x) == WithCal(c, group, x)
           old == c[group]
<1>0. c = At(old)
  <2>1. c = Made(c.opt, c.ir_screen, c.aim_accel_zero, c.aim_motion_plus_bias, c.device_rules)
    BY MadeOfFields
  <2>2. At(old) = Made(c.opt, c.ir_screen, c.aim_accel_zero, c.aim_motion_plus_bias, c.device_rules)
    BY DEF WithCal, Calibrations
  <2> QED
    BY <2>1, <2>2
<1>1. CASE v = <<>>
  <2>1. lines = <<>>
    BY <1>1 DEF DumpGroup
  <2>2. IsSeq(<<>>)
    BY DEF IsSeq
  <2> HIDE DEF lines, At, old
  <2>3. ApplyBytes(c, lines) = At(old)
    BY <1>0, <2>1, ApplyNone
  <2> QED
    BY <1>1, <2>1, <2>2, <2>3 DEF CalParsed, At, old, lines
<1>2. CASE v # <<>>
  <2> DEFINE L == [i \in 1..3 |-> Line(group, order[i], v[order[i]])]
             x1 == With(old, "x", v["x"])
             x2 == With(x1, "y", v["y"])
             x3 == With(x2, "z", v["z"])
  <2>1. lines = L
    <3>1. DOMAIN order = 1..3
      OBVIOUS
    <3>2. Complete(v)
      BY <1>2 DEF Complete
    <3> QED
      BY <1>2, <3>1, <3>2 DEF DumpGroup
  <2>2. /\ Len(L) = 3 /\ IsSeq(L)
        /\ L[1] = Line(group, "x", v["x"]) /\ L[2] = Line(group, "y", v["y"])
        /\ L[3] = Line(group, "z", v["z"])
    BY DEF IsSeq
  <2>3. x3 = v
    BY <1>2, ThreeAxes
  <2> DEFINE B(value) == Parsed(value, -32768, 32767)
  <2> HIDE DEF L, old, lines
  <2>4. /\ ApplyLine(At(old), L[1]) # Refused => B(v["x"])
        /\ B(v["x"]) => ApplyLine(At(old), L[1]) = At(x1)
    BY <2>2, AxisLine
  <2>5. /\ ApplyLine(At(x1), L[2]) # Refused => B(v["y"])
        /\ B(v["y"]) => ApplyLine(At(x1), L[2]) = At(x2)
    <3> HIDE DEF x1
    <3> QED
      BY <2>2, AxisLine
  <2>6. /\ ApplyLine(At(x2), L[3]) # Refused => B(v["z"])
        /\ B(v["z"]) => ApplyLine(At(x2), L[3]) = At(x3)
    <3> HIDE DEF x2
    <3> QED
      BY <2>2, AxisLine
  <2> HIDE DEF x1, x2, x3, B
  <2>7. CalParsed(v) <=> B(v["x"]) /\ B(v["y"]) /\ B(v["z"])
    BY <1>2 DEF CalParsed, Axes, B
  <2>8. \A x : At(x) # Refused
    BY WithCalIs
  <2> HIDE DEF At
  <2> DEFINE m == 3
  <2>9. m \in Nat /\ Len(L) = m
    BY <2>2
  <2>10. ASSUME ApplyBytes(c, L) # Refused PROVE CalParsed(v)
    <3> HIDE DEF m
    <3>1. PICK f : /\ f[0] = c
                   /\ \A n \in Nat : n + 1 <= m =>
                        f[n] # Refused /\ f[n + 1] = ApplyLine(f[n], L[n + 1])
                   /\ f[m] # Refused
      BY <2>9, <2>10, NeverRefused
    <3> USE DEF m
    <3>2. f[1] = ApplyLine(At(old), L[1]) /\ f[1] # Refused
      <4>1. 0 \in Nat /\ 0 + 1 <= m /\ 1 \in Nat /\ 1 + 1 <= m /\ 0 + 1 = 1
        OBVIOUS
      <4> QED
        BY <1>0, <3>1, <4>1
    <3>3. f[2] = ApplyLine(f[1], L[2]) /\ f[2] # Refused
      <4>1. 1 \in Nat /\ 1 + 1 <= m /\ 2 \in Nat /\ 2 + 1 <= m /\ 1 + 1 = 2
        OBVIOUS
      <4> QED
        BY <3>1, <4>1
    <3>4. f[3] = ApplyLine(f[2], L[3]) /\ f[3] # Refused
      <4>1. 2 \in Nat /\ 2 + 1 <= m /\ 2 + 1 = 3 /\ m = 3
        OBVIOUS
      <4> QED
        BY <3>1, <4>1
    <3> QED
      BY <2>4, <2>5, <2>6, <2>7, <3>2, <3>3, <3>4
  <2>11. ASSUME CalParsed(v) PROVE ApplyBytes(c, L) = At(v)
    <3> DEFINE w == [n \in 0..3 |-> CASE n = 0 -> c [] n = 1 -> At(x1) [] n = 2 -> At(x2)
                                      [] OTHER -> At(x3)]
    <3>1. w[0] = c /\ w[1] = At(x1) /\ w[2] = At(x2) /\ w[3] = At(v)
      BY <2>3 DEF x3
    <3> HIDE DEF w
    <3>2. ASSUME NEW n \in Nat, n + 1 <= m
          PROVE  w[n] # Refused /\ ApplyLine(w[n], L[n + 1]) = w[n + 1]
      <4>1. n = 0 \/ n = 1 \/ n = 2
        BY <3>2
      <4>2. w[0] # Refused /\ w[1] # Refused /\ w[2] # Refused
        BY <1>0, <2>8, <3>1
      <4>3. /\ ApplyLine(w[0], L[1]) = w[1] /\ ApplyLine(w[1], L[2]) = w[2]
            /\ ApplyLine(w[2], L[3]) = w[3]
        <5>1. At(v) = At(x3)
          BY <2>3 DEF x3
        <5> QED
          BY <1>0, <2>4, <2>5, <2>6, <2>7, <2>11, <3>1, <5>1
      <4>4. 0 + 1 = 1 /\ 1 + 1 = 2 /\ 2 + 1 = 3
        OBVIOUS
      <4> QED
        BY <4>1, <4>2, <4>3, <4>4
    <3>3. w[m] = At(v)
      BY <3>1
    <3> HIDE DEF m
    <3> QED
      BY <2>9, <3>1, <3>2, <3>3, Steps
  <2> QED
    BY <1>2, <2>1, <2>2, <2>10, <2>11 DEF At, lines
<1> QED
  BY <1>1, <1>2

\* A text and a profile that a line of a rule may have.
Fine(text, value) == text # "" /\ value \in Profiles

\* The rules of a form: their keys are few enough and their fields are as an
\* editor leaves them, though one text may have several rules.
FormRules(rules) ==
  /\ IsSeq(rules)
  /\ \A i \in DOMAIN rules :
       /\ rules[i].kind \in RuleKinds
       /\ Fine(rules[i].match_text, rules[i].profile)

\* Among the first n rules, the last that suits the device d gives it p.
DecidesBy(rules, n, d, p) ==
  \E i \in 1..n :
    /\ Suits(rules[i], d) /\ rules[i].profile = p
    /\ \A j \in 1..n : Suits(rules[j], d) => j <= i

LEMMA KeysFew ==
  ASSUME NEW rules, IsSeq(rules)
  PROVE  IsFiniteSet(KeysOf(rules)) /\ Cardinality(KeysOf(rules)) <= Len(rules)
<1> DEFINE n == Len(rules)
           all == 1..n
           f == [i \in all |-> <<rules[i].kind, rules[i].match_text>>]
           K == KeysOf(rules)
<1>1. n \in Nat /\ DOMAIN rules = all
  BY DEF IsSeq
<1>2. IsFiniteSet(all) /\ Cardinality(all) = n
  <2> HIDE DEF n
  <2> QED
    BY <1>1, FS_Interval
<1>3. f \in Surjection(all, K)
  BY <1>1 DEF Surjection, KeysOf
<1> HIDE DEF all, f, K
<1>4. IsFiniteSet(K) /\ Cardinality(K) <= Cardinality(all)
  BY <1>2, <1>3, FS_Surjection
<1> QED
  BY <1>2, <1>4 DEF K

\* There is room for a rule of a new text, as long as all texts are few enough.
LEMMA RoomForRule ==
  ASSUME NEW rules, RulesOK(rules), NEW K, IsFiniteSet(K), Cardinality(K) <= MaxDeviceRules,
         KeysOf(rules) \subseteq K, NEW key \in K, key \notin KeysOf(rules)
  PROVE  Len(rules) < MaxDeviceRules
<1> DEFINE R == KeysOf(rules)
           n == Len(rules)
           next == R \cup {key}
<1>1. IsFiniteSet(R) /\ n <= Cardinality(R) /\ n \in Nat
  BY KeyBound DEF RulesOK, IsSeq
<1>2. Cardinality(R) \in Nat
  BY <1>1, FS_CardinalityType
<1>3. next \in SUBSET K /\ key \notin R
  OBVIOUS
<1> HIDE DEF R, n
<1>4. Cardinality(next) = Cardinality(R) + 1
  BY <1>1, <1>3, FS_AddElement
<1> HIDE DEF next
<1>5. Cardinality(next) <= Cardinality(K)
  BY <1>3, FS_Subset
<1>6. Cardinality(K) \in Nat /\ MaxDeviceRules \in Nat
  BY FS_CardinalityType, DeviceRulesAssumption
<1>7. n < MaxDeviceRules
  BY <1>1, <1>2, <1>4, <1>5, <1>6
<1> QED
  BY <1>7 DEF n

LEMMA Below == ASSUME NEW l \in Nat, NEW n \in Nat, NEW k, k = l, l < n PROVE ~(k >= n)
OBVIOUS

LEMMA WithRulesIs ==
  ASSUME NEW c, Fields(c), NEW rules
  PROVE  LET d == WithRules(c, rules)
         IN /\ d # Refused /\ d.device_rules = rules
            /\ d = Made(c.opt, c.ir_screen, c.aim_accel_zero, c.aim_motion_plus_bias, rules)
            /\ \A x : WithRules(d, x) = WithRules(c, x)
<1> DEFINE a == c.opt
           b == c.ir_screen
           x == c.aim_accel_zero
           y == c.aim_motion_plus_bias
           old == c.device_rules
<1>1. c = Made(a, b, x, y, old)
  BY MadeOfFields
<1> HIDE DEF a, b, x, y, old
<1>2. \A r : WithRules(c, r) = Made(a, b, x, y, r)
  BY <1>1, MadeIs DEF WithRules
<1>3. \A r : WithRules(Made(a, b, x, y, rules), r) = Made(a, b, x, y, r)
  BY MadeIs DEF WithRules
<1>4. Made(a, b, x, y, rules) # Refused /\ Made(a, b, x, y, rules).device_rules = rules
  BY MadeIs
<1> QED
  BY <1>2, <1>3, <1>4 DEF a, b, x, y

WellRules(rules) ==
  \A i \in DOMAIN rules : Fine(rules[i].match_text, rules[i].profile)

LEMMA LastOrBefore ==
  ASSUME NEW m \in Nat
  PROVE  \A j \in 1..(m + 1) : j = m + 1 \/ j \in 1..m
OBVIOUS

LEMMA RenewedWell ==
  ASSUME NEW rules, IsSeq(rules), WellRules(rules), NEW kind, NEW text, NEW value, Fine(text, value),
         NEW next, NEW m, NEW idx, Renews(rules, kind, text, value, next, m, idx)
  PROVE  WellRules(next)
<1>1. /\ m \in 0..Len(rules)
      /\ next = [j \in 1..(m + 1) |-> IF j = m + 1 THEN Rule(kind, text, value) ELSE rules[idx[j]]]
      /\ idx \in [1..m -> 1..Len(rules)]
  BY DEF Renews
<1>2. Len(rules) \in Nat /\ DOMAIN rules = 1..Len(rules)
  BY DEF IsSeq
<1>3. \A j \in 1..(m + 1) : j = m + 1 \/ j \in 1..m
  <2>1. m \in Nat
    BY <1>1, <1>2
  <2> QED
    BY <2>1, LastOrBefore
<1>4. ASSUME NEW j \in 1..(m + 1)
      PROVE  Fine(next[j].match_text, next[j].profile)
  <2>1. CASE j = m + 1
    BY <1>1, <2>1 DEF Rule
  <2>2. CASE j # m + 1
    <3>1. j \in 1..m
      BY <1>3, <2>2
    <3>2. next[j] = rules[idx[j]] /\ idx[j] \in DOMAIN rules
      BY <1>1, <1>2, <2>2, <3>1
    <3> QED
      BY <3>2 DEF WellRules
  <2> QED
    BY <2>1, <2>2
<1>5. DOMAIN next = 1..(m + 1)
  BY <1>1
<1> QED
  BY <1>4, <1>5 DEF WellRules

\* A line of a rule is accepted if there is room for it.
LEMMA RuleLine ==
  ASSUME NEW c, Fields(c), NEW rules, RulesOK(rules),
         NEW kind \in RuleKinds, NEW text, NEW value, Fine(text, value),
         NEW K, IsFiniteSet(K), Cardinality(K) <= MaxDeviceRules,
         KeysOf(rules) \subseteq K, <<kind, text>> \in K
  PROVE  LET next == Renewed(rules, kind, text, value)
         IN /\ ApplyLine(WithRules(c, rules), Line(kind, text, value)) = WithRules(c, next)
            /\ RulesOK(next) /\ KeysOf(next) = KeysOf(rules) \cup {<<kind, text>>}
            /\ WellRules(rules) => WellRules(next)
            /\ \A d, p : /\ text \in d[kind] => Decides(next, d, value)
                         /\ text \notin d[kind] /\ Decides(rules, d, p) => Decides(next, d, p)
<1> DEFINE d == WithRules(c, rules)
           line == Line(kind, text, value)
           next == Renewed(rules, kind, text, value)
<1>1. line.group = kind /\ line.key = text /\ line.value = value
  BY DEF Line
<1>2. d.device_rules = rules /\ d # Refused /\ \A x : WithRules(d, x) = WithRules(c, x)
  BY WithRulesIs
<1> HIDE DEF line, d
<1>3. ApplyLine(d, line) = SetRule(d, kind, text, value)
  <2>1. kind # "option" /\ kind # "screen" /\ kind \notin Calibrations /\ kind # "blank" /\ kind # "junk"
    BY DEF Calibrations, RuleKinds
  <2> QED
    BY <1>1, <2>1 DEF ApplyLine
<1>4. PICK m, idx : Renews(rules, kind, text, value, next, m, idx)
  <2>1. IsSeq(rules)
    BY DEF RulesOK
  <2> QED
    BY <2>1, RenewedRules
<1>5. m = Len(rules) => Len(rules) < MaxDeviceRules
  <2> SUFFICES ASSUME m = Len(rules) PROVE Len(rules) < MaxDeviceRules
    OBVIOUS
  <2>1. <<kind, text>> \notin KeysOf(rules)
    BY <1>4, RenewedOK
  <2> DEFINE key == <<kind, text>>
  <2>2. key \in K /\ key \notin KeysOf(rules)
    BY <2>1
  <2> HIDE DEF key
  <2> QED
    BY <2>2, RoomForRule
<1>6. m = Len(Kept(rules, Differing(rules, kind, text)))
  BY <1>4 DEF Renews
<1>7. SetRule(d, kind, text, value) = WithRules(d, next)
  <2> DEFINE others == Kept(rules, Differing(rules, kind, text))
  <2>1. others = Kept(d.device_rules, {i \in DOMAIN d.device_rules :
                        d.device_rules[i].kind # kind \/ d.device_rules[i].match_text # text})
    BY <1>2 DEF Differing
  <2>2. next = Append(others, [kind |-> kind, match_text |-> text, profile |-> value])
    BY DEF Renewed, Rule
  <2>3. m = Len(others) /\ Len(rules) = Len(d.device_rules)
    BY <1>2, <1>6
  <2> HIDE DEF others, next
  <2>4. ~(Len(others) = Len(d.device_rules) /\ Len(others) >= MaxDeviceRules)
    <3>1. Len(rules) \in Nat /\ MaxDeviceRules \in Nat
      BY DeviceRulesAssumption DEF RulesOK, IsSeq
    <3> SUFFICES ASSUME Len(others) = Len(d.device_rules) PROVE ~(Len(others) >= MaxDeviceRules)
      OBVIOUS
    <3>2. Len(others) = Len(rules) /\ Len(rules) < MaxDeviceRules
      BY <1>5, <2>3
    <3> DEFINE l == Len(rules)
               k == Len(others)
    <3>3. l \in Nat /\ MaxDeviceRules \in Nat /\ k = l /\ l < MaxDeviceRules
      BY <3>1, <3>2
    <3> HIDE DEF l, k
    <3>4. ~(k >= MaxDeviceRules)
      BY <3>3, Below
    <3> QED
      BY <3>4 DEF k
  <2> QED
    BY <2>1, <2>2, <2>4 DEF SetRule, WithRules, Fine
<1> HIDE DEF next
<1>8. ApplyLine(d, line) = WithRules(c, next)
  BY <1>2, <1>3, <1>7
<1>9. RulesOK(next) /\ KeysOf(next) = KeysOf(rules) \cup {<<kind, text>>}
  BY <1>4, RenewedOK
<1>10. WellRules(rules) => WellRules(next)
  BY <1>4, RenewedWell DEF RulesOK
<1>11. ASSUME NEW e, NEW p
       PROVE  /\ text \in e[kind] => Decides(next, e, value)
              /\ text \notin e[kind] /\ Decides(rules, e, p) => Decides(next, e, p)
  BY <1>4, RenewedDecides
<1> QED
  BY <1>8, <1>9, <1>10, <1>11 DEF d, line, next

\* One more rule of a form decides, or those before it do.
LEMMA DecidesNext ==
  ASSUME NEW rules, NEW n \in Nat, NEW d, NEW p, DecidesBy(rules, n + 1, d, p)
  PROVE  IF Suits(rules[n + 1], d) THEN rules[n + 1].profile = p ELSE DecidesBy(rules, n, d, p)
<1>1. PICK i \in 1..(n + 1) : /\ Suits(rules[i], d) /\ rules[i].profile = p
                              /\ \A j \in 1..(n + 1) : Suits(rules[j], d) => j <= i
  BY DEF DecidesBy
<1>2. n + 1 \in 1..(n + 1) /\ \A j \in 1..n : j \in 1..(n + 1)
  OBVIOUS
<1>3. CASE Suits(rules[n + 1], d)
  <2>1. n + 1 <= i
    BY <1>1, <1>2, <1>3
  <2>2. i = n + 1
    BY <1>1, <2>1
  <2> QED
    BY <1>1, <1>3, <2>2
<1>4. CASE ~Suits(rules[n + 1], d)
  <2>1. i # n + 1
    BY <1>1, <1>4
  <2>2. i \in 1..n
    BY <2>1
  <2>3. DecidesBy(rules, n, d, p)
    BY <1>1, <1>2, <2>2 DEF DecidesBy
  <2> QED
    BY <1>4, <2>3
<1> QED
  BY <1>3, <1>4

\* The rules of a form, over any others.
LEMMA RuleLines ==
  ASSUME NEW c, Fields(c), RulesOK(c.device_rules), WellRules(c.device_rules),
         NEW rules, FormRules(rules),
         Cardinality(KeysOf(c.device_rules) \cup KeysOf(rules)) <= MaxDeviceRules
  PROVE  LET lines == [i \in DOMAIN rules |->
                         Line(rules[i].kind, rules[i].match_text, rules[i].profile)]
         IN /\ IsSeq(lines)
            /\ \E next :
                 /\ RulesOK(next) /\ WellRules(next)
                 /\ KeysOf(next) = KeysOf(c.device_rules) \cup KeysOf(rules)
                 /\ \A d, p : DecidesBy(rules, Len(rules), d, p) => Decides(next, d, p)
                 /\ ApplyBytes(c, lines) = WithRules(c, next)
<1> DEFINE m == Len(rules)
           lines == [i \in DOMAIN rules |->
                       Line(rules[i].kind, rules[i].match_text, rules[i].profile)]
           old == c.device_rules
           K == KeysOf(old) \cup KeysOf(rules)
           First(n) == KeysOf(old) \cup {<<rules[i].kind, rules[i].match_text>> : i \in 1..n}
           Good(n, next) ==
             /\ RulesOK(next) /\ WellRules(next)
             /\ KeysOf(next) = First(n)
             /\ \A d, p : DecidesBy(rules, n, d, p) => Decides(next, d, p)
<1>1. m \in Nat /\ DOMAIN rules = 1..m
  BY DEF FormRules, IsSeq
<1>2. /\ Len(lines) = m /\ IsSeq(lines)
      /\ \A n \in 1..m : lines[n] = Line(rules[n].kind, rules[n].match_text, rules[n].profile)
  BY <1>1 DEF IsSeq
<1>3. IsFiniteSet(K) /\ Cardinality(K) <= MaxDeviceRules
  <2>1. IsFiniteSet(KeysOf(old)) /\ IsFiniteSet(KeysOf(rules))
    BY KeyBound, KeysFew DEF FormRules
  <2> QED
    BY <2>1, FS_Union
<1>4. /\ \A n \in 1..m : /\ rules[n].kind \in RuleKinds
                         /\ Fine(rules[n].match_text, rules[n].profile)
                         /\ <<rules[n].kind, rules[n].match_text>> \in KeysOf(rules)
  BY <1>1 DEF FormRules, KeysOf
<1>5. \A n \in Nat : n <= m => First(n) \subseteq K
  <2>1. \A n \in Nat : n <= m => \A i \in 1..n : i \in 1..m
    BY <1>1
  <2> QED
    BY <1>4, <2>1
<1>6. First(m) = K
  BY <1>1 DEF KeysOf
<1> HIDE DEF lines, K
<1>7. PICK f : /\ f[0] = c /\ ApplyBytes(c, lines) = f[m]
               /\ \A n \in Nat : n + 1 <= m =>
                    f[n + 1] = IF f[n] = Refused THEN Refused ELSE ApplyLine(f[n], lines[n + 1])
  <2>1. m \in Nat /\ Len(lines) = m
    BY <1>1, <1>2
  <2> HIDE DEF m
  <2>2. \E f : Walked(c, lines, m, f)
    BY <2>1, Walk
  <2> QED
    BY <2>2 DEF Walked
<1> DEFINE S == {n \in Nat : n <= m => \E next : Good(n, next) /\ f[n] = WithRules(c, next)}
<1>8. 0 \in S
  <2>1. First(0) = KeysOf(old)
    BY DEF KeysOf
  <2>2. \A d, p : ~DecidesBy(rules, 0, d, p)
    BY DEF DecidesBy
  <2>3. Good(0, old)
    BY <2>1, <2>2
  <2>4. c = WithRules(c, old)
    BY MadeOfFields, WithRulesIs
  <2> HIDE DEF Good
  <2> QED
    BY <1>7, <2>3, <2>4
<1>9. ASSUME NEW n \in Nat, n \in S PROVE n + 1 \in S
  <2> SUFFICES ASSUME n + 1 <= m
               PROVE  \E next : Good(n + 1, next) /\ f[n + 1] = WithRules(c, next)
    OBVIOUS
  <2>1. n <= m /\ n + 1 \in 1..m
    BY <1>1
  <2>2. PICK now : Good(n, now) /\ f[n] = WithRules(c, now)
    <3> HIDE DEF Good
    <3> QED
      BY <1>9, <2>1
  <2> DEFINE kind == rules[n + 1].kind
             text == rules[n + 1].match_text
             value == rules[n + 1].profile
             next == Renewed(now, kind, text, value)
  <2>3. /\ kind \in RuleKinds /\ Fine(text, value) /\ <<kind, text>> \in K
        /\ lines[n + 1] = Line(kind, text, value)
    BY <1>2, <1>4, <2>1 DEF K
  <2>4. KeysOf(now) \subseteq K /\ RulesOK(now) /\ WellRules(now)
    BY <1>5, <2>1, <2>2
  <2>5. f[n] # Refused
    BY <2>2, WithRulesIs
  <2>6. f[n + 1] = ApplyLine(WithRules(c, now), Line(kind, text, value))
    BY <1>7, <2>2, <2>3, <2>5
  <2> HIDE DEF kind, text, value, Good, First
  <2>7. /\ ApplyLine(WithRules(c, now), Line(kind, text, value)) = WithRules(c, next)
        /\ RulesOK(next) /\ KeysOf(next) = KeysOf(now) \cup {<<kind, text>>}
        /\ WellRules(now) => WellRules(next)
        /\ \A d, p : /\ text \in d[kind] => Decides(next, d, value)
                     /\ text \notin d[kind] /\ Decides(now, d, p) => Decides(next, d, p)
    BY <1>3, <2>3, <2>4, RuleLine
  <2> HIDE DEF next
  <2>11. KeysOf(next) = First(n + 1)
    <3>1. KeysOf(now) = First(n)
      BY <2>2 DEF Good
    <3>2. \A i : i \in 1..(n + 1) <=> (i = n + 1 \/ i \in 1..n)
      OBVIOUS
    <3> QED
      BY <2>7, <3>1, <3>2 DEF First, kind, text
  <2>12. ASSUME NEW d, NEW p, DecidesBy(rules, n + 1, d, p) PROVE Decides(next, d, p)
    <3>1. Suits(rules[n + 1], d) <=> text \in d[kind]
      BY DEF Suits, kind, text
    <3>2. CASE text \in d[kind]
      <4>1. value = p
        BY <2>12, <3>1, <3>2, DecidesNext DEF value
      <4> QED
        BY <2>7, <3>2, <4>1
    <3>3. CASE text \notin d[kind]
      <4>1. DecidesBy(rules, n, d, p)
        BY <2>12, <3>1, <3>3, DecidesNext
      <4>2. Decides(now, d, p)
        BY <2>2, <4>1 DEF Good
      <4> QED
        BY <2>7, <3>3, <4>2
    <3> QED
      BY <3>2, <3>3
  <2>13. Good(n + 1, next)
    BY <2>4, <2>7, <2>11, <2>12 DEF Good
  <2> QED
    BY <2>6, <2>7, <2>13
<1>10. PICK next : Good(m, next) /\ f[m] = WithRules(c, next)
  <2>1. Nat \subseteq S
    <3> HIDE DEF S
    <3> QED
      BY <1>8, <1>9, SetInduction
  <2> HIDE DEF Good
  <2> QED
    BY <1>1, <2>1
<1>11. /\ RulesOK(next) /\ WellRules(next) /\ KeysOf(next) = K
       /\ \A d, p : DecidesBy(rules, m, d, p) => Decides(next, d, p)
       /\ ApplyBytes(c, lines) = WithRules(c, next)
  BY <1>6, <1>7, <1>10
<1> QED
  BY <1>2, <1>11 DEF lines, K

\* A form as the widgets leave it: what they hold may still be refused.
FormOK(f) ==
  /\ Fields(f)
  /\ f.opt = [o \in Options |-> f.opt[o]]
  /\ f.ir_screen # <<>> => f.ir_screen = [side \in ScreenSides |-> f.ir_screen[side]]
  /\ f.aim_accel_zero # <<>> => f.aim_accel_zero = [a \in Axes |-> f.aim_accel_zero[a]]
  /\ f.aim_motion_plus_bias # <<>> =>
       f.aim_motion_plus_bias = [a \in Axes |-> f.aim_motion_plus_bias[a]]
  /\ IsSeq(f.device_rules)
  /\ \A i \in DOMAIN f.device_rules :
       f.device_rules[i].kind \in RuleKinds /\ IsRule(f.device_rules[i])

NumbersParsed(f) ==
  /\ ScreenParsed(f.ir_screen)
  /\ CalParsed(f.aim_accel_zero) /\ CalParsed(f.aim_motion_plus_bias)

OptionPart(f) == DumpGroup("option", OptionOrder, f.opt)
ScreenPart(f) == DumpGroup("screen", <<"left", "right", "top", "bottom">>, f.ir_screen)
AccelPart(f) == DumpGroup("aim_accel_zero", <<"x", "y", "z">>, f.aim_accel_zero)
BiasPart(f) == DumpGroup("aim_motion_plus_bias", <<"x", "y", "z">>, f.aim_motion_plus_bias)
RulesPart(f) ==
  [i \in DOMAIN f.device_rules |->
     Line(f.device_rules[i].kind, f.device_rules[i].match_text, f.device_rules[i].profile)]

LEMMA DumpParts ==
  ASSUME NEW f
  PROVE  Dump(f) = OptionPart(f) \o ScreenPart(f) \o AccelPart(f) \o BiasPart(f) \o RulesPart(f)
BY DEF Dump, OptionPart, ScreenPart, AccelPart, BiasPart, RulesPart

LEMMA ValidParts ==
  ASSUME NEW f, FormOK(f), Valid(f)
  PROVE  OptionsOK(f.opt) /\ FormRules(f.device_rules)
<1>1. OptionsOK(f.opt)
  BY DEF FormOK, Valid, OptionsOK
<1>2. FormRules(f.device_rules)
  BY DEF FormOK, Valid, FormRules, Fine
<1> QED
  BY <1>1, <1>2

\* Two layers of a sensor.
Over(old, new) == IF new = <<>> THEN old ELSE new

\* All lines of a form but its rules.
LEMMA GroupsApplied ==
  ASSUME NEW c, ConfigOK(c), NEW f, FormOK(f), Valid(f)
  PROVE  LET lines == OptionPart(f) \o ScreenPart(f) \o AccelPart(f) \o BiasPart(f)
         IN /\ IsSeq(lines)
            /\ ApplyBytes(c, lines) # Refused => NumbersParsed(f)
            /\ NumbersParsed(f) =>
                 ApplyBytes(c, lines) =
                   Made(f.opt, Over(c.ir_screen, f.ir_screen),
                        Over(c.aim_accel_zero, f.aim_accel_zero),
                        Over(c.aim_motion_plus_bias, f.aim_motion_plus_bias), c.device_rules)
<1> DEFINE O == OptionPart(f)
           S == ScreenPart(f)
           A == AccelPart(f)
           B == BiasPart(f)
           screen == Over(c.ir_screen, f.ir_screen)
           accel == Over(c.aim_accel_zero, f.aim_accel_zero)
           bias == Over(c.aim_motion_plus_bias, f.aim_motion_plus_bias)
           c1 == Made(f.opt, c.ir_screen, c.aim_accel_zero, c.aim_motion_plus_bias, c.device_rules)
           c2 == Made(f.opt, screen, c.aim_accel_zero, c.aim_motion_plus_bias, c.device_rules)
           c3 == Made(f.opt, screen, accel, c.aim_motion_plus_bias, c.device_rules)
           c4 == Made(f.opt, screen, accel, bias, c.device_rules)
           P2 == ScreenParsed(f.ir_screen)
           P3 == CalParsed(f.aim_accel_zero)
           P4 == CalParsed(f.aim_motion_plus_bias)
<1>1. IsSeq(O) /\ ApplyBytes(c, O) = c1
  <2>1. Fields(c) /\ c.opt = [o \in Options |-> c.opt[o]]
    BY DEF ConfigOK, OptionsOK
  <2>2. OptionsOK(f.opt)
    BY ValidParts
  <2> QED
    BY <2>1, <2>2, OptionLines DEF OptionPart
<1>2. /\ IsSeq(S)
      /\ ApplyBytes(c1, S) # Refused => P2
      /\ P2 => ApplyBytes(c1, S) = c2
  <2>1. /\ Fields(c1) /\ c1.opt = f.opt /\ c1.ir_screen = c.ir_screen
        /\ c1.aim_accel_zero = c.aim_accel_zero /\ c1.aim_motion_plus_bias = c.aim_motion_plus_bias
        /\ c1.device_rules = c.device_rules
    BY MadeIs
  <2>2. ScreenOK(c1.ir_screen)
    BY <2>1 DEF ConfigOK
  <2>3. f.ir_screen # <<>> => f.ir_screen = [side \in ScreenSides |-> f.ir_screen[side]]
    BY DEF FormOK
  <2> HIDE DEF c1
  <2>4. /\ IsSeq(S)
        /\ ApplyBytes(c1, S) # Refused => P2
        /\ P2 => ApplyBytes(c1, S) = Made(c1.opt, IF f.ir_screen = <<>> THEN c1.ir_screen ELSE f.ir_screen,
                                          c1.aim_accel_zero, c1.aim_motion_plus_bias, c1.device_rules)
    BY <2>1, <2>2, <2>3, ScreenLines DEF ScreenPart
  <2> QED
    BY <2>1, <2>4 DEF Over
<1>3. /\ IsSeq(A)
      /\ ApplyBytes(c2, A) # Refused => P3
      /\ P3 => ApplyBytes(c2, A) = c3
  <2>1. /\ Fields(c2) /\ c2.opt = f.opt /\ c2.ir_screen = screen
        /\ c2.aim_accel_zero = c.aim_accel_zero /\ c2.aim_motion_plus_bias = c.aim_motion_plus_bias
        /\ c2.device_rules = c.device_rules
    BY MadeIs
  <2>2. DOMAIN c2.aim_accel_zero \subseteq Axes
    BY <2>1 DEF ConfigOK, CalibrationOK
  <2>3. f.aim_accel_zero # <<>> => f.aim_accel_zero = [a \in Axes |-> f.aim_accel_zero[a]]
    BY DEF FormOK
  <2>4. "aim_accel_zero" \in Calibrations /\ c2["aim_accel_zero"] = c2.aim_accel_zero
    BY DEF Calibrations
  <2>5. WithCal(c2, "aim_accel_zero", IF f.aim_accel_zero = <<>> THEN c2.aim_accel_zero ELSE f.aim_accel_zero) = c3
    <3> HIDE DEF c2
    <3> QED
      BY <2>1 DEF WithCal, Over
  <2> HIDE DEF c2
  <2>6. /\ IsSeq(A)
        /\ ApplyBytes(c2, A) # Refused => P3
        /\ P3 => ApplyBytes(c2, A) =
                   WithCal(c2, "aim_accel_zero", IF f.aim_accel_zero = <<>> THEN c2["aim_accel_zero"] ELSE f.aim_accel_zero)
    BY <2>1, <2>2, <2>3, <2>4, CalLines DEF AccelPart
  <2> QED
    BY <2>4, <2>5, <2>6
<1>4. /\ IsSeq(B)
      /\ ApplyBytes(c3, B) # Refused => P4
      /\ P4 => ApplyBytes(c3, B) = c4
  <2>1. /\ Fields(c3) /\ c3.opt = f.opt /\ c3.ir_screen = screen
        /\ c3.aim_accel_zero = accel /\ c3.aim_motion_plus_bias = c.aim_motion_plus_bias
        /\ c3.device_rules = c.device_rules
    BY MadeIs
  <2>2. DOMAIN c3.aim_motion_plus_bias \subseteq Axes
    BY <2>1 DEF ConfigOK, CalibrationOK
  <2>3. f.aim_motion_plus_bias # <<>> =>
          f.aim_motion_plus_bias = [a \in Axes |-> f.aim_motion_plus_bias[a]]
    BY DEF FormOK
  <2>4. /\ "aim_motion_plus_bias" \in Calibrations
        /\ c3["aim_motion_plus_bias"] = c3.aim_motion_plus_bias
    BY DEF Calibrations
  <2>5. WithCal(c3, "aim_motion_plus_bias",
                IF f.aim_motion_plus_bias = <<>> THEN c3.aim_motion_plus_bias ELSE f.aim_motion_plus_bias) = c4
    <3> HIDE DEF c3, screen, accel
    <3> QED
      BY <2>1 DEF WithCal, Over
  <2> HIDE DEF c3
  <2>6. /\ IsSeq(B)
        /\ ApplyBytes(c3, B) # Refused => P4
        /\ P4 => ApplyBytes(c3, B) =
                   WithCal(c3, "aim_motion_plus_bias",
                           IF f.aim_motion_plus_bias = <<>> THEN c3["aim_motion_plus_bias"]
                           ELSE f.aim_motion_plus_bias)
    BY <2>1, <2>2, <2>3, <2>4, CalLines DEF BiasPart
  <2> QED
    BY <2>4, <2>5, <2>6
<1>5. c1 # Refused /\ c2 # Refused /\ c3 # Refused
  BY MadeIs
<1> HIDE DEF O, S, A, B, c1, c2, c3, c4, P2, P3, P4
<1> DEFINE OS == O \o S
           OSA == OS \o A
           all == OSA \o B
<1>6. /\ IsSeq(OS)
      /\ ApplyBytes(c, OS) # Refused => P2
      /\ P2 => ApplyBytes(c, OS) = c2
  BY <1>1, <1>2, <1>5, ConcatIs, ApplyConcat
<1> HIDE DEF OS
<1>7. /\ IsSeq(OSA)
      /\ ApplyBytes(c, OSA) # Refused => P2 /\ P3
      /\ P2 /\ P3 => ApplyBytes(c, OSA) = c3
  BY <1>3, <1>5, <1>6, ConcatIs, ApplyConcat
<1> HIDE DEF OSA
<1>8. /\ IsSeq(all)
      /\ ApplyBytes(c, all) # Refused => P2 /\ P3 /\ P4
      /\ P2 /\ P3 /\ P4 => ApplyBytes(c, all) = c4
  BY <1>4, <1>5, <1>7, ConcatIs, ApplyConcat
<1> QED
  BY <1>8 DEF NumbersParsed, all, OSA, OS, O, S, A, B, P2, P3, P4, c4

LEMMA RulesPartSeq == ASSUME NEW f, FormOK(f) PROVE IsSeq(RulesPart(f))
<1> DEFINE m == Len(f.device_rules)
<1>1. m \in Nat /\ DOMAIN f.device_rules = 1..m
  BY DEF FormOK, IsSeq
<1>2. Len(RulesPart(f)) = m
  BY <1>1 DEF RulesPart
<1>3. RulesPart(f) = [i \in 1..m |-> RulesPart(f)[i]]
  BY <1>1 DEF RulesPart
<1> HIDE DEF m
<1> QED
  BY <1>1, <1>2, <1>3 DEF IsSeq

\* What the check of a form by itself says of its numbers.
LEMMA CheckedNumbers ==
  ASSUME NEW c, ConfigOK(c), NEW f, FormOK(f), Valid(f), ApplyBytes(c, Dump(f)) # Refused
  PROVE  NumbersParsed(f)
<1> DEFINE lines == OptionPart(f) \o ScreenPart(f) \o AccelPart(f) \o BiasPart(f)
           rules == RulesPart(f)
<1>1. Dump(f) = lines \o rules
  BY DumpParts
<1>2. /\ IsSeq(lines)
      /\ ApplyBytes(c, lines) # Refused => NumbersParsed(f)
  BY GroupsApplied
<1>3. IsSeq(rules)
  BY RulesPartSeq
<1> HIDE DEF lines, rules
<1>4. ApplyBytes(c, lines) # Refused
  BY <1>1, <1>2, <1>3, ApplyConcat
<1> QED
  BY <1>2, <1>4

\* The lines of a form, over any layer that leaves room for its rules.
LEMMA FormApplied ==
  ASSUME NEW c, ConfigOK(c), WellRules(c.device_rules),
         NEW f, FormOK(f), Valid(f), NumbersParsed(f),
         Cardinality(KeysOf(c.device_rules) \cup KeysOf(f.device_rules)) <= MaxDeviceRules
  PROVE  \E next :
           /\ RulesOK(next) /\ WellRules(next) /\ Len(next) <= MaxDeviceRules
           /\ \A d, p : DecidesBy(f.device_rules, Len(f.device_rules), d, p) => Decides(next, d, p)
           /\ ApplyBytes(c, Dump(f)) =
                Made(f.opt, Over(c.ir_screen, f.ir_screen),
                     Over(c.aim_accel_zero, f.aim_accel_zero),
                     Over(c.aim_motion_plus_bias, f.aim_motion_plus_bias), next)
<1> DEFINE lines == OptionPart(f) \o ScreenPart(f) \o AccelPart(f) \o BiasPart(f)
           rules == RulesPart(f)
           screen == Over(c.ir_screen, f.ir_screen)
           accel == Over(c.aim_accel_zero, f.aim_accel_zero)
           bias == Over(c.aim_motion_plus_bias, f.aim_motion_plus_bias)
           b == Made(f.opt, screen, accel, bias, c.device_rules)
           K == KeysOf(c.device_rules) \cup KeysOf(f.device_rules)
<1>1. Dump(f) = lines \o rules
  BY DumpParts
<1>2. IsSeq(lines) /\ ApplyBytes(c, lines) = b
  BY GroupsApplied
<1>3. IsSeq(rules)
  BY RulesPartSeq
<1>4. /\ b # Refused /\ Fields(b) /\ b.device_rules = c.device_rules
      /\ b.opt = f.opt /\ b.ir_screen = screen /\ b.aim_accel_zero = accel
      /\ b.aim_motion_plus_bias = bias
  BY MadeIs
<1> HIDE DEF lines, b, screen, accel, bias
<1>5. ApplyBytes(c, Dump(f)) = ApplyBytes(b, rules)
  <2> HIDE DEF rules
  <2> QED
    BY <1>1, <1>2, <1>3, <1>4, ApplyConcat
<1>6. RulesOK(b.device_rules) /\ WellRules(b.device_rules)
  BY <1>4 DEF ConfigOK
<1>7. PICK next : /\ RulesOK(next) /\ WellRules(next) /\ KeysOf(next) = K
                  /\ \A d, p : DecidesBy(f.device_rules, Len(f.device_rules), d, p) => Decides(next, d, p)
                  /\ ApplyBytes(b, rules) = WithRules(b, next)
  <2>1. FormRules(f.device_rules)
    BY ValidParts
  <2>2. Cardinality(KeysOf(b.device_rules) \cup KeysOf(f.device_rules)) <= MaxDeviceRules
    BY <1>4
  <2> QED
    BY <1>4, <1>6, <2>1, <2>2, RuleLines DEF RulesPart
<1>8. WithRules(b, next) = Made(f.opt, screen, accel, bias, next)
  BY <1>4, WithRulesIs
<1>9. Len(next) <= MaxDeviceRules
  <2> DEFINE l == Len(next)
             k == Cardinality(K)
  <2>1. l \in Nat /\ l <= k /\ k <= MaxDeviceRules
    BY <1>7, KeyBound DEF RulesOK, IsSeq
  <2>2. k \in Nat /\ MaxDeviceRules \in Nat
    <3>1. IsFiniteSet(K)
      BY <1>7, KeyBound
    <3> QED
      BY <3>1, FS_CardinalityType, DeviceRulesAssumption
  <2> HIDE DEF l, k
  <2>3. l <= MaxDeviceRules
    BY <2>1, <2>2
  <2> QED
    BY <2>3 DEF l
<1> QED
  BY <1>5, <1>7, <1>8, <1>9 DEF screen, accel, bias

\* The largest of some positions.
LEMMA Greatest ==
  ASSUME NEW n \in Nat, NEW T, T \subseteq 1..n, T # {}
  PROVE  \E i \in T : \A j \in T : j <= i
<1> DEFINE S == {m \in Nat : \A U : U \subseteq 1..m /\ U # {} => \E i \in U : \A j \in U : j <= i}
<1>1. 0 \in S
  OBVIOUS
<1>2. ASSUME NEW m \in Nat, m \in S PROVE m + 1 \in S
  <2> SUFFICES ASSUME NEW U, U \subseteq 1..(m + 1), U # {}
               PROVE  \E i \in U : \A j \in U : j <= i
    OBVIOUS
  <2>1. CASE m + 1 \in U
    BY <2>1
  <2>2. CASE m + 1 \notin U
    <3>1. U \subseteq 1..m
      BY <2>2
    <3> QED
      BY <1>2, <3>1
  <2> QED
    BY <2>1, <2>2
<1>3. Nat \subseteq S
  <2> HIDE DEF S
  <2> QED
    BY <1>1, <1>2, SetInduction
<1> QED
  BY <1>3

\* The profile of a device is that of its last rule that matches.
LEMMA ProfileIs ==
  ASSUME NEW c, NEW d, NEW p, IsSeq(c.device_rules), Decides(c.device_rules, d, p)
  PROVE  ProfileForDevice(c, d) = p
<1> DEFINE rules == c.device_rules
           matching == Matching(c, d)
<1>1. PICK i \in DOMAIN rules : /\ Suits(rules[i], d) /\ rules[i].profile = p
                                /\ \A j \in DOMAIN rules : Suits(rules[j], d) => j <= i
  BY DEF Decides
<1>2. matching = {j \in DOMAIN rules : Suits(rules[j], d)}
  BY DEF Matching, Suits
<1>3. i \in matching /\ \A j \in matching : j <= i
  BY <1>1, <1>2
<1>4. \A j \in matching : j \in Nat
  BY <1>2 DEF IsSeq
<1> HIDE DEF matching
<1>5. (CHOOSE k \in matching : \A j \in matching : j <= k) = i
  <2> DEFINE k == CHOOSE k \in matching : \A j \in matching : j <= k
  <2>1. k \in matching /\ \A j \in matching : j <= k
    BY <1>3
  <2> HIDE DEF k
  <2>2. k \in Nat /\ i \in Nat /\ k <= i /\ i <= k
    BY <1>3, <1>4, <2>1
  <2>3. k = i
    BY <2>2
  <2> QED
    BY <2>3 DEF k
<1>6. ProfileForDevice(c, d) = rules[i].profile
  BY <1>3, <1>5 DEF ProfileForDevice, matching
<1> QED
  BY <1>1, <1>6

LEMMA SomeDecides ==
  ASSUME NEW f, NEW d, IsSeq(f.device_rules), Matching(f, d) # {}
  PROVE  DecidesBy(f.device_rules, Len(f.device_rules), d, ProfileForDevice(f, d))
<1> DEFINE rules == f.device_rules
           m == Len(rules)
           matching == Matching(f, d)
<1>1. m \in Nat /\ DOMAIN rules = 1..m
  BY DEF IsSeq
<1>2. matching = {j \in 1..m : Suits(rules[j], d)}
  BY <1>1 DEF Matching, Suits
<1>3. matching \subseteq 1..m /\ matching # {}
  BY <1>2
<1> HIDE DEF matching, m
<1>4. PICK i \in matching : \A j \in matching : j <= i
  BY <1>1, <1>3, Greatest
<1>5. Suits(rules[i], d) /\ i \in 1..m /\ \A j \in 1..m : Suits(rules[j], d) => j <= i
  BY <1>2, <1>4
<1>6. Decides(rules, d, rules[i].profile) /\ DecidesBy(rules, m, d, rules[i].profile)
  BY <1>1, <1>5 DEF Decides, DecidesBy
<1>7. ProfileForDevice(f, d) = rules[i].profile
  BY <1>6, ProfileIs
<1> QED
  BY <1>6, <1>7 DEF m

LEMMA DefaultValid == Valid(Default)
<1>1. \A o \in Options : Default.opt[o] \in Accepted[o]
  <2>1. OptionsOK(Default.opt)
    BY DefaultOK DEF ConfigOK
  <2> QED
    BY <2>1 DEF OptionsOK
<1>2. /\ Default.ir_screen = <<>> /\ Default.aim_accel_zero = <<>>
      /\ Default.aim_motion_plus_bias = <<>> /\ Default.device_rules = <<>>
  BY DEF Default
<1>3. \A g \in Calibrations : Default[g] = <<>>
  BY <1>2 DEF Calibrations
<1>4. Len(<<>>) <= MaxDeviceRules /\ \A i \in DOMAIN <<>> : FALSE
  BY DeviceRulesAssumption
<1> HIDE DEF Default
<1> QED
  BY <1>1, <1>2, <1>3, <1>4 DEF Valid

LEMMA FormHonoured ==
  ASSUME NEW c, ConfigOK(c), Valid(c), NEW f, FormOK(f), Valid(f), NumbersParsed(f),
         Cardinality(KeysOf(c.device_rules) \cup KeysOf(f.device_rules)) <= MaxDeviceRules
  PROVE  LET r == ApplyBytes(c, Dump(f)) IN r # Refused /\ Valid(r) /\ Honours(r, f)
<1> DEFINE screen == Over(c.ir_screen, f.ir_screen)
           accel == Over(c.aim_accel_zero, f.aim_accel_zero)
           bias == Over(c.aim_motion_plus_bias, f.aim_motion_plus_bias)
           r == ApplyBytes(c, Dump(f))
           rules == f.device_rules
<1>1. WellRules(c.device_rules)
  BY DEF Valid, WellRules, Fine
<1>2. PICK next :
        /\ RulesOK(next) /\ WellRules(next) /\ Len(next) <= MaxDeviceRules
        /\ \A d, p : DecidesBy(rules, Len(rules), d, p) => Decides(next, d, p)
        /\ r = Made(f.opt, screen, accel, bias, next)
  BY <1>1, FormApplied
<1>3. /\ r # Refused /\ r.opt = f.opt /\ r.ir_screen = screen /\ r.aim_accel_zero = accel
      /\ r.aim_motion_plus_bias = bias /\ r.device_rules = next
  BY <1>2, MadeIs
<1> HIDE DEF r, screen, accel, bias
<1>4. Valid(r)
  <2>1. \A o \in Options : r.opt[o] \in Accepted[o]
    BY <1>3 DEF Valid
  <2>2. screen # <<>> => screen["right"] > screen["left"] /\ screen["bottom"] > screen["top"]
    BY DEF Valid, screen, Over
  <2>3. (accel # <<>> => Complete(accel)) /\ (bias # <<>> => Complete(bias))
    <3>1. \A g \in Calibrations : (c[g] # <<>> => Complete(c[g])) /\ (f[g] # <<>> => Complete(f[g]))
      BY DEF Valid
    <3> QED
      BY <3>1 DEF accel, bias, Over, Calibrations
  <2>4. \A g \in Calibrations : r[g] # <<>> => Complete(r[g])
    BY <1>3, <2>3 DEF Calibrations
  <2>5. \A i \in DOMAIN next : next[i].match_text # "" /\ next[i].profile \in Profiles
    BY <1>2 DEF WellRules, Fine
  <2> QED
    BY <1>2, <1>3, <2>1, <2>2, <2>4, <2>5 DEF Valid
<1>5. \A g \in Calibrations \cup {"ir_screen"} : f[g] # <<>> => r[g] = f[g]
  BY <1>3 DEF Calibrations, screen, accel, bias, Over
<1>6. ASSUME NEW d \in Devices, Matching(f, d) # {}
      PROVE  ProfileForDevice(r, d) = ProfileForDevice(f, d)
  <2> DEFINE p == ProfileForDevice(f, d)
  <2>1. DecidesBy(rules, Len(rules), d, p)
    BY <1>6, SomeDecides DEF FormOK
  <2> HIDE DEF p
  <2>2. Decides(r.device_rules, d, p)
    BY <1>2, <1>3, <2>1
  <2>3. IsSeq(r.device_rules)
    BY <1>2, <1>3 DEF RulesOK
  <2>4. ProfileForDevice(r, d) = p
    BY <2>2, <2>3, ProfileIs
  <2> QED
    BY <2>4 DEF p
<1>7. Honours(r, f)
  BY <1>3, <1>5, <1>6 DEF Honours
<1> QED
  BY <1>3, <1>4, <1>7 DEF r

\* A form that was checked by itself leaves room for its rules.
LEMMA RoomAlone ==
  ASSUME NEW f, FormOK(f), Valid(f)
  PROVE  Cardinality(KeysOf(Default.device_rules) \cup KeysOf(f.device_rules)) <= MaxDeviceRules
<1> DEFINE K == KeysOf(f.device_rules)
           l == Len(f.device_rules)
           k == Cardinality(K)
<1>1. KeysOf(Default.device_rules) = {}
  BY DEF KeysOf, Default
<1>2. IsFiniteSet(K) /\ k <= l /\ l \in Nat
  BY KeysFew DEF FormOK, IsSeq
<1>3. k \in Nat
  BY <1>2, FS_CardinalityType
<1>4. l <= MaxDeviceRules /\ MaxDeviceRules \in Nat
  BY DeviceRulesAssumption DEF Valid
<1>5. KeysOf(Default.device_rules) \cup K = K
  BY <1>1
<1> HIDE DEF l, k
<1>6. k <= MaxDeviceRules
  BY <1>2, <1>3, <1>4
<1> QED
  BY <1>5, <1>6 DEF k

\* A configuration that was accepted is a form that may be saved, but for the
\* characters of its rules.
LEMMA ConfigIsForm ==
  ASSUME NEW c, ConfigOK(c), Valid(c)
  PROVE  FormOK(c)
<1>1. \A g \in Calibrations : c[g] # <<>> => DOMAIN c[g] = Axes
  BY DEF Valid, Complete
<1>2. /\ c.aim_accel_zero # <<>> => DOMAIN c.aim_accel_zero = Axes
      /\ c.aim_motion_plus_bias # <<>> => DOMAIN c.aim_motion_plus_bias = Axes
  BY <1>1 DEF Calibrations
<1> QED
  BY <1>2 DEF ConfigOK, OptionsOK, ScreenOK, CalibrationOK, RulesOK, FormOK

\* The lines of a form are lines of a file.
LEMMA ConcatFile ==
  ASSUME NEW a, IsFile(a), NEW b, IsFile(b)
  PROVE  IsFile(a \o b)
<1> DEFINE s == a \o b
           la == Len(a)
           lb == Len(b)
           OK(line) ==
             /\ line.group \in {"option", "screen", "blank", "junk"} \cup Calibrations \cup RuleKinds
             /\ line.group = "screen" => line.key \in ScreenSides
             /\ line.group \in Calibrations => line.key \in Axes
<1>1. IsSeq(a) /\ IsSeq(b) /\ la \in Nat /\ lb \in Nat /\ DOMAIN a = 1..la /\ DOMAIN b = 1..lb
  BY DEF IsFile, IsSeq
<1>2. /\ IsSeq(s) /\ Len(s) = la + lb
      /\ \A i \in 1..la : s[i] = a[i]
      /\ \A i \in 1..lb : s[la + i] = b[i]
  BY <1>1, ConcatIs
<1>3. (\A i \in 1..la : OK(a[i])) /\ (\A i \in 1..lb : OK(b[i]))
  BY <1>1 DEF IsFile
<1>4. DOMAIN s = 1..(la + lb)
  <2> HIDE DEF s, la, lb
  <2> QED
    BY <1>2 DEF IsSeq
<1> HIDE DEF s, la, lb, OK
<1>5. ASSUME NEW i \in DOMAIN s PROVE OK(s[i])
  <2>1. CASE i <= la
    <3>1. i \in 1..la
      BY <1>1, <1>4, <2>1
    <3> QED
      BY <1>2, <1>3, <3>1
  <2>2. CASE ~(i <= la)
    <3>1. i - la \in 1..lb /\ la + (i - la) = i
      BY <1>1, <1>4, <2>2
    <3> QED
      BY <1>2, <1>3, <3>1
  <2> QED
    BY <2>1, <2>2
<1>6. IsFile(s)
  BY <1>2, <1>5 DEF IsFile, OK
<1> QED
  BY <1>6 DEF s

\* A group of lines, each with its key.
LEMMA GroupFile ==
  ASSUME NEW group \in {"option", "screen"} \cup Calibrations,
         NEW order, IsSeq(order), NEW v,
         group = "screen" => \A i \in DOMAIN order : order[i] \in ScreenSides,
         group \in Calibrations => \A i \in DOMAIN order : order[i] \in Axes
  PROVE  IsFile(DumpGroup(group, order, v))
<1> DEFINE lines == [i \in DOMAIN order |-> Line(group, order[i], v[order[i]])]
           m == Len(order)
<1>1. m \in Nat /\ DOMAIN order = 1..m
  BY DEF IsSeq
<1>2. IsSeq(lines) /\ DOMAIN lines = 1..m
  BY <1>1 DEF IsSeq
<1>3. \A i \in 1..m : lines[i].group = group /\ lines[i].key = order[i]
  BY <1>1 DEF Line
<1> HIDE DEF lines
<1>4. IsFile(lines)
  BY <1>1, <1>2, <1>3 DEF IsFile, Calibrations
<1>5. IsFile(<<>>)
  BY DEF IsFile, IsSeq
<1>6. DumpGroup(group, order, v) = lines \/ DumpGroup(group, order, v) = <<>>
  BY DEF DumpGroup, lines
<1> QED
  BY <1>4, <1>5, <1>6

LEMMA AxesOrder ==
  IsSeq(<<"x", "y", "z">>) /\ \A i \in DOMAIN <<"x", "y", "z">> : <<"x", "y", "z">>[i] \in Axes
BY DEF IsSeq, Axes

LEMMA DumpFile == ASSUME NEW f, FormOK(f) PROVE IsFile(Dump(f))
<1>1. IsFile(OptionPart(f))
  <2>1. "option" \notin Calibrations
    BY DEF Calibrations
  <2> QED
    BY <2>1, OptionOrderIs, GroupFile DEF OptionPart
<1>2. IsFile(ScreenPart(f))
  <2> DEFINE order == <<"left", "right", "top", "bottom">>
  <2>1. IsSeq(order) /\ \A i \in DOMAIN order : order[i] \in ScreenSides
    BY DEF IsSeq, ScreenSides
  <2>2. "screen" \notin Calibrations
    BY DEF Calibrations
  <2> HIDE DEF order
  <2>3. IsFile(DumpGroup("screen", order, f.ir_screen))
    BY <2>1, <2>2, GroupFile
  <2> QED
    BY <2>3 DEF ScreenPart, order
<1>3. IsFile(AccelPart(f)) /\ IsFile(BiasPart(f))
  BY AxesOrder, GroupFile DEF AccelPart, BiasPart, Calibrations
<1>4. IsFile(RulesPart(f))
  <2>1. \A i \in DOMAIN RulesPart(f) : RulesPart(f)[i].group \in RuleKinds
    BY DEF RulesPart, Line, FormOK
  <2> QED
    BY <2>1, RulesPartSeq DEF IsFile, RuleKinds, Calibrations
<1> DEFINE O == OptionPart(f)
           S == ScreenPart(f)
           A == AccelPart(f)
           B == BiasPart(f)
           R == RulesPart(f)
<1> HIDE DEF O, S, A, B, R
<1>5. IsFile(O \o S)
  BY <1>1, <1>2, ConcatFile DEF O, S
<1>6. IsFile(O \o S \o A)
  BY <1>3, <1>5, ConcatFile DEF A
<1>7. IsFile(O \o S \o A \o B)
  BY <1>3, <1>6, ConcatFile DEF B
<1>8. IsFile(O \o S \o A \o B \o R)
  BY <1>4, <1>7, ConcatFile DEF R
<1> QED
  BY <1>8, DumpParts DEF O, S, A, B, R

LEMMA CheckedTwice == ASSUME NEW c PROVE Checked(Checked(c)) = Checked(c)
BY DEF Checked

LEMMA KnownNoOption == ASSUME NEW name \in Known PROVE name \notin Overridable
BY OptionSet DEF Known, Overridable

\* Arguments of the first pass change no option.
LEMMA KnownArgs ==
  ASSUME NEW args, IsSeq(args), \A i \in DOMAIN args : args[i].name \in Known, NEW c
  PROVE  Pass2(args, c) = Checked(c)
<1> DEFINE m == Len(args)
<1>1. m \in Nat /\ DOMAIN args = 1..m
  BY DEF IsSeq
<1>2. PICK f : /\ AfterArgs(Checked(c), args, m, f)
               /\ Pass2(args, c) = Checked(f[m])
  BY <1>1, Pass2Args
<1> HIDE DEF m
<1>3. \A n \in 0..m : f[n] = IF n = 0 THEN Checked(c) ELSE AfterArg(f[n - 1], args[n])
  BY <1>2 DEF AfterArgs
<1> DEFINE S == {n \in Nat : n <= m => f[n] = Checked(c)}
<1>4. 0 \in S
  BY <1>1, <1>3
<1>5. ASSUME NEW n \in Nat, n \in S PROVE n + 1 \in S
  <2> SUFFICES ASSUME n + 1 <= m PROVE f[n + 1] = Checked(c)
    OBVIOUS
  <2>1. n + 1 \in 0..m /\ n + 1 \in 1..m /\ n + 1 # 0 /\ (n + 1) - 1 = n /\ n <= m
    BY <1>1
  <2>2. f[n] = Checked(c)
    BY <1>5, <2>1
  <2>3. f[n + 1] = AfterArg(f[n], args[n + 1])
    BY <1>3, <2>1
  <2>4. args[n + 1].name \in Known
    BY <1>1, <2>1
  <2>5. AfterArg(f[n], args[n + 1]) = f[n]
    BY <2>4, KnownNoOption DEF AfterArg
  <2> QED
    BY <2>2, <2>3, <2>5
<1>6. f[m] = Checked(c)
  <2>1. Nat \subseteq S
    <3> HIDE DEF S
    <3> QED
      BY <1>4, <1>5, SetInduction
  <2> QED
    BY <1>1, <2>1
<1> QED
  BY <1>2, <1>6, CheckedTwice

LEMMA FewNone == ~(Cardinality({}) > 1)
<1>1. Cardinality({}) = 0
  BY FS_EmptySet
<1> QED
  BY <1>1

LEMMA FewOne == ASSUME NEW x PROVE ~(Cardinality({x}) > 1)
<1>1. Cardinality({x}) = 1
  BY FS_Singleton
<1> QED
  BY <1>1

LEMMA ChooseOnly == ASSUME NEW n \in Nat PROVE (CHOOSE i \in {n} : \A j \in {n} : j <= i) = n
OBVIOUS

Passed(path, action) == [config_path |-> path, no_config |-> FALSE, action |-> action]

LEMMA PassedIs ==
  ASSUME NEW path, NEW action
  PROVE  LET p == Passed(path, action)
         IN p # Refused /\ p.config_path = path /\ p.no_config = FALSE /\ p.action = action
BY DEF Passed, Refused

\* Started without arguments: the layers.
LEMMA ParseNone ==
  ASSUME NEW fs
  PROVE  Parse(<<>>, fs) = Checked(LoadDefaultLayers(fs))
<1> DEFINE args == <<>>
           pass1 == Pass1(args)
<1>1. \A i \in DOMAIN args : FALSE
  OBVIOUS
<1>2. \A name : Values(args, name) = {} /\ {i \in DOMAIN args : args[i].name = name} = {}
  BY DEF Values
<1>3. IsSeq(args)
  BY DEF IsSeq
<1> HIDE DEF args
<1>4. ~(Cardinality({}) > 1)
  BY FewNone
<1>5. pass1 = Passed("", "run")
  BY <1>2, <1>4 DEF Pass1, Passed
<1> HIDE DEF pass1
<1>6. pass1 # Refused /\ pass1.config_path = "" /\ ~pass1.no_config /\ pass1.action = "run"
  BY <1>5, PassedIs, Zenon
<1>7. "run" \notin WithoutConfig
  BY DEF WithoutConfig
<1>8. Parse(args, fs) = Pass2(args, LoadDefaultLayers(fs))
  BY <1>6, <1>7 DEF Parse, pass1
<1> QED
  BY <1>1, <1>3, <1>8, KnownArgs DEF args

\* Started with a file.
LEMMA ParseFile ==
  ASSUME NEW fs
  PROVE  Parse(<<Arg("config", "other")>>, fs) = Checked(LoadFile(fs, "other"))
<1> DEFINE args == <<Arg("config", "other")>>
           pass1 == Pass1(args)
<1>1. DOMAIN args = {1} /\ args[1].name = "config" /\ args[1].value = "other"
  BY DEF Arg
<1>2. IsSeq(args)
  BY DEF IsSeq
<1> HIDE DEF args
<1>3. {i \in DOMAIN args : args[i].name = "config"} = {1}
  BY <1>1
<1>4. /\ Values(args, "action") = {} /\ Values(args, "no_config") = {}
      /\ Values(args, "no_ipc") = {}
  BY <1>1 DEF Values
<1>5. ~(Cardinality({}) > 1)
  BY FewNone
<1>6. (CHOOSE i \in {1} : \A j \in {1} : j <= i) = 1
  BY ChooseOnly
<1>7. pass1 = Passed("other", "run")
  BY <1>1, <1>3, <1>4, <1>5, <1>6 DEF Pass1, Passed
<1> HIDE DEF pass1
<1>8. pass1 # Refused /\ pass1.config_path = "other" /\ ~pass1.no_config /\ pass1.action = "run"
  BY <1>7, PassedIs, Zenon
<1>9. "run" \notin WithoutConfig /\ "other" # ""
  BY DEF WithoutConfig
<1>10. Parse(args, fs) = Pass2(args, LoadFile(fs, "other"))
  BY <1>8, <1>9 DEF Parse, pass1
<1>11. \A i \in DOMAIN args : args[i].name \in Known
  BY <1>1 DEF Known
<1> QED
  BY <1>2, <1>10, <1>11, KnownArgs DEF args

\* The check of a file by itself.
LEMMA ParseCheck ==
  ASSUME NEW fs
  PROVE  Parse(<<Arg("action", "check_config"), Arg("config", "temporary")>>, fs) =
           Checked(LoadFile(fs, "temporary"))
<1> DEFINE args == <<Arg("action", "check_config"), Arg("config", "temporary")>>
           pass1 == Pass1(args)
<1>1. /\ DOMAIN args = {1, 2} /\ args[1].name = "action" /\ args[1].value = "check_config"
      /\ args[2].name = "config" /\ args[2].value = "temporary"
  BY DEF Arg
<1>2. IsSeq(args)
  BY DEF IsSeq
<1> HIDE DEF args
<1>3. {i \in DOMAIN args : args[i].name = "config"} = {2}
  BY <1>1
<1>4. /\ Values(args, "action") = {"check_config"} /\ Values(args, "no_config") = {}
      /\ Values(args, "no_ipc") = {}
  BY <1>1 DEF Values
<1>5. ~(Cardinality({"check_config"}) > 1)
  BY FewOne
<1>6. /\ (CHOOSE i \in {2} : \A j \in {2} : j <= i) = 2
      /\ (CHOOSE a \in {"check_config"} : TRUE) = "check_config"
  BY ChooseOnly
<1>7. pass1 = Passed("temporary", "check_config")
  <2> DEFINE given == {i \in DOMAIN args : args[i].name = "config"}
             actions == Values(args, "action")
             last == CHOOSE i \in given : \A j \in given : j <= i
             one == CHOOSE a \in actions : TRUE
  <2>1. given = {2} /\ actions = {"check_config"}
    BY <1>3, <1>4
  <2>2. last = 2 /\ one = "check_config" /\ ~(Cardinality(actions) > 1)
    BY <1>5, <1>6, <2>1
  <2>3. args[last].value = "temporary"
    BY <1>1, <2>2
  <2>4. given # {} /\ actions # {}
    BY <2>1
  <2>5. pass1 = IF \/ Cardinality(actions) > 1
                   \/ Values(args, "no_config") # {} /\ given # {}
                   \/ Values(args, "no_ipc") # {} /\ Values(args, "ipc_socket") # {}
                THEN Refused
                ELSE [config_path |-> IF given = {} THEN "" ELSE args[last].value,
                      no_config |-> Values(args, "no_config") # {},
                      action |-> IF actions = {} THEN "run" ELSE one]
    BY DEF Pass1
  <2> HIDE DEF given, actions, last, one, pass1
  <2>6. pass1 = [config_path |-> IF given = {} THEN "" ELSE args[last].value,
                 no_config |-> Values(args, "no_config") # {},
                 action |-> IF actions = {} THEN "run" ELSE one]
    BY <1>4, <2>2, <2>5
  <2> QED
    BY <1>4, <2>2, <2>3, <2>4, <2>6 DEF Passed
<1> HIDE DEF pass1
<1>8. /\ pass1 # Refused /\ pass1.config_path = "temporary" /\ ~pass1.no_config
      /\ pass1.action = "check_config"
  BY <1>7, PassedIs, Zenon
<1>9. "check_config" \notin WithoutConfig /\ "temporary" # ""
  BY DEF WithoutConfig
<1>10. Parse(args, fs) = Pass2(args, LoadFile(fs, "temporary"))
  BY <1>8, <1>9 DEF Parse, pass1
<1>11. \A i \in DOMAIN args : args[i].name \in Known
  BY <1>1 DEF Known
<1> QED
  BY <1>2, <1>10, <1>11, KnownArgs DEF args

-----------------------------------------------------------------------------
(***************************************************************************)
(* The edits of the form leave it a form (crates/wiiland-config ui.rs).    *)
(***************************************************************************)
KindsOK(rules) ==
  /\ IsSeq(rules)
  /\ \A i \in DOMAIN rules : rules[i].kind \in RuleKinds /\ IsRule(rules[i])
SidesOK(screen) == screen # <<>> => screen = [side \in ScreenSides |-> screen[side]]
AxesOK(cal) == cal # <<>> => cal = [a \in Axes |-> cal[a]]

LEMMA FormParts ==
  ASSUME NEW opt, opt = [o \in Options |-> opt[o]], NEW screen, SidesOK(screen),
         NEW accel, AxesOK(accel), NEW bias, AxesOK(bias), NEW rules, KindsOK(rules)
  PROVE  FormOK(Made(opt, screen, accel, bias, rules))
<1> DEFINE f == Made(opt, screen, accel, bias, rules)
<1>1. /\ Fields(f) /\ f.opt = opt /\ f.ir_screen = screen /\ f.aim_accel_zero = accel
      /\ f.aim_motion_plus_bias = bias /\ f.device_rules = rules
  BY MadeIs
<1> HIDE DEF f
<1>2. FormOK(f)
  BY <1>1 DEF FormOK, SidesOK, AxesOK, KindsOK
<1> QED
  BY <1>2 DEF f

\* A form with another value of one or of two fields.
LEMMA FormChanged ==
  ASSUME NEW f, FormOK(f)
  PROVE  /\ \A x : x = [o \in Options |-> x[o]] => FormOK([f EXCEPT !.opt = x])
         /\ \A x : SidesOK(x) => FormOK([f EXCEPT !.ir_screen = x])
         /\ \A x : AxesOK(x) => FormOK([f EXCEPT !.aim_accel_zero = x])
         /\ \A x : AxesOK(x) => FormOK([f EXCEPT !.aim_motion_plus_bias = x])
         /\ \A x : KindsOK(x) => FormOK([f EXCEPT !.device_rules = x])
         /\ \A x, y : AxesOK(x) /\ AxesOK(y) =>
              FormOK([f EXCEPT !.aim_accel_zero = x, !.aim_motion_plus_bias = y])
<1> DEFINE opt == f.opt
           screen == f.ir_screen
           accel == f.aim_accel_zero
           bias == f.aim_motion_plus_bias
           rules == f.device_rules
<1>1. f = Made(opt, screen, accel, bias, rules)
  BY MadeOfFields DEF FormOK
<1>2. /\ opt = [o \in Options |-> opt[o]] /\ SidesOK(screen) /\ AxesOK(accel) /\ AxesOK(bias)
      /\ KindsOK(rules)
  BY DEF FormOK, SidesOK, AxesOK, KindsOK
<1> HIDE DEF opt, screen, accel, bias, rules
<1>3. /\ \A x : [f EXCEPT !.opt = x] = Made(x, screen, accel, bias, rules)
      /\ \A x : [f EXCEPT !.ir_screen = x] = Made(opt, x, accel, bias, rules)
      /\ \A x : [f EXCEPT !.aim_accel_zero = x] = Made(opt, screen, x, bias, rules)
      /\ \A x : [f EXCEPT !.aim_motion_plus_bias = x] = Made(opt, screen, accel, x, rules)
      /\ \A x : [f EXCEPT !.device_rules = x] = Made(opt, screen, accel, bias, x)
  BY <1>1, MadeIs
<1>4. ASSUME NEW x, x = [o \in Options |-> x[o]] PROVE FormOK([f EXCEPT !.opt = x])
  BY <1>2, <1>3, <1>4, FormParts
<1>5. ASSUME NEW x, SidesOK(x) PROVE FormOK([f EXCEPT !.ir_screen = x])
  BY <1>2, <1>3, <1>5, FormParts
<1>6. ASSUME NEW x, AxesOK(x) PROVE FormOK([f EXCEPT !.aim_accel_zero = x])
  BY <1>2, <1>3, <1>6, FormParts
<1>7. ASSUME NEW x, AxesOK(x) PROVE FormOK([f EXCEPT !.aim_motion_plus_bias = x])
  BY <1>2, <1>3, <1>7, FormParts
<1>8. ASSUME NEW x, KindsOK(x) PROVE FormOK([f EXCEPT !.device_rules = x])
  BY <1>2, <1>3, <1>8, FormParts
<1>9. ASSUME NEW x, NEW y, AxesOK(x), AxesOK(y)
       PROVE  FormOK([f EXCEPT !.aim_accel_zero = x, !.aim_motion_plus_bias = y])
  <2> DEFINE g == [f EXCEPT !.aim_accel_zero = x]
             h == [g EXCEPT !.aim_motion_plus_bias = y]
  <2>1. g = Made(opt, screen, x, bias, rules)
    BY <1>3
  <2>2. [f EXCEPT !.aim_accel_zero = x, !.aim_motion_plus_bias = y] = h
    OBVIOUS
  <2> HIDE DEF g
  <2>3. h = Made(opt, screen, x, y, rules)
    BY <2>1, MadeIs
  <2> HIDE DEF h
  <2>4. FormOK(h)
    BY <1>2, <1>9, <2>3, FormParts
  <2> QED
    BY <2>2, <2>4 DEF h
<1> QED
  BY <1>4, <1>5, <1>6, <1>7, <1>8, <1>9

\* The positions of a sequence of rules that was changed at some of them.
LEMMA RuleReplaced ==
  ASSUME NEW rules, KindsOK(rules), NEW i \in DOMAIN rules, NEW r,
         r.kind \in RuleKinds, IsRule(r)
  PROVE  KindsOK([rules EXCEPT ![i] = r])
<1> DEFINE next == [rules EXCEPT ![i] = r]
           m == Len(rules)
<1>1. m \in Nat /\ DOMAIN rules = 1..m
  BY DEF KindsOK, IsSeq
<1>2. DOMAIN next = 1..m /\ next = [j \in 1..m |-> next[j]]
  BY <1>1
<1>3. \A j \in 1..m : next[j] = IF j = i THEN r ELSE rules[j]
  BY <1>1
<1> HIDE DEF next, m
<1>4. Len(next) = m
  BY <1>1, <1>2
<1>5. IsSeq(next)
  BY <1>1, <1>2, <1>4 DEF IsSeq
<1>6. KindsOK(next)
  BY <1>1, <1>2, <1>3, <1>5 DEF KindsOK
<1> QED
  BY <1>6 DEF next

\* One field of a rule.
LEMMA RuleEdited ==
  ASSUME NEW r, IsRule(r), r.kind \in RuleKinds
  PROVE  /\ \A x \in RuleKinds : [r EXCEPT !.kind = x].kind \in RuleKinds /\ IsRule([r EXCEPT !.kind = x])
         /\ \A x : [r EXCEPT !.match_text = x].kind \in RuleKinds /\ IsRule([r EXCEPT !.match_text = x])
         /\ \A x : [r EXCEPT !.profile = x].kind \in RuleKinds /\ IsRule([r EXCEPT !.profile = x])
<1> DEFINE k == r.kind
           t == r.match_text
           p == r.profile
<1>1. r = [kind |-> k, match_text |-> t, profile |-> p] /\ k \in RuleKinds
  BY DEF IsRule, Rule
<1> HIDE DEF k, t, p
<1>2. \A x, y, z : Rule(x, y, z).kind = x /\ IsRule(Rule(x, y, z))
  BY DEF Rule, IsRule
<1>3. ASSUME NEW x \in RuleKinds
      PROVE  [r EXCEPT !.kind = x].kind \in RuleKinds /\ IsRule([r EXCEPT !.kind = x])
  <2> DEFINE q == [r EXCEPT !.kind = x]
  <2>1. q = Rule(x, t, p)
    BY <1>1 DEF Rule
  <2> HIDE DEF q
  <2>2. q.kind \in RuleKinds /\ IsRule(q)
    BY <1>1, <1>2, <2>1
  <2> QED
    BY <2>2 DEF q
<1>4. ASSUME NEW x
      PROVE  [r EXCEPT !.match_text = x].kind \in RuleKinds /\ IsRule([r EXCEPT !.match_text = x])
  <2> DEFINE q == [r EXCEPT !.match_text = x]
  <2>1. q = Rule(k, x, p)
    BY <1>1 DEF Rule
  <2> HIDE DEF q
  <2>2. q.kind \in RuleKinds /\ IsRule(q)
    BY <1>1, <1>2, <2>1
  <2> QED
    BY <2>2 DEF q
<1>5. ASSUME NEW x
      PROVE  [r EXCEPT !.profile = x].kind \in RuleKinds /\ IsRule([r EXCEPT !.profile = x])
  <2> DEFINE q == [r EXCEPT !.profile = x]
  <2>1. q = Rule(k, t, x)
    BY <1>1 DEF Rule
  <2> HIDE DEF q
  <2>2. q.kind \in RuleKinds /\ IsRule(q)
    BY <1>1, <1>2, <2>1
  <2> QED
    BY <2>2 DEF q
<1> QED
  BY <1>3, <1>4, <1>5

LEMMA RuleSwapped ==
  ASSUME NEW rules, KindsOK(rules), NEW i \in 2..Len(rules)
  PROVE  KindsOK([rules EXCEPT ![i - 1] = rules[i], ![i] = rules[i - 1]])
<1> DEFINE m == Len(rules)
           once == [rules EXCEPT ![i - 1] = rules[i]]
           next == [rules EXCEPT ![i - 1] = rules[i], ![i] = rules[i - 1]]
<1>1. m \in Nat /\ DOMAIN rules = 1..m
  BY DEF KindsOK, IsSeq
<1>2. i \in 1..m /\ i - 1 \in 1..m
  BY <1>1
<1>3. \A j \in 1..m : rules[j].kind \in RuleKinds /\ IsRule(rules[j])
  BY <1>1 DEF KindsOK
<1>4. KindsOK(once) /\ DOMAIN once = 1..m
  BY <1>1, <1>2, <1>3, RuleReplaced
<1>5. next = [once EXCEPT ![i] = rules[i - 1]]
  OBVIOUS
<1> HIDE DEF once, next
<1>6. KindsOK(next)
  BY <1>2, <1>3, <1>4, <1>5, RuleReplaced
<1> QED
  BY <1>6 DEF next

LEMMA RuleRemoved ==
  ASSUME NEW rules, KindsOK(rules), NEW i \in DOMAIN rules
  PROVE  KindsOK(SubSeq(rules, 1, i - 1) \o SubSeq(rules, i + 1, Len(rules)))
<1> DEFINE m == Len(rules)
           U == {rules[j] : j \in 1..m}
           a == SubSeq(rules, 1, i - 1)
           b == SubSeq(rules, i + 1, m)
           next == a \o b
<1>1. m \in Nat /\ DOMAIN rules = 1..m /\ rules = [j \in 1..m |-> rules[j]]
  BY DEF KindsOK, IsSeq
<1>2. rules \in Seq(U)
  BY <1>1
<1>3. \A u \in U : u.kind \in RuleKinds /\ IsRule(u)
  BY <1>1 DEF KindsOK
<1> HIDE DEF U
<1>4. a \in Seq(U)
  <2> DEFINE k == i - 1
  <2>1. 1 \in Int /\ k \in Int /\ \A j \in 1..k : rules[j] \in U
    <3>1. \A j \in 1..k : j \in 1..m
      BY <1>1
    <3> QED
      BY <1>1, <3>1 DEF U
  <2> HIDE DEF k
  <2>2. SubSeq(rules, 1, k) \in Seq(U)
    BY <2>1, SubSeqProperties
  <2> QED
    BY <2>2 DEF k
<1>5. b \in Seq(U)
  <2> DEFINE k == i + 1
  <2>1. k \in Int /\ m \in Int /\ \A j \in k..m : rules[j] \in U
    <3>1. \A j \in k..m : j \in 1..m
      BY <1>1
    <3> QED
      BY <1>1, <3>1 DEF U
  <2> HIDE DEF k, m
  <2>2. SubSeq(rules, k, m) \in Seq(U)
    BY <2>1, SubSeqProperties
  <2> QED
    BY <2>2 DEF k
<1> HIDE DEF a, b, m
<1>6. next \in Seq(U)
  BY <1>4, <1>5
<1> HIDE DEF next
<1>7. /\ Len(next) \in Nat /\ next = [j \in 1..Len(next) |-> next[j]]
      /\ \A j \in DOMAIN next : next[j] \in U
  BY <1>6
<1>8. KindsOK(next)
  BY <1>3, <1>7 DEF KindsOK, IsSeq
<1> QED
  BY <1>8 DEF next, a, b, m

-----------------------------------------------------------------------------
(***************************************************************************)
(* What was saved: the file of a saved form holds its lines, and the form  *)
(* was accepted by itself.                                                 *)
(***************************************************************************)
FilesOK == \A p \in DOMAIN files : IsFile(files[p])

SavedOK(p) ==
  /\ p \in Paths \cap DOMAIN files
  /\ FormOK(saved[p]) /\ Valid(saved[p]) /\ NumbersParsed(saved[p])
  /\ files[p] = Dump(saved[p])

SavedInv ==
  /\ FilesOK
  /\ target \in Paths
  /\ FormOK(form)
  /\ \A p \in DOMAIN saved : SavedOK(p)

\* The widgets make one form of another.
LEMMA EditedKeeps ==
  ASSUME SavedInv, NEW f, FormOK(f), Edited(f)
  PROVE  SavedInv'
BY DEF SavedInv, SavedOK, FilesOK, Edited

LEMMA ChooseKeeps == ASSUME SavedInv, Choose PROVE SavedInv'
<1>1. PICK c \in Choices : Edited([form EXCEPT !.opt[c[1]] = c[2]])
  BY DEF Choose
<1> DEFINE x == [form.opt EXCEPT ![c[1]] = c[2]]
           f == [form EXCEPT !.opt = x]
<1>2. x = [o \in Options |-> x[o]]
  BY DEF SavedInv, FormOK
<1>3. Edited(f)
  BY <1>1
<1> HIDE DEF x
<1>4. FormOK(f)
  BY <1>2, FormChanged DEF SavedInv
<1> HIDE DEF f
<1> QED
  BY <1>3, <1>4, EditedKeeps

LEMMA ToggleScreenKeeps == ASSUME SavedInv, ToggleScreen PROVE SavedInv'
<1> DEFINE x == IF form.ir_screen = <<>> THEN DefaultScreen ELSE <<>>
           f == [form EXCEPT !.ir_screen = x]
<1>1. Edited(f)
  BY DEF ToggleScreen
<1>2. SidesOK(x)
  BY DEF SidesOK, DefaultScreen, ScreenSides
<1> HIDE DEF x
<1>3. FormOK(f)
  BY <1>2, FormChanged DEF SavedInv
<1> HIDE DEF f
<1> QED
  BY <1>1, <1>3, EditedKeeps

LEMMA DragScreenKeeps == ASSUME SavedInv, DragScreen PROVE SavedInv'
<1>1. PICK s \in Sides : Edited([form EXCEPT !.ir_screen = With(form.ir_screen, s[1], s[2])])
  BY DEF DragScreen
<1> DEFINE x == With(form.ir_screen, s[1], s[2])
           f == [form EXCEPT !.ir_screen = x]
<1>2. Edited(f)
  BY <1>1
<1>3. SidesOK(x)
  <2>1. DOMAIN form.ir_screen = ScreenSides
    BY DEF DragScreen, SavedInv, FormOK
  <2>2. s[1] \in ScreenSides
    BY SidesAssumption
  <2>3. DOMAIN x = ScreenSides /\ x = [side \in DOMAIN x |-> x[side]]
    BY <2>1, <2>2 DEF With
  <2> HIDE DEF x
  <2> QED
    BY <2>3 DEF SidesOK
<1> HIDE DEF x
<1>4. FormOK(f)
  BY <1>3, FormChanged DEF SavedInv
<1> HIDE DEF f
<1> QED
  BY <1>2, <1>4, EditedKeeps

LEMMA ToggleCalibrationKeeps == ASSUME SavedInv, ToggleCalibration PROVE SavedInv'
<1>1. PICK g \in Calibrations :
        Edited([form EXCEPT ![g] = IF form[g] = <<>> THEN [a \in Axes |-> 0] ELSE <<>>])
  BY DEF ToggleCalibration
<1> DEFINE x == IF form[g] = <<>> THEN [a \in Axes |-> 0] ELSE <<>>
           f == [form EXCEPT ![g] = x]
<1>2. Edited(f)
  BY <1>1
<1>3. AxesOK(x)
  BY DEF AxesOK
<1> HIDE DEF x
<1>4. FormOK(f)
  <2>1. CASE g = "aim_accel_zero"
    <3> DEFINE h == [form EXCEPT !.aim_accel_zero = x]
    <3>1. FormOK(h)
      BY <1>3, FormChanged DEF SavedInv
    <3>2. f = h
      BY <2>1
    <3> QED
      BY <3>1, <3>2
  <2>2. CASE g = "aim_motion_plus_bias"
    <3> DEFINE h == [form EXCEPT !.aim_motion_plus_bias = x]
    <3>1. FormOK(h)
      BY <1>3, FormChanged DEF SavedInv
    <3>2. f = h
      BY <2>2
    <3> QED
      BY <3>1, <3>2
  <2> QED
    BY <2>1, <2>2 DEF Calibrations
<1> HIDE DEF f
<1> QED
  BY <1>2, <1>4, EditedKeeps

LEMMA FinishAxes == ASSUME NEW samples PROVE AxesOK(CalibrationFinish(samples))
BY DEF AxesOK, CalibrationFinish, Axes

LEMMA CalibrateKeeps == ASSUME SavedInv, Calibrate PROVE SavedInv'
<1> DEFINE New(old, samples) == IF CalibrationFinish(samples) = <<>> THEN old ELSE CalibrationFinish(samples)
<1>1. PICK w \in Windows :
        Edited([form EXCEPT !.aim_accel_zero = New(form.aim_accel_zero, w.accel),
                            !.aim_motion_plus_bias = New(form.aim_motion_plus_bias, w.motion_plus)])
  <2>1. PICK w \in Windows :
          Edited([form EXCEPT
            !.aim_accel_zero = IF CalibrationFinish(w.accel) = <<>> THEN @
                               ELSE CalibrationFinish(w.accel),
            !.aim_motion_plus_bias = IF CalibrationFinish(w.motion_plus) = <<>> THEN @
                                     ELSE CalibrationFinish(w.motion_plus)])
    BY DEF Calibrate
  <2> QED
    BY <2>1
<1> DEFINE x == New(form.aim_accel_zero, w.accel)
           y == New(form.aim_motion_plus_bias, w.motion_plus)
           f == [form EXCEPT !.aim_accel_zero = x, !.aim_motion_plus_bias = y]
<1>2. Edited(f)
  BY <1>1
<1>3. AxesOK(x) /\ AxesOK(y)
  <2>1. AxesOK(form.aim_accel_zero) /\ AxesOK(form.aim_motion_plus_bias)
    BY DEF SavedInv, FormOK, AxesOK
  <2> QED
    BY <2>1, FinishAxes
<1> HIDE DEF x, y
<1>4. FormOK(f)
  BY <1>3, FormChanged DEF SavedInv
<1> HIDE DEF f
<1> QED
  BY <1>2, <1>4, EditedKeeps

\* The form with other rules.
LEMMA RulesEdited ==
  ASSUME SavedInv, NEW rules, KindsOK(rules), Edited([form EXCEPT !.device_rules = rules])
  PROVE  SavedInv'
<1> DEFINE f == [form EXCEPT !.device_rules = rules]
<1>1. FormOK(f)
  BY FormChanged DEF SavedInv
<1>2. Edited(f)
  OBVIOUS
<1> HIDE DEF f
<1> QED
  BY <1>1, <1>2, EditedKeeps

LEMMA FormRulesKinds == ASSUME SavedInv PROVE KindsOK(form.device_rules)
BY DEF SavedInv, FormOK, KindsOK

LEMMA AddRuleKeeps == ASSUME SavedInv, AddRule PROVE SavedInv'
<1> DEFINE r == form.device_rules
           rule == [kind |-> "devtype", match_text |-> "", profile |-> "gamepad"]
           m == Len(r)
           next == Append(r, rule)
<1>1. Edited([form EXCEPT !.device_rules = next])
  BY DEF AddRule
<1>2. rule.kind \in RuleKinds /\ IsRule(rule)
  BY DEF RuleKinds, IsRule, Rule
<1>3. IsSeq(r) /\ DOMAIN r = 1..m /\ m \in Nat
  BY FormRulesKinds DEF KindsOK, IsSeq
<1>4. \A i \in 1..m : r[i].kind \in RuleKinds /\ IsRule(r[i])
  BY <1>3, FormRulesKinds DEF KindsOK
<1> HIDE DEF r, rule
<1>5. /\ IsSeq(next)
      /\ next = [j \in 1..(m + 1) |-> IF j = m + 1 THEN rule ELSE r[j]]
  BY <1>3, AppendIs
<1> HIDE DEF next, m
<1>6. ASSUME NEW j \in DOMAIN next PROVE next[j].kind \in RuleKinds /\ IsRule(next[j])
  <2>1. j \in 1..(m + 1)
    BY <1>5
  <2>2. j = m + 1 \/ j \in 1..m
    BY <1>3, <2>1, LastOrBefore
  <2> QED
    BY <1>2, <1>4, <1>5, <2>1, <2>2
<1>7. KindsOK(next)
  BY <1>5, <1>6 DEF KindsOK
<1> QED
  BY <1>1, <1>7, RulesEdited DEF r

LEMMA ChangeRuleKeeps == ASSUME SavedInv, ChangeRule PROVE SavedInv'
<1> DEFINE r == form.device_rules
<1>1. PICK i \in DOMAIN r :
        \/ \E k \in RuleKinds : Edited([form EXCEPT !.device_rules[i].kind = k])
        \/ \E t \in RuleTexts : Edited([form EXCEPT !.device_rules[i].match_text = t])
        \/ \E p \in Profiles : Edited([form EXCEPT !.device_rules[i].profile = p])
  BY DEF ChangeRule
<1>2. r[i].kind \in RuleKinds /\ IsRule(r[i])
  BY FormRulesKinds DEF KindsOK
<1> SUFFICES ASSUME NEW q, q.kind \in RuleKinds, IsRule(q),
                    Edited([form EXCEPT !.device_rules = [r EXCEPT ![i] = q]])
             PROVE  SavedInv'
  <2>1. CASE \E k \in RuleKinds : Edited([form EXCEPT !.device_rules[i].kind = k])
    <3>1. PICK k \in RuleKinds : Edited([form EXCEPT !.device_rules[i].kind = k])
      BY <2>1
    <3> DEFINE q == [r[i] EXCEPT !.kind = k]
    <3>2. Edited([form EXCEPT !.device_rules = [r EXCEPT ![i] = q]])
      BY <3>1
    <3>3. q.kind \in RuleKinds /\ IsRule(q)
      BY <1>2, RuleEdited
    <3> HIDE DEF q
    <3> QED
      BY <3>2, <3>3
  <2>2. CASE \E t \in RuleTexts : Edited([form EXCEPT !.device_rules[i].match_text = t])
    <3>1. PICK t \in RuleTexts : Edited([form EXCEPT !.device_rules[i].match_text = t])
      BY <2>2
    <3> DEFINE q == [r[i] EXCEPT !.match_text = t]
    <3>2. Edited([form EXCEPT !.device_rules = [r EXCEPT ![i] = q]])
      BY <3>1
    <3>3. q.kind \in RuleKinds /\ IsRule(q)
      BY <1>2, RuleEdited
    <3> HIDE DEF q
    <3> QED
      BY <3>2, <3>3
  <2>3. CASE \E p \in Profiles : Edited([form EXCEPT !.device_rules[i].profile = p])
    <3>1. PICK p \in Profiles : Edited([form EXCEPT !.device_rules[i].profile = p])
      BY <2>3
    <3> DEFINE q == [r[i] EXCEPT !.profile = p]
    <3>2. Edited([form EXCEPT !.device_rules = [r EXCEPT ![i] = q]])
      BY <3>1
    <3>3. q.kind \in RuleKinds /\ IsRule(q)
      BY <1>2, RuleEdited
    <3> HIDE DEF q
    <3> QED
      BY <3>2, <3>3
  <2> QED
    BY <1>1, <2>1, <2>2, <2>3
<1>3. KindsOK([r EXCEPT ![i] = q])
  <2>1. KindsOK(r)
    BY FormRulesKinds
  <2> HIDE DEF r
  <2> QED
    BY <2>1, RuleReplaced
<1> QED
  BY <1>3, RulesEdited

LEMMA MoveRuleKeeps == ASSUME SavedInv, MoveRule PROVE SavedInv'
<1> DEFINE r == form.device_rules
<1>1. PICK i \in 2..Len(r) :
        Edited([form EXCEPT !.device_rules = [r EXCEPT ![i - 1] = r[i], ![i] = r[i - 1]]])
  BY DEF MoveRule
<1> DEFINE next == [r EXCEPT ![i - 1] = r[i], ![i] = r[i - 1]]
<1>2. KindsOK(next)
  BY FormRulesKinds, RuleSwapped
<1>3. Edited([form EXCEPT !.device_rules = next])
  BY <1>1
<1> HIDE DEF next
<1> QED
  BY <1>2, <1>3, RulesEdited

LEMMA RemoveRuleKeeps == ASSUME SavedInv, RemoveRule PROVE SavedInv'
<1> DEFINE r == form.device_rules
<1>1. PICK i \in DOMAIN r :
        Edited([form EXCEPT !.device_rules = SubSeq(r, 1, i - 1) \o SubSeq(r, i + 1, Len(r))])
  BY DEF RemoveRule
<1> DEFINE next == SubSeq(r, 1, i - 1) \o SubSeq(r, i + 1, Len(r))
<1>2. KindsOK(next)
  BY FormRulesKinds, RuleRemoved
<1>3. Edited([form EXCEPT !.device_rules = next])
  BY <1>1
<1> HIDE DEF next
<1> QED
  BY <1>2, <1>3, RulesEdited

\* A file is written.
LEMMA WrittenFiles ==
  ASSUME FilesOK, NEW path, NEW lines, IsFile(lines), files' = With(files, path, lines)
  PROVE  /\ FilesOK' /\ path \in DOMAIN files' /\ files'[path] = lines
         /\ \A p \in DOMAIN files : p \in DOMAIN files' /\ (p # path => files'[p] = files[p])
<1> DEFINE next == With(files, path, lines)
<1>1. /\ DOMAIN next = DOMAIN files \cup {path} /\ next[path] = lines
      /\ \A p \in DOMAIN files : p # path => next[p] = files[p]
  BY DEF With
<1>2. files' = next
  OBVIOUS
<1> HIDE DEF next
<1>3. \A p \in DOMAIN next : IsFile(next[p])
  BY <1>1 DEF FilesOK
<1> QED
  BY <1>1, <1>2, <1>3 DEF FilesOK

LEMMA LoadKeeps == ASSUME SavedInv, Load PROVE SavedInv'
<1> DEFINE args == ConfiguredArgs \o <<Arg("action", "dump_config")>>
           dumped == Parse(args, files)
           loaded == ParseBytes(Dump(dumped))
<1>1. dumped # Refused /\ loaded # Refused /\ form' = loaded /\ UNCHANGED <<files, target, saved>>
  BY DEF Load
<1>2. IsSeq(args)
  <2>1. IsSeq(<<Arg("action", "dump_config")>>) /\ IsSeq(<<>>) /\ IsSeq(<<Arg("config", target)>>)
    BY DEF IsSeq
  <2>2. IsSeq(ConfiguredArgs)
    BY <2>1 DEF ConfiguredArgs
  <2> QED
    BY <2>1, <2>2, ConcatIs
<1> HIDE DEF args
<1>3. ConfigOK(dumped) /\ Valid(dumped)
  BY <1>1, <1>2, ParseOK DEF SavedInv, FilesOK
<1> HIDE DEF dumped
<1>4. IsFile(Dump(dumped))
  BY <1>3, ConfigIsForm, DumpFile
<1>5. ConfigOK(loaded) /\ Valid(loaded)
  <2> DEFINE d == ApplyBytes(Default, Dump(dumped))
  <2>1. RefusedOrOK(d)
    BY <1>4, DefaultOK, ApplyBytesOK
  <2>2. loaded = Checked(d)
    BY DEF ParseBytes
  <2> HIDE DEF d, loaded
  <2> QED
    BY <1>1, <2>1, <2>2 DEF Checked, RefusedOrOK
<1> HIDE DEF loaded
<1>6. FormOK(loaded)
  BY <1>5, ConfigIsForm
<1> QED
  BY <1>1, <1>6 DEF SavedInv, SavedOK, FilesOK

\* What is saved was accepted by itself.
LEMMA SaveKeeps == ASSUME SavedInv, Save PROVE SavedInv'
<1> DEFINE bytes == Dump(form)
           check == <<Arg("action", "check_config"), Arg("config", "temporary")>>
           fs == With(files, "temporary", bytes)
<1>1. /\ Valid(form) /\ Parse(check, fs) # Refused
      /\ files' = With(files, target, bytes) /\ saved' = With(saved, target, form)
      /\ UNCHANGED <<target, form>>
  BY DEF Save, Written, ValidForm
<1>2. FormOK(form) /\ target \in Paths /\ FilesOK
  BY DEF SavedInv
<1>3. IsFile(bytes)
  BY <1>2, DumpFile
<1>4. NumbersParsed(form)
  <2>1. Parse(check, fs) = Checked(LoadFile(fs, "temporary"))
    BY ParseCheck
  <2>2. "temporary" \in DOMAIN fs /\ fs["temporary"] = bytes
    BY DEF With
  <2> HIDE DEF check, fs, bytes
  <2>3. LoadFile(fs, "temporary") # Refused
    BY <1>1, <2>1 DEF Checked
  <2>4. LoadFile(fs, "temporary") = Checked(ApplyBytes(Default, bytes))
    BY <2>2 DEF LoadFile, ReadLayer
  <2>5. ApplyBytes(Default, bytes) # Refused
    BY <2>3, <2>4 DEF Checked
  <2> QED
    BY <1>1, <1>2, <2>5, DefaultOK, CheckedNumbers DEF bytes
<1> HIDE DEF bytes
<1>5. FilesOK' /\ target \in DOMAIN files' /\ files'[target] = bytes
  BY <1>1, <1>2, <1>3, WrittenFiles
<1>6. \A p \in DOMAIN files : p \in DOMAIN files' /\ (p # target => files'[p] = files[p])
  BY <1>1, <1>2, <1>3, WrittenFiles
<1>7. /\ DOMAIN saved' = DOMAIN saved \cup {target} /\ saved'[target] = form
      /\ \A p \in DOMAIN saved : p # target => saved'[p] = saved[p]
  BY <1>1 DEF With
<1>8. ASSUME NEW p \in DOMAIN saved' PROVE SavedOK(p)'
  <2>1. CASE p = target
    BY <1>1, <1>2, <1>4, <1>5, <1>7, <2>1 DEF SavedOK, bytes
  <2>2. CASE p # target
    <3>1. p \in DOMAIN saved /\ SavedOK(p)
      BY <1>7, <2>2 DEF SavedInv
    <3> QED
      BY <1>6, <1>7, <2>2, <3>1 DEF SavedOK
  <2> QED
    BY <2>1, <2>2
<1> QED
  BY <1>1, <1>2, <1>5, <1>8 DEF SavedInv

LEMMA AdministerKeeps == ASSUME SavedInv, Administer PROVE SavedInv'
<1>1. PICK lines \in SystemFiles : files' = With(files, "system", lines)
  BY DEF Administer, Written
<1>2. UNCHANGED <<target, form, saved>>
  BY DEF Administer
<1>3. IsFile(lines) /\ FilesOK
  BY FilesAssumption DEF SavedInv
<1>4. /\ FilesOK'
      /\ \A p \in DOMAIN files : p \in DOMAIN files' /\ (p # "system" => files'[p] = files[p])
  BY <1>1, <1>3, WrittenFiles
<1>5. "system" \notin Paths
  BY DEF Paths
<1>6. ASSUME NEW p \in DOMAIN saved' PROVE SavedOK(p)'
  <2>1. p \in DOMAIN saved /\ SavedOK(p)
    BY <1>2 DEF SavedInv
  <2> QED
    BY <1>2, <1>4, <1>5, <2>1 DEF SavedOK
<1> QED
  BY <1>2, <1>4, <1>6 DEF SavedInv

LEMMA PasteKeeps == ASSUME SavedInv, PasteCalibration PROVE SavedInv'
<1>1. PICK w \in Windows, path \in DOMAIN files :
        /\ files' = With(files, path, files[path] \o
                           (Printed("aim_accel_zero", w.accel)
                            \o Printed("aim_motion_plus_bias", w.motion_plus)))
        /\ saved' = [p \in DOMAIN saved \ {path} |-> saved[p]]
        /\ UNCHANGED <<target, form>>
  BY DEF PasteCalibration, Written
<1> DEFINE a == Printed("aim_accel_zero", w.accel)
           b == Printed("aim_motion_plus_bias", w.motion_plus)
           lines == files[path] \o (a \o b)
<1>2. IsFile(a) /\ IsFile(b)
  BY AxesOrder, GroupFile DEF Printed, Calibrations
<1> HIDE DEF a, b
<1>3. FilesOK
  BY DEF SavedInv
<1>4. IsFile(lines)
  BY <1>2, <1>3, ConcatFile DEF FilesOK
<1>5. files' = With(files, path, lines)
  BY <1>1 DEF a, b
<1> HIDE DEF lines
<1>6. /\ FilesOK'
      /\ \A p \in DOMAIN files : p \in DOMAIN files' /\ (p # path => files'[p] = files[p])
  BY <1>3, <1>4, <1>5, WrittenFiles
<1>7. ASSUME NEW p \in DOMAIN saved' PROVE SavedOK(p)'
  <2>1. p \in DOMAIN saved /\ p # path /\ saved'[p] = saved[p]
    BY <1>1
  <2>2. SavedOK(p)
    BY <2>1 DEF SavedInv
  <2> QED
    BY <1>6, <2>1, <2>2 DEF SavedOK
<1> QED
  BY <1>1, <1>6, <1>7 DEF SavedInv

\* What was saved stays what its file says, whatever the editors do.
THEOREM ControlsSaved == ControlsSpec => []SavedInv
<1>1. ASSUME ControlsInit PROVE SavedInv
  <2>1. files \in Installed /\ target = "user" /\ form = Default /\ saved = [p \in {} |-> Default]
    BY <1>1 DEF ControlsInit
  <2>2. FilesOK
    BY <2>1, FilesAssumption DEF FilesOK
  <2>3. FormOK(form)
    BY <2>1, DefaultOK, DefaultValid, ConfigIsForm
  <2>4. DOMAIN saved = {} /\ target \in Paths
    BY <2>1 DEF Paths
  <2> QED
    BY <2>2, <2>3, <2>4 DEF SavedInv
<1>2. ASSUME SavedInv, [ControlsNext]_vars PROVE SavedInv'
  <2>1. CASE Choose \/ ToggleScreen \/ DragScreen \/ ToggleCalibration \/ Calibrate
    BY <1>2, <2>1, ChooseKeeps, ToggleScreenKeeps, DragScreenKeeps, ToggleCalibrationKeeps,
       CalibrateKeeps
  <2>2. CASE AddRule \/ ChangeRule \/ MoveRule \/ RemoveRule
    BY <1>2, <2>2, AddRuleKeeps, ChangeRuleKeeps, MoveRuleKeeps, RemoveRuleKeeps
  <2>3. CASE Load \/ Save \/ Administer \/ PasteCalibration
    BY <1>2, <2>3, LoadKeeps, SaveKeeps, AdministerKeeps, PasteKeeps
  <2>4. CASE Retarget
    BY <1>2, <2>4 DEF Retarget, SavedInv, SavedOK, FilesOK
  <2>5. CASE Start \/ Stop \/ Report \/ IrReport \/ AimKey \/ InterfaceLost \/ UNCHANGED vars
    <3>1. UNCHANGED <<files, target, form, saved>>
      BY <2>5 DEF Start, Stop, Report, IrReport, AimKey, InterfaceLost, Playing, editing, vars
    <3> QED
      BY <1>2, <3>1 DEF SavedInv, SavedOK, FilesOK
  <2> QED
    BY <1>2, <2>1, <2>2, <2>3, <2>4, <2>5 DEF ControlsNext
<1> QED
  BY <1>1, <1>2, PTL DEF ControlsSpec

\* The checked configuration of the layers under a saved form.
LEMMA UserTakesEffect ==
  ASSUME SavedInv, "user" \in DOMAIN saved, ~SystemInTheWay(saved["user"])
  PROVE  LET c == Parse(<<>>, files) IN c # Refused /\ Honours(c, saved["user"])
<1> DEFINE f == saved["user"]
           system == ReadLayer(Default, files, "system", FALSE)
           r == ApplyBytes(system, Dump(f))
<1>1. SavedOK("user") /\ FilesOK
  BY DEF SavedInv
<1>2. /\ ConfigOK(system) /\ Valid(system)
      /\ Cardinality(KeysOf(system.device_rules) \cup KeysOf(f.device_rules)) <= MaxDeviceRules
  <2>1. CASE "system" \notin DOMAIN files
    <3>1. system = Default
      BY <2>1 DEF ReadLayer
    <3> HIDE DEF system
    <3> QED
      BY <1>1, <3>1, DefaultOK, DefaultValid, RoomAlone DEF SavedOK
  <2>2. CASE "system" \in DOMAIN files
    <3> DEFINE parsed == ParseBytes(files["system"])
               K == RulesOf(parsed) \cup RulesOf(f)
    <3>1. parsed # Refused /\ ~(Cardinality(K) > MaxDeviceRules)
      BY <2>2 DEF SystemInTheWay
    <3>2. parsed = Checked(system)
      BY <2>2 DEF ParseBytes, ReadLayer
    <3>3. RefusedOrOK(system)
      BY <1>1, DefaultOK, ReadLayerOK DEF FilesOK
    <3> HIDE DEF parsed, system
    <3>4. parsed = system /\ system # Refused /\ Valid(system)
      BY <3>1, <3>2 DEF Checked
    <3>5. ConfigOK(system)
      BY <3>3, <3>4 DEF RefusedOrOK
    <3>6. K = KeysOf(system.device_rules) \cup KeysOf(f.device_rules)
      BY <3>4 DEF RulesOf, KeysOf
    <3>7. Cardinality(K) <= MaxDeviceRules
      <4>1. IsFiniteSet(K)
        <5>1. IsFiniteSet(KeysOf(system.device_rules)) /\ IsFiniteSet(KeysOf(f.device_rules))
          BY <1>1, <3>5, KeyBound, KeysFew DEF ConfigOK, SavedOK, FormOK
        <5> QED
          BY <3>6, <5>1, FS_Union
      <4> DEFINE k == Cardinality(K)
      <4>2. k \in Nat /\ MaxDeviceRules \in Nat /\ ~(k > MaxDeviceRules)
        BY <3>1, <4>1, FS_CardinalityType, DeviceRulesAssumption
      <4> HIDE DEF k
      <4>3. k <= MaxDeviceRules
        BY <4>2
      <4> QED
        BY <4>3 DEF k
    <3> QED
      BY <3>4, <3>5, <3>6, <3>7
  <2> QED
    BY <2>1, <2>2
<1> HIDE DEF system
<1>3. r # Refused /\ Valid(r) /\ Honours(r, f)
  BY <1>1, <1>2, FormHonoured DEF SavedOK
<1>4. system # Refused
  BY <1>2 DEF ConfigOK, Fields, Refused
<1>5. LoadDefaultLayers(files) = Checked(r)
  <2>1. "user" \in DOMAIN files /\ files["user"] = Dump(f)
    BY <1>1 DEF SavedOK
  <2>2. ReadLayer(system, files, "user", FALSE) = r
    BY <2>1 DEF ReadLayer
  <2> HIDE DEF r
  <2> QED
    BY <1>4, <2>2 DEF LoadDefaultLayers, system
<1> HIDE DEF r
<1>6. Parse(<<>>, files) = r
  BY <1>3, <1>5, ParseNone, CheckedTwice DEF Checked
<1> QED
  BY <1>3, <1>6

LEMMA OtherTakesEffect ==
  ASSUME SavedInv, "other" \in DOMAIN saved
  PROVE  LET c == Parse(<<Arg("config", "other")>>, files)
         IN c # Refused /\ Honours(c, saved["other"])
<1> DEFINE f == saved["other"]
           r == ApplyBytes(Default, Dump(f))
<1>1. SavedOK("other")
  BY DEF SavedInv
<1>2. r # Refused /\ Valid(r) /\ Honours(r, f)
  BY <1>1, DefaultOK, DefaultValid, RoomAlone, FormHonoured DEF SavedOK
<1>3. LoadFile(files, "other") = Checked(r)
  BY <1>1 DEF SavedOK, LoadFile, ReadLayer
<1> HIDE DEF r
<1>4. Parse(<<Arg("config", "other")>>, files) = r
  BY <1>2, <1>3, ParseFile, CheckedTwice DEF Checked
<1> QED
  BY <1>2, <1>4

\* What the control center saved is what a daemon does when it is started the
\* way it was saved for, whatever the system file says before it
\* (config_task.rs run, config.rs dump and set_rule, cli.rs parse).
THEOREM ControlsSavedTakesEffect == ControlsSpec => []SavedTakesEffect
<1>1. SavedInv => SavedTakesEffect
  BY UserTakesEffect, OtherTakesEffect DEF SavedTakesEffect
<1> QED
  BY <1>1, ControlsSaved, PTL
=============================================================================
