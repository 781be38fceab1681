------------------------------- MODULE Motion -------------------------------
(* What a report of a controller becomes, as functions: the axes it carries
   (crates/wiiland-hid/src/decode.rs), the axes of the virtual gamepad
   (crates/wiiland-core/src/mapping.rs), the pointer's infrared tracking
   (pointer.rs), the motion aim (aim.rs) and calibration (calibration.rs).

   A point is <<x, y>>, a sample <<x, y, z>>, None stands for an absent one.
   The options are read from a configuration of module Config. *)
EXTENDS Config

CONSTANTS MinSamples, MaxJitter
ASSUME CalibrationAssumption == MinSamples \in Nat \ {0} /\ MaxJitter \in Nat

None == <<>>
Zero == <<0, 0>>

\* Integer division of the language: it truncates towards zero.
Quot(a, b) == IF a >= 0 THEN a \div b ELSE -((-a) \div b)

Abs(a) == IF a < 0 THEN -a ELSE a
Least(a, b) == IF a < b THEN a ELSE b
Clamp(a, low, high) == IF a < low THEN low ELSE IF a > high THEN high ELSE a

(* --------------------------- reports, decoded ---------------------------- *)
\* The kernel's code of each component of each slot of an interface's report.
AxisCodes ==
  [accel |-> << <<"RX", "RY", "RZ">> >>,
   motion_plus |-> << <<"RX", "RY", "RZ">> >>,
   ir |-> << <<"HAT0X", "HAT0Y">>, <<"HAT1X", "HAT1Y">>,
             <<"HAT2X", "HAT2Y">>, <<"HAT3X", "HAT3Y">> >>,
   nunchuk |-> << <<"HAT0X", "HAT0Y">>, <<"RX", "RY", "RZ">> >>,
   classic |-> << <<"HAT1X", "HAT1Y">>, <<"HAT2X", "HAT2Y">>, <<"HAT3Y", "HAT3X">> >>,
   balance |-> << <<"HAT0X">>, <<"HAT0Y">>, <<"HAT1X">>, <<"HAT1Y">> >>,
   pro |-> << <<"X", "Y">>, <<"RX", "RY">> >>,
   drums |-> << <<"X", "Y">>, <<"HAT2X">>, <<"HAT2Y">>, <<"HAT0X">>, <<"HAT1X">>,
                <<"HAT0Y">>, <<"HAT3X">>, <<"HAT3Y">> >>,
   guitar |-> << <<"X", "Y">>, <<"HAT1X">>, <<"HAT0X">> >>]

Codes(kind) == UNION {{AxisCodes[kind][s][i] : i \in DOMAIN AxisCodes[kind][s]} :
                        s \in DOMAIN AxisCodes[kind]}

\* raw maps each code of the interface to its value; the slots of the event.
Decoded(kind, raw) ==
  [s \in DOMAIN AxisCodes[kind] |->
    [i \in DOMAIN AxisCodes[kind][s] |-> raw[AxisCodes[kind][s][i]]]]

\* What a client sees before the first report: nothing at rest but the
\* infrared points, which are out of sight.
Unseen == <<1023, 1023>>
Visible(point) == point # Unseen

(* --------------------------- the virtual axes ---------------------------- *)
VIRTUAL_AXIS_MIN == -32768
VIRTUAL_AXIS_MAX == 32767
VIRTUAL_TRIGGER_MAX == 1023
WeightMax == 65535

ScaleSigned(value, negative, positive) ==
  CASE value <= -negative -> VIRTUAL_AXIS_MIN
    [] -negative < value /\ value < 0 -> Quot(value * (-VIRTUAL_AXIS_MIN), negative)
    [] 0 <= value /\ value < positive -> (value * VIRTUAL_AXIS_MAX) \div positive
    [] value >= positive -> VIRTUAL_AXIS_MAX

ScaleUnsigned(value, source, target) ==
  CASE value <= 0 -> 0
    [] value >= source -> target
    [] OTHER -> (value * target) \div source

\* Slot, component, code on the gamepad, and the extents of the source.
Signed(slot, i, code, negative, positive) ==
  [slot |-> slot, i |-> i, code |-> code, scale |-> "signed", low |-> negative, high |-> positive]
Unsigned(slot, code, source, target) ==
  [slot |-> slot, i |-> 1, code |-> code, scale |-> "unsigned", low |-> source, high |-> target]

Stick(slot, x, y, extent) ==
  {Signed(slot, 1, x, extent, extent), Signed(slot, 2, y, extent, extent)}
Triple(slot, codes, extent) ==
  {Signed(slot, i, codes[i], extent, extent) : i \in 1..3}

RhythmStick == {Signed(1, 1, "X", 32, 31), Signed(1, 2, "Y", 32, 31)}

\* As if a cymbal were on the axis of a trigger.
FullDrumsShifted == {1, 2, 6}

\* The drums that drive a full axis are the ones at 1, 2 and 5.
FullDrums == {1, 2, 5}
DrumCodes == <<"RX", "RY", "Z", "RZ", "HAT3X", "HAT3Y", "MISC">>
DrumsMap ==
  RhythmStick \cup
  {Unsigned(n + 1, DrumCodes[n], 7, IF n \in FullDrums THEN VIRTUAL_AXIS_MAX ELSE VIRTUAL_TRIGGER_MAX) : n \in 1..7}

AxisMap(kind) ==
  CASE kind = "accel" -> Triple(1, <<"THROTTLE", "RUDDER", "WHEEL">>, 500)
    [] kind = "motion_plus" -> Triple(1, <<"GAS", "BRAKE", "HAT0X">>, 16000)
    [] kind = "nunchuk" -> Stick(1, "X", "Y", 120)
                           \cup Triple(2, <<"HAT1X", "HAT1Y", "HAT2X">>, 500)
    [] kind = "classic" -> Stick(1, "X", "Y", 30) \cup Stick(2, "RX", "RY", 30)
                           \cup {Unsigned(3, "Z", 62, VIRTUAL_TRIGGER_MAX),
                                 [Unsigned(3, "RZ", 62, VIRTUAL_TRIGGER_MAX) EXCEPT !.i = 2]}
    [] kind = "pro" -> Stick(1, "X", "Y", 1024) \cup Stick(2, "RX", "RY", 1024)
    [] kind = "guitar" -> RhythmStick \cup {Signed(2, 1, "HAT3X", 16, 15),
                                            Unsigned(3, "HAT3Y", 31, VIRTUAL_TRIGGER_MAX)}
    [] kind = "balance" ->
         {Unsigned(n, <<"PRESSURE", "DISTANCE", "TILT_X", "TILT_Y">>[n], WeightMax, WeightMax) : n \in 1..4}
    [] kind = "drums" -> DrumsMap

\* The balance board's weights are passed on as they are.
Scaled(axis, kind, value) ==
  IF kind = "balance" THEN value
  ELSE IF axis.scale = "signed" THEN ScaleSigned(value, axis.low, axis.high)
  ELSE ScaleUnsigned(value, axis.low, axis.high)

\* The axes of the gamepad that a report sets, as pairs of code and value.
MapMotion(kind, slots) ==
  {<<axis.code, Scaled(axis, kind, slots[axis.slot][axis.i])>> : axis \in AxisMap(kind)}

\* What the virtual controller is created with.
CoreAxes ==
  {"X", "Y", "RX", "RY", "Z", "RZ", "HAT3X", "HAT3Y", "MISC", "PRESSURE",
   "DISTANCE", "TILT_X", "TILT_Y", "THROTTLE", "RUDDER", "WHEEL", "GAS", "BRAKE",
   "HAT0X", "HAT1X", "HAT1Y", "HAT2X"}
AxisInfo(code) ==
  CASE code \in {"Z", "RZ", "HAT3Y", "MISC"} -> 0..VIRTUAL_TRIGGER_MAX
    [] code \in {"PRESSURE", "DISTANCE", "TILT_X", "TILT_Y"} -> 0..WeightMax
    [] OTHER -> VIRTUAL_AXIS_MIN..VIRTUAL_AXIS_MAX

(* ------------------------------ the pointer ------------------------------ *)
VisiblePoints(frame) == Kept(frame, {i \in DOMAIN frame : Visible(frame[i])})

Distance(a, b) == (a[1] - b[1]) * (a[1] - b[1]) + (a[2] - b[2]) * (a[2] - b[2])

\* The pair that is farthest apart, the first such pair in the frame's order.
FarthestPair(points) ==
  LET pairs == {p \in (DOMAIN points) \X (DOMAIN points) : p[1] < p[2]}
      far(p) == Distance(points[p[1]], points[p[2]])
      first(p, q) == p[1] < q[1] \/ (p[1] = q[1] /\ p[2] <= q[2])
  IN CHOOSE p \in pairs : \A q \in pairs : far(p) > far(q) \/ (far(p) = far(q) /\ first(p, q))

Centre(points, among) ==
  LET total[n \in 0..Len(points)] ==
        IF n = 0 THEN Zero
        ELSE LET before == total[n - 1]
             IN IF n \in among THEN <<before[1] + points[n][1], before[2] + points[n][2]>>
                ELSE before
      sum == total[Len(points)]
  IN <<Quot(sum[1], Cardinality(among)), Quot(sum[2], Cardinality(among))>>

SelectIr(frame, tracking) ==
  LET points == VisiblePoints(frame)
      pair == FarthestPair(points)
  IN IF points = <<>> THEN None
     ELSE IF tracking = "centroid" THEN Centre(points, DOMAIN points)
     ELSE IF tracking = "first" \/ Len(points) = 1 THEN points[1]
     ELSE Centre(points, {pair[1], pair[2]})

ScaledDelta(from, to, speed) == Quot((to - from) * speed, 64)
ApplyDeadzone(delta, deadzone) == IF Abs(delta) < deadzone THEN 0 ELSE delta
SmoothAxis(previous, current, smoothing) ==
  Quot(previous * smoothing + current * (100 - smoothing), 100)

\* base is the point the pointer is at, None before one is acquired.
UpdateIr(opt, base, point) ==
  IF point = None \/ base = None THEN [base |-> point, delta |-> Zero]
  ELSE LET next == [i \in 1..2 |-> SmoothAxis(base[i], point[i], opt.ir_smoothing)]
       IN [base |-> next,
           delta |-> [i \in 1..2 |-> ApplyDeadzone(ScaledDelta(base[i], next[i], opt.ir_speed),
                                                   opt.ir_deadzone)]]

(* ------------------------------ motion aim ------------------------------- *)
(* An aim is the held activation key, the source that drives it, the baselines
   of the two relative sources and the last smoothed vector; a step returns the
   aim and the vector to emit, or None. *)
NewAim == [held |-> FALSE, source |-> "none", ir |-> None, zero |-> None, last |-> Zero]

Result(aim, out) == [aim |-> aim, out |-> out]

Enabled(opt) == opt.aim_mode # "off"
IsActive(opt, aim) == Enabled(opt) /\ (opt.aim_activation = "always" \/ aim.held)

\* As if a reset emitted nothing, or kept the zero of the accelerometer.
AimResetQuiet(aim) == Result([NewAim EXCEPT !.held = aim.held], None)
AimResetKeepsZero(aim) == Result([NewAim EXCEPT !.held = aim.held, !.zero = aim.zero], Zero)

AimReset(aim) == Result([NewAim EXCEPT !.held = aim.held], Zero)

ActivationKey(opt, aim, button, pressed) ==
  CASE ~Enabled(opt) -> Result(aim, None)
    [] Enabled(opt) /\ opt.aim_activation = "always" -> Result([aim EXCEPT !.held = TRUE], None)
    [] Enabled(opt) /\ opt.aim_activation \notin {"always", button} -> Result(aim, None)
    [] Enabled(opt) /\ opt.aim_activation = button ->
         LET after == [aim EXCEPT !.held = pressed]
         IN IF aim.held /\ ~pressed THEN AimReset(after) ELSE Result(after, None)

\* With "auto" the infrared camera goes before MotionPlus, and that before the
\* accelerometer, from the first report of the better one.
AimAccepts(opt, aim, source) ==
  IF opt.aim_source # "auto" THEN opt.aim_source = source
  ELSE \/ source = "ir"
       \/ source = "motion_plus" /\ aim.source # "ir"
       \/ source = "accel" /\ aim.source \notin {"ir", "motion_plus"}

AimScale(opt, value) ==
  LET magnitude == Abs(value)
      scaled == Least(((magnitude - opt.aim_deadzone) * opt.aim_sensitivity) \div 16, 32767)
  IN IF magnitude <= opt.aim_deadzone THEN 0
     ELSE IF value < 0 THEN -scaled ELSE scaled

AimSmooth(opt, last, vector) ==
  [i \in 1..2 |-> SmoothAxis(last[i], vector[i], opt.aim_smoothing)]

Emit(opt, aim, vector) ==
  LET inverted == <<IF opt.aim_invert_x THEN -vector[1] ELSE vector[1],
                    IF opt.aim_invert_y THEN -vector[2] ELSE vector[2]>>
      smoothed == AimSmooth(opt, aim.last, inverted)
  IN IF IsActive(opt, aim) THEN Result([aim EXCEPT !.last = smoothed], smoothed)
     ELSE AimReset(aim)

AbsoluteAxis(value, low, high) ==
  LET half == Quot(high - low, 2)
  IN IF half <= 0 THEN 0
     ELSE Clamp(Quot((value - Quot(low + high, 2)) * 32767, half), -32767, 32767)

ProcessIr(c, aim, point) ==
  LET opt == c.opt
      s == c.ir_screen
      vector == IF s # <<>> /\ opt.ir_aim_mapping = "absolute"
                THEN <<AimScale(opt, AbsoluteAxis(point[1], s["left"], s["right"])),
                       AimScale(opt, AbsoluteAxis(point[2], s["top"], s["bottom"]))>>
                ELSE IF aim.ir # None THEN [i \in 1..2 |-> AimScale(opt, point[i] - aim.ir[i])]
                ELSE Zero
  IN CASE point = None /\ aim.source = "ir" -> AimReset(aim)
       [] point = None /\ aim.source # "ir" -> Result([aim EXCEPT !.ir = None], None)
       [] point # None /\ ~AimAccepts(opt, aim, "ir") -> Result(aim, None)
       [] OTHER -> Emit(opt, [aim EXCEPT !.ir = point, !.source = "ir"], vector)

ProcessMotionPlus(c, aim, sample) ==
  LET bias == IF c.aim_motion_plus_bias = <<>> THEN [a \in {"x", "y"} |-> 0]
              ELSE c.aim_motion_plus_bias
  IN IF ~AimAccepts(c.opt, aim, "motion_plus") THEN Result(aim, None)
     ELSE Emit(c.opt, [aim EXCEPT !.source = "motion_plus"],
               <<AimScale(c.opt, sample[1] - bias["x"]), AimScale(c.opt, sample[2] - bias["y"])>>)

\* Without a calibration the first sample is the zero, and emits nothing.
ProcessAccelerometer(c, aim, sample) ==
  LET cal == c.aim_accel_zero
      zero == IF cal # <<>> THEN <<cal["x"], cal["y"], cal["z"]>>
              ELSE IF aim.zero # None THEN aim.zero ELSE sample
      after == [aim EXCEPT !.zero = zero, !.source = "accel"]
  IN CASE ~AimAccepts(c.opt, aim, "accel") -> Result(aim, None)
       [] AimAccepts(c.opt, aim, "accel") /\ cal = <<>> /\ aim.zero = None -> Result(after, None)
       [] OTHER -> Emit(c.opt, after, [i \in 1..2 |-> AimScale(c.opt, sample[i] - zero[i])])

(* ------------------------------ calibration ------------------------------ *)
\* samples is the sequence a window collected from one sensor.
AxisSum(samples, i) ==
  LET upto[n \in 0..Len(samples)] == IF n = 0 THEN 0 ELSE upto[n - 1] + samples[n][i]
  IN upto[Len(samples)]

Jitter(samples) ==
  LET spread == {Abs(samples[m][i] - samples[n][i]) :
                   m \in DOMAIN samples, n \in DOMAIN samples, i \in 1..3}
  IN IF samples = <<>> THEN 0 ELSE CHOOSE s \in spread : \A t \in spread : t <= s

\* The mean of a window long and still enough.
CalibrationFinish(samples) ==
  IF Len(samples) < MinSamples \/ Jitter(samples) > MaxJitter THEN <<>>
  ELSE [a \in {"x", "y", "z"} |->
          Quot(AxisSum(samples, CASE a = "x" -> 1 [] a = "y" -> 2 [] a = "z" -> 3), Len(samples))]
=============================================================================
