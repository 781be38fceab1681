------------------------------ MODULE Controls ------------------------------
(* The way from a setting to the outputs: the control center's form and the
   files it loads and saves through wiilandd (crates/wiiland-config), the
   command line and the layers a daemon starts from (cli.rs, config_io.rs), and
   what the daemon then makes of the reports of one controller (engine.rs,
   bridge.rs).  Config and Motion define the values; here are the steps. *)
EXTENDS Motion

CONSTANTS
  Installed,     \* the files there may be at first: functions from path to lines
  SystemFiles,   \* the system files an administrator may put in their place
  Choices,       \* pairs of an option and a value the user may choose
  Sides,         \* pairs of a side of the screen and a value
  RuleTexts,     \* what the user may type as a rule's text
  Reserved,      \* those with a character the form refuses: #, = or a line break
  Windows,       \* calibration windows: samples of both sensors
  CommandLines,  \* the arguments a daemon may be started with
  Devices,       \* the controllers: texts they match and reports they send
  Raws,          \* values of a raw axis
  Frames,        \* what the infrared camera sees
  MaxEdits,      \* bound: edits of the form and of the system file
  MaxMoves       \* bound: reports and keys since the daemon started

VARIABLES
  files,    \* path -> lines, for the paths that exist
  target,   \* the path the control center edits
  form,     \* ConfigModel::config
  saved,    \* the form last saved to each path, if nobody else wrote it since
  edits,
  config,   \* the daemon's configuration, Refused while none runs
  device,   \* the controller of its session
  aim,      \* AimState
  base,     \* PointerState: the infrared baseline
  seen,     \* the last report of each sensor the session acted on
  stick,    \* what the aim last wrote to the gamepad's right stick
  abs,      \* the axes of the gamepad the last report wrote
  moves

ScreenSides == {"left", "right", "top", "bottom"}

\* What is in a file and in a report: the keys of a line are those of its group,
\* and the kernel reports integers.
IsSeq(s) == Len(s) \in Nat /\ s = [i \in 1..Len(s) |-> s[i]]
IsFile(lines) ==
  /\ IsSeq(lines)
  /\ \A i \in DOMAIN lines :
       LET line == lines[i]
       IN /\ line.group \in {"option", "screen", "blank", "junk"} \cup Calibrations \cup RuleKinds
          /\ line.group = "screen" => line.key \in ScreenSides
          /\ line.group \in Calibrations => line.key \in Axes
AreSamples(window) ==
  /\ IsSeq(window)
  /\ \A n \in DOMAIN window : \A i \in 1..3 : window[n][i] \in Int

ASSUME FilesAssumption ==
  /\ \A f \in Installed : \A p \in DOMAIN f : IsFile(f[p])
  /\ \A lines \in SystemFiles : IsFile(lines)
  /\ \A args \in CommandLines : IsSeq(args)

\* The sliders of the screen are those of its sides.
ASSUME SidesAssumption == \A s \in Sides : s[1] \in ScreenSides

ASSUME ReportsAssumption ==
  /\ Raws \subseteq Int
  /\ Frames \subseteq Seq(Int \X Int)
  /\ \A w \in Windows : AreSamples(w.accel) /\ AreSamples(w.motion_plus)

editing == <<files, target, form, saved, edits>>
session == <<aim, base, seen, stick, abs, moves>>
vars == <<editing, config, device, session>>

Paths == {"user", "other"}
Running == config # Refused
NoDevice == [syspath |-> {}, devtype |-> {}, reports |-> {}]

(* --------------------------- the control center -------------------------- *)
\* validate_form: what the parser would read otherwise than it was typed.
ValidForm(f) ==
  /\ Valid(f)
  /\ \A i \in DOMAIN f.device_rules :
       f.device_rules[i].match_text \notin {""} \cup Reserved

\* Bound: the form is edited while no daemon runs, for a daemon reads its
\* configuration only as it starts.
Editable == ~Running /\ edits < MaxEdits

Edited(f) ==
  /\ Editable
  /\ f # form
  /\ form' = f
  /\ edits' = edits + 1
  /\ UNCHANGED <<files, target, saved, config, device, session>>

\* draw_profile, draw_aim and draw_bindings: one widget of an option.
Choose == \E c \in Choices : Edited([form EXCEPT !.opt[c[1]] = c[2]])

ToggleScreen == Edited([form EXCEPT !.ir_screen = IF @ = <<>> THEN DefaultScreen ELSE <<>>])

DragScreen ==
  /\ form.ir_screen # <<>>
  /\ \E s \in Sides : Edited([form EXCEPT !.ir_screen = With(@, s[1], s[2])])

ToggleCalibration ==
  \E g \in Calibrations :
    Edited([form EXCEPT ![g] = IF @ = <<>> THEN [a \in Axes |-> 0] ELSE <<>>])

AddRule ==
  /\ Len(form.device_rules) < MaxDeviceRules
  /\ Edited([form EXCEPT !.device_rules =
       Append(@, [kind |-> "devtype", match_text |-> "", profile |-> "gamepad"])])

ChangeRule ==
  \E i \in DOMAIN form.device_rules :
    \/ \E k \in RuleKinds : Edited([form EXCEPT !.device_rules[i].kind = k])
    \/ \E t \in RuleTexts : Edited([form EXCEPT !.device_rules[i].match_text = t])
    \/ \E p \in Profiles : Edited([form EXCEPT !.device_rules[i].profile = p])

MoveRule ==
  \E i \in 2..Len(form.device_rules) :
    LET r == form.device_rules
    IN Edited([form EXCEPT !.device_rules = [r EXCEPT ![i - 1] = r[i], ![i] = r[i - 1]]])

RemoveRule ==
  \E i \in DOMAIN form.device_rules :
    LET r == form.device_rules
    IN Edited([form EXCEPT !.device_rules = SubSeq(r, 1, i - 1) \o SubSeq(r, i + 1, Len(r))])

\* The samples come from the daemon's capture; a sensor without a stable
\* window keeps its values.
Calibrate ==
  \E w \in Windows :
    Edited([form EXCEPT
      !.aim_accel_zero = IF CalibrationFinish(w.accel) = <<>> THEN @
                         ELSE CalibrationFinish(w.accel),
      !.aim_motion_plus_bias = IF CalibrationFinish(w.motion_plus) = <<>> THEN @
                               ELSE CalibrationFinish(w.motion_plus)])

Retarget ==
  /\ ~Running
  /\ target' \in Paths \ {target}
  /\ UNCHANGED <<files, form, saved, edits, config, device, session>>

\* The default path is left to the layers, any other is named.
ConfiguredArgs == IF target = "user" THEN <<>> ELSE <<Arg("config", target)>>

\* A configuration is loaded as what `wiilandd --dump-config` prints.
Load ==
  LET dumped == Parse(ConfiguredArgs \o <<Arg("action", "dump_config")>>, files)
      loaded == ParseBytes(Dump(dumped))
  IN /\ ~Running
     /\ dumped # Refused /\ loaded # Refused
     /\ form' = loaded
     /\ UNCHANGED <<files, target, saved, edits, config, device, session>>

Written(path, lines) == With(files, path, lines)

\* What is saved was checked by `wiilandd --check-config` as a file of its own.
Save ==
  LET bytes == Dump(form)
      check == <<Arg("action", "check_config"), Arg("config", "temporary")>>
  IN /\ ~Running
     /\ ValidForm(form)
     /\ Parse(check, Written("temporary", bytes)) # Refused
     /\ files' = Written(target, bytes)
     /\ saved' = With(saved, target, form)
     /\ UNCHANGED <<target, form, edits, config, device, session>>

(* --------------------------- the other editors --------------------------- *)
Administer ==
  /\ Editable
  /\ \E lines \in SystemFiles : files' = Written("system", lines)
  /\ edits' = edits + 1
  /\ UNCHANGED <<target, form, saved, config, device, session>>

\* The lines of a sensor `wiilandd --calibrate-aim` prints.
Printed(group, samples) == DumpGroup(group, <<"x", "y", "z">>, CalibrationFinish(samples))

\* calibrate_aim reads the configuration before it opens the device, and fails
\* if neither sensor was still; the user puts its lines at the end of a file.
PasteCalibration ==
  \E w \in Windows, path \in DOMAIN files :
    LET lines == Printed("aim_accel_zero", w.accel)
                 \o Printed("aim_motion_plus_bias", w.motion_plus)
    IN /\ Editable
       /\ Parse(<<Arg("action", "calibrate_aim")>>, files) # Refused
       /\ lines # <<>>
       /\ files' = Written(path, files[path] \o lines)
       /\ saved' = [p \in DOMAIN saved \ {path} |-> saved[p]]
       /\ edits' = edits + 1
       /\ UNCHANGED <<target, form, config, device, session>>

(* ------------------------------- the daemon ------------------------------ *)
Profile == ProfileForDevice(config, device)
Has(profile, half) == profile \in {half, "both"}

NeedsGamepad == Has(Profile, "gamepad") \/ config.opt.aim_mode = "right-stick"

\* The interfaces a profile and an aim ask for; the rest is never opened, and
\* handle_event ignores what a capture opens beyond them.
AimSources ==
  CASE config.opt.aim_mode = "off" -> {}
    [] config.opt.aim_mode # "off" /\ config.opt.aim_source = "auto" ->
         {"ir", "motion_plus", "accel"}
    [] OTHER -> {config.opt.aim_source}

RequestedInterfaces ==
  (IF Has(Profile, "gamepad") THEN (DOMAIN AxisCodes \ {"ir"}) \cup {"core"} ELSE {})
  \cup (IF Has(Profile, "desktop") THEN {"core", "ir"} ELSE {})
  \cup AimSources
  \cup (IF config.opt.aim_mode # "off" /\ config.opt.aim_activation \in {"z", "c"}
        THEN {"nunchuk"} ELSE {})

NewSession ==
  /\ aim' = NewAim
  /\ base' = None
  /\ seen' = [accel |-> None, ir |-> None]
  /\ stick' = Zero
  /\ abs' = {}

\* A daemon starts and a controller comes; a configuration that is refused ends
\* the program instead.  Bound: a session is followed from the first files only;
\* SavedTakesEffect says what a start reads from any others.
Start ==
  /\ ~Running
  /\ edits = 0 /\ DOMAIN saved = {} /\ target = "user" /\ form = Default
  /\ \E args \in CommandLines : config' = Parse(args, files)
  /\ config' # Refused
  /\ device' \in Devices
  /\ NewSession
  /\ moves' = 0
  /\ UNCHANGED editing

Stop ==
  /\ Running
  /\ config' = Refused /\ device' = NoDevice
  /\ NewSession
  /\ moves' = 0
  /\ UNCHANGED editing

Playing(kind) ==
  /\ Running
  /\ moves < MaxMoves
  /\ moves' = moves + 1
  /\ kind \in device.reports \cap RequestedInterfaces
  /\ UNCHANGED <<editing, config, device>>

\* emit_aim: nothing for no vector, and the mouse has no axes.
EmitAim(result, mapped) ==
  LET out == result.out
      writes == out # None /\ config.opt.aim_mode = "right-stick"
      right == <<Clamp(out[1], -32768, 32767), Clamp(out[2], -32768, 32767)>>
  IN /\ aim' = result.aim
     /\ stick' = IF writes THEN right ELSE stick
     /\ abs' = mapped \cup (IF writes THEN {<<"RX", right[1]>>, <<"RY", right[2]>>} ELSE {})

MotionInput(kind, slots) ==
  LET mapped == IF NeedsGamepad THEN MapMotion(kind, slots) ELSE {}
  IN /\ EmitAim(CASE kind = "accel" -> ProcessAccelerometer(config, aim, slots[1])
                  [] kind = "motion_plus" -> ProcessMotionPlus(config, aim, slots[1])
                  [] OTHER -> Result(aim, None),
                mapped)
     /\ seen' = IF kind = "accel" THEN [seen EXCEPT !.accel = slots[1]] ELSE seen
     /\ UNCHANGED base

\* Bound: one axis of a report is away from its rest.
Report ==
  \E kind \in DOMAIN AxisCodes \ {"ir"} :
    /\ Playing(kind)
    /\ \E code \in Codes(kind), value \in Raws :
         /\ kind = "balance" => value \in 0..WeightMax
         /\ MotionInput(kind, Decoded(kind, [c \in Codes(kind) |-> IF c = code THEN value ELSE 0]))

IrReport ==
  \E frame \in Frames :
    LET point == SelectIr(frame, config.opt.ir_tracking)
    IN /\ Playing("ir")
       /\ base' = IF Has(Profile, "desktop") THEN UpdateIr(config.opt, base, point).base ELSE base
       /\ EmitAim(ProcessIr(config, aim, point), {})
       /\ seen' = [seen EXCEPT !.ir = point]

Interface(button) == IF button = "b" THEN "core" ELSE "nunchuk"

AimKey ==
  \E button \in {"b", "z", "c"}, pressed \in BOOLEAN :
    /\ Playing(Interface(button))
    /\ EmitAim(ActivationKey(config.opt, aim, button, pressed), {})
    /\ UNCHANGED <<base, seen>>

\* An interface is lost: the outputs are made anew and the engine is reset.
InterfaceLost ==
  /\ Playing("core")
  /\ NewSession

ControlsInit ==
  /\ files \in Installed
  /\ target = "user" /\ form = Default
  /\ saved = [p \in {} |-> Default] /\ edits = 0
  /\ config = Refused /\ device = NoDevice
  /\ aim = NewAim /\ base = None /\ seen = [accel |-> None, ir |-> None]
  /\ stick = Zero /\ abs = {} /\ moves = 0

ControlsNext ==
  \/ Choose \/ ToggleScreen \/ DragScreen \/ ToggleCalibration \/ Calibrate
  \/ AddRule \/ ChangeRule \/ MoveRule \/ RemoveRule
  \/ Retarget \/ Load \/ Save \/ Administer \/ PasteCalibration
  \/ Start \/ Stop
  \/ Report \/ IrReport \/ AimKey \/ InterfaceLost

ControlsSpec == ControlsInit /\ [][ControlsNext]_vars

(* ------------------------------- properties ------------------------------ *)
\* A configuration gives what a form said: every option, the sets of values it
\* had, and for each controller the profile of its last rule that matches.
Honours(c, f) ==
  /\ c.opt = f.opt
  /\ \A g \in Calibrations \cup {"ir_screen"} : f[g] # <<>> => c[g] = f[g]
  /\ \A d \in Devices :
       Matching(f, d) # {} => ProfileForDevice(c, d) = ProfileForDevice(f, d)

\* The two ways in which the system file can keep a saved form from its effect:
\* it is refused itself, or its rules and the form's are more than are allowed.
RulesOf(f) == {<<f.device_rules[i].kind, f.device_rules[i].match_text>> :
                 i \in DOMAIN f.device_rules}
SystemInTheWay(f) ==
  /\ "system" \in DOMAIN files
  /\ LET system == ParseBytes(files["system"])
     IN \/ system = Refused
        \/ Cardinality(RulesOf(system) \cup RulesOf(f)) > MaxDeviceRules

\* What the control center saved is what a daemon does when it is started the
\* way it was saved for, whatever the system file says before it: the check of
\* the saved file by itself, the rendering, the layers and the order of the
\* rules agree.  (config_task.rs run, config.rs dump and set_rule, cli.rs parse)
SavedTakesEffect ==
  /\ "user" \in DOMAIN saved /\ ~SystemInTheWay(saved["user"]) =>
       LET c == Parse(<<>>, files) IN c # Refused /\ Honours(c, saved["user"])
  /\ "other" \in DOMAIN saved =>
       LET c == Parse(<<Arg("config", "other")>>, files)
       IN c # Refused /\ Honours(c, saved["other"])

\* Every value a report puts on an axis of the virtual gamepad is of an axis it
\* was created with, within the limits it was created with: the two tables of
\* mapping.rs agree with the codes decode.rs reads, whatever the controller
\* sends.  (mapping.rs map_motion, axis_info, CORE_AXES; uinput.rs configure)
AxesInRange == \A a \in abs : a[1] \in CoreAxes /\ a[2] \in AxisInfo(a[1])

\* An aim that is not active leaves nothing behind: the right stick it drove is
\* back at rest, and the next activation starts from the latest sample, never
\* from one of an earlier activation.  (aim.rs reset, emit, process_accelerometer)
AimReleased == Running /\ ~IsActive(config.opt, aim) => stick = Zero /\ aim.last = Zero

BaselineFresh ==
  Running =>
    /\ ~IsActive(config.opt, aim) =>
         /\ aim.ir = None
         /\ config.aim_accel_zero = <<>> => aim.zero \in {None, seen.accel}
    /\ seen.ir = None => aim.ir = None /\ base = None
=============================================================================
