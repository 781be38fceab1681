------------------------------- MODULE Config -------------------------------
(* The configuration as a value (crates/wiiland-core/src/config.rs): what a
   line of a file changes, what is refused, what is written back, how the
   layers are put together (config_io.rs) and what the command line of
   wiilandd adds (crates/wiilandd/src/cli.rs).

   A file is a sequence of lines; a line is a record of its group ("option",
   "screen", a calibration, a kind of rule, "blank" for comments and empty
   lines, "junk" for what has no key or is not text), its key within the group
   and its value.  A number that does not parse and one out of range are the
   same: neither is in Accepted. *)
EXTENDS Integers, Sequences, FiniteSets

CONSTANT MaxDeviceRules
ASSUME DeviceRulesAssumption == MaxDeviceRules \in Nat \ {0}

Refused == [refused |-> TRUE]

Profiles == {"gamepad", "desktop", "both"}
Calibrations == {"aim_accel_zero", "aim_motion_plus_bias"}
Axes == {"x", "y", "z"}
RuleKinds == {"syspath", "devtype"}

DesktopActions == {"left-click", "right-click", "enter", "escape", "overview",
                   "page-up", "page-down", "disabled"}

DeadzoneMax == 32767

Accepted ==
  [backend |-> {"uinput"}, profile |-> Profiles,
   pointer_speed |-> 1..127, ir_speed |-> 1..127, ir_deadzone |-> 0..127,
   ir_smoothing |-> 0..95, ir_tracking |-> {"first", "centroid", "dual"},
   ir_aim_mapping |-> {"relative", "absolute"},
   aim_mode |-> {"off", "mouse", "right-stick"},
   aim_source |-> {"auto", "ir", "motion_plus", "accel"},
   aim_activation |-> {"always", "b", "z", "c"},
   aim_sensitivity |-> 1..127, aim_deadzone |-> 0..DeadzoneMax,
   aim_smoothing |-> 0..95, aim_invert_x |-> BOOLEAN, aim_invert_y |-> BOOLEAN,
   aim_calibration_duration |-> 1..30,
   desktop_a |-> DesktopActions, desktop_b |-> DesktopActions,
   desktop_plus |-> DesktopActions, desktop_minus |-> DesktopActions,
   desktop_home |-> DesktopActions, desktop_one |-> DesktopActions,
   desktop_two |-> DesktopActions]

Options == DOMAIN Accepted

Default ==
  [opt |->
    [backend |-> "uinput", profile |-> "gamepad", pointer_speed |-> 16,
     ir_speed |-> 8, ir_deadzone |-> 0, ir_smoothing |-> 0,
     ir_tracking |-> "dual", ir_aim_mapping |-> "relative", aim_mode |-> "off",
     aim_source |-> "auto", aim_activation |-> "b", aim_sensitivity |-> 16,
     aim_deadzone |-> 4, aim_smoothing |-> 25, aim_invert_x |-> FALSE,
     aim_invert_y |-> FALSE, aim_calibration_duration |-> 8,
     desktop_a |-> "left-click", desktop_b |-> "right-click",
     desktop_plus |-> "enter", desktop_minus |-> "escape",
     desktop_home |-> "overview", desktop_one |-> "page-down",
     desktop_two |-> "page-up"],
   ir_screen |-> <<>>, aim_accel_zero |-> <<>>, aim_motion_plus_bias |-> <<>>,
   device_rules |-> <<>>]

(* ------------------------------ one line -------------------------------- *)
With(f, key, value) ==
  [k \in DOMAIN f \cup {key} |-> IF k = key THEN value ELSE f[k]]

SetOption(c, key, value) ==
  IF key \in Options /\ value \in Accepted[key]
  THEN [c EXCEPT !.opt[key] = value]
  ELSE Refused

\* A number that parses and is within its limits.
Parsed(value, low, high) == value \in low..high

\* The first side that is set brings the default of the other three.
DefaultScreen == [left |-> 0, right |-> 1023, top |-> 0, bottom |-> 767]

SetScreen(c, side, value) ==
  IF ~Parsed(value, 0, 32767) THEN Refused
  ELSE LET screen == IF c.ir_screen = <<>> THEN DefaultScreen ELSE c.ir_screen
       IN [c EXCEPT !.ir_screen = With(screen, side, value)]

\* The domain of a calibration is the set of axes that were given.
SetCal(c, group, axis, value) ==
  IF Parsed(value, -32768, 32767)
  THEN [c EXCEPT ![group] = With(c[group], axis, value)]
  ELSE Refused

\* A sequence without what is not at the positions to keep.
Kept(s, keep) ==
  LET upto[n \in 0..Len(s)] ==
        IF n = 0 THEN <<>> ELSE IF n \in keep THEN Append(upto[n - 1], s[n]) ELSE upto[n - 1]
  IN upto[Len(s)]

\* As if a rule that is set again kept its place.
SetRuleInPlace(c, kind, text, value) ==
  LET same == {i \in DOMAIN c.device_rules : /\ c.device_rules[i].kind = kind
                                             /\ c.device_rules[i].match_text = text}
      rule == [kind |-> kind, match_text |-> text, profile |-> value]
  IN IF value \notin Profiles \/ text = "" THEN Refused
     ELSE IF same # {}
     THEN [c EXCEPT !.device_rules =
             [i \in DOMAIN @ |-> IF i \in same THEN rule ELSE @[i]]]
     ELSE IF Len(c.device_rules) >= MaxDeviceRules THEN Refused
     ELSE [c EXCEPT !.device_rules = Append(@, rule)]

\* A rule that is set again takes its place at the end, above the others.
SetRule(c, kind, text, value) ==
  LET rules == c.device_rules
      others == Kept(rules, {i \in DOMAIN rules : rules[i].kind # kind \/ rules[i].match_text # text})
      new == Len(others) = Len(rules)
      rule == [kind |-> kind, match_text |-> text, profile |-> value]
  IN IF value \notin Profiles \/ text = "" \/ (new /\ Len(others) >= MaxDeviceRules)
     THEN Refused
     ELSE [c EXCEPT !.device_rules = Append(others, rule)]

ApplyLine(c, line) ==
  CASE line.group = "option" -> SetOption(c, line.key, line.value)
    [] line.group = "screen" -> SetScreen(c, line.key, line.value)
    [] line.group \in Calibrations -> SetCal(c, line.group, line.key, line.value)
    [] line.group \in RuleKinds -> SetRule(c, line.group, line.key, line.value)
    [] line.group = "blank" -> c
    [] line.group = "junk" -> Refused

\* A layer: the first line that is refused refuses the whole.
ApplyBytes(c, lines) ==
  LET upto[n \in 0..Len(lines)] ==
        IF n = 0 THEN c
        ELSE LET before == upto[n - 1]
             IN IF before = Refused THEN Refused ELSE ApplyLine(before, lines[n])
  IN upto[Len(lines)]

(* ----------------------------- the whole -------------------------------- *)
Complete(calibration) == DOMAIN calibration = Axes

\* The ranges of the options are those the lines were read with, so what is
\* left is what relates several values.
Valid(c) ==
  /\ \A o \in Options : c.opt[o] \in Accepted[o]
  /\ c.ir_screen # <<>> => /\ c.ir_screen["right"] > c.ir_screen["left"]
                           /\ c.ir_screen["bottom"] > c.ir_screen["top"]
  /\ \A g \in Calibrations : c[g] # <<>> => Complete(c[g])
  /\ Len(c.device_rules) <= MaxDeviceRules
  /\ \A i \in DOMAIN c.device_rules : /\ c.device_rules[i].match_text # ""
                                      /\ c.device_rules[i].profile \in Profiles

Checked(c) == IF c # Refused /\ Valid(c) THEN c ELSE Refused

ParseBytes(lines) == Checked(ApplyBytes(Default, lines))

Line(group, key, value) == [group |-> group, key |-> key, value |-> value]

OptionOrder ==
  <<"backend", "profile", "pointer_speed", "ir_speed", "ir_deadzone",
    "ir_smoothing", "ir_tracking", "ir_aim_mapping", "aim_mode", "aim_source",
    "aim_activation", "aim_sensitivity", "aim_deadzone", "aim_smoothing",
    "aim_invert_x", "aim_invert_y", "aim_calibration_duration", "desktop_a",
    "desktop_b", "desktop_plus", "desktop_minus", "desktop_home",
    "desktop_one", "desktop_two">>

\* The lines of one group; a calibration that misses an axis is left out.
DumpGroup(group, order, f) ==
  IF f = <<>> \/ (group \in Calibrations /\ ~Complete(f)) THEN <<>>
  ELSE [i \in DOMAIN order |-> Line(group, order[i], f[order[i]])]

Dump(c) ==
  LET rules == c.device_rules
  IN DumpGroup("option", OptionOrder, c.opt)
     \o DumpGroup("screen", <<"left", "right", "top", "bottom">>, c.ir_screen)
     \o DumpGroup("aim_accel_zero", <<"x", "y", "z">>, c.aim_accel_zero)
     \o DumpGroup("aim_motion_plus_bias", <<"x", "y", "z">>, c.aim_motion_plus_bias)
     \o [i \in DOMAIN rules |->
           Line(rules[i].kind, rules[i].match_text, rules[i].profile)]

\* A device is, for each kind of rule, the set of texts found in its path or
\* in its type (empty when it has none).  The last rule that matches decides.
Matching(c, device) ==
  {i \in DOMAIN c.device_rules :
     c.device_rules[i].match_text \in device[c.device_rules[i].kind]}

ProfileForDevice(c, device) ==
  LET matching == Matching(c, device)
  IN IF matching = {} THEN c.opt.profile
     ELSE c.device_rules[CHOOSE i \in matching : \A j \in matching : j <= i].profile

(* ------------------------------ the files -------------------------------- *)
\* files is a function on the paths that exist (one that cannot be read holds a
\* "junk" line).  A layer that need not be
\* there adds nothing when it is not.
ReadLayer(c, files, path, required) ==
  IF path \in DOMAIN files THEN ApplyBytes(c, files[path])
  ELSE IF required THEN Refused ELSE c

LoadFile(files, path) == Checked(ReadLayer(Default, files, path, TRUE))

LoadDefaultLayers(files) ==
  LET system == ReadLayer(Default, files, "system", FALSE)
  IN IF system = Refused THEN Refused
     ELSE Checked(ReadLayer(system, files, "user", FALSE))

(* -------------------------- the command line ----------------------------- *)
\* An argument is a record of its name and its value: "config" with a path,
\* "no_config", "no_ipc", "ipc_socket", "action" with the operation, or an
\* option of the configuration with its new value.
Arg(name, value) == [name |-> name, value |-> value]

Values(args, name) == {args[i].value : i \in {j \in DOMAIN args : args[j].name = name}}

WithoutConfig == {"help", "version", "list", "axis_map", "validation_checklist"}

\* The first pass: which files, which operation; the last "config" wins.
Pass1(args) ==
  LET given == {i \in DOMAIN args : args[i].name = "config"}
      actions == Values(args, "action")
      no_config == Values(args, "no_config") # {}
  IN IF \/ Cardinality(actions) > 1
        \/ no_config /\ given # {}
        \/ Values(args, "no_ipc") # {} /\ Values(args, "ipc_socket") # {}
     THEN Refused
     ELSE [config_path |-> IF given = {} THEN ""
                           ELSE args[CHOOSE i \in given : \A j \in given : j <= i].value,
           no_config |-> no_config,
           action |-> IF actions = {} THEN "run" ELSE CHOOSE a \in actions : TRUE]

Overridable == {o \in Options : o \notin
  {"desktop_a", "desktop_b", "desktop_plus", "desktop_minus", "desktop_home",
   "desktop_one", "desktop_two"}}

\* The second pass: the options in their order, over the configuration read.
Pass2(args, config) ==
  LET known == {"config", "no_config", "no_ipc", "ipc_socket", "action"}
      upto[n \in 0..Len(args)] ==
        IF n = 0 THEN Checked(config)
        ELSE LET before == upto[n - 1]
             IN CASE before = Refused \/ args[n].name \in known -> before
                  [] before # Refused /\ args[n].name \in Overridable ->
                       SetOption(before, args[n].name, args[n].value)
                  [] OTHER -> Refused
  IN Checked(upto[Len(args)])

Parse(args, files) ==
  LET pass1 == Pass1(args)
  IN IF pass1 = Refused THEN Refused
     ELSE Pass2(args,
            IF pass1.no_config \/ pass1.action \in WithoutConfig THEN Default
            ELSE IF pass1.config_path # "" THEN LoadFile(files, pass1.config_path)
            ELSE LoadDefaultLayers(files))
=============================================================================
