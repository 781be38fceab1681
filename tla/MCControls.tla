----------------------------- MODULE MCControls -----------------------------
(* Instance of Controls for TLC. *)
EXTENDS Controls

Option(key, value) == Line("option", key, value)
Aim(source, activation) ==
  <<Option("profile", "both"), Option("aim_mode", "right-stick"),
    Option("aim_source", source), Option("aim_activation", activation)>>

\* Two rules that both match the remote, and sides of a screen.
RuleSystem ==
  <<Line("blank", "", ""), Line("devtype", "wii", "desktop"), Line("syspath", "hid", "both"),
    Line("screen", "left", 100), Option("pointer_speed", 30)>>
\* Complete only together with what another layer adds.
PartSystem == <<Line("aim_accel_zero", "x", 5), Line("screen", "left", 2000)>>
\* Together with the rules of RuleSystem more than are allowed.
OtherSystem == <<Line("syspath", "pro", "gamepad"), Line("devtype", "pro", "both")>>
JunkSystem == <<Line("junk", "", "")>>

OneFile(lines) == [p \in {"user"} |-> lines]
BothFiles(system, user) == [p \in {"system", "user"} |-> IF p = "system" THEN system ELSE user]

MCInstalled ==
  {BothFiles(RuleSystem, Aim("auto", "b")),
   OneFile(Aim("accel", "z") \o <<Option("aim_smoothing", 50), Option("aim_invert_x", TRUE)>>),
   OneFile(Aim("ir", "always") \o <<Option("ir_aim_mapping", "absolute"),
           Option("ir_tracking", "centroid"), Line("screen", "right", 900)>>),
   OneFile(Aim("auto", "b") \o <<Option("profile", "desktop"), Option("ir_smoothing", 50),
           Line("aim_accel_zero", "x", 10), Line("aim_accel_zero", "y", 0),
           Line("aim_accel_zero", "z", 0)>>)}
MCSystemFiles == {RuleSystem, OtherSystem, PartSystem, JunkSystem}
MCChoices == {<<"aim_mode", "mouse">>, <<"pointer_speed", 30>>}
MCSides == {<<"left", 1023>>}
MCRuleTexts == {"", "hid", "wii", "#"}
MCReserved == {"#"}
Still(sample) == <<sample, sample>>
MCWindows == {[accel |-> Still(<<3, -4, 100>>), motion_plus |-> <<>>],
              [accel |-> <<<<0, 0, 0>>, <<600, 0, 0>>>>, motion_plus |-> Still(<<-7, 7, 0>>)],
              [accel |-> <<>>, motion_plus |-> <<<<1, 1, 1>>>>]}
MCCommandLines ==
  {<<>>, <<Arg("config", "other")>>,
   <<Arg("aim_sensitivity", 127), Arg("profile", "gamepad"), Arg("aim_deadzone", 0)>>,
   <<Arg("no_config", ""), Arg("config", "user")>>}
MCDevices ==
  {[syspath |-> {"hid"}, devtype |-> {"wii"},
    reports |-> {"core", "accel", "motion_plus", "ir", "nunchuk"}],
   [syspath |-> {"hid"}, devtype |-> {"pro"},
    reports |-> {"classic", "pro", "drums", "guitar", "balance"}]}
MCRaws == {-32768, -31, 0, 5, 8, 300, 65535}
MCFrames ==
  {<<Unseen, Unseen, Unseen, Unseen>>, <<<<500, 300>>, Unseen, Unseen, <<540, 300>>>>,
   <<Unseen, <<1020, 10>>, <<900, 760>>, <<960, 500>>>>}
=============================================================================
