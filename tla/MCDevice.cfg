CONSTANTS
  a = a
  none = none
  Source = {core, extension}
  Button = {a}
  GamepadCode <- MCGamepadCode
  DesktopCode <- MCDesktopCode
  NoCode = none
  Gamepad = TRUE
  Desktop = FALSE
  Direction = {}
  AimEnabled = FALSE
  AimAlways = FALSE
  AimButton = a
  Interface = {core, extension, ir}
  Required = {core, extension}
  OpenFaults = {core, extension, ir}
  Node = {n1, n2}
  NoNode = NoNode
SPECIFICATION FairDeviceSpec
INVARIANTS
  MasksMatch
  HeldOpen
PROPERTIES
  ReopenedReleased
  HungReleased
