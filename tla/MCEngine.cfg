CONSTANTS
  a = a
  b = b
  up = up
  click = click
  none = none
  Source = {core, extension}
  Button <- MCButton
  GamepadCode <- MCGamepadCode
  DesktopCode <- MCDesktopCode
  NoCode = none
  Gamepad = TRUE
  Desktop = TRUE
  Direction = {up}
  AimEnabled = TRUE
  AimAlways = FALSE
  AimButton = b
SPECIFICATION EngineSpec
INVARIANTS
  EngineTypeOK
  KeysOwned
  PointerOwned
  AimOwned
PROPERTIES
  ActionsFit
  ImplementsVirtualKeys
