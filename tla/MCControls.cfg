\* The form, the files, the command line and the reports of one controller.
SPECIFICATION ControlsSpec
CHECK_DEADLOCK FALSE
CONSTANTS
  MaxDeviceRules = 3
  MinSamples = 2
  MaxJitter = 512
  Installed <- MCInstalled
  SystemFiles <- MCSystemFiles
  Choices <- MCChoices
  Sides <- MCSides
  RuleTexts <- MCRuleTexts
  Reserved <- MCReserved
  Windows <- MCWindows
  CommandLines <- MCCommandLines
  Devices <- MCDevices
  Raws <- MCRaws
  Frames <- MCFrames
  MaxEdits = 2
  MaxMoves = 4
INVARIANTS
  SavedTakesEffect
  AxesInRange
  AimReleased
  BaselineFresh
