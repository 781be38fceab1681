CONSTANTS
  Key = {a, b}
  Axis = {x0, x1}
  HasAbs = TRUE
  QueueSize = 4
  PacketMax = 2
  DrainMax = 1
SPECIFICATION FairEvdevSpec
INVARIANTS
  NoStuckKey
  ReportCurrent
  PendingOutdated
PROPERTY RecoveryDelivered
