CONSTANTS
    wii = wii
    board = board
    NoRoot = NoRoot
    Root <- MCRoot
    Slot <- MCSlot
    SetupBudget = 1
    MonitorBudget = 1
    SnapshotLimit = 2
    MaxEvents = 1
SPECIFICATION FairReactorSpec
INVARIANTS OneSession NewsKept
PROPERTIES RemovalJustified Converges
