CONSTANTS
  wii = wii
  board = board
  NoPath = NoPath
  Path = {wii, board}
  Ask <- EventAsk
  MaxTokens = 1
  MaxAsked = 3
  MaxRequests = 3
  MaxEvents = 3
  MaxClients = 1
  MaxQueued = 2
  FrameBudget = 2
  MaxLeases = 1
SPECIFICATION IpcSpec
CHECK_DEADLOCK FALSE
INVARIANTS
  IpcTypeOK
  RepliesMatch
  StreamBoundary
  NotesOrdered
