CONSTANTS
  wii = wii
  board = board
  NoPath = NoPath
  Path = {wii}
  Ask <- LeaseAsk
  MaxTokens = 1
  MaxAsked = 3
  MaxRequests = 3
  MaxEvents = 1
  MaxClients = 1
  MaxQueued = 2
  FrameBudget = 2
  MaxLeases = 1
SPECIFICATION FairIpcSpec
CHECK_DEADLOCK FALSE
PROPERTY EvictedDisconnected
