CONSTANTS
  wii = wii
  board = board
  NoPath = NoPath
  Path = {wii}
  Ask <- LeaseAsk
  MaxTokens = 2
  MaxAsked = 2
  MaxRequests = 4
  MaxEvents = 1
  MaxClients = 2
  MaxQueued = 3
  FrameBudget = 2
  MaxLeases = 1
SPECIFICATION FairIpcSpec
CHECK_DEADLOCK FALSE
INVARIANT LeasesHonoured
PROPERTY CommandAnswered
