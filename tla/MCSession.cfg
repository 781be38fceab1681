CONSTANTS
    dev1 = dev1
    dev2 = dev2
    Device <- MCDevice
    MaxNotes = 3
    MaxRequests = 2
    BacklogLimit = 1
    QueueLimit = 2
SPECIFICATION FairSessionSpec
INVARIANTS FreshAnswer ControlsKept EndsLast
PROPERTY SessionEnds
CHECK_DEADLOCK FALSE
