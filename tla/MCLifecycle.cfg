CONSTANTS
    d1 = d1
    d2 = d2
    NoInode = 0
    Daemon <- MCDaemon
    Inode <- MCInode
    Signalled <- MCSignalled
    MaxForeign = 1
SPECIFICATION FairLifecycleSpec
INVARIANTS ServerReachable UnlinksDead HandlerSafe
PROPERTY SignalEnds
