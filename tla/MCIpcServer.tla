---------------------------- MODULE MCIpcServer ----------------------------
\* Instances of IpcServer for TLC: the commands that the peers send.
EXTENDS IpcServer

CONSTANTS wii, board

Plain(op) == [op |-> op, path |-> NoPath, streams |-> {}]
Start(path) == [op |-> "start", path |-> path, streams |-> {}]
Streams(op, streams) == [op |-> op, path |-> NoPath, streams |-> streams]

\* Connections that only lease.
LeaseAsk == {Plain("hello"), Plain("stop"), Start(wii)}

\* One connection that also subscribes, leases too much and breaks the framing.
EventAsk ==
  {Plain(op) : op \in {"hello", "ping", "oversize", "stop", "config"}} \cup {Start(wii), Start(board)}
    \cup {Streams("subscribe", Stream), Streams("unsubscribe", {"devices"})}
=============================================================================
