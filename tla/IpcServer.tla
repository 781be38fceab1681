----------------------------- MODULE IpcServer -----------------------------
(***************************************************************************)
(* The daemon's side of the control socket: the connections of the         *)
(* nonblocking server (crates/wiilandd/src/ipc/mod.rs and connection.rs),  *)
(* and the reactor that polls them, publishes device events to them and    *)
(* completes their deferred commands (crates/wiilandd/src/runtime.rs).     *)
(*                                                                         *)
(* The reactor is one thread; peers send and hang up between its steps.    *)
(* An iteration polls, handles devices, handles ready connections one      *)
(* after the other, and services the commands they deferred.  Every frame  *)
(* counts one against the queue limit.                                     *)
(***************************************************************************)
EXTENDS Naturals, Sequences, FiniteSets, Functions

CONSTANTS
  Path,          \* syspaths of controllers
  NoPath,
  Ask,           \* the commands that peers send: a subset of Command
  MaxTokens,     \* bound: connections ever accepted
  MaxAsked,      \* bound: requests on one connection
  MaxRequests,   \* bound: requests on all connections
  MaxEvents,     \* bound: notifications ever published
  MaxClients,    \* MAX_CLIENTS
  MaxQueued,     \* MAX_QUEUED_BYTES, in frames
  FrameBudget,   \* FRAME_BUDGET: frames handled per readiness, and deferred commands
  MaxLeases      \* MAX_CAPTURE_DEVICES

ASSUME IpcAssumption ==
  /\ NoPath \notin Path
  /\ {MaxTokens, MaxAsked, MaxRequests, MaxEvents} \subseteq Nat
  /\ {MaxClients, MaxQueued, FrameBudget, MaxLeases} \subseteq Nat \ {0}

VARIABLES
  clients,       \* IpcServer.clients: [tokens of the connections -> Client]
  nextToken,     \* IpcServer.next_token
  wire,          \* peer: requests sent and not read, per token
  asked,         \* peer: the number of requests sent, per token
  hung,          \* peer: the tokens whose peer has closed
  phase,         \* where the reactor is: "poll", "devices", "ipc" or "service"
  ready,         \* the tokens that poll reported and that are not handled yet
  turn,          \* the token being handled; 0 if none
  budget,        \* read_client: frame_budget of that token
  taken,         \* service_commands: the commands taken and not completed, per token
  devices,       \* Runtime.slots: the controllers owned
  captured,      \* those with BridgeDevice.capture set
  sequence       \* Runtime.notification_sequence

peerVars == <<wire, asked, hung>>
deviceVars == <<devices, captured, sequence>>
ipcVars ==
  <<clients, nextToken, peerVars, phase, ready, turn, budget, taken, deviceVars>>

Token == 1..MaxTokens
Stream == {"input", "devices"}
Command ==
  [op : {"hello", "ping", "config", "stop", "oversize"}, path : {NoPath}, streams : {{}}]
    \cup [op : {"start"}, path : Path, streams : {{}}]
    \cup [op : {"subscribe", "unsubscribe"}, path : {NoPath}, streams : SUBSET Stream]
Request == [id : 1..MaxAsked, command : Command]

ASSUME AskAssumption == Ask \subseteq Command

\* Server messages.  A reply is a response (ok) or an error.
Reply(r, ok) == [type |-> "reply", request |-> r, ok |-> ok]
Note(what, p, n) == [type |-> "note", what |-> what, path |-> p, sequence |-> n]
Message ==
  [type : {"reply"}, request : Request, ok : BOOLEAN]
    \cup [type : {"note"}, what : {"input", "added", "removed"}, path : Path,
          sequence : 1..MaxEvents]

\* Client, with its output queue as the part of everything queued that is not written.
Client ==
  [negotiated : BOOLEAN, evicted : BOOLEAN, closing : BOOLEAN, streams : SUBSET Stream,
   frames : Seq(Request), commands : Seq(Request), capture : SUBSET Path,
   sent : Seq(Message), written : Nat]

NewClient ==
  [negotiated |-> FALSE, evicted |-> FALSE, closing |-> FALSE, streams |-> {},
   frames |-> <<>>, commands |-> <<>>, capture |-> {}, sent |-> <<>>, written |-> 0]

Live == DOMAIN clients
Output(c) == SubSeq(c.sent, c.written + 1, Len(c.sent))
Usable(c) == ~c.closing /\ ~c.evicted
-----------------------------------------------------------------------------
(***************************************************************************)
(* Queues.                                                                 *)
(***************************************************************************)
\* Fault: the limit is tested before the frame is counted.
QueuedLate(c, message) ==
  IF Len(c.sent) - c.written > MaxQueued THEN [c EXCEPT !.evicted = TRUE]
  ELSE [c EXCEPT !.sent = Append(@, message)]

\* queue_encoded: a frame too many evicts the connection (immediate_close).
Queued(c, message) ==
  IF Len(c.sent) - c.written + 1 > MaxQueued THEN [c EXCEPT !.evicted = TRUE]
  ELSE [c EXCEPT !.sent = Append(@, message)]

\* Client::wants
StreamOf(note) == IF note.what = "input" THEN "input" ELSE "devices"

\* Fault: whoever has said hello gets every stream.
WantsAny(c, note) == TRUE
Wants(c, note) == StreamOf(note) \in c.streams

\* IpcServer::publish: it also removes the connections evicted so far.
Published(cs, note) ==
  LET told == [t \in DOMAIN cs |->
                 IF cs[t].negotiated /\ Usable(cs[t]) /\ Wants(cs[t], note)
                 THEN Queued(cs[t], note) ELSE cs[t]]
  IN Restrict(told, {t \in DOMAIN told : ~told[t].evicted})
-----------------------------------------------------------------------------
(***************************************************************************)
(* Peers.                                                                  *)
(***************************************************************************)
Send(t, command) ==
  /\ t \in Live \ hung
  /\ asked[t] < MaxAsked
  /\ Cardinality({u \in Token \X (1..MaxAsked) : u[2] <= asked[u[1]]}) < MaxRequests
  /\ asked' = [asked EXCEPT ![t] = @ + 1]
  /\ wire' = [wire EXCEPT ![t] = Append(@, [id |-> asked[t] + 1, command |-> command])]
  /\ UNCHANGED <<clients, nextToken, hung, phase, ready, turn, budget, taken, deviceVars>>

HangUp(t) ==
  /\ t \in Live \ hung
  /\ hung' = hung \cup {t}
  /\ UNCHANGED <<clients, nextToken, wire, asked, phase, ready, turn, budget, taken, deviceVars>>
-----------------------------------------------------------------------------
(***************************************************************************)
(* poll_once: the poll and the devices.                                    *)
(***************************************************************************)
\* poll_sources: what is reported for sure, and what depends on the socket's room.
Readable(t) == t \in hung \/ (Usable(clients[t]) /\ wire[t] # <<>>)
Writable(t) ==
  /\ ~clients[t].evicted
  /\ Output(clients[t]) # <<>> \/ clients[t].frames # <<>>

Poll ==
  /\ phase = "poll"
  /\ phase' = "devices"
  /\ \E some \in SUBSET {t \in Live : Writable(t)} :
       ready' = some \cup {t \in Live : Readable(t)}
  /\ UNCHANGED <<clients, nextToken, peerVars, turn, budget, taken, deviceVars>>

HasInputSubscribers ==
  \E t \in Live : clients[t].negotiated /\ Usable(clients[t]) /\ "input" \in clients[t].streams

\* Fault: a device is taken from its slot before its last events are published.
DrainDeviceLate(p, gone) ==
  /\ phase = "devices"
  /\ p \in devices
  /\ sequence + 2 <= MaxEvents
  /\ devices' = IF gone THEN devices \ {p} ELSE devices
  /\ captured' = captured \cap devices'
  /\ sequence' = sequence + 2
  /\ clients' = Published(IF gone THEN Published(clients, Note("removed", p, sequence + 2))
                                  ELSE clients,
                          Note("input", p, sequence + 1))
  /\ UNCHANGED <<nextToken, peerVars, phase, ready, turn, budget, taken>>

\* drain_device: an input is published if somebody wants inputs when the drain
\* begins, and then the removal of a device that is gone or failed.
DrainDevice(p, gone) ==
  /\ phase = "devices"
  /\ p \in devices
  /\ sequence + 2 <= MaxEvents
  /\ devices' = IF gone THEN devices \ {p} ELSE devices
  /\ captured' = captured \cap devices'
  /\ LET inputs == IF HasInputSubscribers THEN 1 ELSE 0
         drained == IF inputs = 1 THEN Published(clients, Note("input", p, sequence + 1))
                    ELSE clients
     IN IF gone
        THEN /\ sequence' = sequence + inputs + 1
             /\ clients' = Published(drained, Note("removed", p, sequence'))
        ELSE /\ sequence' = sequence + inputs
             /\ clients' = drained
  /\ UNCHANGED <<nextToken, peerVars, phase, ready, turn, budget, taken>>

\* service_discovery or a failed pointer tick removes a slot.
RemoveSlot(p) ==
  /\ phase = "devices"
  /\ p \in devices
  /\ sequence < MaxEvents
  /\ devices' = devices \ {p}
  /\ captured' = captured \ {p}
  /\ sequence' = sequence + 1
  /\ clients' = Published(clients, Note("removed", p, sequence'))
  /\ UNCHANGED <<nextToken, peerVars, phase, ready, turn, budget, taken>>

\* add_path succeeds.
AddPath(p) ==
  /\ phase = "devices"
  /\ p \notin devices
  /\ sequence < MaxEvents
  /\ devices' = devices \cup {p}
  /\ sequence' = sequence + 1
  /\ clients' = Published(clients, Note("added", p, sequence'))
  /\ UNCHANGED <<captured, nextToken, peerVars, phase, ready, turn, budget, taken>>

EndDevices ==
  /\ phase = "devices"
  /\ phase' = "ipc"
  /\ UNCHANGED <<clients, nextToken, peerVars, ready, turn, budget, taken, deviceVars>>
-----------------------------------------------------------------------------
(***************************************************************************)
(* handle_ready.                                                           *)
(***************************************************************************)
\* accept_ready: a connection over the limit is closed at once.
Accept ==
  /\ phase = "ipc"
  /\ turn = 0
  /\ nextToken \in Token
  /\ Cardinality(Live) < MaxClients
  /\ nextToken' = nextToken + 1
  /\ clients' = [t \in Live \cup {nextToken} |-> IF t \in Live THEN clients[t] ELSE NewClient]
  /\ UNCHANGED <<peerVars, phase, ready, turn, budget, taken, deviceVars>>

\* A token that publish removed since the poll is passed over.
Begin(t) ==
  /\ phase = "ipc"
  /\ turn = 0
  /\ t \in ready
  /\ ready' = ready \ {t}
  /\ turn' = IF t \in Live THEN t ELSE 0
  /\ budget' = FrameBudget
  /\ UNCHANGED <<clients, nextToken, peerVars, phase, taken, deviceVars>>

\* handle_frame before and after negotiation
Greeted(c, r) ==
  IF r.command.op = "hello" THEN Queued([c EXCEPT !.negotiated = TRUE], Reply(r, TRUE))
  ELSE [Queued(c, Reply(r, FALSE)) EXCEPT !.closing = TRUE]

Subscribed(c, r) ==
  Queued([c EXCEPT !.streams = IF r.command.op = "subscribe" THEN @ \cup r.command.streams
                               ELSE @ \ r.command.streams],
         Reply(r, TRUE))

OverLeased(c, p) == Cardinality(c.capture) >= MaxLeases /\ p \notin c.capture

\* Fault: a lease too many is neither deferred nor answered.
DeferredSilently(c, r) ==
  IF r.command.op = "start" /\ OverLeased(c, r.command.path) THEN c
  ELSE IF Len(c.commands) >= FrameBudget THEN [c EXCEPT !.evicted = TRUE]
  ELSE [c EXCEPT !.commands = Append(@, r)]

Deferred(c, r) ==
  IF r.command.op = "start" /\ OverLeased(c, r.command.path) THEN Queued(c, Reply(r, FALSE))
  ELSE IF Len(c.commands) >= FrameBudget THEN [c EXCEPT !.evicted = TRUE]
  ELSE [c EXCEPT !.commands = Append(@, r)]

Handled(c, r) ==
  CASE r.command.op = "oversize" -> [Queued(c, Reply(r, FALSE)) EXCEPT !.closing = TRUE]
    [] r.command.op # "oversize" /\ ~c.negotiated -> Greeted(c, r)
    [] c.negotiated /\ r.command.op = "hello" -> Queued(c, Reply(r, FALSE))
    [] c.negotiated /\ r.command.op = "ping" -> Queued(c, Reply(r, TRUE))
    [] c.negotiated /\ r.command.op \in {"subscribe", "unsubscribe"} -> Subscribed(c, r)
    [] c.negotiated /\ r.command.op \in {"config", "start", "stop"} -> Deferred(c, r)

\* process_pending takes a frame; read_client reads the socket when none is left.
HandleFrame(t) ==
  LET c == clients[t]
      frames == IF c.frames = <<>> THEN wire[t] ELSE c.frames
  IN /\ turn = t
     /\ budget > 0
     /\ Usable(c)
     /\ frames # <<>>
     /\ clients' = [clients EXCEPT ![t] = Handled([c EXCEPT !.frames = Tail(frames)], Head(frames))]
     /\ wire' = IF c.frames = <<>> THEN [wire EXCEPT ![t] = <<>>] ELSE wire
     /\ budget' = budget - 1
     /\ UNCHANGED <<asked, hung, nextToken, phase, ready, turn, taken, deviceVars>>

Gone(t) ==
  /\ clients' = Restrict(clients, Live \ {t})
  /\ turn' = 0
  /\ UNCHANGED <<nextToken, peerVars, phase, ready, budget, taken, deviceVars>>

\* A read finds the end of the stream, or fails because the peer is gone.
ReadFails(t) ==
  /\ turn = t
  /\ budget > 0
  /\ Usable(clients[t])
  /\ clients[t].frames = <<>>
  /\ t \in hung
  /\ Gone(t)

\* read_client returns: the budget or the socket is exhausted, or the last read was short.
DoneReading(t) ==
  \/ budget = 0
  \/ ~Usable(clients[t])
  \/ clients[t].frames = <<>> /\ (budget < FrameBudget \/ (wire[t] = <<>> /\ t \notin hung))

\* The end of handle_ready: write_ready, and removal.
Finish(t) ==
  /\ turn = t
  /\ DoneReading(t)
  /\ \/ /\ clients[t].evicted \/ (t \in hung /\ Output(clients[t]) # <<>>)
        /\ Gone(t)
     \/ /\ ~clients[t].evicted
        /\ t \in hung => Output(clients[t]) = <<>>
        /\ \E n \in clients[t].written..Len(clients[t].sent) :
             IF clients[t].closing /\ n = Len(clients[t].sent)
             THEN Gone(t)
             ELSE /\ clients' = [clients EXCEPT ![t].written = n]
                  /\ turn' = 0
                  /\ UNCHANGED <<nextToken, peerVars, phase, ready, budget, taken, deviceVars>>
-----------------------------------------------------------------------------
(***************************************************************************)
(* service_commands.                                                       *)
(***************************************************************************)
\* take_commands, once every ready connection has been handled
TakeCommands ==
  /\ phase = "ipc"
  /\ ready = {}
  /\ turn = 0
  /\ phase' = "service"
  /\ taken' = [t \in Token |->
                 IF t \in Live /\ Usable(clients[t]) THEN clients[t].commands ELSE <<>>]
  /\ clients' = [t \in Live |->
                   IF Usable(clients[t]) THEN [clients[t] EXCEPT !.commands = <<>>]
                   ELSE clients[t]]
  /\ UNCHANGED <<nextToken, peerVars, ready, turn, budget, deviceVars>>

\* Fault: a command that failed is not answered.
CompletedQuietly(c, r, ok) ==
  IF ~ok THEN c
  ELSE Queued([c EXCEPT !.capture = CASE r.command.op = "start" -> @ \cup {r.command.path}
                                      [] r.command.op = "stop"  -> {}
                                      [] r.command.op = "config" -> @],
              Reply(r, TRUE))

\* complete_command for what control_command answers.
Completed(c, r, ok) ==
  IF ~ok \/ (r.command.op = "start" /\ OverLeased(c, r.command.path))
  THEN Queued(c, Reply(r, FALSE))
  ELSE Queued([c EXCEPT !.capture = CASE r.command.op = "start" -> @ \cup {r.command.path}
                                      [] r.command.op = "stop"  -> {}
                                      [] r.command.op = "config" -> @],
              Reply(r, TRUE))

\* control_command: a controller that is not owned is refused, and one that was not
\* captured may fail to open.
CompleteCommand(t) ==
  /\ phase = "service"
  /\ t \in Live
  /\ taken[t] # <<>>
  /\ LET r == Head(taken[t])
         p == r.command.path
     IN \E ok \in BOOLEAN :
          /\ r.command.op # "start" => ok
          /\ p \in Path \ devices => ~ok
          /\ p \in captured => ok
          /\ clients' = [clients EXCEPT ![t] = Completed(@, r, ok)]
          /\ captured' = IF p \in devices THEN captured \cup {p} ELSE captured
  /\ taken' = [taken EXCEPT ![t] = Tail(@)]
  /\ UNCHANGED <<devices, sequence, nextToken, peerVars, phase, ready, turn, budget>>

\* capture_paths
CapturePaths == UNION {clients[t].capture : t \in {u \in Live : Usable(clients[u])}}

\* Fault: a lease that ended is not taken back.
SetCapturesKept ==
  /\ phase = "service"
  /\ \A t \in Token : taken[t] = <<>>
  /\ captured' = captured \cup (devices \cap CapturePaths)
  /\ phase' = "poll"
  /\ UNCHANGED <<clients, nextToken, peerVars, ready, turn, budget, taken, devices, sequence>>

\* Then every slot is told whether it is leased, and the reactor polls again.
SetCaptures ==
  /\ phase = "service"
  /\ \A t \in Token : taken[t] = <<>>
  /\ captured' = devices \cap CapturePaths
  /\ phase' = "poll"
  /\ UNCHANGED <<clients, nextToken, peerVars, ready, turn, budget, taken, devices, sequence>>
-----------------------------------------------------------------------------
IpcInit ==
  /\ clients = [t \in {} |-> NewClient]
  /\ nextToken = 1
  /\ wire = [t \in Token |-> <<>>]
  /\ asked = [t \in Token |-> 0]
  /\ hung = {}
  /\ phase = "poll"
  /\ ready = {}
  /\ turn = 0
  /\ budget = 0
  /\ taken = [t \in Token |-> <<>>]
  /\ devices = {}
  /\ captured = {}
  /\ sequence = 0

PeerNext == \E t \in Token : HangUp(t) \/ \E command \in Ask : Send(t, command)

ReactorNext ==
  \/ Poll
  \/ \E p \in Path : RemoveSlot(p) \/ AddPath(p) \/ \E gone \in BOOLEAN : DrainDevice(p, gone)
  \/ EndDevices
  \/ Accept
  \/ \E t \in Token : Begin(t) \/ CompleteCommand(t)
  \/ \E t \in Live : HandleFrame(t) \/ ReadFails(t) \/ Finish(t)
  \/ TakeCommands
  \/ SetCaptures

IpcNext == PeerNext \/ ReactorNext

IpcSpec == IpcInit /\ [][IpcNext]_ipcVars

\* The reactor never blocks but in poll, which its ticks end.
FairIpcSpec == IpcSpec /\ WF_ipcVars(ReactorNext)
-----------------------------------------------------------------------------
(***************************************************************************)
(* Properties.                                                             *)
(***************************************************************************)
\* The values of the server's and the reactor's variables, and the limits on
\* connections, queued output, deferred commands and leases.
IpcTypeOK ==
  /\ Live \subseteq Token /\ Cardinality(Live) <= MaxClients
  /\ \A t \in Live :
       /\ clients[t] \in Client
       /\ Len(Output(clients[t])) <= MaxQueued
       /\ Len(clients[t].commands) <= FrameBudget
       /\ Cardinality(clients[t].capture) <= MaxLeases
  /\ nextToken \in 1..MaxTokens + 1
  /\ wire \in [Token -> Seq(Request)]
  /\ asked \in [Token -> 0..MaxAsked]
  /\ hung \subseteq Token
  /\ phase \in {"poll", "devices", "ipc", "service"}
  /\ ready \subseteq Token
  /\ turn \in Live \cup {0}
  /\ budget \in 0..FrameBudget
  /\ taken \in [Token -> Seq(Request)]
  /\ captured \subseteq devices /\ devices \subseteq Path
  /\ sequence \in 0..MaxEvents

Replies(c) == {i \in DOMAIN c.sent : c.sent[i].type = "reply"}
RepliesTo(c, id) == {i \in Replies(c) : c.sent[i].request.id = id}
WaitsIn(queue, id) == {i \in DOMAIN queue : queue[i].id = id}

\* doc/DAEMON_PROTOCOL 5: every request that was taken from a usable connection has
\* one reply or still waits for one, through pipelining, deferral and refused leases.
RepliesMatch ==
  \A t \in Live : Usable(clients[t]) =>
    \A id \in 1..asked[t] - Len(wire[t]) - Len(clients[t].frames) :
      Cardinality(RepliesTo(clients[t], id)) + Cardinality(WaitsIn(clients[t].commands, id))
        + Cardinality(WaitsIn(taken[t], id)) = 1

\* The leases that a connection has been told of: started, and not stopped since.
ToldLeases(c) ==
  {p \in Path : \E i \in Replies(c) :
     /\ c.sent[i].ok /\ c.sent[i].request.command.op = "start"
     /\ c.sent[i].request.command.path = p
     /\ \A j \in Replies(c) : j > i => c.sent[j].request.command.op # "stop"}

\* doc/DAEMON_PROTOCOL 5: whenever the daemon waits for events, the controllers that
\* capture are those a usable connection was told it leases: also after the
\* controller came back, and not for connections that hung up or were evicted.
LeasesHonoured ==
  phase = "poll" =>
    captured = devices \cap UNION {ToldLeases(clients[t]) : t \in {u \in Live : Usable(clients[u])}}

\* doc/DAEMON_PROTOCOL 8: a notification is queued only while the last reply about its
\* stream was to a subscription.
StreamBoundary ==
  \A t \in Live : \A i \in DOMAIN clients[t].sent \ Replies(clients[t]) :
    LET c == clients[t]
        about == {j \in Replies(c) :
                    j < i /\ c.sent[j].ok /\ StreamOf(c.sent[i]) \in c.sent[j].request.command.streams}
    IN \E j \in about : /\ c.sent[j].request.command.op = "subscribe"
                        /\ \A k \in about : k <= j

\* doc/DAEMON_PROTOCOL 8: sequences grow on a connection, and no input of a controller
\* follows its removal, unless it was added again or additions were not subscribed.
NotesOrdered ==
  \A t \in Live :
    LET sent == clients[t].sent
        notes == DOMAIN sent \ Replies(clients[t])
    IN \A i, j \in notes : i < j =>
         /\ sent[i].sequence < sent[j].sequence
         /\ sent[i].what = "removed" /\ sent[j].what = "input" /\ sent[i].path = sent[j].path
              => \E k \in i..j :
                   \/ k \in notes /\ sent[k].what = "added" /\ sent[k].path = sent[i].path
                   \/ k \notin notes /\ sent[k].request.command.op = "unsubscribe"

\* A deferred command of a connection is answered unless the connection ends,
\* whatever else the reactor has to do.
CommandAnswered ==
  \A t \in Token, id \in 1..MaxAsked :
    (t \in Live /\ WaitsIn(clients[t].commands, id) # {})
      ~> (t \in Live /\ Usable(clients[t]) => RepliesTo(clients[t], id) # {})

\* doc/DAEMON_PROTOCOL 1: a client too slow to stay within the limit is disconnected.
EvictedDisconnected ==
  \A t \in Token : (t \in Live /\ clients[t].evicted) ~> (t \notin Live)
=============================================================================
