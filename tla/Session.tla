------------------------------- MODULE Session -------------------------------
(***************************************************************************)
(* The client side of the control protocol: the blocking Client              *)
(* (wiiland-ipc/src/client.rs), the setup of a CaptureConnection             *)
(* (capture.rs) and the background Session with its bounded event queue      *)
(* (session.rs), as the trace of the GUI and the terminal viewer use it,     *)
(* with a user interface thread that may be arbitrarily slow.                *)
(*                                                                          *)
(* The same Client may also be used by a program that goes on after a        *)
(* request timed out.  The daemon is the environment: it answers in order, *)
(* at any time or never, and sends notifications in between.                 *)
(***************************************************************************)
EXTENDS Naturals, FiniteSets, FiniteSetsExt, Sequences, SequencesExt

CONSTANTS
    Device,        \* controllers the daemon knows
    MaxNotes,      \* notifications the daemon sends
    MaxRequests,   \* requests of a program after the handshake
    BacklogLimit,  \* notifications kept while a response is awaited
    QueueLimit     \* EVENT_QUEUE

ASSUME LimitAssumption ==
    {MaxNotes, MaxRequests, BacklogLimit} \subseteq Nat /\ QueueLimit \in Nat \ {0}

VARIABLES
    user,           \* a program, or a Session for a trace or for a display
    todo,           \* requests the daemon has not answered
    wire,           \* messages the client has not read
    up,             \* the daemon keeps the connection open
    subscribed,     \* the daemon sends notifications
    sent,           \* ghost: every notification that was sent
    messages,       \* the messages of the last chunk that are left
    backlog,        \* notifications that came while a response was awaited
    terminated,     \* the backlog overflowed
    nextId,
    waiting,        \* the request a response is awaited for
    fresh,          \* ghost: no result was older than its request
    minor,          \* the protocol minor of the daemon
    pc, step,       \* where the thread that has the connection is
    left,           \* devices that are not leased yet
    selected,       \* devices of the session
    queue, cancelled, result,
    pendingEvent, pendingResult,
    delivered,      \* ghost: every event handed to the user
    over            \* the user saw the end

daemonVars == <<todo, up, subscribed, sent>>
clientVars == <<backlog, terminated, nextId, waiting, fresh, minor>>
workerVars == <<pc, step, left, selected, result>>
uiVars == <<pendingEvent, pendingResult, delivered, over>>
vars == <<user, daemonVars, wire, messages, clientVars, workerVars, queue,
          cancelled, uiVars>>

Command == {"hello", "status", "devices", "subscribe", "unsubscribe", "capture"}
NoRequest == [id |-> 0, cmd |-> "none", since |-> 0]
Connected == [type |-> "connected"]

IsNote(m) == m.type = "note"
IsSensor(e) == e.type = "note" /\ e.kind = "sensor"
IsControl(e) == e.type = "note" /\ e.kind = "key" /\ e.dev \in selected

Ended == {"ended", "closed", "done"}

-----------------------------------------------------------------------------
(* The daemon. *)
Values(cmd) ==
    CASE cmd = "hello" -> {"old", "current", "alien"}
      [] cmd = "devices" -> SUBSET Device
      [] OTHER -> {"ok"}

Answer ==
    /\ todo # <<>> /\ up
    /\ LET r == Head(todo) IN
          /\ \/ \E v \in Values(r.cmd) :
                    wire' = Append(wire, [type |-> "reply", id |-> r.id,
                                          cmd |-> r.cmd, value |-> v,
                                          at |-> Len(sent)])
             \/ /\ r.cmd = "capture"
                /\ wire' = Append(wire, [type |-> "error", id |-> r.id])
          /\ subscribed' = CASE r.cmd = "subscribe" -> TRUE
                             [] r.cmd = "unsubscribe" -> FALSE
                             [] OTHER -> subscribed
    /\ todo' = Tail(todo)
    /\ UNCHANGED <<user, up, sent, messages, clientVars, workerVars, queue,
                   cancelled, uiVars>>

Notify ==
    /\ subscribed /\ up /\ Len(sent) < MaxNotes
    /\ \E k \in {"key", "sensor"}, d \in Device :
          LET n == [type |-> "note", kind |-> k, dev |-> d, seq |-> Len(sent) + 1]
          IN  wire' = Append(wire, n) /\ sent' = Append(sent, n)
    /\ UNCHANGED <<user, todo, up, subscribed, messages, clientVars, workerVars,
                   queue, cancelled, uiVars>>

\* The daemon ends or closes a slow connection; what it wrote is still read.
HangUp ==
    /\ up
    /\ up' = FALSE
    /\ UNCHANGED <<user, todo, subscribed, sent, wire, messages, clientVars,
                   workerVars, queue, cancelled, uiVars>>

-----------------------------------------------------------------------------
(* The end of the thread of a Session: the connection is dropped first, then *)
(* the queue is closed, then the result is sent.                             *)
Close(outcome) ==
    /\ pc' = "ended" /\ result' = outcome
    /\ todo' = <<>> /\ wire' = <<>> /\ up' = FALSE /\ subscribed' = FALSE
    /\ messages' = <<>> /\ backlog' = <<>> /\ waiting' = NoRequest
    /\ UNCHANGED <<step, left, selected, sent>>

\* An error is returned.  A program may go on with the Client; a Session and
\* a handshake end.  A cancelled setup is not a failure.
Fail(rest) ==
    IF user = "program" /\ step = "poll"
       THEN /\ pc' = "poll" /\ waiting' = NoRequest /\ messages' = rest
            /\ UNCHANGED <<step, left, selected, result, daemonVars, wire, backlog>>
       ELSE Close(IF cancelled /\ step # "poll" THEN "ok" ELSE "error")

CloseQueue ==
    /\ pc = "ended" /\ user # "program"
    /\ pc' = "closed"
    /\ UNCHANGED <<user, daemonVars, wire, messages, clientVars, step, left,
                   selected, result, queue, cancelled, uiVars>>

SendResult ==
    /\ pc = "closed"
    /\ pc' = "done"
    /\ UNCHANGED <<user, daemonVars, wire, messages, clientVars, step, left,
                   selected, result, queue, cancelled, uiVars>>

-----------------------------------------------------------------------------
(* Client::request. *)
Request(cmd) ==
    /\ waiting' = [id |-> nextId, cmd |-> cmd, since |-> Len(sent)]
    /\ nextId' = nextId + 1
    /\ pc' = "wait"
    /\ todo' = IF up THEN Append(todo, waiting') ELSE todo

\* The setup checks for cancellation before each command; a command that
\* needs a newer daemon is not sent.
Call ==
    /\ pc = "call" /\ ~(step = "capture" /\ left = {})
    /\ IF cancelled \/ (step = "capture" /\ minor = 0)
          THEN Fail(messages) /\ UNCHANGED nextId
          ELSE /\ Request(step)
               /\ UNCHANGED <<step, left, selected, result, wire, up,
                              subscribed, sent, messages, backlog>>
    /\ UNCHANGED <<user, terminated, fresh, minor, queue, cancelled, uiVars>>

ProgramCalls(cmd) ==
    /\ user = "program" /\ pc = "poll" /\ ~terminated /\ nextId <= MaxRequests + 1
    /\ Request(cmd)
    /\ UNCHANGED <<user, step, left, selected, result, wire, up, subscribed,
                   sent, messages, backlog, terminated, fresh, minor, queue,
                   cancelled, uiVars>>

\* poll_message reads one chunk when no decoded message is left.
Receive ==
    /\ pc \in {"wait", "read"} /\ messages = <<>> /\ wire # <<>>
    /\ pc = "read" => backlog = <<>>
    /\ \E k \in 1..Len(wire) :
          messages' = SubSeq(wire, 1, k) /\ wire' = SubSeq(wire, k + 1, Len(wire))
    /\ UNCHANGED <<user, daemonVars, clientVars, workerVars, queue, cancelled,
                   uiVars>>

PrematureEof ==
    /\ pc \in {"wait", "read"} /\ messages = <<>> /\ wire = <<>> /\ ~up
    /\ pc = "read" => backlog = <<>>
    /\ Fail(<<>>)
    /\ UNCHANGED <<user, terminated, nextId, fresh, minor, queue, cancelled,
                   uiVars>>

\* One absolute deadline for a request.
Timeout ==
    /\ pc = "wait"
    /\ Fail(messages)
    /\ UNCHANGED <<user, terminated, nextId, fresh, minor, queue, cancelled,
                   uiVars>>

\* A notification that comes before the response.
QueueNotification ==
    /\ pc = "wait" /\ messages # <<>> /\ IsNote(Head(messages))
    /\ IF Len(backlog) < BacklogLimit
          THEN /\ backlog' = Append(backlog, Head(messages))
               /\ messages' = Tail(messages)
               /\ UNCHANGED <<daemonVars, wire, workerVars, terminated, waiting>>
          ELSE terminated' = TRUE /\ Fail(Tail(messages))
    /\ UNCHANGED <<user, nextId, fresh, minor, queue, cancelled, uiVars>>

\* As if the id of a response were not compared.
AnyId(m) == TRUE

ForUs(m) == m.id = waiting.id

Mismatch ==
    /\ pc = "wait" /\ messages # <<>>
    /\ ~IsNote(Head(messages)) /\ ~ForUs(Head(messages))
    /\ Fail(Tail(messages))
    /\ UNCHANGED <<user, terminated, nextId, fresh, minor, queue, cancelled,
                   uiVars>>

ServerError ==
    /\ pc = "wait" /\ messages # <<>>
    /\ Head(messages).type = "error" /\ ForUs(Head(messages))
    /\ Fail(Tail(messages))
    /\ UNCHANGED <<user, terminated, nextId, fresh, minor, queue, cancelled,
                   uiVars>>

\* select_devices: all, or one of them.
Selections(known) == {s \in SUBSET known : s = known \/ Cardinality(s) = 1} \ {{}}

\* The command after this one, once its result is there.
Following(cmd) ==
    CASE cmd = "hello" -> IF user = "program" THEN "poll" ELSE "status"
      [] cmd = "status" -> "devices"
      [] cmd = "devices" -> "subscribe"
      [] OTHER -> "capture"

Respond(m) ==
    /\ fresh' = (fresh /\ m.at >= waiting.since)
    /\ minor' = IF m.cmd = "hello" /\ m.value = "current" THEN 1 ELSE minor
    /\ \/ /\ user = "program" /\ step = "poll"
          /\ pc' = "poll" /\ UNCHANGED <<step, left, selected>>
       \/ /\ step = "devices"
          /\ \E s \in Selections(m.value) : selected' = s /\ left' = s
          /\ step' = Following(step) /\ pc' = "call"
       \/ /\ step \notin {"devices", "poll"}
          /\ step' = Following(step)
          /\ pc' = IF step' = "poll" THEN "poll" ELSE "call"
          /\ \E d \in IF step = "capture" THEN left ELSE {0} : left' = left \ {d}
          /\ UNCHANGED selected
    /\ waiting' = NoRequest /\ messages' = Tail(messages)
    /\ UNCHANGED <<result, daemonVars, wire, backlog>>

\* An unsupported version, no device for the selector, or a result of another
\* kind than the command asks for.
Alien(m) == m.cmd = "hello" /\ m.value = "alien"
Unusable(m) == Alien(m) \/ step = "devices" \/ m.cmd # waiting.cmd

Response ==
    /\ pc = "wait" /\ messages # <<>>
    /\ Head(messages).type = "reply" /\ ForUs(Head(messages))
    /\ \/ /\ ~Alien(Head(messages)) /\ Head(messages).cmd = waiting.cmd
          /\ Respond(Head(messages))
       \/ /\ Unusable(Head(messages))
          /\ Fail(Tail(messages))
          /\ UNCHANGED <<fresh, minor>>
    /\ UNCHANGED <<user, terminated, nextId, queue, cancelled, uiVars>>

-----------------------------------------------------------------------------
(* The event queue of a Session. *)

\* As if any event could be evicted.
AnyEvent(e) == TRUE

Evictable(e) == IsSensor(e)

\* The previous value of the same sensor, or else the oldest of another.
Victims(e) ==
    LET same == {i \in DOMAIN queue :
                    IsSensor(e) /\ IsSensor(queue[i]) /\ queue[i].dev = e.dev}
        any == {i \in DOMAIN queue : Evictable(queue[i])}
    IN  IF user # "display" THEN {} ELSE IF same # {} THEN same ELSE any

Full == Len(queue) = QueueLimit

Overflows(e) ==
    Full /\ Victims(e) = {} /\ ~(user = "display" /\ IsSensor(e))

Sent(e) ==
    IF ~Full THEN Append(queue, e)
    ELSE IF Victims(e) = {} THEN queue
    ELSE Append(RemoveAt(queue, Min(Victims(e))), e)

\* The setup is complete.
Ready ==
    /\ pc = "call" /\ step = "capture" /\ left = {}
    /\ IF cancelled
          THEN Fail(messages) /\ UNCHANGED queue
          ELSE /\ queue' = Sent(Connected)
               /\ pc' = "poll" /\ step' = "poll"
               /\ UNCHANGED <<left, selected, result, daemonVars, wire,
                              messages, backlog, waiting>>
    /\ UNCHANGED <<user, terminated, nextId, fresh, minor, cancelled, uiVars>>

\* The loop looks at the stop flag before each read.  A program polls when it
\* likes.
CheckStop ==
    /\ pc = "poll" /\ ~terminated
    /\ IF cancelled
          THEN Close("ok")
          ELSE /\ pc' = "read"
               /\ UNCHANGED <<step, left, selected, result, daemonVars, wire,
                              messages, backlog, waiting>>
    /\ UNCHANGED <<user, terminated, nextId, fresh, minor, queue, cancelled,
                   uiVars>>

\* As if reads blocked until something comes.
NeverTimesOut == FALSE

ReadTimesOut == messages = <<>> /\ backlog = <<>> /\ wire = <<>> /\ up

\* Nothing within the read timeout, or a partial frame.
PollNothing ==
    /\ pc = "read" /\ ReadTimesOut
    /\ pc' = "poll"
    /\ UNCHANGED <<user, daemonVars, wire, messages, clientVars, step, left,
                   selected, result, queue, cancelled, uiVars>>

\* A notification is handed to the program, or to the queue if its device is
\* one of the session; the queue overflows explicitly.
Hand(e) ==
    IF user = "program"
       THEN /\ delivered' = Append(delivered, e) /\ pc' = "poll"
            /\ UNCHANGED <<queue, step, left, selected, result, daemonVars,
                           wire, waiting>>
       ELSE /\ UNCHANGED delivered
            /\ IF e.dev \in selected /\ Overflows(e)
                  THEN UNCHANGED queue
                  ELSE /\ queue' = IF e.dev \in selected THEN Sent(e) ELSE queue
                       /\ pc' = "poll"
                       /\ UNCHANGED <<step, left, selected, result, daemonVars,
                                      wire, waiting>>

PollBacklog ==
    /\ pc = "read" /\ backlog # <<>>
    /\ LET e == Head(backlog) IN
          /\ Hand(e)
          /\ IF user # "program" /\ e.dev \in selected /\ Overflows(e)
                THEN Close("error")
                ELSE backlog' = Tail(backlog) /\ UNCHANGED messages
    /\ UNCHANGED <<user, terminated, nextId, fresh, minor, cancelled,
                   pendingEvent, pendingResult, over>>

PollNotification ==
    /\ pc = "read" /\ backlog = <<>> /\ messages # <<>> /\ IsNote(Head(messages))
    /\ LET e == Head(messages) IN
          /\ Hand(e)
          /\ IF user # "program" /\ e.dev \in selected /\ Overflows(e)
                THEN Close("error")
                ELSE messages' = Tail(messages) /\ UNCHANGED backlog
    /\ UNCHANGED <<user, terminated, nextId, fresh, minor, cancelled,
                   pendingEvent, pendingResult, over>>

\* A response nobody waits for any more.
PollUnexpected ==
    /\ pc = "read" /\ backlog = <<>> /\ messages # <<>> /\ ~IsNote(Head(messages))
    /\ Fail(Tail(messages))
    /\ UNCHANGED <<user, terminated, nextId, fresh, minor, queue, cancelled,
                   uiVars>>

-----------------------------------------------------------------------------
(* The user interface thread. *)
Cancel ==
    /\ user # "program" /\ ~cancelled
    /\ cancelled' = TRUE
    /\ UNCHANGED <<user, daemonVars, wire, messages, clientVars, workerVars,
                   queue, uiVars>>

TryRecv ==
    /\ user # "program"
    /\ IF pendingEvent # <<>>
          THEN /\ delivered' = delivered \o pendingEvent
               /\ pendingEvent' = <<>> /\ UNCHANGED <<queue, over>>
       ELSE IF queue # <<>>
          THEN /\ delivered' = Append(delivered, Head(queue))
               /\ queue' = Tail(queue) /\ UNCHANGED <<pendingEvent, over>>
       ELSE /\ over' = (over \/ pc \in {"closed", "done"})
            /\ UNCHANGED <<queue, pendingEvent, delivered>>
    /\ UNCHANGED <<user, daemonVars, wire, messages, clientVars, workerVars,
                   cancelled, pendingResult>>

\* As if the queue were not looked at when the result has come.
NothingQueued == FALSE

Undelivered == queue # <<>>

TryFinish ==
    /\ pc = "done" /\ ~over
    /\ IF pendingEvent # <<>>
          THEN pendingResult' = result /\ UNCHANGED <<pendingEvent, queue, over>>
       ELSE IF Undelivered
          THEN /\ pendingEvent' = <<Head(queue)>> /\ queue' = Tail(queue)
               /\ pendingResult' = result /\ UNCHANGED over
       ELSE /\ over' = TRUE /\ pendingResult' = "none"
            /\ UNCHANGED <<pendingEvent, queue>>
    /\ UNCHANGED <<user, daemonVars, wire, messages, clientVars, workerVars,
                   cancelled, delivered>>

-----------------------------------------------------------------------------
SessionInit ==
    /\ user \in {"program", "trace", "display"}
    /\ todo = <<>> /\ wire = <<>> /\ up = TRUE /\ subscribed = FALSE /\ sent = <<>>
    /\ messages = <<>> /\ backlog = <<>> /\ terminated = FALSE
    /\ nextId = 1 /\ waiting = NoRequest
    /\ fresh = TRUE /\ minor = 0
    /\ pc = "call" /\ step = "hello" /\ left = {}
    /\ selected = IF user = "program" THEN Device ELSE {}
    /\ queue = <<>> /\ cancelled = FALSE /\ result = "none"
    /\ pendingEvent = <<>> /\ pendingResult = "none"
    /\ delivered = <<>> /\ over = FALSE

Worker ==
    \/ Call \/ Ready \/ Receive \/ PrematureEof \/ Timeout \/ QueueNotification
    \/ Mismatch \/ ServerError \/ Response \/ CheckStop \/ PollNothing
    \/ PollBacklog \/ PollNotification \/ PollUnexpected \/ CloseQueue \/ SendResult

SessionNext ==
    \/ Answer \/ Notify \/ HangUp
    \/ Worker \/ \E cmd \in {"status", "subscribe", "unsubscribe"} : ProgramCalls(cmd)
    \/ Cancel \/ TryRecv \/ TryFinish

SessionSpec == SessionInit /\ [][SessionNext]_vars

\* The thread of a Session is scheduled and its reads time out.  Nothing is
\* assumed of the daemon or of the user interface.
FairSessionSpec == SessionSpec /\ WF_vars(Worker)

-----------------------------------------------------------------------------

\* A result shows the daemon as it was after the request was made: the late
\* response to a request that timed out is not taken for that of a later one.
FreshAnswer == fresh

Handed == delivered \o pendingEvent \o queue
OnTheWay == Handed \o backlog \o messages \o wire

\* The notifications of a sequence are in the order they were sent, none twice.
Increasing(s) ==
    \A i, j \in DOMAIN s : i < j /\ IsNote(s[i]) /\ IsNote(s[j]) => s[i].seq < s[j].seq

\* Key transitions of the chosen devices are neither lost, repeated nor
\* reordered on their way to the user, past requests, timeouts, a full
\* backlog and a full queue.  What is missing at the end is a tail, and while
\* the connection is usable nothing is missing.
ControlsKept ==
    LET Controls(s) == {e \in Range(s) : IsControl(e)}
    IN  /\ Increasing(OnTheWay)
        /\ Controls(Handed) \subseteq Controls(sent)
        /\ \A e \in Controls(Handed), f \in Controls(sent) :
              f.seq < e.seq => f \in Controls(Handed)
        /\ pc \notin Ended /\ ~terminated => Controls(OnTheWay) = Controls(sent)

\* The user is told of the end only when it has every event of the session,
\* and none comes after it.
EndsLast == over => pendingEvent = <<>> /\ queue = <<>> /\ pc \in {"closed", "done"}

\* A cancelled session closes its connection, whatever the daemon does and
\* even if the user interface never looks at it again.
SessionEnds == cancelled ~> pc = "done"
=============================================================================
