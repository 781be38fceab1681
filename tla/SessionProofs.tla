---------------------------- MODULE SessionProofs ----------------------------
(***************************************************************************)
(* Theorems about Session for any number of controllers, requests and      *)
(* notifications and all limits: no result is older than its request, the  *)
(* end of a session is seen after its last event, and key transitions      *)
(* reach the user complete and in their order.                             *)
(***************************************************************************)
EXTENDS Session, WellFoundedInduction, TLAPS

Note == [type : {"note"}, kind : {"key", "sensor"}, dev : Device, seq : Nat]
Reply == [type : {"reply"}, id : Nat, cmd : Command \cup {"poll"},
          value : {"old", "current", "alien", "ok"} \cup SUBSET Device, at : Nat]
Error == [type : {"error"}, id : Nat]
Asked == [id : Nat, cmd : Command \cup {"poll"}, since : Nat]

(***************************************************************************)
(* The requests the daemon has are earlier ones or the current one.        *)
(***************************************************************************)
Pending == {r \in Asked : r.id \in 1..(nextId - 1)}

(***************************************************************************)
(* A message on its way answers one of them, and one that answers the      *)
(* current request was written after it was made.                          *)
(***************************************************************************)
InOrder ==
    Note
    \cup {m \in Error : m.id \in 1..(nextId - 1)}
    \cup {m \in Reply : /\ m.id \in 1..(nextId - 1)
                        /\ m.id = waiting.id => m.at >= waiting.since}

RequestsOK ==
    /\ nextId \in Nat \ {0} /\ step \in Command \cup {"poll"}
    /\ sent \in Seq(Note)
    /\ waiting \in Asked \cup {NoRequest} /\ waiting.since <= Len(sent)
    /\ todo \in Seq(Pending)
    /\ wire \in Seq(InOrder) /\ messages \in Seq(InOrder)

-----------------------------------------------------------------------------
\* A sequence over a set is one over a larger set.
LEMMA SeqLarger ==
  ASSUME NEW S, NEW T, S \subseteq T, NEW s \in Seq(S)
  PROVE  s \in Seq(T)
OBVIOUS

\* Without a request nothing on its way can be taken for an answer, and a new
\* request has an id that nothing on its way has.
LEMMA LaterIds ==
  ASSUME RequestsOK, nextId' \in Nat, nextId' >= nextId,
         \/ waiting' = waiting
         \/ waiting' = NoRequest
         \/ waiting'.id = nextId
  PROVE  InOrder \subseteq InOrder' /\ Pending \subseteq Pending'
<1>1. \A m \in Reply \cup Error : m.id \in Nat
  BY DEF Reply, Error
<1>2. \A r \in Asked : r.id \in Nat
  BY DEF Asked
<1>3. Pending \subseteq Pending'
  BY <1>2 DEF RequestsOK, Pending
<1>4. ASSUME NEW m \in Reply, m.id \in 1..(nextId - 1),
             m.id = waiting.id => m.at >= waiting.since,
             m.id = waiting'.id
      PROVE  m.at >= waiting'.since
  BY <1>4 DEF RequestsOK, NoRequest
<1> QED
  BY <1>1, <1>3, <1>4 DEF RequestsOK, InOrder

-----------------------------------------------------------------------------
USE DEF daemonVars, clientVars, workerVars, uiVars

\* The end of the thread leaves no request and no message.
LEMMA CloseKeeps ==
  ASSUME RequestsOK, NEW outcome, Close(outcome), nextId' = nextId
  PROVE  RequestsOK'
<1>1. waiting' = NoRequest /\ NoRequest.since = 0 /\ Len(sent) \in Nat
  BY DEF Close, NoRequest, RequestsOK
<1>2. <<>> \in Seq(Pending') /\ <<>> \in Seq(InOrder')
  OBVIOUS
<1> QED
  BY <1>1, <1>2 DEF RequestsOK, Close

LEMMA FailKeeps ==
  ASSUME RequestsOK, NEW rest \in Seq(InOrder), Fail(rest), nextId' = nextId
  PROVE  RequestsOK'
<1>1. CASE user = "program" /\ step = "poll"
  <2>1. waiting' = NoRequest /\ NoRequest.since = 0 /\ Len(sent) \in Nat
    BY <1>1 DEF Fail, NoRequest, RequestsOK
  <2>2. InOrder \subseteq InOrder' /\ Pending \subseteq Pending'
    BY <2>1, LaterIds DEF RequestsOK
  <2>3. messages' \in Seq(InOrder') /\ wire' \in Seq(InOrder') /\ todo' \in Seq(Pending')
    BY <1>1, <2>2, SeqLarger DEF Fail, RequestsOK
  <2> QED
    BY <1>1, <2>1, <2>3 DEF RequestsOK, Fail
<1>2. CASE ~(user = "program" /\ step = "poll")
  <2>1. Close(IF cancelled /\ step # "poll" THEN "ok" ELSE "error")
    BY <1>2 DEF Fail
  <2> QED
    BY <2>1, CloseKeeps
<1> QED
  BY <1>1, <1>2

LEMMA RequestKeeps ==
  ASSUME RequestsOK, NEW cmd \in Command \cup {"poll"}, Request(cmd),
         UNCHANGED <<step, sent, wire, messages>>
  PROVE  RequestsOK'
<1>1. /\ waiting' \in Asked /\ waiting'.id = nextId /\ waiting'.since = Len(sent)
      /\ nextId' = nextId + 1 /\ nextId' \in Nat \ {0}
  BY DEF Request, RequestsOK, Asked
<1>2. InOrder \subseteq InOrder' /\ Pending \subseteq Pending'
  BY <1>1, LaterIds DEF RequestsOK
<1>3. todo \in Seq(Pending') /\ wire \in Seq(InOrder') /\ messages \in Seq(InOrder')
  BY <1>2, SeqLarger DEF RequestsOK
<1>4. waiting' \in Pending'
  BY <1>1 DEF Pending, RequestsOK
<1>5. todo' \in Seq(Pending')
  BY <1>3, <1>4 DEF Request
<1> QED
  BY <1>1, <1>3, <1>5 DEF RequestsOK

\* What the daemon writes is the answer to a request it has, after it was made.
LEMMA AnswerKeeps == ASSUME RequestsOK, Answer PROVE RequestsOK'
<1>1. Head(todo) \in Pending /\ Tail(todo) \in Seq(Pending) /\ Len(sent) \in Nat
  BY DEF Answer, RequestsOK
<1>2. InOrder' = InOrder /\ Pending' = Pending
  BY DEF Answer, InOrder, Pending
<1>3. ASSUME NEW v \in Values(Head(todo).cmd)
      PROVE  [type |-> "reply", id |-> Head(todo).id, cmd |-> Head(todo).cmd,
              value |-> v, at |-> Len(sent)] \in InOrder
  <2>1. v \in {"old", "current", "alien", "ok"} \cup SUBSET Device
    BY <1>3 DEF Values
  <2> QED
    BY <1>1, <2>1 DEF InOrder, Reply, Pending, Asked, RequestsOK
<1>4. [type |-> "error", id |-> Head(todo).id] \in InOrder
  BY <1>1 DEF InOrder, Error, Pending, Asked
<1>5. \E m \in InOrder : wire' = Append(wire, m)
  <2>1. \/ \E v \in Values(Head(todo).cmd) :
              wire' = Append(wire, [type |-> "reply", id |-> Head(todo).id,
                                    cmd |-> Head(todo).cmd, value |-> v,
                                    at |-> Len(sent)])
        \/ wire' = Append(wire, [type |-> "error", id |-> Head(todo).id])
    BY Zenon DEF Answer
  <2> QED
    BY <1>3, <1>4, <2>1, Zenon
<1>6. wire' \in Seq(InOrder)
  BY <1>5 DEF RequestsOK
<1> QED
  BY <1>1, <1>2, <1>6 DEF Answer, RequestsOK

LEMMA NotifyKeeps == ASSUME RequestsOK, Notify PROVE RequestsOK'
<1>1. InOrder' = InOrder /\ Pending' = Pending
  BY DEF Notify, InOrder, Pending
<1>2. PICK k \in {"key", "sensor"}, d \in Device :
         LET n == [type |-> "note", kind |-> k, dev |-> d, seq |-> Len(sent) + 1]
         IN  wire' = Append(wire, n) /\ sent' = Append(sent, n)
  BY DEF Notify
<1>3. [type |-> "note", kind |-> k, dev |-> d, seq |-> Len(sent) + 1] \in Note
  BY DEF Note, RequestsOK
<1>4. wire' \in Seq(InOrder) /\ sent' \in Seq(Note) /\ Len(sent') = Len(sent) + 1
  BY <1>2, <1>3 DEF InOrder, RequestsOK
<1>5. waiting.since <= Len(sent')
  BY <1>4 DEF RequestsOK, Asked, NoRequest
<1> QED
  BY <1>1, <1>4, <1>5 DEF Notify, RequestsOK

LEMMA ReceiveKeeps == ASSUME RequestsOK, Receive PROVE RequestsOK'
<1>1. InOrder' = InOrder /\ Pending' = Pending
  BY DEF Receive, InOrder, Pending
<1>2. PICK k \in 1..Len(wire) :
         messages' = SubSeq(wire, 1, k) /\ wire' = SubSeq(wire, k + 1, Len(wire))
  BY DEF Receive
<1>3. Len(wire) \in Nat /\ \A i \in 1..Len(wire) : wire[i] \in InOrder
  BY DEF RequestsOK
<1>4. messages' \in Seq(InOrder) /\ wire' \in Seq(InOrder)
  BY <1>2, <1>3 DEF RequestsOK
<1> QED
  BY <1>1, <1>4 DEF Receive, RequestsOK

LEMMA RespondKeeps ==
  ASSUME RequestsOK, messages # <<>>, NEW m, Respond(m), nextId' = nextId
  PROVE  RequestsOK'
<1>1. waiting' = NoRequest /\ NoRequest.since = 0 /\ Len(sent) \in Nat
  BY DEF Respond, NoRequest, RequestsOK
<1>2. InOrder \subseteq InOrder' /\ Pending \subseteq Pending'
  BY <1>1, LaterIds DEF RequestsOK
<1>3. messages' \in Seq(InOrder') /\ wire' \in Seq(InOrder') /\ todo' \in Seq(Pending')
  <2>1. Tail(messages) \in Seq(InOrder)
    BY DEF RequestsOK
  <2> QED
    BY <1>2, <2>1, SeqLarger DEF Respond, RequestsOK
<1>4. step' \in Command \cup {"poll"}
  BY DEF Respond, Following, RequestsOK, Command
<1> QED
  BY <1>1, <1>3, <1>4 DEF Respond, RequestsOK

-----------------------------------------------------------------------------
LEMMA RequestsInit == SessionInit => RequestsOK
<1> SUFFICES ASSUME SessionInit PROVE RequestsOK
  OBVIOUS
<1>1. /\ <<>> \in Seq(Note) /\ <<>> \in Seq(Pending) /\ <<>> \in Seq(InOrder)
      /\ Len(<<>>) = 0
  OBVIOUS
<1> QED
  BY <1>1 DEF SessionInit, RequestsOK, NoRequest, Command

LEMMA RequestsStep ==
  ASSUME RequestsOK, [SessionNext]_vars
  PROVE  RequestsOK'
<1>1. messages # <<>> => Tail(messages) \in Seq(InOrder)
  BY DEF RequestsOK
<1>2. messages \in Seq(InOrder) /\ <<>> \in Seq(InOrder)
  BY DEF RequestsOK
<1>3. CASE UNCHANGED <<nextId, step, sent, waiting, todo, wire, messages>>
  BY <1>3 DEF RequestsOK, InOrder, Pending
<1>4. CASE Answer \/ Notify \/ Receive
  BY <1>4, AnswerKeeps, NotifyKeeps, ReceiveKeeps
<1>5. CASE HangUp \/ CloseQueue \/ SendResult \/ PollNothing \/ Cancel \/ TryRecv \/ TryFinish
  BY <1>3, <1>5 DEF HangUp, CloseQueue, SendResult, PollNothing, Cancel, TryRecv, TryFinish
<1>6. CASE Call
  <2>1. CASE Fail(messages) /\ UNCHANGED nextId
    BY <1>2, <2>1, FailKeeps
  <2>2. CASE Request(step) /\ UNCHANGED <<step, sent, wire, messages>>
    BY <2>2, RequestKeeps DEF RequestsOK
  <2> QED
    BY <1>6, <2>1, <2>2 DEF Call
<1>7. ASSUME NEW cmd \in {"status", "subscribe", "unsubscribe"}, ProgramCalls(cmd)
      PROVE  RequestsOK'
  BY <1>7, RequestKeeps DEF ProgramCalls, Command
<1>8. CASE PrematureEof \/ Timeout \/ Mismatch \/ ServerError \/ PollUnexpected
  <2>1. nextId' = nextId /\ \E rest \in Seq(InOrder) : Fail(rest)
    BY <1>1, <1>2, <1>8 DEF PrematureEof, Timeout, Mismatch, ServerError, PollUnexpected
  <2> QED
    BY <2>1, FailKeeps
<1>9. CASE QueueNotification
  <2>1. CASE Fail(Tail(messages))
    BY <1>1, <1>9, <2>1, FailKeeps DEF QueueNotification
  <2>2. CASE messages' = Tail(messages) /\ UNCHANGED <<daemonVars, wire, workerVars, waiting>>
    <3>1. InOrder' = InOrder /\ Pending' = Pending
      BY <1>9, <2>2 DEF QueueNotification, InOrder, Pending
    <3> QED
      BY <1>1, <1>9, <2>2, <3>1 DEF QueueNotification, RequestsOK
  <2> QED
    BY <1>9, <2>1, <2>2 DEF QueueNotification
<1>10. CASE Response
  BY <1>1, <1>10, FailKeeps, RespondKeeps DEF Response
<1>11. CASE Ready
  <2>1. CASE Fail(messages)
    BY <1>2, <1>11, <2>1, FailKeeps DEF Ready
  <2>2. CASE step' = "poll" /\ UNCHANGED <<daemonVars, wire, messages, waiting>>
    <3>1. InOrder' = InOrder /\ Pending' = Pending
      BY <1>11, <2>2 DEF Ready, InOrder, Pending
    <3> QED
      BY <1>11, <2>2, <3>1 DEF Ready, RequestsOK
  <2> QED
    BY <1>11, <2>1, <2>2 DEF Ready
<1>12. CASE CheckStop
  BY <1>3, <1>12, CloseKeeps DEF CheckStop
<1>13. CASE PollBacklog \/ PollNotification
  <2>1. CASE Close("error")
    BY <1>13, <2>1, CloseKeeps DEF PollBacklog, PollNotification
  <2>2. CASE UNCHANGED <<nextId, step, sent, waiting, todo, wire>> /\ messages' \in {messages, Tail(messages)}
             /\ messages' \in Seq(InOrder)
    BY <2>2 DEF RequestsOK, InOrder, Pending
  <2> QED
    BY <1>1, <1>2, <1>13, <2>1, <2>2 DEF PollBacklog, PollNotification, Hand
<1> QED
  BY <1>3, <1>4, <1>5, <1>6, <1>7, <1>8, <1>9, <1>10, <1>11, <1>12, <1>13
  DEF SessionNext, Worker, vars

LEMMA FreshStep ==
  ASSUME RequestsOK, FreshAnswer, [SessionNext]_vars
  PROVE  FreshAnswer'
<1> USE DEF FreshAnswer
<1>1. CASE UNCHANGED fresh
  BY <1>1
<1>2. CASE Response
  <2>1. CASE Respond(Head(messages)) /\ Head(messages).type = "reply" /\ ForUs(Head(messages))
    <3> DEFINE m == Head(messages)
    <3>1. m \in InOrder
      BY <1>2 DEF Response, RequestsOK
    <3>2. m \in Reply /\ m.id = waiting.id /\ (m.id = waiting.id => m.at >= waiting.since)
      BY <2>1, <3>1 DEF InOrder, Note, Error, ForUs
    <3> QED
      BY <2>1, <3>2 DEF Respond
  <2>2. CASE UNCHANGED fresh
    BY <2>2
  <2> QED
    BY <1>2, <2>1, <2>2 DEF Response
<1>3. CASE ~Response
  <2>1. CASE Answer \/ Notify \/ Receive \/ HangUp \/ CloseQueue \/ SendResult \/ PollNothing
             \/ Cancel \/ TryRecv \/ TryFinish \/ UNCHANGED vars
    BY <2>1 DEF Answer, Notify, Receive, HangUp, CloseQueue, SendResult, PollNothing,
       Cancel, TryRecv, TryFinish, vars
  <2>2. CASE Call \/ \E cmd \in {"status", "subscribe", "unsubscribe"} : ProgramCalls(cmd)
    BY <2>2 DEF Call, ProgramCalls
  <2>3. CASE PrematureEof \/ Timeout \/ Mismatch \/ ServerError \/ PollUnexpected \/ QueueNotification
    BY <2>3 DEF PrematureEof, Timeout, Mismatch, ServerError, PollUnexpected, QueueNotification
  <2>4. CASE Ready \/ CheckStop \/ PollBacklog \/ PollNotification
    BY <2>4 DEF Ready, CheckStop, PollBacklog, PollNotification
  <2> QED
    BY <1>3, <2>1, <2>2, <2>3, <2>4 DEF SessionNext, Worker
<1> QED
  BY <1>2, <1>3

\* Every message on its way answers a request that was made before it, also
\* after requests that timed out (Client::request).
THEOREM SessionRequests == SessionSpec => []RequestsOK
<1>1. RequestsOK /\ [SessionNext]_vars => RequestsOK'
  BY RequestsStep
<1> QED
  BY RequestsInit, <1>1, PTL DEF SessionSpec

\* Client::request takes no late response for that of a later request.
THEOREM SessionFreshAnswer == SessionSpec => []FreshAnswer
<1>1. SessionInit => FreshAnswer
  BY DEF SessionInit, FreshAnswer
<1>2. RequestsOK /\ FreshAnswer /\ [SessionNext]_vars => FreshAnswer'
  BY FreshStep
<1> QED
  BY <1>1, <1>2, SessionRequests, PTL DEF SessionSpec

\* Once the queue is closed its sender does nothing more to it, so what the
\* user takes out last is the last event (try_recv, try_finish).
THEOREM SessionEndsLast == SessionSpec => []EndsLast
<1>1. SessionInit => EndsLast
  BY DEF SessionInit, EndsLast
<1>2. ASSUME EndsLast, [SessionNext]_vars
      PROVE  EndsLast'
  <2> USE DEF EndsLast
  <2>1. CASE TryRecv \/ TryFinish
    BY <1>2, <2>1 DEF TryRecv, TryFinish, Undelivered
  <2>2. CASE Answer \/ Notify \/ HangUp \/ Cancel \/ CloseQueue \/ SendResult \/ UNCHANGED vars
    BY <1>2, <2>2 DEF Answer, Notify, HangUp, Cancel, CloseQueue, SendResult, vars
  <2>3. CASE Call \/ \E cmd \in {"status", "subscribe", "unsubscribe"} : ProgramCalls(cmd)
    BY <1>2, <2>3 DEF Call, ProgramCalls
  <2>4. CASE Ready \/ CheckStop \/ PollBacklog \/ PollNotification
    BY <1>2, <2>4 DEF Ready, CheckStop, PollBacklog, PollNotification
  <2>5. CASE Receive \/ PrematureEof \/ Timeout \/ Mismatch \/ ServerError \/ PollUnexpected
             \/ QueueNotification \/ Response \/ PollNothing
    BY <1>2, <2>5 DEF Receive, PrematureEof, Timeout, Mismatch, ServerError,
       PollUnexpected, QueueNotification, Response, PollNothing
  <2> QED
    BY <1>2, <2>1, <2>2, <2>3, <2>4, <2>5 DEF SessionNext, Worker
<1> QED
  BY <1>1, <1>2, PTL DEF SessionSpec

-----------------------------------------------------------------------------
(***************************************************************************)
(* Sequences of notifications: which they hold, and in what order.         *)
(***************************************************************************)
Notes(s) == {e \in Range(s) : IsNote(e)}

Earlier(a, b) == \A e \in a, f \in b : e.seq < f.seq

LEMMA NotesAppend ==
  ASSUME NEW S, NEW s \in Seq(S), NEW e \in S
  PROVE  /\ Append(s, e) \in Seq(S)
         /\ IsNote(e) => \A x : x \in Notes(Append(s, e)) <=> x \in Notes(s) \/ x = e
         /\ ~IsNote(e) => Notes(Append(s, e)) = Notes(s)
         /\ Increasing(s) /\ (IsNote(e) => Earlier(Notes(s), {e})) => Increasing(Append(s, e))
<1> DEFINE r == Append(s, e)
           l == Len(s)
<1>1. /\ DOMAIN r = 1..(l + 1) /\ r[l + 1] = e /\ \A i \in 1..l : r[i] = s[i]
      /\ DOMAIN s = 1..l /\ l \in Nat /\ r \in Seq(S)
  OBVIOUS
<1> HIDE DEF r, l
<1>2. Range(r) = Range(s) \cup {e}
  BY <1>1 DEF Range
<1>3. ASSUME Increasing(s), IsNote(e) => Earlier(Notes(s), {e}) PROVE Increasing(r)
  <2> SUFFICES ASSUME NEW i \in DOMAIN r, NEW j \in DOMAIN r, i < j, IsNote(r[i]), IsNote(r[j])
               PROVE  r[i].seq < r[j].seq
    BY DEF Increasing
  <2>1. i \in DOMAIN s /\ r[i] = s[i]
    BY <1>1
  <2>2. CASE j \in DOMAIN s
    BY <1>1, <1>3, <2>1, <2>2 DEF Increasing
  <2>3. CASE j \notin DOMAIN s
    <3>1. r[j] = e /\ s[i] \in Notes(s)
      BY <1>1, <2>1, <2>3 DEF Notes, Range
    <3> QED
      BY <1>3, <2>1, <3>1 DEF Earlier
  <2> QED
    BY <2>2, <2>3
<1> QED
  BY <1>1, <1>2, <1>3 DEF Notes, r

LEMMA NotesTail ==
  ASSUME NEW S, NEW s \in Seq(S), s # <<>>, Increasing(s)
  PROVE  /\ Tail(s) \in Seq(S) /\ Head(s) \in S
         /\ Increasing(Tail(s))
         /\ IsNote(Head(s)) => /\ Notes(s) = Notes(Tail(s)) \cup {Head(s)}
                               /\ Earlier({Head(s)}, Notes(Tail(s)))
         /\ ~IsNote(Head(s)) => Notes(s) = Notes(Tail(s))
<1> DEFINE r == Tail(s)
           l == Len(s)
           e == Head(s)
<1>1. /\ DOMAIN r = 1..(l - 1) /\ \A i \in 1..(l - 1) : r[i] = s[i + 1]
      /\ DOMAIN s = 1..l /\ l \in Nat /\ l > 0 /\ s[1] = e /\ r \in Seq(S) /\ e \in S
  OBVIOUS
<1> HIDE DEF r, l, e
<1>2. Range(s) = Range(r) \cup {e}
  <2>1. \A i \in DOMAIN s : i = 1 \/ (i - 1 \in DOMAIN r /\ r[i - 1] = s[i])
    BY <1>1
  <2>2. \A i \in DOMAIN r : i + 1 \in DOMAIN s /\ r[i] = s[i + 1]
    BY <1>1
  <2> QED
    BY <1>1, <2>1, <2>2 DEF Range
<1>3. Increasing(r)
  <2> SUFFICES ASSUME NEW i \in DOMAIN r, NEW j \in DOMAIN r, i < j, IsNote(r[i]), IsNote(r[j])
               PROVE  r[i].seq < r[j].seq
    BY DEF Increasing
  <2>1. i + 1 \in DOMAIN s /\ j + 1 \in DOMAIN s /\ i + 1 < j + 1 /\ r[i] = s[i + 1] /\ r[j] = s[j + 1]
    BY <1>1
  <2> QED
    BY <2>1 DEF Increasing
<1>4. IsNote(e) => Earlier({e}, Notes(r))
  <2> SUFFICES ASSUME IsNote(e), NEW i \in DOMAIN r, IsNote(r[i]) PROVE e.seq < r[i].seq
    BY DEF Earlier, Notes, Range
  <2>1. i + 1 \in DOMAIN s /\ 1 \in DOMAIN s /\ 1 < i + 1 /\ r[i] = s[i + 1]
    BY <1>1
  <2> QED
    BY <1>1, <2>1 DEF Increasing
<1> QED
  BY <1>1, <1>2, <1>3, <1>4 DEF Notes, r, e

\* The first of one sequence becomes the last of another.
LEMMA HeadMoves ==
  ASSUME NEW S, NEW s \in Seq(S), NEW T, NEW t \in Seq(T), t # <<>>, Head(t) \in S,
         Increasing(s), Increasing(t), Earlier(Notes(s), Notes(t))
  PROVE  /\ Append(s, Head(t)) \in Seq(S) /\ Tail(t) \in Seq(T)
         /\ Increasing(Append(s, Head(t))) /\ Increasing(Tail(t))
         /\ Notes(Append(s, Head(t))) \cup Notes(Tail(t)) = Notes(s) \cup Notes(t)
         /\ Earlier(Notes(Append(s, Head(t))), Notes(Tail(t)))
         /\ Notes(s) \subseteq Notes(Append(s, Head(t)))
         /\ Notes(Append(s, Head(t))) \subseteq Notes(s) \cup {Head(t)}
<1>1. /\ Tail(t) \in Seq(T) /\ Increasing(Tail(t))
      /\ IsNote(Head(t)) => /\ Notes(t) = Notes(Tail(t)) \cup {Head(t)}
                            /\ Earlier({Head(t)}, Notes(Tail(t)))
      /\ ~IsNote(Head(t)) => Notes(t) = Notes(Tail(t))
  BY NotesTail
<1>2. IsNote(Head(t)) => Earlier(Notes(s), {Head(t)})
  BY <1>1 DEF Earlier
<1> DEFINE h == Head(t)
<1>3. h \in S /\ (IsNote(h) => Earlier(Notes(s), {h}))
  BY <1>2
<1> HIDE DEF h
<1>4. /\ Append(s, h) \in Seq(S) /\ Increasing(Append(s, h))
      /\ IsNote(h) => \A x : x \in Notes(Append(s, h)) <=> x \in Notes(s) \/ x = h
      /\ ~IsNote(h) => Notes(Append(s, h)) = Notes(s)
  BY <1>3, NotesAppend
<1> QED
  BY <1>1, <1>4 DEF Earlier, h

LEMMA NotesJoin ==
  ASSUME NEW S, NEW s \in Seq(S), NEW t \in Seq(S)
  PROVE  /\ s \o t \in Seq(S)
         /\ Range(s \o t) = Range(s) \cup Range(t)
         /\ Notes(s \o t) = Notes(s) \cup Notes(t)
         /\ Increasing(s) /\ Increasing(t) /\ Earlier(Notes(s), Notes(t)) => Increasing(s \o t)
<1> DEFINE r == s \o t
           l == Len(s)
           m == Len(t)
<1>1. /\ DOMAIN r = 1..(l + m) /\ r \in Seq(S) /\ l \in Nat /\ m \in Nat
      /\ \A i \in 1..l : r[i] = s[i]
      /\ \A i \in 1..m : r[l + i] = t[i]
      /\ DOMAIN s = 1..l /\ DOMAIN t = 1..m
  OBVIOUS
<1> HIDE DEF r, l, m
<1>2. \A i \in DOMAIN r : \/ i \in DOMAIN s /\ r[i] = s[i]
                          \/ i > l /\ i - l \in DOMAIN t /\ r[i] = t[i - l]
  <2> SUFFICES ASSUME NEW i \in DOMAIN r, i \notin DOMAIN s
               PROVE  i > l /\ i - l \in DOMAIN t /\ r[i] = t[i - l]
    BY <1>1
  <2>1. i > l /\ i - l \in 1..m /\ l + (i - l) = i
    BY <1>1
  <2>2. r[l + (i - l)] = t[i - l]
    BY <1>1, <2>1
  <2> QED
    BY <1>1, <2>1, <2>2
<1>3. Range(r) = Range(s) \cup Range(t)
  <2>1. \A i \in DOMAIN t : l + i \in DOMAIN r /\ r[l + i] = t[i]
    BY <1>1
  <2>2. \A i \in DOMAIN s : i \in DOMAIN r /\ r[i] = s[i]
    BY <1>1
  <2> QED
    BY <1>2, <2>1, <2>2 DEF Range
<1>4. ASSUME Increasing(s), Increasing(t), Earlier(Notes(s), Notes(t)) PROVE Increasing(r)
  <2> SUFFICES ASSUME NEW i \in DOMAIN r, NEW j \in DOMAIN r, i < j, IsNote(r[i]), IsNote(r[j])
               PROVE  r[i].seq < r[j].seq
    BY DEF Increasing
  <2>1. CASE i \in DOMAIN s /\ j \in DOMAIN s
    BY <1>1, <1>4, <2>1 DEF Increasing
  <2>2. CASE i \in DOMAIN s /\ j \notin DOMAIN s
    <3>1. r[i] = s[i] /\ j - l \in DOMAIN t /\ r[j] = t[j - l]
      BY <1>1, <1>2, <2>2
    <3>2. s[i] \in Notes(s) /\ t[j - l] \in Notes(t)
      BY <2>2, <3>1 DEF Notes, Range
    <3> QED
      BY <1>4, <3>1, <3>2 DEF Earlier
  <2>3. CASE i \notin DOMAIN s
    <3>1. j \notin DOMAIN s
      BY <1>1, <2>3
    <3>2. i - l \in DOMAIN t /\ r[i] = t[i - l] /\ j - l \in DOMAIN t /\ r[j] = t[j - l] /\ i - l < j - l
      BY <1>1, <1>2, <2>3, <3>1
    <3> QED
      BY <1>4, <3>2 DEF Increasing
  <2> QED
    BY <2>1, <2>2, <2>3
<1> QED
  BY <1>1, <1>3, <1>4 DEF Notes, r

\* A chunk of what is on the wire.
LEMMA NotesSplit ==
  ASSUME NEW S, NEW s \in Seq(S), Increasing(s), NEW k \in 1..Len(s)
  PROVE  LET a == SubSeq(s, 1, k)
             b == SubSeq(s, k + 1, Len(s))
         IN  /\ Increasing(a) /\ Increasing(b) /\ Earlier(Notes(a), Notes(b))
             /\ Notes(s) = Notes(a) \cup Notes(b)
<1> DEFINE a == SubSeq(s, 1, k)
           b == SubSeq(s, k + 1, Len(s))
           l == Len(s)
<1>1. /\ DOMAIN s = 1..l /\ l \in Nat
      /\ DOMAIN a = 1..k /\ \A i \in 1..k : a[i] = s[i]
      /\ DOMAIN b = 1..(l - k) /\ \A i \in 1..(l - k) : b[i] = s[k + i]
  OBVIOUS
<1>2. k \in 1..l
  OBVIOUS
<1> HIDE DEF a, b, l
<1>3. \A i \in DOMAIN a : i \in DOMAIN s /\ a[i] = s[i] /\ i <= k
  BY <1>1, <1>2
<1>4. \A i \in DOMAIN b : k + i \in DOMAIN s /\ b[i] = s[k + i] /\ k < k + i
  BY <1>1, <1>2
<1>5. \A i \in DOMAIN s : i \in DOMAIN a \/ (i - k \in DOMAIN b /\ b[i - k] = s[i])
  BY <1>1, <1>2
<1>6. Range(s) = Range(a) \cup Range(b)
  BY <1>3, <1>4, <1>5 DEF Range
<1>7. Increasing(a)
  BY <1>1, <1>3 DEF Increasing
<1>8. Increasing(b)
  <2> SUFFICES ASSUME NEW i \in DOMAIN b, NEW j \in DOMAIN b, i < j, IsNote(b[i]), IsNote(b[j])
               PROVE  b[i].seq < b[j].seq
    BY DEF Increasing
  <2>1. k + i < k + j
    BY <1>1, <1>2
  <2> QED
    BY <1>4, <2>1 DEF Increasing
<1>9. Earlier(Notes(a), Notes(b))
  <2> SUFFICES ASSUME NEW i \in DOMAIN a, NEW j \in DOMAIN b, IsNote(a[i]), IsNote(b[j])
               PROVE  a[i].seq < b[j].seq
    BY DEF Earlier, Notes, Range
  <2>1. i < k + j
    BY <1>1, <1>2
  <2> QED
    BY <1>3, <1>4, <2>1 DEF Increasing
<1> QED
  BY <1>6, <1>7, <1>8, <1>9 DEF Notes, a, b, l

\* One element is taken out.
LEMMA NotesRemove ==
  ASSUME NEW S, NEW s \in Seq(S), Increasing(s), NEW k \in DOMAIN s
  PROVE  LET r == RemoveAt(s, k)
         IN  /\ r \in Seq(S) /\ Increasing(r)
             /\ Notes(r) \subseteq Notes(s)
             /\ \A e \in Notes(s) : e # s[k] => e \in Notes(r)
<1> DEFINE a == SubSeq(s, 1, k - 1)
           b == SubSeq(s, k + 1, Len(s))
           l == Len(s)
           r == a \o b
<1>1. /\ DOMAIN s = 1..l /\ l \in Nat /\ k \in 1..l
      /\ DOMAIN a = 1..(k - 1) /\ \A i \in 1..(k - 1) : a[i] = s[i]
      /\ DOMAIN b = 1..(l - k) /\ \A i \in 1..(l - k) : b[i] = s[k + i]
      /\ a \in Seq(S) /\ b \in Seq(S)
  OBVIOUS
<1> HIDE DEF a, b, l
<1>2. \A i \in DOMAIN a : i \in DOMAIN s /\ a[i] = s[i]
  BY <1>1
<1>3. \A i \in DOMAIN b : k + i \in DOMAIN s /\ b[i] = s[k + i]
  BY <1>1
<1>4. ASSUME NEW i \in DOMAIN s, i # k
      PROVE  i \in DOMAIN a \/ (i - k \in DOMAIN b /\ b[i - k] = s[i])
  <2>1. CASE i < k
    BY <1>1, <2>1
  <2>2. CASE i > k
    <3>1. i - k \in 1..(l - k) /\ k + (i - k) = i
      BY <1>1, <2>2
    <3>2. b[i - k] = s[k + (i - k)]
      BY <1>1, <3>1
    <3> QED
      BY <1>1, <3>1, <3>2
  <2> QED
    BY <1>1, <1>4, <2>1, <2>2
<1>5. Range(a) \cup Range(b) \subseteq Range(s)
  BY <1>2, <1>3 DEF Range
<1>6. \A e \in Range(s) : e # s[k] => e \in Range(a) \cup Range(b)
  <2> SUFFICES ASSUME NEW i \in DOMAIN s, s[i] # s[k] PROVE s[i] \in Range(a) \cup Range(b)
    BY DEF Range
  <2> QED
    BY <1>2, <1>4 DEF Range
<1>7. Increasing(a)
  BY <1>1, <1>2 DEF Increasing
<1>8. Increasing(b)
  <2> SUFFICES ASSUME NEW i \in DOMAIN b, NEW j \in DOMAIN b, i < j, IsNote(b[i]), IsNote(b[j])
               PROVE  b[i].seq < b[j].seq
    BY DEF Increasing
  <2>1. k + i < k + j
    BY <1>1
  <2> QED
    BY <1>3, <2>1 DEF Increasing
<1>9. Earlier(Notes(a), Notes(b))
  <2> SUFFICES ASSUME NEW i \in DOMAIN a, NEW j \in DOMAIN b, IsNote(a[i]), IsNote(b[j])
               PROVE  a[i].seq < b[j].seq
    BY DEF Earlier, Notes, Range
  <2>1. i < k + j
    BY <1>1
  <2> QED
    BY <1>2, <1>3, <2>1 DEF Increasing
<1>10. /\ r \in Seq(S) /\ Range(r) = Range(a) \cup Range(b) /\ Notes(r) = Notes(a) \cup Notes(b)
       /\ Increasing(r)
  BY <1>1, <1>7, <1>8, <1>9, NotesJoin
<1>11. RemoveAt(s, k) = r
  BY DEF RemoveAt, a, b, r
<1> HIDE DEF r
<1>12. Notes(r) \subseteq Notes(s) /\ \A e \in Notes(s) : e # s[k] => e \in Notes(r)
  BY <1>5, <1>6, <1>10 DEF Notes
<1> QED
  BY <1>10, <1>11, <1>12

-----------------------------------------------------------------------------
(***************************************************************************)
(* The way of a notification from the daemon to the user: over the wire,   *)
(* the messages of a chunk, the backlog and the queue, always behind those *)
(* that were sent before it.                                               *)
(***************************************************************************)
Event == Note \cup {Connected}

HandedNotes == Notes(delivered) \cup Notes(pendingEvent) \cup Notes(queue)
LaterNotes == Notes(backlog) \cup Notes(messages) \cup Notes(wire)

PartsOK ==
    /\ delivered \in Seq(Event) /\ pendingEvent \in Seq(Event) /\ queue \in Seq(Event)
    /\ backlog \in Seq(Note)

HandedOrder ==
    /\ Increasing(delivered) /\ Increasing(pendingEvent) /\ Increasing(queue)
    /\ Earlier(Notes(delivered), Notes(pendingEvent) \cup Notes(queue))
    /\ Earlier(Notes(pendingEvent), Notes(queue))

LaterOrder ==
    /\ Increasing(backlog) /\ Increasing(messages) /\ Increasing(wire)
    /\ Earlier(Notes(backlog), Notes(messages) \cup Notes(wire))
    /\ Earlier(Notes(messages), Notes(wire))

SentOK ==
    /\ \A i \in DOMAIN sent : sent[i].seq = i
    /\ HandedNotes \cup LaterNotes \subseteq Range(sent)

\* Nothing is sent before the devices are chosen, and nothing happens after the end.
UserOK ==
    /\ user = "program" => step \in {"hello", "poll"} /\ queue = <<>> /\ pendingEvent = <<>>
    /\ user # "program" /\ step \in {"hello", "status", "devices"} =>
         sent = <<>> /\ ~subscribed /\ \A i \in DOMAIN todo : todo[i].cmd # "subscribe"
    /\ terminated => pc \in {"poll"} \cup Ended
    /\ pc \in Ended => ~up

Controls(notes) == {e \in notes : IsControl(e)}

KeptOK ==
    /\ pc \notin Ended /\ ~terminated =>
         Controls(Range(sent)) \subseteq HandedNotes \cup LaterNotes
    /\ \A e \in Controls(HandedNotes), f \in Controls(Range(sent)) :
         f.seq < e.seq => f \in HandedNotes

WayOK ==
    /\ PartsOK /\ HandedOrder /\ LaterOrder /\ Earlier(HandedNotes, LaterNotes)
    /\ SentOK /\ KeptOK

FlowOK == WayOK /\ UserOK

-----------------------------------------------------------------------------
\* Only a connected thread that has chosen its devices is sent anything.
LEMMA UserStep ==
  ASSUME RequestsOK, UserOK, [SessionNext]_vars
  PROVE  UserOK'
<1> USE DEF UserOK
<1>1. todo \in Seq(Pending) /\ step \in Command \cup {"poll"}
  BY DEF RequestsOK
<1>2. ASSUME NEW outcome, Close(outcome), UNCHANGED <<user, queue, pendingEvent>> PROVE UserOK'
  BY <1>2 DEF Close, Ended
<1>3. ASSUME NEW rest, Fail(rest), UNCHANGED <<user, queue, pendingEvent>>,
             terminated' = terminated \/ terminated' = TRUE
      PROVE  UserOK'
  <2>1. CASE user = "program" /\ step = "poll"
    BY <1>3, <2>1 DEF Fail, Ended
  <2>2. CASE ~(user = "program" /\ step = "poll")
    <3>1. Close(IF cancelled /\ step # "poll" THEN "ok" ELSE "error")
      BY <1>3, <2>2 DEF Fail
    <3> QED
      BY <1>2, <1>3, <3>1
  <2> QED
    BY <2>1, <2>2
<1>4. ASSUME NEW cmd, Request(cmd), cmd = step \/ user = "program", ~terminated, pc \notin Ended,
             UNCHANGED <<user, queue, pendingEvent, step, sent, subscribed, terminated>>
      PROVE  UserOK'
  <2>1. waiting'.cmd = cmd /\ (todo' = todo \/ todo' = Append(todo, waiting')) /\ pc' = "wait"
    BY <1>4 DEF Request
  <2>2. ASSUME user # "program", step \in {"hello", "status", "devices"}
        PROVE  \A i \in DOMAIN todo' : todo'[i].cmd # "subscribe"
    BY <1>1, <1>4, <2>1, <2>2
  <2> QED
    BY <1>4, <2>1, <2>2 DEF Ended
<1>5. CASE Answer
  <2>1. todo # <<>> /\ todo' = Tail(todo)
    BY <1>5 DEF Answer
  <2>2. ASSUME user # "program", step \in {"hello", "status", "devices"}
        PROVE  ~subscribed' /\ \A i \in DOMAIN todo' : todo'[i].cmd # "subscribe"
    <3>1. \A i \in DOMAIN todo : todo[i].cmd # "subscribe"
      BY <2>2
    <3>2. Head(todo).cmd # "subscribe"
      BY <1>1, <2>1, <3>1
    <3>3. \A i \in DOMAIN todo' : i + 1 \in DOMAIN todo /\ todo'[i] = todo[i + 1]
      BY <1>1, <2>1
    <3>4. ~subscribed'
      BY <1>5, <2>2, <3>2 DEF Answer
    <3> QED
      BY <3>1, <3>3, <3>4
  <2> QED
    BY <1>5, <2>2 DEF Answer, workerVars, clientVars, uiVars
<1>6. CASE Notify
  BY <1>6 DEF Notify
<1>7. CASE HangUp \/ CloseQueue \/ SendResult \/ Cancel \/ UNCHANGED vars
  BY <1>7 DEF HangUp, CloseQueue, SendResult, Cancel, vars, Ended
<1>8. CASE TryRecv \/ TryFinish
  BY <1>8 DEF TryRecv, TryFinish, Ended, Undelivered
<1>9. CASE Call
  BY <1>3, <1>4, <1>9 DEF Call, Ended
<1>10. ASSUME NEW cmd \in {"status", "subscribe", "unsubscribe"}, ProgramCalls(cmd) PROVE UserOK'
  BY <1>4, <1>10 DEF ProgramCalls, Ended
<1>11. CASE PrematureEof \/ Timeout \/ Mismatch \/ ServerError \/ PollUnexpected
  BY <1>3, <1>11 DEF PrematureEof, Timeout, Mismatch, ServerError, PollUnexpected
<1>12. CASE QueueNotification
  BY <1>3, <1>12 DEF QueueNotification
<1>13. CASE Receive \/ PollNothing
  BY <1>13 DEF Receive, PollNothing, Ended
<1>14. CASE Response
  <2>1. CASE Respond(Head(messages))
    <3>1. pc = "wait" /\ ~terminated /\ UNCHANGED <<user, terminated, queue, pendingEvent>>
      BY <1>14 DEF Response, Ended
    <3>2. UNCHANGED <<sent, subscribed, todo, up>> /\ pc' \in {"poll", "call"}
      BY <2>1 DEF Respond
    <3>3. user = "program" => step' \in {"hello", "poll"}
      BY <2>1 DEF Respond, Following
    <3>4. step' \in {"hello", "status", "devices"} /\ user # "program"
            => step \in {"hello", "status", "devices"}
      BY <2>1, <1>1 DEF Respond, Following, Command
    <3> QED
      BY <3>1, <3>2, <3>3, <3>4 DEF Ended
  <2>2. CASE Fail(Tail(messages))
    BY <1>3, <1>14, <2>2 DEF Response
  <2> QED
    BY <1>14, <2>1, <2>2 DEF Response
<1>15. CASE Ready
  <2>1. CASE Fail(messages) /\ UNCHANGED queue
    BY <1>3, <1>15, <2>1 DEF Ready
  <2>2. CASE pc' = "poll" /\ step' = "poll" /\ UNCHANGED <<daemonVars, messages>>
    BY <1>15, <2>2 DEF Ready, Ended
  <2> QED
    BY <1>15, <2>1, <2>2 DEF Ready
<1>16. CASE CheckStop
  BY <1>2, <1>16 DEF CheckStop, Ended
<1>17. CASE PollBacklog \/ PollNotification
  <2>1. CASE Close("error")
    <3>1. pc = "read" /\ UNCHANGED <<user, terminated, pendingEvent>> /\ queue' = queue
      BY <1>17, <2>1 DEF PollBacklog, PollNotification, Hand, Close
    <3> QED
      BY <1>2, <2>1, <3>1
  <2>2. CASE pc' = "poll" /\ UNCHANGED <<step, daemonVars>>
    BY <1>17, <2>2 DEF PollBacklog, PollNotification, Hand, Ended
  <2> QED
    BY <1>17, <2>1, <2>2 DEF PollBacklog, PollNotification, Hand
<1> QED
  BY <1>5, <1>6, <1>7, <1>8, <1>9, <1>10, <1>11, <1>12, <1>13, <1>14, <1>15, <1>16, <1>17
  DEF SessionNext, Worker

-----------------------------------------------------------------------------
LEMMA SmallestIn ==
  ASSUME NEW S, S \subseteq Nat, S # {}
  PROVE  Min(S) \in S
<1> DEFINE R == OpToRel(<, Nat)
<1>1. IsWellFoundedOn(R, Nat)
  BY NatLessThanWellFounded
<1>2. PICK x \in S : \A y \in S : <<y, x>> \notin R
  <2> HIDE DEF R
  <2> QED
    BY <1>1, WFMin
<1>3. \A y \in S : x <= y
  <2> SUFFICES ASSUME NEW y \in S, y < x PROVE FALSE
    OBVIOUS
  <2>1. <<y, x>> \in R
    BY DEF OpToRel
  <2> QED
    BY <1>2, <2>1
<1>4. \E z \in S : \A y \in S : z <= y
  BY <1>3
<1> QED
  BY <1>4, Zenon DEF Min

\* What the queue makes room for goes to its end, and only sensor values go
\* (EventQueue::send).
LEMMA SentKeeps ==
  ASSUME queue \in Seq(Event), Increasing(queue), NEW e \in Event,
         IsNote(e) => Earlier(Notes(queue), {e})
  PROVE  /\ Sent(e) \in Seq(Event) /\ Increasing(Sent(e))
         /\ Notes(Sent(e)) \subseteq Notes(queue) \cup {e}
         /\ \A x \in Notes(queue) : ~IsSensor(x) => x \in Notes(Sent(e))
         /\ IsNote(e) /\ ~IsSensor(e) /\ ~Overflows(e) => e \in Notes(Sent(e))
<1>1. CASE ~Full
  <2>1. Sent(e) = Append(queue, e)
    BY <1>1 DEF Sent
  <2>2. /\ Append(queue, e) \in Seq(Event) /\ Increasing(Append(queue, e))
        /\ IsNote(e) => \A x : x \in Notes(Append(queue, e)) <=> x \in Notes(queue) \/ x = e
        /\ ~IsNote(e) => Notes(Append(queue, e)) = Notes(queue)
    BY NotesAppend
  <2> QED
    BY <2>1, <2>2
<1>2. CASE Full /\ Victims(e) = {}
  <2>1. Sent(e) = queue
    BY <1>2 DEF Sent
  <2> QED
    BY <1>2, <2>1 DEF Overflows
<1>3. CASE Full /\ Victims(e) # {}
  <2> DEFINE k == Min(Victims(e))
             r == RemoveAt(queue, k)
  <2>1. \A i \in Victims(e) : i \in DOMAIN queue /\ IsSensor(queue[i])
    BY DEF Victims, Evictable
  <2>2. k \in DOMAIN queue /\ IsSensor(queue[k])
    <3>1. DOMAIN queue \subseteq Nat
      OBVIOUS
    <3>2. k \in Victims(e)
      BY <1>3, <2>1, <3>1, SmallestIn
    <3> QED
      BY <2>1, <3>2
  <2>3. Sent(e) = Append(r, e)
    BY <1>3 DEF Sent
  <2> HIDE DEF k
  <2>4. /\ r \in Seq(Event) /\ Increasing(r) /\ Notes(r) \subseteq Notes(queue)
        /\ \A x \in Notes(queue) : x # queue[k] => x \in Notes(r)
    BY <2>2, NotesRemove
  <2> HIDE DEF r
  <2>5. IsNote(e) => Earlier(Notes(r), {e})
    BY <2>4 DEF Earlier
  <2>6. /\ Append(r, e) \in Seq(Event) /\ Increasing(Append(r, e))
        /\ IsNote(e) => \A x : x \in Notes(Append(r, e)) <=> x \in Notes(r) \/ x = e
        /\ ~IsNote(e) => Notes(Append(r, e)) = Notes(r)
    BY <2>4, <2>5, NotesAppend
  <2> QED
    BY <2>2, <2>3, <2>4, <2>6
<1> QED
  BY <1>1, <1>2, <1>3

\* A step that hands over only what is next, and drops controls only at the end.
LEMMA KeptFrom ==
  ASSUME RequestsOK, FlowOK, sent' = sent, selected' = selected,
         pc' \notin Ended /\ ~terminated' =>
           /\ pc \notin Ended /\ ~terminated
           /\ \A e \in HandedNotes \cup LaterNotes :
                IsControl(e) => e \in HandedNotes' \cup LaterNotes',
         \A e \in HandedNotes : IsControl(e) => e \in HandedNotes',
         \A e \in HandedNotes' : e \in HandedNotes
           \/ /\ e \in LaterNotes /\ pc \notin Ended /\ ~terminated
              /\ \A f \in LaterNotes : f = e \/ e.seq < f.seq
  PROVE  KeptOK'
<1>1. \A e : IsControl(e)' <=> IsControl(e)
  BY DEF IsControl, IsNote
<1>2. \A e \in Range(sent) : e.seq \in Nat
  <2>1. \A n \in Note : n.seq \in Nat
    BY DEF Note
  <2>2. sent \in Seq(Note)
    BY DEF RequestsOK
  <2> QED
    BY <2>1, <2>2 DEF Range
<1>3. HandedNotes \cup LaterNotes \subseteq Range(sent)
  BY DEF FlowOK, WayOK, SentOK
<1>4. ASSUME pc' \notin Ended, ~terminated', NEW e \in Range(sent), IsControl(e)
      PROVE  e \in HandedNotes' \cup LaterNotes'
  BY <1>4 DEF FlowOK, WayOK, KeptOK, Controls
<1>5. ASSUME NEW e \in HandedNotes', IsControl(e), NEW f \in Range(sent), IsControl(f), f.seq < e.seq
      PROVE  f \in HandedNotes'
  <2>1. CASE e \in HandedNotes
    BY <1>5, <2>1 DEF FlowOK, WayOK, KeptOK, Controls
  <2>2. CASE e \in LaterNotes /\ pc \notin Ended /\ ~terminated /\ \A g \in LaterNotes : g = e \/ e.seq < g.seq
    <3>1. f \in HandedNotes \cup LaterNotes
      BY <1>5, <2>2 DEF FlowOK, WayOK, KeptOK, Controls
    <3>2. f \notin LaterNotes
      BY <1>2, <1>3, <1>5, <2>2
    <3> QED
      BY <3>1, <3>2, <1>5
  <2> QED
    BY <2>1, <2>2
<1> QED
  BY <1>1, <1>4, <1>5 DEF KeptOK, Controls

\* Nothing moves.
LEMMA StillKeeps ==
  ASSUME RequestsOK, FlowOK,
         UNCHANGED <<sent, selected, delivered, pendingEvent, queue, backlog, messages, wire>>,
         pc' \notin Ended /\ ~terminated' => pc \notin Ended /\ ~terminated
  PROVE  WayOK'
<1>1. HandedNotes' = HandedNotes /\ LaterNotes' = LaterNotes
  BY DEF HandedNotes, LaterNotes
<1>2. KeptOK'
  BY <1>1, KeptFrom
<1> QED
  BY <1>1, <1>2 DEF FlowOK, WayOK, PartsOK, HandedOrder, LaterOrder, SentOK

\* The end drops what is on its way and keeps what was handed over.
LEMMA CloseWay ==
  ASSUME RequestsOK, FlowOK, NEW outcome, Close(outcome), UNCHANGED <<delivered, pendingEvent, queue>>
  PROVE  WayOK'
<1>1. HandedNotes' = HandedNotes
  BY DEF HandedNotes
<1>2. Notes(<<>>) = {} /\ Increasing(<<>>) /\ <<>> \in Seq(Note)
  BY DEF Notes, Range, Increasing
<1>3. /\ backlog' = <<>> /\ messages' = <<>> /\ wire' = <<>> /\ sent' = sent /\ selected' = selected
      /\ pc' \in Ended
  BY DEF Close, Ended
<1>4. LaterNotes' = {}
  BY <1>2, <1>3 DEF LaterNotes
<1>5. KeptOK'
  BY <1>1, <1>3, KeptFrom
<1>6. LaterOrder'
  BY <1>2, <1>3 DEF LaterOrder, Earlier
<1> QED
  BY <1>1, <1>2, <1>3, <1>4, <1>5, <1>6
  DEF FlowOK, WayOK, PartsOK, HandedOrder, SentOK, Earlier

\* A response is taken off the messages, or what comes when the backlog overflows; the
\* devices are chosen before anything is sent.
LEMMA DropKeeps ==
  ASSUME RequestsOK, FlowOK, messages # <<>>, messages' = Tail(messages),
         ~IsNote(Head(messages)) \/ terminated',
         UNCHANGED <<sent, delivered, pendingEvent, queue, backlog, wire>>,
         selected' = selected \/ sent = <<>>,
         pc' \notin Ended /\ ~terminated' => pc \notin Ended /\ ~terminated
  PROVE  WayOK'
<1>1. /\ Notes(messages') \subseteq Notes(messages) /\ Increasing(messages')
      /\ ~IsNote(Head(messages)) => Notes(messages') = Notes(messages)
  <2>1. messages \in Seq(InOrder) /\ Increasing(messages)
    BY DEF RequestsOK, FlowOK, WayOK, LaterOrder
  <2> QED
    BY <2>1, NotesTail
<1>2. /\ HandedNotes' = HandedNotes /\ LaterNotes' \subseteq LaterNotes
      /\ LaterNotes' = LaterNotes \/ terminated'
  BY <1>1 DEF HandedNotes, LaterNotes
<1>3. KeptOK'
  <2>1. CASE selected' = selected
    BY <1>2, <2>1, KeptFrom
  <2>2. CASE sent = <<>>
    <3>1. Range(sent') = {}
      BY <2>2 DEF Range
    <3> QED
      BY <3>1 DEF KeptOK, Controls
  <2> QED
    BY <2>1, <2>2
<1>4. LaterOrder'
  BY <1>1 DEF FlowOK, WayOK, LaterOrder, Earlier
<1>5. SentOK'
  BY <1>2 DEF FlowOK, WayOK, SentOK
<1>6. Earlier(HandedNotes, LaterNotes)' /\ PartsOK' /\ HandedOrder'
  BY <1>2 DEF FlowOK, WayOK, PartsOK, HandedOrder, Earlier
<1> QED
  BY <1>3, <1>4, <1>5, <1>6 DEF WayOK

LEMMA FailWay ==
  ASSUME RequestsOK, FlowOK, NEW rest, Fail(rest), UNCHANGED <<delivered, pendingEvent, queue>>,
         pc \notin Ended, ~terminated \/ terminated',
         \/ rest = messages
         \/ /\ messages # <<>> /\ rest = Tail(messages)
            /\ ~IsNote(Head(messages)) \/ terminated'
  PROVE  WayOK'
<1>1. CASE user = "program" /\ step = "poll"
  <2>1. /\ messages' = rest
        /\ UNCHANGED <<sent, selected, delivered, pendingEvent, queue, backlog, wire>>
    BY <1>1 DEF Fail
  <2>2. CASE rest = messages
    BY <2>1, <2>2, StillKeeps
  <2>3. CASE messages # <<>> /\ rest = Tail(messages) /\ (~IsNote(Head(messages)) \/ terminated')
    BY <2>1, <2>3, DropKeeps
  <2> QED
    BY <2>2, <2>3
<1>2. CASE ~(user = "program" /\ step = "poll")
  <2>1. Close(IF cancelled /\ step # "poll" THEN "ok" ELSE "error")
    BY <1>2 DEF Fail
  <2> QED
    BY <2>1, CloseWay
<1> QED
  BY <1>1, <1>2

\* A notification waits in the backlog for the response that is awaited.
LEMMA BacklogKeeps ==
  ASSUME RequestsOK, FlowOK, messages # <<>>, IsNote(Head(messages)),
         backlog' = Append(backlog, Head(messages)), messages' = Tail(messages),
         UNCHANGED <<sent, selected, delivered, pendingEvent, queue, wire, terminated>>, pc \notin Ended
  PROVE  WayOK'
<1>1. /\ messages \in Seq(InOrder) /\ backlog \in Seq(Note) /\ Increasing(messages) /\ Increasing(backlog)
      /\ Earlier(Notes(backlog), Notes(messages))
  BY DEF RequestsOK, FlowOK, WayOK, PartsOK, LaterOrder, Earlier
<1>2. Head(messages) \in Note
  BY <1>1 DEF InOrder, Reply, Error, IsNote
<1>3. /\ backlog' \in Seq(Note) /\ Increasing(backlog') /\ Increasing(messages')
      /\ Notes(backlog') \cup Notes(messages') = Notes(backlog) \cup Notes(messages)
      /\ Earlier(Notes(backlog'), Notes(messages'))
  BY <1>1, <1>2, HeadMoves
<1>4. HandedNotes' = HandedNotes /\ LaterNotes' = LaterNotes
  BY <1>3 DEF HandedNotes, LaterNotes
<1>5. KeptOK'
  BY <1>4, KeptFrom
<1>6. LaterOrder'
  BY <1>3 DEF FlowOK, WayOK, LaterOrder, Earlier
<1>7. SentOK' /\ Earlier(HandedNotes, LaterNotes)' /\ HandedOrder' /\ PartsOK'
  BY <1>3, <1>4 DEF FlowOK, WayOK, SentOK, HandedOrder, PartsOK
<1> QED
  BY <1>5, <1>6, <1>7 DEF WayOK

LEMMA ReceiveWay == ASSUME RequestsOK, FlowOK, Receive PROVE WayOK'
<1>1. PICK k \in 1..Len(wire) :
         messages' = SubSeq(wire, 1, k) /\ wire' = SubSeq(wire, k + 1, Len(wire))
  BY DEF Receive
<1>2. /\ messages = <<>>
      /\ UNCHANGED <<sent, selected, delivered, pendingEvent, queue, backlog, terminated, pc>>
  BY DEF Receive
<1>3. wire \in Seq(InOrder) /\ Increasing(wire) /\ Notes(messages) = {}
  BY <1>2 DEF RequestsOK, FlowOK, WayOK, LaterOrder, Notes, Range
<1>4. /\ Increasing(messages') /\ Increasing(wire') /\ Earlier(Notes(messages'), Notes(wire'))
      /\ Notes(wire) = Notes(messages') \cup Notes(wire')
  BY <1>1, <1>3, NotesSplit
<1>5. HandedNotes' = HandedNotes /\ LaterNotes' = LaterNotes
  BY <1>2, <1>3, <1>4 DEF HandedNotes, LaterNotes
<1>6. KeptOK'
  BY <1>2, <1>5, KeptFrom
<1>7. LaterOrder'
  BY <1>2, <1>4 DEF FlowOK, WayOK, LaterOrder, Earlier
<1>8. SentOK' /\ Earlier(HandedNotes, LaterNotes)' /\ HandedOrder' /\ PartsOK'
  BY <1>2, <1>5 DEF FlowOK, WayOK, SentOK, HandedOrder, PartsOK
<1> QED
  BY <1>6, <1>7, <1>8 DEF WayOK

LEMMA AnswerWay == ASSUME RequestsOK, FlowOK, Answer PROVE WayOK'
<1>1. PICK m : wire' = Append(wire, m) /\ ~IsNote(m)
  <2>1. \/ \E v \in Values(Head(todo).cmd) :
              wire' = Append(wire, [type |-> "reply", id |-> Head(todo).id,
                                    cmd |-> Head(todo).cmd, value |-> v,
                                    at |-> Len(sent)])
        \/ wire' = Append(wire, [type |-> "error", id |-> Head(todo).id])
    BY Zenon DEF Answer
  <2>2. /\ \A v : ~IsNote([type |-> "reply", id |-> Head(todo).id, cmd |-> Head(todo).cmd,
                         value |-> v, at |-> Len(sent)])
        /\ ~IsNote([type |-> "error", id |-> Head(todo).id])
    BY DEF IsNote
  <2> QED
    BY <2>1, <2>2, Zenon
<1>2. UNCHANGED <<sent, selected, delivered, pendingEvent, queue, backlog, messages, terminated, pc>>
  BY DEF Answer
<1>3. wire \in Seq(InOrder \cup {m}) /\ Increasing(wire)
  <2>1. wire \in Seq(InOrder) /\ InOrder \subseteq InOrder \cup {m}
    BY DEF RequestsOK
  <2>2. wire \in Seq(InOrder \cup {m})
    BY <2>1, SeqLarger
  <2> QED
    BY <2>2 DEF FlowOK, WayOK, LaterOrder
<1>4. Notes(wire') = Notes(wire) /\ Increasing(wire')
  <2> DEFINE T == InOrder \cup {m}
  <2>1. wire \in Seq(T) /\ m \in T
    BY <1>3
  <2> HIDE DEF T
  <2> QED
    BY <1>1, <1>3, <2>1, NotesAppend
<1>5. HandedNotes' = HandedNotes /\ LaterNotes' = LaterNotes
  BY <1>2, <1>4 DEF HandedNotes, LaterNotes
<1>6. KeptOK'
  BY <1>2, <1>5, KeptFrom
<1> QED
  BY <1>2, <1>4, <1>5, <1>6
  DEF FlowOK, WayOK, SentOK, HandedOrder, LaterOrder, PartsOK

LEMMA NotifyWay == ASSUME RequestsOK, FlowOK, Notify PROVE WayOK'
<1>1. PICK k \in {"key", "sensor"}, d \in Device :
         LET n == [type |-> "note", kind |-> k, dev |-> d, seq |-> Len(sent) + 1]
         IN  wire' = Append(wire, n) /\ sent' = Append(sent, n)
  BY DEF Notify
<1> DEFINE n == [type |-> "note", kind |-> k, dev |-> d, seq |-> Len(sent) + 1]
           l == Len(sent)
<1>2. /\ UNCHANGED <<selected, delivered, pendingEvent, queue, backlog, messages, terminated, pc>>
      /\ wire' = Append(wire, n) /\ sent' = Append(sent, n)
  BY <1>1 DEF Notify
<1>3. sent \in Seq(Note) /\ wire \in Seq(InOrder) /\ n.seq = l + 1 /\ IsNote(n) /\ l \in Nat
  BY DEF RequestsOK, IsNote
<1>4. n \in Note
  BY <1>3 DEF Note
<1>5. n \in InOrder
  BY <1>4 DEF InOrder
<1> HIDE DEF n
<1>6. /\ DOMAIN sent = 1..l /\ DOMAIN sent' = 1..(l + 1) /\ sent'[l + 1] = n
      /\ \A i \in 1..l : sent'[i] = sent[i]
  BY <1>2, <1>3, <1>4
<1> HIDE DEF l
<1>7. \A e \in Range(sent) : e.seq \in Nat /\ e.seq < n.seq
  <2>1. \A i \in DOMAIN sent : sent[i].seq = i
    BY DEF FlowOK, WayOK, SentOK
  <2> QED
    BY <1>3, <1>6, <2>1 DEF Range
<1>8. Range(sent') = Range(sent) \cup {n} /\ \A i \in DOMAIN sent' : sent'[i].seq = i
  <2>1. \A i \in DOMAIN sent : sent[i].seq = i
    BY DEF FlowOK, WayOK, SentOK
  <2>2. \A i \in DOMAIN sent' : i = l + 1 \/ i \in DOMAIN sent
    BY <1>3, <1>6
  <2>3. l + 1 \in DOMAIN sent' /\ DOMAIN sent \subseteq DOMAIN sent'
    BY <1>3, <1>6
  <2>4. \A i \in DOMAIN sent' : sent'[i].seq = i
    BY <1>3, <1>6, <2>1, <2>2
  <2> QED
    BY <1>6, <2>2, <2>3, <2>4 DEF Range
<1>9. HandedNotes \cup LaterNotes \subseteq Range(sent) /\ Notes(wire) \subseteq LaterNotes
  BY DEF FlowOK, WayOK, SentOK, LaterNotes
<1>10. Earlier(HandedNotes \cup LaterNotes, {n})
  BY <1>7, <1>9 DEF Earlier
<1>11. Increasing(wire') /\ \A x : x \in Notes(wire') <=> x \in Notes(wire) \/ x = n
  <2>1. Earlier(Notes(wire), {n}) /\ Increasing(wire)
    BY <1>9, <1>10 DEF Earlier, FlowOK, WayOK, LaterOrder
  <2> QED
    BY <1>2, <1>3, <1>5, <2>1, NotesAppend
<1>12. HandedNotes' = HandedNotes /\ LaterNotes' = LaterNotes \cup {n}
  BY <1>2, <1>11 DEF HandedNotes, LaterNotes
<1>13. LaterOrder'
  <2>1. Earlier(Notes(backlog), Notes(messages) \cup Notes(wire) \cup {n}) /\ Earlier(Notes(messages), Notes(wire) \cup {n})
    BY <1>10 DEF Earlier, FlowOK, WayOK, LaterOrder, LaterNotes
  <2> QED
    BY <1>2, <1>11, <2>1 DEF FlowOK, WayOK, LaterOrder, Earlier
<1>14. KeptOK'
  <2>1. \A e : IsControl(e)' <=> IsControl(e)
    BY <1>2 DEF IsControl, IsNote
  <2>2. ASSUME pc' \notin Ended, ~terminated', NEW e \in Range(sent'), IsControl(e)
        PROVE  e \in HandedNotes' \cup LaterNotes'
    BY <1>2, <1>8, <1>12, <2>2 DEF FlowOK, WayOK, KeptOK, Controls
  <2>3. ASSUME NEW e \in HandedNotes', IsControl(e), NEW f \in Range(sent'), IsControl(f), f.seq < e.seq
        PROVE  f \in HandedNotes'
    <3>1. e \in Range(sent) /\ e \in HandedNotes
      BY <1>9, <1>12
    <3>2. f \in Range(sent)
      BY <1>3, <1>7, <1>8, <2>3, <3>1
    <3> QED
      BY <1>12, <2>3, <3>1, <3>2 DEF FlowOK, WayOK, KeptOK, Controls
  <2> QED
    BY <2>1, <2>2, <2>3 DEF KeptOK, Controls
<1>15. SentOK' /\ PartsOK' /\ HandedOrder'
  BY <1>2, <1>8, <1>9, <1>12 DEF FlowOK, WayOK, SentOK, PartsOK, HandedOrder
<1>16. Earlier(HandedNotes, LaterNotes)'
  BY <1>10, <1>12 DEF FlowOK, WayOK, Earlier
<1> QED
  BY <1>13, <1>14, <1>15, <1>16 DEF WayOK

\* The user takes what is next.
LEMMA TryRecvWay == ASSUME RequestsOK, FlowOK, TryRecv PROVE WayOK'
<1>1. /\ UNCHANGED <<sent, selected, backlog, messages, wire, terminated, pc>>
      /\ LaterNotes' = LaterNotes
  BY DEF TryRecv, LaterNotes
<1>2. /\ delivered \in Seq(Event) /\ pendingEvent \in Seq(Event) /\ queue \in Seq(Event)
      /\ Increasing(delivered) /\ Increasing(pendingEvent) /\ Increasing(queue)
      /\ Earlier(Notes(delivered), Notes(pendingEvent)) /\ Earlier(Notes(delivered), Notes(queue))
      /\ Earlier(Notes(pendingEvent), Notes(queue))
  BY DEF FlowOK, WayOK, PartsOK, HandedOrder, Earlier
<1>3. Notes(<<>>) = {} /\ Increasing(<<>>) /\ <<>> \in Seq(Event)
  BY DEF Notes, Range, Increasing
<1>4. PartsOK' /\ HandedOrder' /\ HandedNotes' = HandedNotes
  <2>1. CASE pendingEvent # <<>>
    <3>1. delivered' = delivered \o pendingEvent /\ pendingEvent' = <<>> /\ queue' = queue
      BY <2>1 DEF TryRecv
    <3>2. /\ delivered' \in Seq(Event) /\ Increasing(delivered')
          /\ Notes(delivered') = Notes(delivered) \cup Notes(pendingEvent)
      BY <1>2, <3>1, NotesJoin
    <3> QED
      BY <1>1, <1>2, <1>3, <3>1, <3>2 DEF FlowOK, WayOK, PartsOK, HandedOrder, HandedNotes, Earlier
  <2>2. CASE pendingEvent = <<>> /\ queue # <<>>
    <3>1. delivered' = Append(delivered, Head(queue)) /\ queue' = Tail(queue) /\ pendingEvent' = pendingEvent
      BY <2>2 DEF TryRecv
    <3>2. Head(queue) \in Event
      BY <1>2, <2>2
    <3>3. /\ delivered' \in Seq(Event) /\ queue' \in Seq(Event) /\ Increasing(delivered') /\ Increasing(queue')
          /\ Notes(delivered') \cup Notes(queue') = Notes(delivered) \cup Notes(queue)
          /\ Earlier(Notes(delivered'), Notes(queue'))
      BY <1>2, <2>2, <3>1, <3>2, HeadMoves
    <3> QED
      BY <1>1, <1>2, <1>3, <2>2, <3>1, <3>3
      DEF FlowOK, WayOK, PartsOK, HandedOrder, HandedNotes, Earlier
  <2>3. CASE pendingEvent = <<>> /\ queue = <<>>
    <3>1. UNCHANGED <<delivered, pendingEvent, queue>>
      BY <2>3 DEF TryRecv
    <3> QED
      BY <1>1, <3>1 DEF FlowOK, WayOK, PartsOK, HandedOrder, HandedNotes
  <2> QED
    BY <2>1, <2>2, <2>3
<1>5. KeptOK'
  BY <1>1, <1>4, KeptFrom
<1> QED
  BY <1>1, <1>4, <1>5 DEF FlowOK, WayOK, LaterOrder, SentOK

LEMMA TryFinishWay == ASSUME RequestsOK, FlowOK, TryFinish PROVE WayOK'
<1>1. /\ UNCHANGED <<sent, selected, backlog, messages, wire, terminated, pc, delivered>>
      /\ LaterNotes' = LaterNotes
  BY DEF TryFinish, LaterNotes
<1>2. /\ pendingEvent \in Seq(Event) /\ queue \in Seq(Event)
      /\ Increasing(pendingEvent) /\ Increasing(queue)
      /\ Earlier(Notes(pendingEvent), Notes(queue))
  BY DEF FlowOK, WayOK, PartsOK, HandedOrder
<1>3. CASE UNCHANGED <<pendingEvent, queue>>
  BY <1>1, <1>3, StillKeeps
<1>4. CASE pendingEvent = <<>> /\ queue # <<>> /\ pendingEvent' = <<Head(queue)>> /\ queue' = Tail(queue)
  <2>1. Head(queue) \in Event
    BY <1>2, <1>4
  <2>2. pendingEvent' = Append(pendingEvent, Head(queue))
    BY <1>4
  <2>3. /\ pendingEvent' \in Seq(Event) /\ queue' \in Seq(Event) /\ Increasing(pendingEvent') /\ Increasing(queue')
        /\ Notes(pendingEvent') \cup Notes(queue') = Notes(pendingEvent) \cup Notes(queue)
        /\ Earlier(Notes(pendingEvent'), Notes(queue'))
    <3> DEFINE h == Head(queue)
    <3>1. /\ Append(pendingEvent, h) \in Seq(Event) /\ Tail(queue) \in Seq(Event)
          /\ Increasing(Append(pendingEvent, h)) /\ Increasing(Tail(queue))
          /\ Notes(Append(pendingEvent, h)) \cup Notes(Tail(queue)) = Notes(pendingEvent) \cup Notes(queue)
          /\ Earlier(Notes(Append(pendingEvent, h)), Notes(Tail(queue)))
      BY <1>2, <1>4, <2>1, HeadMoves
    <3> HIDE DEF h
    <3>2. pendingEvent' = Append(pendingEvent, h) /\ queue' = Tail(queue)
      BY <1>4, <2>2 DEF h
    <3> QED
      BY <3>1, <3>2
  <2>4. HandedNotes' = HandedNotes
    BY <1>1, <2>3 DEF HandedNotes
  <2>5. PartsOK' /\ HandedOrder'
    BY <1>1, <2>3 DEF FlowOK, WayOK, PartsOK, HandedOrder, Earlier
  <2>6. KeptOK'
    BY <1>1, <2>4, KeptFrom
  <2> QED
    BY <1>1, <2>4, <2>5, <2>6 DEF FlowOK, WayOK, LaterOrder, SentOK
<1> QED
  BY <1>3, <1>4 DEF TryFinish, Undelivered

LEMMA ReadyWay ==
  ASSUME RequestsOK, FlowOK, queue' = Sent(Connected), pc \notin Ended,
         UNCHANGED <<sent, selected, delivered, pendingEvent, backlog, messages, wire, terminated>>
  PROVE  WayOK'
<1>1. ~IsNote(Connected) /\ Connected \in Event /\ \A e : IsControl(e) => ~IsSensor(e)
  BY DEF IsNote, Connected, Event, IsControl, IsSensor
<1>2. queue \in Seq(Event) /\ Increasing(queue)
  BY DEF FlowOK, WayOK, PartsOK, HandedOrder
<1> HIDE DEF Connected
<1>3. /\ queue' \in Seq(Event) /\ Increasing(queue')
      /\ Notes(queue') \subseteq Notes(queue) \cup {Connected}
      /\ \A x \in Notes(queue) : ~IsSensor(x) => x \in Notes(queue')
  BY <1>1, <1>2, SentKeeps
<1>4. Notes(queue') \subseteq Notes(queue)
  <2>1. Connected \notin Notes(queue')
    BY <1>1 DEF Notes
  <2> QED
    BY <1>3, <2>1
<1>5. /\ HandedNotes' \subseteq HandedNotes /\ LaterNotes' = LaterNotes
      /\ \A e \in HandedNotes : IsControl(e) => e \in HandedNotes'
  BY <1>1, <1>3, <1>4 DEF HandedNotes, LaterNotes
<1>6. KeptOK'
  BY <1>5, KeptFrom
<1>7. HandedOrder' /\ PartsOK'
  BY <1>3, <1>4 DEF FlowOK, WayOK, HandedOrder, PartsOK, Earlier
<1>8. Earlier(HandedNotes, LaterNotes)' /\ SentOK' /\ LaterOrder'
  BY <1>5 DEF FlowOK, WayOK, SentOK, LaterOrder, Earlier
<1> QED
  BY <1>6, <1>7, <1>8 DEF WayOK

\* What was sent first of all that is left is handed over.
LEMMA HandWay ==
  ASSUME RequestsOK, FlowOK, NEW e \in Note, pc \notin Ended, ~terminated, Hand(e),
         ~(user # "program" /\ e.dev \in selected /\ Overflows(e)),
         UNCHANGED <<sent, pendingEvent, terminated>>,
         LaterOrder', backlog' \in Seq(Note),
         LaterNotes = LaterNotes' \cup {e}, Earlier({e}, LaterNotes')
  PROVE  WayOK'
<1>1. IsNote(e) /\ e \in Event /\ selected' = selected /\ (IsControl(e) => e.dev \in selected /\ ~IsSensor(e))
  BY DEF Hand, IsControl, IsSensor, IsNote, Note, Event
<1>2. \A x : IsControl(x) => ~IsSensor(x)
  BY DEF IsControl, IsSensor
<1>3. /\ delivered \in Seq(Event) /\ queue \in Seq(Event) /\ Increasing(delivered) /\ Increasing(queue)
      /\ Earlier(HandedNotes, {e})
  BY DEF FlowOK, WayOK, PartsOK, HandedOrder, Earlier
<1>4. Earlier(Notes(delivered), {e}) /\ Earlier(Notes(pendingEvent), {e}) /\ Earlier(Notes(queue), {e})
  BY <1>3 DEF HandedNotes, Earlier
<1>5. /\ PartsOK' /\ HandedOrder' /\ HandedNotes' \subseteq HandedNotes \cup {e}
      /\ \A x \in HandedNotes \cup {e} : IsControl(x) => x \in HandedNotes'
  <2>1. CASE user = "program"
    <3>1. delivered' = Append(delivered, e) /\ queue' = queue /\ queue = <<>> /\ pendingEvent = <<>>
      BY <2>1 DEF Hand, FlowOK, UserOK
    <3>2. Notes(<<>>) = {}
      BY DEF Notes, Range
    <3>3. /\ delivered' \in Seq(Event) /\ Increasing(delivered')
          /\ \A x : x \in Notes(delivered') <=> x \in Notes(delivered) \/ x = e
      BY <1>1, <1>3, <1>4, <3>1, NotesAppend
    <3>4. PartsOK'
      BY <3>1, <3>3 DEF FlowOK, WayOK, PartsOK
    <3>5. HandedOrder'
      BY <3>1, <3>2, <3>3 DEF FlowOK, WayOK, HandedOrder, Earlier
    <3> QED
      BY <3>1, <3>3, <3>4, <3>5 DEF HandedNotes
  <2>2. CASE user # "program" /\ e.dev \in selected
    <3>1. delivered' = delivered /\ queue' = Sent(e) /\ ~Overflows(e)
      BY <2>2 DEF Hand
    <3>2. /\ queue' \in Seq(Event) /\ Increasing(queue')
          /\ Notes(queue') \subseteq Notes(queue) \cup {e}
          /\ \A x \in Notes(queue) : ~IsSensor(x) => x \in Notes(queue')
          /\ ~IsSensor(e) => e \in Notes(queue')
      BY <1>1, <1>3, <1>4, <3>1, SentKeeps
    <3>3. PartsOK'
      BY <3>1, <3>2 DEF FlowOK, WayOK, PartsOK
    <3>4. HandedOrder'
      BY <1>4, <3>1, <3>2 DEF FlowOK, WayOK, HandedOrder, Earlier
    <3> QED
      BY <1>2, <3>1, <3>2, <3>3, <3>4 DEF HandedNotes
  <2>3. CASE user # "program" /\ e.dev \notin selected
    <3>1. delivered' = delivered /\ queue' = queue
      BY <2>3 DEF Hand
    <3> QED
      BY <1>1, <2>3, <3>1 DEF FlowOK, WayOK, PartsOK, HandedOrder, HandedNotes
  <2> QED
    BY <2>1, <2>2, <2>3
<1>6. \A f \in LaterNotes : f = e \/ e.seq < f.seq
  BY DEF Earlier
<1>7. KeptOK'
  BY <1>1, <1>5, <1>6, KeptFrom
<1>8. Earlier(HandedNotes, LaterNotes)'
  BY <1>5 DEF FlowOK, WayOK, Earlier
<1>9. SentOK'
  BY <1>5 DEF FlowOK, WayOK, SentOK
<1> QED
  BY <1>5, <1>7, <1>8, <1>9 DEF WayOK

LEMMA PollBacklogWay == ASSUME RequestsOK, FlowOK, PollBacklog PROVE WayOK'
<1> DEFINE e == Head(backlog)
<1>1. /\ backlog # <<>> /\ Hand(e) /\ pc = "read" /\ UNCHANGED <<user, terminated, pendingEvent>>
      /\ pc \notin Ended /\ ~terminated
  BY DEF PollBacklog, FlowOK, UserOK, Ended
<1>2. backlog \in Seq(Note) /\ Increasing(backlog) /\ Tail(backlog) \in Seq(Note) /\ e \in Note
  BY <1>1 DEF FlowOK, WayOK, PartsOK, LaterOrder
<1> HIDE DEF e
<1>3. CASE user # "program" /\ e.dev \in selected /\ Overflows(e)
  <2>1. Close("error") /\ UNCHANGED <<delivered, pendingEvent, queue>>
    BY <1>1, <1>3 DEF PollBacklog, Hand, e
  <2> QED
    BY <2>1, CloseWay
<1>4. CASE ~(user # "program" /\ e.dev \in selected /\ Overflows(e))
  <2>1. backlog' = Tail(backlog) /\ messages' = messages
    BY <1>4 DEF PollBacklog, e
  <2>2. sent' = sent /\ wire' = wire
    BY <1>1, <1>4 DEF Hand
  <2>3. /\ Increasing(backlog') /\ Notes(backlog) = Notes(backlog') \cup {e}
        /\ Earlier({e}, Notes(backlog'))
    <3>1. IsNote(e)
      BY <1>2 DEF IsNote, Note
    <3> QED
      BY <1>1, <1>2, <2>1, <3>1, NotesTail DEF e
  <2>4. LaterNotes = LaterNotes' \cup {e}
    BY <2>1, <2>2, <2>3 DEF LaterNotes
  <2>5. Earlier({e}, LaterNotes')
    BY <2>1, <2>2, <2>3 DEF FlowOK, WayOK, LaterOrder, LaterNotes, Earlier
  <2>6. LaterOrder'
    BY <2>1, <2>2, <2>3 DEF FlowOK, WayOK, LaterOrder, Earlier
  <2> QED
    BY <1>1, <1>2, <1>4, <2>1, <2>2, <2>4, <2>5, <2>6, HandWay
<1> QED
  BY <1>3, <1>4

LEMMA PollNotificationWay == ASSUME RequestsOK, FlowOK, PollNotification PROVE WayOK'
<1> DEFINE e == Head(messages)
<1>1. /\ messages # <<>> /\ backlog = <<>> /\ Hand(e) /\ pc = "read" /\ IsNote(e)
      /\ UNCHANGED <<user, terminated, pendingEvent>>
      /\ pc \notin Ended /\ ~terminated
  BY DEF PollNotification, FlowOK, UserOK, Ended
<1>2. messages \in Seq(InOrder) /\ Increasing(messages) /\ e \in InOrder
  BY <1>1 DEF RequestsOK, FlowOK, WayOK, LaterOrder
<1>3. e \in Note
  BY <1>1, <1>2 DEF InOrder, Reply, Error, IsNote
<1> HIDE DEF e
<1>4. CASE user # "program" /\ e.dev \in selected /\ Overflows(e)
  <2>1. Close("error") /\ UNCHANGED <<delivered, pendingEvent, queue>>
    BY <1>1, <1>4 DEF PollNotification, Hand, e
  <2> QED
    BY <2>1, CloseWay
<1>5. CASE ~(user # "program" /\ e.dev \in selected /\ Overflows(e))
  <2>1. messages' = Tail(messages) /\ backlog' = backlog
    BY <1>5 DEF PollNotification, e
  <2>2. sent' = sent /\ wire' = wire
    BY <1>1, <1>5 DEF Hand
  <2>3. /\ Increasing(messages') /\ Notes(messages) = Notes(messages') \cup {e}
        /\ Earlier({e}, Notes(messages'))
    BY <1>1, <1>2, <2>1, NotesTail DEF e
  <2>4. Notes(backlog) = {} /\ backlog' \in Seq(Note)
    BY <1>1, <2>1 DEF Notes, Range
  <2>5. LaterNotes = LaterNotes' \cup {e}
    BY <2>1, <2>2, <2>3 DEF LaterNotes
  <2>6. Earlier({e}, LaterNotes')
    BY <2>1, <2>2, <2>3, <2>4 DEF FlowOK, WayOK, LaterOrder, LaterNotes, Earlier
  <2>7. LaterOrder'
    BY <2>1, <2>2, <2>3, <2>4 DEF FlowOK, WayOK, LaterOrder, Earlier
  <2> QED
    BY <1>1, <1>3, <1>5, <2>1, <2>2, <2>4, <2>5, <2>6, <2>7, HandWay
<1> QED
  BY <1>4, <1>5

\* Every step keeps the way of the notifications.
LEMMA WayStep ==
  ASSUME RequestsOK, FlowOK, [SessionNext]_vars
  PROVE  WayOK'
<1>1. CASE HangUp \/ CloseQueue \/ SendResult \/ Cancel \/ PollNothing \/ UNCHANGED vars
  BY <1>1, StillKeeps DEF HangUp, CloseQueue, SendResult, Cancel, PollNothing, vars, Ended
<1>2. CASE Call
  <2>1. CASE Fail(messages)
    BY <1>2, <2>1, FailWay DEF Call, Ended, FlowOK, UserOK
  <2>2. CASE Request(step) /\ UNCHANGED <<sent, selected, wire, messages, backlog>>
    BY <1>2, <2>2, StillKeeps DEF Call, Ended
  <2> QED
    BY <1>2, <2>1, <2>2 DEF Call
<1>3. ASSUME NEW cmd \in {"status", "subscribe", "unsubscribe"}, ProgramCalls(cmd) PROVE WayOK'
  BY <1>3, StillKeeps DEF ProgramCalls, Ended
<1>4. CASE PrematureEof \/ Timeout \/ Mismatch \/ ServerError \/ PollUnexpected
  <2>1. /\ UNCHANGED <<delivered, pendingEvent, queue, terminated>> /\ pc \notin Ended
        /\ \E rest : /\ Fail(rest)
                     /\ \/ rest = messages
                        \/ messages # <<>> /\ rest = Tail(messages) /\ ~IsNote(Head(messages))
    BY <1>4 DEF PrematureEof, Timeout, Mismatch, ServerError, PollUnexpected, Ended, IsNote
  <2>2. ~terminated
    BY <1>4 DEF FlowOK, UserOK, Ended, PrematureEof, Timeout, Mismatch, ServerError, PollUnexpected
  <2> QED
    BY <2>1, <2>2, FailWay
<1>5. CASE QueueNotification
  <2>1. CASE terminated' = TRUE /\ Fail(Tail(messages))
    BY <1>5, <2>1, FailWay DEF QueueNotification, Ended
  <2>2. CASE /\ backlog' = Append(backlog, Head(messages)) /\ messages' = Tail(messages)
             /\ UNCHANGED <<daemonVars, wire, workerVars, terminated, waiting>>
    BY <1>5, <2>2, BacklogKeeps DEF QueueNotification, Ended
  <2> QED
    BY <1>5, <2>1, <2>2 DEF QueueNotification
<1>6. CASE Response
  <2>1. /\ messages # <<>> /\ ~IsNote(Head(messages)) /\ pc \notin Ended /\ ~terminated
        /\ UNCHANGED <<delivered, pendingEvent, queue, terminated, user>>
    BY <1>6 DEF Response, IsNote, Ended, FlowOK, UserOK
  <2>2. CASE Respond(Head(messages))
    <3>1. selected' = selected \/ sent = <<>>
      BY <2>2 DEF Respond, FlowOK, UserOK
    <3>2. UNCHANGED <<sent, backlog, wire>> /\ messages' = Tail(messages)
      BY <2>2 DEF Respond
    <3> QED
      BY <2>1, <3>1, <3>2, DropKeeps
  <2>3. CASE Fail(Tail(messages))
    BY <2>1, <2>3, FailWay
  <2> QED
    BY <1>6, <2>2, <2>3 DEF Response
<1>7. CASE Ready
  <2>1. CASE Fail(messages) /\ UNCHANGED queue
    BY <1>7, <2>1, FailWay DEF Ready, Ended, FlowOK, UserOK
  <2>2. CASE queue' = Sent(Connected) /\ UNCHANGED <<selected, daemonVars, wire, messages, backlog>>
    BY <1>7, <2>2, ReadyWay DEF Ready, Ended
  <2> QED
    BY <1>7, <2>1, <2>2 DEF Ready
<1>8. CASE CheckStop
  <2>1. CASE Close("ok")
    BY <1>8, <2>1, CloseWay DEF CheckStop
  <2>2. CASE UNCHANGED <<selected, daemonVars, wire, messages, backlog>>
    BY <1>8, <2>2, StillKeeps DEF CheckStop, Ended
  <2> QED
    BY <1>8, <2>1, <2>2 DEF CheckStop
<1> QED
  BY <1>1, <1>2, <1>3, <1>4, <1>5, <1>6, <1>7, <1>8, AnswerWay, NotifyWay, ReceiveWay,
     TryRecvWay, TryFinishWay, PollBacklogWay, PollNotificationWay
  DEF SessionNext, Worker

\* A notification never overtakes an earlier one, and while the connection lasts no
\* key transition of a chosen device is missing (client.rs queue_notification and
\* poll_event, session.rs EventQueue).
THEOREM SessionFlow == SessionSpec => []FlowOK
<1>1. SessionInit => FlowOK
  <2> SUFFICES ASSUME SessionInit PROVE FlowOK
    OBVIOUS
  <2>1. Notes(<<>>) = {} /\ Increasing(<<>>) /\ Range(<<>>) = {} /\ \A S : <<>> \in Seq(S)
    BY DEF Notes, Range, Increasing
  <2>2. HandedNotes = {} /\ LaterNotes = {}
    BY <2>1 DEF SessionInit, HandedNotes, LaterNotes
  <2>3. PartsOK /\ HandedOrder /\ LaterOrder /\ Earlier(HandedNotes, LaterNotes)
    BY <2>1, <2>2 DEF SessionInit, PartsOK, HandedOrder, LaterOrder, Earlier
  <2>4. SentOK /\ KeptOK
    BY <2>1, <2>2 DEF SessionInit, SentOK, KeptOK, Controls
  <2>5. UserOK
    BY DEF SessionInit, UserOK, Ended
  <2> QED
    BY <2>3, <2>4, <2>5 DEF FlowOK, WayOK
<1>2. RequestsOK /\ FlowOK /\ [SessionNext]_vars => FlowOK'
  BY WayStep, UserStep DEF FlowOK
<1> QED
  BY <1>1, <1>2, SessionRequests, PTL DEF SessionSpec

\* Key transitions are neither lost, repeated nor reordered on their way to the user
\* (Client::poll_event, EventQueue::send).
THEOREM SessionControlsKept == SessionSpec => []ControlsKept
<1>1. RequestsOK /\ FlowOK => ControlsKept
  <2> SUFFICES ASSUME RequestsOK, FlowOK PROVE ControlsKept
    OBVIOUS
  <2> DEFINE S == Event \cup InOrder
             a == delivered \o pendingEvent
             b == a \o queue
             c == b \o backlog
             d == c \o messages
  <2>1. /\ delivered \in Seq(S) /\ pendingEvent \in Seq(S) /\ queue \in Seq(S)
        /\ backlog \in Seq(S) /\ messages \in Seq(S) /\ wire \in Seq(S)
    <3>1. Event \subseteq S /\ Note \subseteq S /\ InOrder \subseteq S
      BY DEF Event
    <3> HIDE DEF S
    <3> QED
      BY <3>1, SeqLarger DEF RequestsOK, FlowOK, WayOK, PartsOK
  <2> HIDE DEF S
  <2>2. /\ HandedOrder /\ LaterOrder /\ Earlier(HandedNotes, LaterNotes)
        /\ Earlier(HandedNotes, Notes(backlog)) /\ Earlier(HandedNotes, Notes(messages))
        /\ Earlier(HandedNotes, Notes(wire))
    BY DEF FlowOK, WayOK, LaterNotes, Earlier
  <2>3. a \in Seq(S) /\ Notes(a) = Notes(delivered) \cup Notes(pendingEvent) /\ Increasing(a)
    BY <2>1, <2>2, NotesJoin DEF HandedOrder, Earlier
  <2> HIDE DEF a
  <2>4. b \in Seq(S) /\ Notes(b) = HandedNotes /\ Increasing(b)
    <3>1. Earlier(Notes(a), Notes(queue)) /\ Increasing(queue)
      BY <2>2, <2>3 DEF HandedOrder, Earlier
    <3>2. queue \in Seq(S) /\ a \in Seq(S) /\ Increasing(a)
      BY <2>1, <2>3
    <3>3. b \in Seq(S) /\ Notes(b) = Notes(a) \cup Notes(queue) /\ Increasing(b)
      BY <3>1, <3>2, NotesJoin
    <3>4. Notes(a) \cup Notes(queue) = HandedNotes
      BY <2>3 DEF HandedNotes
    <3> QED
      BY <3>3, <3>4
  <2> HIDE DEF b
  <2>5. c \in Seq(S) /\ Notes(c) = HandedNotes \cup Notes(backlog) /\ Increasing(c)
    BY <2>1, <2>2, <2>4, NotesJoin DEF LaterOrder
  <2> HIDE DEF c
  <2>6. d \in Seq(S) /\ Notes(d) = HandedNotes \cup Notes(backlog) \cup Notes(messages) /\ Increasing(d)
    <3>1. Earlier(Notes(c), Notes(messages)) /\ Increasing(messages)
      BY <2>2, <2>5 DEF LaterOrder, Earlier
    <3>2. messages \in Seq(S) /\ c \in Seq(S) /\ Increasing(c)
      BY <2>1, <2>5
    <3>3. d \in Seq(S) /\ Notes(d) = Notes(c) \cup Notes(messages) /\ Increasing(d)
      BY <3>1, <3>2, NotesJoin
    <3> QED
      BY <2>5, <3>3
  <2> HIDE DEF d
  <2>7. Notes(d \o wire) = HandedNotes \cup LaterNotes /\ Increasing(d \o wire)
    <3>1. Earlier(Notes(d), Notes(wire)) /\ Increasing(wire)
      BY <2>2, <2>6 DEF LaterOrder, Earlier
    <3>2. wire \in Seq(S) /\ d \in Seq(S) /\ Increasing(d)
      BY <2>1, <2>6
    <3>3. Notes(d \o wire) = Notes(d) \cup Notes(wire) /\ Increasing(d \o wire)
      BY <3>1, <3>2, NotesJoin
    <3>4. Notes(d) \cup Notes(wire) = HandedNotes \cup LaterNotes
      BY <2>6 DEF LaterNotes
    <3> QED
      BY <3>3, <3>4
  <2>8. Handed = b /\ OnTheWay = d \o wire
    BY DEF Handed, OnTheWay, a, b, c, d
  <2>9. \A s : {e \in Range(s) : IsControl(e)} = Controls(Notes(s))
    BY DEF Controls, Notes, IsControl, IsNote
  <2>10. Controls(Notes(sent)) = Controls(Range(sent))
    BY DEF Controls, Notes, IsControl, IsNote
  <2>11. HandedNotes \cup LaterNotes \subseteq Range(sent)
    BY DEF FlowOK, WayOK, SentOK
  <2>12. Controls(HandedNotes) \subseteq Controls(Range(sent))
    BY <2>11 DEF Controls
  <2>13. pc \notin Ended /\ ~terminated => Controls(HandedNotes \cup LaterNotes) = Controls(Range(sent))
    BY <2>11 DEF FlowOK, WayOK, KeptOK, Controls
  <2>14. \A e \in Controls(HandedNotes), f \in Controls(Range(sent)) :
           f.seq < e.seq => f \in Controls(HandedNotes)
    BY DEF FlowOK, WayOK, KeptOK, Controls
  <2> QED
    BY <2>4, <2>7, <2>8, <2>9, <2>10, <2>12, <2>13, <2>14 DEF ControlsKept
<1> QED
  BY <1>1, SessionRequests, SessionFlow, PTL
=============================================================================
