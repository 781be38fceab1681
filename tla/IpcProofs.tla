---------------------------- MODULE IpcProofs ----------------------------
(***************************************************************************)
(* Theorems about IpcServer for any number of connections, requests and    *)
(* controllers and all limits: its limits are kept, the controllers that   *)
(* capture are those that usable connections were told they lease, a       *)
(* notification reaches only subscribers and those in order, and every     *)
(* request has one reply.                                                  *)
(***************************************************************************)
EXTENDS IpcServer, FiniteSetTheorems, TLAPS

DeferredRequest == {r \in Request : r.command.op \in {"config", "start", "stop"}}

(***************************************************************************)
(* What one connection's state obeys.  Fits: its values and limits.        *)
(***************************************************************************)
Fits(c) ==
  /\ c \in Client
  /\ c.written <= Len(c.sent) /\ Len(c.sent) - c.written <= MaxQueued
  /\ c.commands \in Seq(DeferredRequest) /\ Len(c.commands) <= FrameBudget
  /\ IsFiniteSet(c.capture) /\ Cardinality(c.capture) <= MaxLeases

\* The replies that say something about a stream.
About(c, s) ==
  {j \in Replies(c) : c.sent[j].ok /\ s \in c.sent[j].request.command.streams}

\* The last thing that was said about a stream that the connection gets.
Current(c) ==
  \A s \in c.streams : \E j \in About(c, s) :
    /\ c.sent[j].request.command.op = "subscribe"
    /\ \A k \in About(c, s) : k <= j

\* What a connection was told is what the server holds, unless its end is near.
Honest(c) == Usable(c) => c.capture = ToldLeases(c) /\ Current(c)

\* StreamBoundary for one connection.
Bounded(c) ==
  \A i \in DOMAIN c.sent \ Replies(c) :
    \E j \in {k \in About(c, StreamOf(c.sent[i])) : k < i} :
      /\ c.sent[j].request.command.op = "subscribe"
      /\ \A k \in About(c, StreamOf(c.sent[i])) : k < i => k <= j

Sound(c) == Fits(c) /\ Honest(c) /\ Bounded(c)

-----------------------------------------------------------------------------
(***************************************************************************)
(* Queues.                                                                 *)
(***************************************************************************)
\* A frame is appended or the connection is no longer usable.
LEMMA QueuedFits ==
  ASSUME NEW c, Fits(c), NEW m \in Message
  PROVE  /\ Fits(Queued(c, m))
         /\ \/ Queued(c, m) = [c EXCEPT !.sent = Append(@, m)]
            \/ Queued(c, m) = [c EXCEPT !.evicted = TRUE]
<1>1. c.sent \in Seq(Message) /\ c.written \in Nat /\ Len(c.sent) \in Nat
  BY DEF Fits, Client
<1>2. CASE Len(c.sent) - c.written + 1 > MaxQueued
  BY <1>2 DEF Queued, Fits, Client
<1>3. CASE ~(Len(c.sent) - c.written + 1 > MaxQueued)
  <2>1. Append(c.sent, m) \in Seq(Message) /\ Len(Append(c.sent, m)) = Len(c.sent) + 1
    BY <1>1
  <2>2. Queued(c, m) = [c EXCEPT !.sent = Append(c.sent, m)]
    BY <1>3 DEF Queued
  <2>3. MaxQueued \in Nat
    BY IpcAssumption
  <2> DEFINE d == Queued(c, m)
  <2>4. d \in Client
    BY <2>1, <2>2 DEF Fits, Client
  <2>5. /\ d.sent = Append(c.sent, m) /\ d.written = c.written
        /\ d.commands = c.commands /\ d.capture = c.capture
    BY <2>2 DEF Fits, Client
  <2> HIDE DEF d
  <2>6. d.written <= Len(d.sent) /\ Len(d.sent) - d.written <= MaxQueued
    BY <1>1, <1>3, <2>1, <2>3, <2>5 DEF Fits
  <2>7. Fits(d)
    BY <2>4, <2>5, <2>6 DEF Fits
  <2> QED
    BY <2>2, <2>7 DEF d
<1> QED
  BY <1>2, <1>3

\* The frame m was queued on c, which is d since.
Appended(c, d, m) ==
  c.sent \in Seq(Message) /\ m \in Message /\ d.sent = Append(c.sent, m)

\* What an appended frame does to what was said before.
LEMMA AppendedReplies ==
  ASSUME NEW c, NEW d, NEW m, Appended(c, d, m)
  PROVE  /\ DOMAIN d.sent = DOMAIN c.sent \cup {Len(c.sent) + 1}
         /\ \A i \in DOMAIN c.sent : d.sent[i] = c.sent[i] /\ i < Len(c.sent) + 1 /\ i \in Nat
         /\ d.sent[Len(c.sent) + 1] = m
         /\ Len(c.sent) + 1 \notin DOMAIN c.sent
         /\ Len(c.sent) \in Nat
         /\ \/ m.type = "reply" /\ Replies(d) = Replies(c) \cup {Len(c.sent) + 1}
            \/ m.type # "reply" /\ Replies(d) = Replies(c)
         /\ Replies(c) \subseteq DOMAIN c.sent
<1>1. /\ DOMAIN d.sent = 1..Len(c.sent) + 1 /\ DOMAIN c.sent = 1..Len(c.sent)
      /\ \A i \in DOMAIN c.sent : d.sent[i] = c.sent[i]
      /\ d.sent[Len(c.sent) + 1] = m /\ Len(c.sent) \in Nat
  BY DEF Appended
<1>2. /\ DOMAIN d.sent = DOMAIN c.sent \cup {Len(c.sent) + 1}
      /\ \A i \in DOMAIN c.sent : i < Len(c.sent) + 1 /\ i \in Nat
      /\ Len(c.sent) + 1 \notin DOMAIN c.sent
  BY <1>1
<1> QED
  BY <1>1, <1>2 DEF Replies

\* A reply that grants the lease of a controller which no later one ends.
Grants(c, i, p) ==
  /\ c.sent[i].ok /\ c.sent[i].request.command.op = "start"
  /\ c.sent[i].request.command.path = p
  /\ \A j \in Replies(c) : j > i => c.sent[j].request.command.op # "stop"

LEMMA ToldGrants ==
  ASSUME NEW c
  PROVE  /\ ToldLeases(c) \subseteq Path
         /\ \A p \in Path : p \in ToldLeases(c) <=> \E i \in Replies(c) : Grants(c, i, p)
BY DEF ToldLeases, Grants

\* A frame that is no reply to a start or a stop leaves the leases told as they are.
LEMMA ToldKept ==
  ASSUME NEW c, NEW d, NEW m, Appended(c, d, m),
         \/ m.type # "reply"
         \/ m.request.command.op \notin {"start", "stop"}
         \/ m.request.command.op = "start" /\ ~m.ok
  PROVE  ToldLeases(d) = ToldLeases(c)
<1> DEFINE n == Len(c.sent) + 1
<1>1. /\ \A i \in Replies(c) : d.sent[i] = c.sent[i] /\ i < n /\ i \in Nat
      /\ d.sent[n] = m /\ n \in Nat /\ n \notin Replies(c)
      /\ \/ Replies(d) = Replies(c)
         \/ Replies(d) = Replies(c) \cup {n} /\ m.type = "reply"
  BY AppendedReplies
<1> HIDE DEF n
<1>2. ASSUME NEW p \in Path, NEW i \in Replies(c)
      PROVE  Grants(d, i, p) <=> Grants(c, i, p)
  BY <1>1 DEF Grants
<1>3. ASSUME NEW p \in Path, NEW i \in Replies(d) \ Replies(c)
      PROVE  ~Grants(d, i, p)
  BY <1>1 DEF Grants
<1>4. Replies(c) \subseteq Replies(d)
  BY <1>1
<1>5. \A p \in Path : (\E i \in Replies(d) : Grants(d, i, p)) <=> (\E i \in Replies(c) : Grants(c, i, p))
  BY <1>2, <1>3, <1>4
<1>6. \A p \in Path : p \in ToldLeases(d) <=> p \in ToldLeases(c)
  BY <1>5, ToldGrants
<1> QED
  BY <1>6, ToldGrants

LEMMA ToldStarted ==
  ASSUME NEW c, NEW d, NEW m, Appended(c, d, m), m.type = "reply", m.ok,
         m.request.command.op = "start", m.request.command.path \in Path
  PROVE  ToldLeases(d) = ToldLeases(c) \cup {m.request.command.path}
<1> DEFINE n == Len(c.sent) + 1
           q == m.request.command.path
<1>1. /\ \A i \in Replies(c) : d.sent[i] = c.sent[i] /\ i < n /\ i \in Nat
      /\ d.sent[n] = m /\ n \in Nat /\ n \notin Replies(c)
      /\ Replies(d) = Replies(c) \cup {n}
  BY AppendedReplies
<1> HIDE DEF n
<1>2. ASSUME NEW p \in Path, NEW i \in Replies(c)
      PROVE  Grants(d, i, p) <=> Grants(c, i, p)
  BY <1>1 DEF Grants
<1>3. \A p \in Path : Grants(d, n, p) <=> p = q
  <2>1. \A j \in Replies(d) : ~(j > n)
    BY <1>1
  <2> QED
    BY <1>1, <2>1 DEF Grants
<1>4. \A p \in Path : (\E i \in Replies(d) : Grants(d, i, p))
                     <=> (\E i \in Replies(c) : Grants(c, i, p)) \/ p = q
  BY <1>1, <1>2, <1>3
<1>5. q \in Path
  OBVIOUS
<1> HIDE DEF q
<1>6. ToldLeases(d) = ToldLeases(c) \cup {q}
  BY <1>4, <1>5, ToldGrants
<1> QED
  BY <1>6 DEF q

LEMMA ToldStopped ==
  ASSUME NEW c, NEW d, NEW m, Appended(c, d, m), m.type = "reply",
         m.request.command.op = "stop"
  PROVE  ToldLeases(d) = {}
<1> DEFINE n == Len(c.sent) + 1
<1>1. /\ \A i \in Replies(c) : d.sent[i] = c.sent[i] /\ i < n /\ i \in Nat
      /\ d.sent[n] = m /\ n \in Nat
      /\ Replies(d) = Replies(c) \cup {n}
  BY AppendedReplies
<1> HIDE DEF n
<1> QED
  BY <1>1 DEF ToldLeases

\* What is said about a stream, after an appended frame.
LEMMA AppendedAbout ==
  ASSUME NEW c, NEW d, NEW m, Appended(c, d, m), NEW s
  PROVE  \/ /\ m.type = "reply" /\ m.ok /\ s \in m.request.command.streams
            /\ About(d, s) = About(c, s) \cup {Len(c.sent) + 1}
         \/ /\ ~(m.type = "reply" /\ m.ok /\ s \in m.request.command.streams)
            /\ About(d, s) = About(c, s)
<1> DEFINE n == Len(c.sent) + 1
<1>1. /\ \A i \in Replies(c) : d.sent[i] = c.sent[i]
      /\ d.sent[n] = m /\ n \notin Replies(c)
      /\ \/ m.type = "reply" /\ Replies(d) = Replies(c) \cup {n}
         \/ m.type # "reply" /\ Replies(d) = Replies(c)
  BY AppendedReplies
<1> HIDE DEF n
<1>2. CASE m.type = "reply" /\ m.ok /\ s \in m.request.command.streams
  BY <1>1, <1>2 DEF About, n
<1>3. CASE ~(m.type = "reply" /\ m.ok /\ s \in m.request.command.streams)
  BY <1>1, <1>3 DEF About
<1> QED
  BY <1>2, <1>3

\* A reply that is no notification keeps the boundaries, and so does a
\* notification of a stream that the connection gets.
LEMMA BoundedKept ==
  ASSUME NEW c, NEW d, NEW m, Appended(c, d, m), Bounded(c),
         m.type # "reply" => StreamOf(m) \in c.streams /\ Current(c)
  PROVE  Bounded(d)
<1> DEFINE n == Len(c.sent) + 1
<1>1. /\ DOMAIN d.sent = DOMAIN c.sent \cup {n}
      /\ \A i \in DOMAIN c.sent : d.sent[i] = c.sent[i] /\ i < n /\ i \in Nat
      /\ d.sent[n] = m /\ n \notin DOMAIN c.sent /\ n \in Nat
      /\ \/ m.type = "reply" /\ Replies(d) = Replies(c) \cup {n}
         \/ m.type # "reply" /\ Replies(d) = Replies(c)
      /\ Replies(c) \subseteq DOMAIN c.sent
  BY AppendedReplies
<1>2. \A s : About(d, s) = About(c, s) \/ About(d, s) = About(c, s) \cup {n}
  BY AppendedAbout
<1>3. m.type # "reply" => \A s : About(d, s) = About(c, s)
  BY AppendedAbout
<1>4. \A s : About(c, s) \subseteq DOMAIN c.sent
  BY <1>1 DEF About
<1> HIDE DEF n
<1>5. SUFFICES ASSUME NEW i \in DOMAIN d.sent \ Replies(d)
               PROVE  \E j \in {k \in About(d, StreamOf(d.sent[i])) : k < i} :
                        /\ d.sent[j].request.command.op = "subscribe"
                        /\ \A k \in About(d, StreamOf(d.sent[i])) : k < i => k <= j
  BY DEF Bounded
<1> DEFINE s == StreamOf(d.sent[i])
<1>6. CASE i = n
  <2>1. m.type # "reply"
    BY <1>1, <1>6
  <2>2. About(d, s) = About(c, s) /\ s \in c.streams
    BY <1>1, <1>3, <1>6, <2>1
  <2>3. PICK j \in About(c, s) : /\ c.sent[j].request.command.op = "subscribe"
                                 /\ \A k \in About(c, s) : k <= j
    BY <2>1, <2>2 DEF Current
  <2>4. j \in About(d, s) /\ j < i /\ d.sent[j] = c.sent[j]
    BY <1>1, <1>4, <1>6, <2>2
  <2> QED
    BY <2>2, <2>3, <2>4
<1>7. CASE i # n
  <2>1. i \in DOMAIN c.sent \ Replies(c) /\ d.sent[i] = c.sent[i]
    BY <1>1, <1>7
  <2>2. PICK j \in {k \in About(c, s) : k < i} :
          /\ c.sent[j].request.command.op = "subscribe"
          /\ \A k \in About(c, s) : k < i => k <= j
    BY <2>1 DEF Bounded
  <2>3. \A k \in About(d, s) : k < i => k \in About(c, s)
    BY <1>1, <1>2, <2>1
  <2>4. j \in About(d, s) /\ d.sent[j] = c.sent[j]
    BY <1>1, <1>2, <1>4
  <2> QED
    BY <2>2, <2>3, <2>4
<1> QED
  BY <1>6, <1>7

\* Whatever says nothing about a stream leaves the last word on it.
LEMMA CurrentKept ==
  ASSUME NEW c, NEW d, NEW m, Appended(c, d, m), d.streams = c.streams, Current(c),
         m.type = "reply" /\ m.ok => m.request.command.streams = {}
  PROVE  Current(d)
<1>1. \A s : About(d, s) = About(c, s)
  BY AppendedAbout
<1>2. \A i \in DOMAIN c.sent : d.sent[i] = c.sent[i]
  BY AppendedReplies
<1>3. \A s : About(c, s) \subseteq DOMAIN c.sent
  BY DEF About, Replies
<1> QED
  BY <1>1, <1>2, <1>3 DEF Current

\* The reply to a subscription or its end is the last word on its streams.
LEMMA CurrentSubscribed ==
  ASSUME NEW c, NEW d, NEW m, Appended(c, d, m), m.type = "reply", m.ok, Current(c),
         \/ /\ m.request.command.op = "subscribe"
            /\ d.streams = c.streams \cup m.request.command.streams
         \/ d.streams = c.streams \ m.request.command.streams
  PROVE  Current(d)
<1> DEFINE n == Len(c.sent) + 1
<1>1. /\ \A i \in DOMAIN c.sent : d.sent[i] = c.sent[i] /\ i < n /\ i \in Nat
      /\ d.sent[n] = m /\ n \in Nat
  BY AppendedReplies
<1>2. \A s : About(c, s) \subseteq DOMAIN c.sent
  BY DEF About, Replies
<1>3. \A s \in m.request.command.streams : About(d, s) = About(c, s) \cup {n}
  BY AppendedAbout
<1>4. \A s : s \notin m.request.command.streams => About(d, s) = About(c, s)
  BY AppendedAbout
<1> HIDE DEF n
<1>5. SUFFICES ASSUME NEW s \in d.streams
               PROVE  \E j \in About(d, s) : /\ d.sent[j].request.command.op = "subscribe"
                                              /\ \A k \in About(d, s) : k <= j
  BY DEF Current
<1>6. CASE s \in m.request.command.streams
  <2>1. n \in About(d, s) /\ d.sent[n].request.command.op = "subscribe"
    BY <1>1, <1>3, <1>6
  <2>2. \A k \in About(d, s) : k <= n
    BY <1>1, <1>2, <1>3, <1>6
  <2> QED
    BY <2>1, <2>2
<1>7. CASE s \notin m.request.command.streams
  <2>1. s \in c.streams /\ About(d, s) = About(c, s)
    BY <1>4, <1>7
  <2>2. PICK j \in About(c, s) : /\ c.sent[j].request.command.op = "subscribe"
                                 /\ \A k \in About(c, s) : k <= j
    BY <2>1 DEF Current
  <2> QED
    BY <1>1, <1>2, <2>1, <2>2
<1> QED
  BY <1>6, <1>7

\* What is not about frames sent, streams and leases does not matter.
LEMMA SoundSame ==
  ASSUME NEW c, NEW d, Sound(c), Fits(d), d.sent = c.sent, d.streams = c.streams,
         d.capture = c.capture, Usable(d) => Usable(c)
  PROVE  Sound(d)
<1>1. Replies(d) = Replies(c)
  BY DEF Replies
<1>2. \A s : About(d, s) = About(c, s)
  BY <1>1 DEF About
<1>3. ToldLeases(d) = ToldLeases(c)
  BY <1>1 DEF ToldLeases
<1>4. Current(c) => Current(d)
  BY <1>2 DEF Current
<1>5. Bounded(d)
  BY <1>1, <1>2 DEF Sound, Bounded
<1> QED
  BY <1>3, <1>4, <1>5 DEF Sound, Honest

\* A frame is queued on a connection whose streams and leases may have changed:
\* it is the frame that tells, if it finds room.
LEMMA QueuedSound ==
  ASSUME NEW c, Fits(c), Bounded(c), NEW m \in Message,
         m.type # "reply" => StreamOf(m) \in c.streams /\ Current(c),
         \A d : Appended(c, d, m) /\ d.streams = c.streams /\ d.capture = c.capture
                 /\ Usable(c)
                 => d.capture = ToldLeases(d) /\ Current(d)
  PROVE  Sound(Queued(c, m)) /\ (Usable(Queued(c, m)) => Usable(c))
<1> DEFINE d == Queued(c, m)
<1>1. Fits(d)
  BY QueuedFits
<1>2. CASE d = [c EXCEPT !.sent = Append(@, m)]
  <2>1. /\ d.sent = Append(c.sent, m) /\ d.streams = c.streams /\ d.capture = c.capture
        /\ d.closing = c.closing /\ d.evicted = c.evicted
    BY <1>2 DEF Fits, Client
  <2>2. Appended(c, d, m)
    BY <2>1 DEF Appended, Fits, Client
  <2>3. Usable(d) <=> Usable(c)
    BY <2>1 DEF Usable
  <2> HIDE DEF d
  <2>4. Bounded(d)
    BY <2>2, BoundedKept
  <2>5. Honest(d)
    BY <2>1, <2>2, <2>3 DEF Honest
  <2> QED
    BY <1>1, <2>3, <2>4, <2>5 DEF Sound, d
<1>3. CASE d = [c EXCEPT !.evicted = TRUE]
  <2>1. d.sent = c.sent /\ ~Usable(d)
    BY <1>3 DEF Usable, Fits, Client
  <2> HIDE DEF d
  <2>2. Replies(d) = Replies(c)
    BY <2>1 DEF Replies
  <2>3. \A s : About(d, s) = About(c, s)
    BY <2>1, <2>2 DEF About
  <2>4. Bounded(d)
    BY <2>1, <2>2, <2>3 DEF Bounded
  <2> QED
    BY <1>1, <2>1, <2>4 DEF Sound, Honest, d
<1> QED
  BY <1>2, <1>3, QueuedFits

-----------------------------------------------------------------------------
(***************************************************************************)
(* Handlers.                                                               *)
(***************************************************************************)
LEMMA MessageTypes ==
  /\ \A r \in Request, ok \in BOOLEAN :
       /\ Reply(r, ok) \in Message /\ Reply(r, ok).type = "reply"
       /\ Reply(r, ok).request = r /\ Reply(r, ok).ok = ok
  /\ \A what \in {"input", "added", "removed"}, p \in Path, n \in 1..MaxEvents :
       Note(what, p, n) \in Message /\ Note(what, p, n).type # "reply"
BY DEF Reply, Note, Message

LEMMA RequestTypes ==
  /\ \A r \in Request : r.command \in Command
  /\ \A k \in Command :
       /\ k.op \in {"hello", "ping", "config", "stop", "oversize", "start", "subscribe", "unsubscribe"}
       /\ k.streams \subseteq Stream
       /\ k.op \notin {"subscribe", "unsubscribe"} => k.streams = {}
       /\ k.op = "start" => k.path \in Path
<1>1. \A r \in Request : r.command \in Command
  BY DEF Request
<1>2. ASSUME NEW k \in Command
      PROVE  /\ k.op \in {"hello", "ping", "config", "stop", "oversize", "start", "subscribe", "unsubscribe"}
             /\ k.streams \subseteq Stream
             /\ k.op \notin {"subscribe", "unsubscribe"} => k.streams = {}
             /\ k.op = "start" => k.path \in Path
  BY DEF Command, Stream
<1> QED
  BY <1>1, <1>2

\* publish queues a notification only for those who get its stream.
LEMMA NoteSound ==
  ASSUME NEW c, Sound(c), Usable(c), NEW m \in Message, m.type # "reply", Wants(c, m)
  PROVE  Sound(Queued(c, m)) /\ (Usable(Queued(c, m)) => Usable(c))
<1>1. c.capture = ToldLeases(c) /\ Current(c)
  BY DEF Sound, Honest
<1>2. ASSUME NEW d, Appended(c, d, m), d.streams = c.streams, d.capture = c.capture
      PROVE  d.capture = ToldLeases(d) /\ Current(d)
  BY <1>1, <1>2, ToldKept, CurrentKept
<1> QED
  BY <1>1, <1>2, QueuedSound DEF Sound, Wants

\* A reply that grants and ends no lease and no subscription.
LEMMA PlainReplySound ==
  ASSUME NEW c, Sound(c), NEW r \in Request, NEW ok \in BOOLEAN,
         Usable(c) => /\ ok => r.command.streams = {}
                      /\ r.command.op = "start" => ~ok
                      /\ r.command.op # "stop"
  PROVE  Sound(Queued(c, Reply(r, ok))) /\ (Usable(Queued(c, Reply(r, ok))) => Usable(c))
<1> DEFINE m == Reply(r, ok)
<1>1. m \in Message /\ m.type = "reply" /\ m.request = r /\ m.ok = ok
  BY MessageTypes
<1> HIDE DEF m
<1>2. ASSUME NEW d, Appended(c, d, m), d.streams = c.streams, d.capture = c.capture, Usable(c)
      PROVE  d.capture = ToldLeases(d) /\ Current(d)
  <2>1. c.capture = ToldLeases(c) /\ Current(c)
    BY <1>2 DEF Sound, Honest
  <2>2. ToldLeases(d) = ToldLeases(c)
    BY <1>1, <1>2, ToldKept
  <2>3. Current(d)
    BY <1>1, <1>2, <2>1, CurrentKept
  <2> QED
    BY <1>2, <2>1, <2>2, <2>3
<1>3. Sound(Queued(c, m)) /\ (Usable(Queued(c, m)) => Usable(c))
  BY <1>1, <1>2, QueuedSound DEF Sound
<1> QED
  BY <1>3 DEF m

\* The error that a connection is closed with.
LEMMA ClosingReplySound ==
  ASSUME NEW c, Sound(c), NEW r \in Request
  PROVE  LET d == [Queued(c, Reply(r, FALSE)) EXCEPT !.closing = TRUE]
         IN Sound(d) /\ ~Usable(d)
<1> DEFINE m == Reply(r, FALSE)
           e == [Queued(c, m) EXCEPT !.closing = TRUE]
<1>1. m \in Message /\ m.type = "reply"
  BY MessageTypes
<1> HIDE DEF m
<1>2. Fits(Queued(c, m))
  BY <1>1, QueuedFits DEF Sound
<1>3. Fits(e) /\ e.sent = Queued(c, m).sent /\ ~Usable(e)
  BY <1>2 DEF Fits, Client, Usable
<1> HIDE DEF e
<1>4. \/ e.sent = c.sent
      \/ Appended(c, e, m)
  <2>1. Fits(c) /\ c \in Client
    BY DEF Sound, Fits
  <2>2. CASE Queued(c, m) = [c EXCEPT !.sent = Append(@, m)]
    <3>1. Queued(c, m).sent = Append(c.sent, m)
      BY <2>1, <2>2 DEF Client
    <3> QED
      BY <1>1, <1>3, <2>1, <3>1 DEF Appended, Client
  <2>3. CASE Queued(c, m) = [c EXCEPT !.evicted = TRUE]
    <3>1. Queued(c, m).sent = c.sent
      BY <2>1, <2>3 DEF Client
    <3> QED
      BY <1>3, <3>1
  <2> QED
    BY <1>1, <2>1, <2>2, <2>3, QueuedFits
<1>5. ASSUME e.sent = c.sent PROVE Bounded(e)
  <2>1. Replies(e) = Replies(c)
    BY <1>5 DEF Replies
  <2>2. \A s : About(e, s) = About(c, s)
    BY <1>5, <2>1 DEF About
  <2> QED
    BY <1>5, <2>1, <2>2 DEF Bounded, Sound
<1>6. ASSUME Appended(c, e, m) PROVE Bounded(e)
  BY <1>1, <1>6, BoundedKept DEF Sound
<1>7. Sound(e) /\ ~Usable(e)
  BY <1>3, <1>4, <1>5, <1>6 DEF Sound, Honest
<1> QED
  BY <1>7 DEF e, m

\* handle_frame of a subscription or its end.
LEMMA SubscribedSound ==
  ASSUME NEW c, Sound(c), NEW r \in Request, r.command.op \in {"subscribe", "unsubscribe"}
  PROVE  Sound(Subscribed(c, r))
<1> DEFINE m == Reply(r, TRUE)
           streams == IF r.command.op = "subscribe" THEN c.streams \cup r.command.streams
                      ELSE c.streams \ r.command.streams
           e == [c EXCEPT !.streams = streams]
<1>1. m \in Message /\ m.type = "reply" /\ m.request = r /\ m.ok
  BY MessageTypes
<1>2. r.command.streams \subseteq Stream
  BY RequestTypes
<1>3. c \in Client /\ c.streams \subseteq Stream
  BY DEF Sound, Fits, Client
<1>4. streams \subseteq Stream
  BY <1>2, <1>3
<1>5. Subscribed(c, r) = Queued(e, m)
  BY Zenon DEF Subscribed
<1> HIDE DEF m
<1>6. /\ e \in Client /\ e.streams = streams /\ e.sent = c.sent /\ e.capture = c.capture
      /\ e.written = c.written /\ e.commands = c.commands
      /\ e.closing = c.closing /\ e.evicted = c.evicted
  BY <1>3, <1>4 DEF Client
<1> HIDE DEF e
<1>7. Fits(e)
  BY <1>6 DEF Sound, Fits
<1>8. Replies(e) = Replies(c)
  BY <1>6 DEF Replies
<1>9. Bounded(e)
  <2>1. \A s : About(e, s) = About(c, s)
    BY <1>6, <1>8 DEF About
  <2> QED
    BY <1>6, <1>8, <2>1 DEF Bounded, Sound
<1>10. ASSUME NEW d, Appended(e, d, m), d.streams = e.streams, d.capture = e.capture, Usable(e)
       PROVE  d.capture = ToldLeases(d) /\ Current(d)
  <2>1. c.capture = ToldLeases(c) /\ Current(c)
    BY <1>6, <1>10 DEF Sound, Honest, Usable
  <2>2. Appended(c, d, m)
    BY <1>6, <1>10 DEF Appended
  <2>3. ToldLeases(d) = ToldLeases(c)
    BY <1>1, <2>2, ToldKept
  <2>4. \/ m.request.command.op = "subscribe" /\ d.streams = c.streams \cup m.request.command.streams
        \/ d.streams = c.streams \ m.request.command.streams
    BY <1>1, <1>6, <1>10
  <2>5. Current(d)
    BY <1>1, <2>1, <2>2, <2>4, CurrentSubscribed
  <2> QED
    BY <1>6, <1>10, <2>1, <2>3, <2>5
<1> QED
  BY <1>1, <1>5, <1>7, <1>9, <1>10, QueuedSound

\* A frame that waits for service_commands, or is one too many.
LEMMA DeferredSound ==
  ASSUME NEW c, Sound(c), NEW r \in Request, r.command.op \in {"config", "start", "stop"}
  PROVE  Sound(Deferred(c, r))
<1>1. c \in Client /\ c.commands \in Seq(DeferredRequest) /\ r \in DeferredRequest
  BY DEF Sound, Fits, DeferredRequest
<1>2. CASE r.command.op = "start" /\ OverLeased(c, r.command.path)
  <2>1. Deferred(c, r) = Queued(c, Reply(r, FALSE))
    BY <1>2 DEF Deferred
  <2> QED
    BY <1>2, <2>1, PlainReplySound
<1>3. CASE /\ ~(r.command.op = "start" /\ OverLeased(c, r.command.path))
           /\ Len(c.commands) >= FrameBudget
  <2>1. Deferred(c, r) = [c EXCEPT !.evicted = TRUE]
    BY <1>3 DEF Deferred
  <2> DEFINE d == Deferred(c, r)
  <2>2. /\ d \in Client /\ d.streams = c.streams /\ d.sent = c.sent /\ d.capture = c.capture
        /\ d.written = c.written /\ d.commands = c.commands /\ d.evicted
    BY <1>1, <2>1 DEF Client
  <2> HIDE DEF d
  <2>3. Fits(d) /\ ~Usable(d)
    BY <2>2 DEF Sound, Fits, Usable
  <2>4. Sound(d)
    BY <2>2, <2>3, SoundSame
  <2> QED
    BY <2>4 DEF d
<1>4. CASE /\ ~(r.command.op = "start" /\ OverLeased(c, r.command.path))
           /\ ~(Len(c.commands) >= FrameBudget)
  <2> DEFINE d == Deferred(c, r)
             commands == Append(c.commands, r)
  <2>1. d = [c EXCEPT !.commands = commands]
    BY <1>4 DEF Deferred
  <2>2. commands \in Seq(DeferredRequest) /\ commands \in Seq(Request)
    BY <1>1 DEF Client
  <2>3. Len(commands) <= FrameBudget
    BY <1>1, <1>4, IpcAssumption
  <2> HIDE DEF commands
  <2>4. /\ d \in Client /\ d.streams = c.streams /\ d.sent = c.sent /\ d.capture = c.capture
        /\ d.written = c.written /\ d.commands = commands
        /\ d.evicted = c.evicted /\ d.closing = c.closing
    BY <1>1, <2>1, <2>2 DEF Client
  <2> HIDE DEF d
  <2>5. Fits(d)
    BY <2>2, <2>3, <2>4 DEF Sound, Fits
  <2>6. Sound(d)
    BY <2>4, <2>5, SoundSame DEF Usable
  <2> QED
    BY <2>6 DEF d
<1> QED
  BY <1>2, <1>3, <1>4

LEMMA GreetedSound ==
  ASSUME NEW c, Sound(c), NEW r \in Request
  PROVE  Sound(Greeted(c, r))
<1>1. CASE r.command.op = "hello"
  <2> DEFINE d == [c EXCEPT !.negotiated = TRUE]
  <2>1. Greeted(c, r) = Queued(d, Reply(r, TRUE))
    BY <1>1 DEF Greeted
  <2>2. /\ d \in Client /\ d.streams = c.streams /\ d.sent = c.sent /\ d.capture = c.capture
        /\ d.written = c.written /\ d.commands = c.commands
        /\ d.evicted = c.evicted /\ d.closing = c.closing
    BY DEF Sound, Fits, Client
  <2> HIDE DEF d
  <2>3. Fits(d)
    BY <2>2 DEF Sound, Fits
  <2>4. Sound(d)
    BY <2>2, <2>3, SoundSame DEF Usable
  <2>5. r.command.streams = {}
    BY <1>1, RequestTypes
  <2> QED
    BY <1>1, <2>1, <2>4, <2>5, PlainReplySound
<1>2. CASE r.command.op # "hello"
  <2>1. Greeted(c, r) = [Queued(c, Reply(r, FALSE)) EXCEPT !.closing = TRUE]
    BY <1>2 DEF Greeted
  <2> QED
    BY <2>1, ClosingReplySound
<1> QED
  BY <1>1, <1>2

\* handle_frame
LEMMA HandledSound ==
  ASSUME NEW c, Sound(c), NEW r \in Request
  PROVE  Sound(Handled(c, r))
<1>1. /\ r.command.op \in {"hello", "ping", "config", "stop", "oversize", "start", "subscribe", "unsubscribe"}
      /\ r.command.op \notin {"subscribe", "unsubscribe"} => r.command.streams = {}
  BY RequestTypes
<1>2. CASE r.command.op = "oversize"
  <2>1. Handled(c, r) = [Queued(c, Reply(r, FALSE)) EXCEPT !.closing = TRUE]
    BY <1>2 DEF Handled
  <2> QED
    BY <2>1, ClosingReplySound
<1>3. CASE r.command.op # "oversize" /\ ~c.negotiated
  <2>1. Handled(c, r) = Greeted(c, r)
    BY <1>3 DEF Handled
  <2> QED
    BY <2>1, GreetedSound
<1>4. CASE c.negotiated /\ r.command.op = "hello"
  <2>1. Handled(c, r) = Queued(c, Reply(r, FALSE))
    BY <1>4 DEF Handled
  <2> QED
    BY <1>4, <2>1, PlainReplySound
<1>5. CASE c.negotiated /\ r.command.op = "ping"
  <2>1. Handled(c, r) = Queued(c, Reply(r, TRUE))
    BY <1>5 DEF Handled
  <2> QED
    BY <1>1, <1>5, <2>1, PlainReplySound
<1>6. CASE c.negotiated /\ r.command.op \in {"subscribe", "unsubscribe"}
  <2>1. Handled(c, r) = Subscribed(c, r)
    BY <1>6 DEF Handled
  <2> QED
    BY <1>6, <2>1, SubscribedSound
<1>7. CASE c.negotiated /\ r.command.op \in {"config", "start", "stop"}
  <2>1. Handled(c, r) = Deferred(c, r)
    BY <1>7 DEF Handled
  <2> QED
    BY <1>7, <2>1, DeferredSound
<1> QED
  BY <1>1, <1>2, <1>3, <1>4, <1>5, <1>6, <1>7

\* complete_command: the leases change with the reply that tells of it.
LEMMA CompletedSound ==
  ASSUME NEW c, Sound(c), NEW r \in DeferredRequest, NEW ok \in BOOLEAN,
         r.command.op # "start" => ok
  PROVE  Sound(Completed(c, r, ok))
<1>1. /\ r \in Request /\ r.command.op \in {"config", "start", "stop"}
      /\ r.command.streams = {}
      /\ r.command.op = "start" => r.command.path \in Path
  BY RequestTypes DEF DeferredRequest
<1>2. CASE ~ok \/ (r.command.op = "start" /\ OverLeased(c, r.command.path))
  <2>1. Completed(c, r, ok) = Queued(c, Reply(r, FALSE))
    BY <1>2 DEF Completed
  <2>2. r.command.op = "start"
    BY <1>2
  <2> QED
    BY <1>1, <2>1, <2>2, PlainReplySound
<1>3. CASE ok /\ ~(r.command.op = "start" /\ OverLeased(c, r.command.path))
  <2> DEFINE m == Reply(r, TRUE)
             capture == CASE r.command.op = "start" -> c.capture \cup {r.command.path}
                          [] r.command.op = "stop"  -> {}
                          [] r.command.op = "config" -> c.capture
             e == [c EXCEPT !.capture = capture]
  <2>1. Completed(c, r, ok) = Queued(e, m)
    BY <1>3, Zenon DEF Completed
  <2>2. m \in Message /\ m.type = "reply" /\ m.request = r /\ m.ok
    BY <1>1, MessageTypes
  <2>3. /\ r.command.op = "start" => capture = c.capture \cup {r.command.path}
        /\ r.command.op = "stop" => capture = {}
        /\ r.command.op = "config" => capture = c.capture
    OBVIOUS
  <2>4. c \in Client /\ c.capture \subseteq Path
    BY DEF Sound, Fits, Client
  <2>5. capture \subseteq Path /\ IsFiniteSet(capture) /\ Cardinality(capture) <= MaxLeases
    <3> USE <2>3 DEF Sound, Fits
    <3>1. CASE r.command.op = "start"
      <4>1. /\ IsFiniteSet(capture)
            /\ Cardinality(capture) = IF r.command.path \in c.capture THEN Cardinality(c.capture)
                                      ELSE Cardinality(c.capture) + 1
        BY <3>1, FS_AddElement
      <4>2. Cardinality(c.capture) \in Nat /\ MaxLeases \in Nat
        BY FS_CardinalityType, IpcAssumption
      <4>3. r.command.path \in c.capture \/ Cardinality(c.capture) < MaxLeases
        BY <1>3, <3>1, <4>2 DEF OverLeased
      <4> QED
        BY <1>1, <2>4, <3>1, <4>1, <4>2, <4>3
    <3>2. CASE r.command.op = "stop"
      BY <3>2, FS_EmptySet, IpcAssumption
    <3>3. CASE r.command.op = "config"
      BY <2>4, <3>3
    <3> QED
      BY <1>1, <3>1, <3>2, <3>3
  <2> HIDE DEF m, capture
  <2>6. /\ e \in Client /\ e.streams = c.streams /\ e.sent = c.sent /\ e.capture = capture
        /\ e.written = c.written /\ e.commands = c.commands
        /\ e.closing = c.closing /\ e.evicted = c.evicted
    BY <2>4, <2>5 DEF Client
  <2> HIDE DEF e
  <2>7. Fits(e)
    BY <2>5, <2>6 DEF Sound, Fits
  <2>8. Bounded(e)
    <3>1. Replies(e) = Replies(c)
      BY <2>6 DEF Replies
    <3>2. \A s : About(e, s) = About(c, s)
      BY <2>6, <3>1 DEF About
    <3> QED
      BY <2>6, <3>1, <3>2 DEF Bounded, Sound
  <2>9. ASSUME NEW d, Appended(e, d, m), d.streams = e.streams, d.capture = e.capture, Usable(e)
        PROVE  d.capture = ToldLeases(d) /\ Current(d)
    <3>1. c.capture = ToldLeases(c) /\ Current(c)
      BY <2>6, <2>9 DEF Sound, Honest, Usable
    <3>2. Appended(c, d, m)
      BY <2>6, <2>9 DEF Appended
    <3>3. Current(d)
      BY <1>1, <2>2, <2>6, <2>9, <3>1, <3>2, CurrentKept
    <3>4. CASE r.command.op = "start"
      BY <1>1, <2>2, <2>3, <2>6, <2>9, <3>1, <3>2, <3>3, <3>4, ToldStarted
    <3>5. CASE r.command.op = "stop"
      BY <2>2, <2>3, <2>6, <2>9, <3>2, <3>3, <3>5, ToldStopped
    <3>6. CASE r.command.op = "config"
      BY <2>2, <2>3, <2>6, <2>9, <3>1, <3>2, <3>3, <3>6, ToldKept
    <3> QED
      BY <1>1, <3>4, <3>5, <3>6
  <2> QED
    BY <2>1, <2>2, <2>7, <2>8, <2>9, QueuedSound
<1> QED
  BY <1>2, <1>3

-----------------------------------------------------------------------------
(***************************************************************************)
(* The server.  Every connection is sound, and whenever the reactor polls, *)
(* what captures is what the usable connections hold.                      *)
(***************************************************************************)
Connections ==
  /\ Live \subseteq Token /\ IsFiniteSet(Live) /\ Cardinality(Live) <= MaxClients
  /\ \A t \in Live : Sound(clients[t])

Scheduled ==
  /\ nextToken \in 1..MaxTokens + 1
  /\ wire \in [Token -> Seq(Request)]
  /\ asked \in [Token -> 0..MaxAsked]
  /\ hung \subseteq Token
  /\ phase \in {"poll", "devices", "ipc", "service"}
  /\ ready \subseteq Token
  /\ turn \in Live \cup {0} /\ (phase # "ipc" => turn = 0)
  /\ budget \in 0..FrameBudget
  /\ taken \in [Token -> Seq(DeferredRequest)]
  /\ captured \subseteq devices /\ devices \subseteq Path
  /\ sequence \in 0..MaxEvents

InStep == phase = "poll" => captured = devices \cap CapturePaths

ServerInv == Connections /\ Scheduled /\ InStep

LEMMA NewClientSound == Sound(NewClient)
<1> DEFINE c == NewClient
<1>1. /\ c.negotiated = FALSE /\ c.evicted = FALSE /\ c.closing = FALSE /\ c.streams = {}
      /\ c.frames = <<>> /\ c.commands = <<>> /\ c.capture = {} /\ c.sent = <<>> /\ c.written = 0
  BY DEF NewClient
<1>2. <<>> \in Seq(Request) /\ <<>> \in Seq(Message) /\ <<>> \in Seq(DeferredRequest)
  OBVIOUS
<1>3. c \in Client
  BY <1>2 DEF NewClient, Client
<1> HIDE DEF c
<1>4. Fits(c)
  BY <1>1, <1>2, <1>3, FS_EmptySet, IpcAssumption DEF Fits
<1>5. DOMAIN c.sent = {}
  BY <1>1
<1>6. Replies(c) = {}
  BY <1>5 DEF Replies
<1>7. Honest(c)
  BY <1>1, <1>6 DEF Honest, ToldLeases, Current
<1>8. Bounded(c)
  BY <1>5 DEF Bounded
<1>9. Sound(c)
  BY <1>4, <1>7, <1>8 DEF Sound
<1> QED
  BY <1>9 DEF c

\* publish: the connections that stay are sound.
LEMMA PublishedSound ==
  ASSUME NEW cs, \A t \in DOMAIN cs : Sound(cs[t]), NEW m \in Message, m.type # "reply"
  PROVE  /\ DOMAIN Published(cs, m) \subseteq DOMAIN cs
         /\ \A t \in DOMAIN Published(cs, m) : Sound(Published(cs, m)[t])
<1> DEFINE told == [t \in DOMAIN cs |->
                      IF cs[t].negotiated /\ Usable(cs[t]) /\ Wants(cs[t], m)
                      THEN Queued(cs[t], m) ELSE cs[t]]
           kept == {t \in DOMAIN told : ~told[t].evicted}
<1>1. Published(cs, m) = [t \in kept |-> told[t]]
  BY DEF Published, Restrict
<1>2. ASSUME NEW t \in DOMAIN cs PROVE Sound(told[t])
  <2>1. CASE cs[t].negotiated /\ Usable(cs[t]) /\ Wants(cs[t], m)
    <3>1. told[t] = Queued(cs[t], m)
      BY <2>1
    <3> QED
      BY <2>1, <3>1, NoteSound
  <2>2. CASE ~(cs[t].negotiated /\ Usable(cs[t]) /\ Wants(cs[t], m))
    <3>1. told[t] = cs[t]
      BY <2>2
    <3> QED
      BY <3>1
  <2> QED
    BY <2>1, <2>2
<1>3. kept \subseteq DOMAIN cs
  OBVIOUS
<1> HIDE DEF told, kept
<1> QED
  BY <1>1, <1>2, <1>3

\* Connections that only become fewer stay within the limit.
LEMMA FewerConnections ==
  ASSUME Connections, DOMAIN clients' \subseteq Live, \A t \in DOMAIN clients' : Sound(clients'[t])
  PROVE  Connections'
<1>1. IsFiniteSet(Live') /\ Cardinality(Live') <= Cardinality(Live)
  BY FS_Subset DEF Connections, Live
<1>2. Cardinality(Live) \in Nat /\ Cardinality(Live') \in Nat /\ MaxClients \in Nat
  BY <1>1, FS_CardinalityType, IpcAssumption DEF Connections
<1>3. Cardinality(Live') <= MaxClients
  BY <1>1, <1>2 DEF Connections
<1> QED
  BY <1>1, <1>3 DEF Connections, Live

\* One connection changes and stays sound.
LEMMA OneConnection ==
  ASSUME Connections, NEW t \in Live, NEW c, Sound(c), clients' = [clients EXCEPT ![t] = c]
  PROVE  Connections' /\ Live' = Live
<1>1. DOMAIN clients' = Live /\ \A u \in Live : clients'[u] = IF u = t THEN c ELSE clients[u]
  BY DEF Live
<1>2. \A u \in DOMAIN clients' : Sound(clients'[u])
  BY <1>1 DEF Connections
<1> QED
  BY <1>1, <1>2, FewerConnections DEF Live

-----------------------------------------------------------------------------
(***************************************************************************)
(* The steps, on the connections.                                          *)
(***************************************************************************)
LEMMA GoneStep ==
  ASSUME Connections, NEW t \in Live, Gone(t)
  PROVE  Connections' /\ Live' = Live \ {t}
<1>1. DOMAIN clients' = Live \ {t} /\ \A u \in Live \ {t} : clients'[u] = clients[u]
  BY DEF Gone, Restrict
<1> QED
  BY <1>1, FewerConnections DEF Connections, Live

LEMMA AcceptStep ==
  ASSUME Connections, Accept
  PROVE  Connections' /\ Live \subseteq Live'
<1>1. /\ nextToken \in Token /\ Cardinality(Live) < MaxClients
      /\ clients' = [t \in Live \cup {nextToken} |-> IF t \in Live THEN clients[t] ELSE NewClient]
  BY DEF Accept
<1>2. /\ Live' = Live \cup {nextToken}
      /\ \A t \in Live' : clients'[t] = IF t \in Live THEN clients[t] ELSE NewClient
  BY <1>1 DEF Live
<1>3. \A t \in Live' : Sound(clients'[t])
  BY <1>2, NewClientSound DEF Connections
<1>4. /\ IsFiniteSet(Live') /\ Cardinality(Live) \in Nat /\ MaxClients \in Nat
      /\ Cardinality(Live') = IF nextToken \in Live THEN Cardinality(Live) ELSE Cardinality(Live) + 1
  BY <1>2, FS_AddElement, FS_CardinalityType, IpcAssumption DEF Connections
<1>5. Cardinality(Live') <= MaxClients
  BY <1>1, <1>4
<1>6. Live' \subseteq Token
  BY <1>1, <1>2 DEF Connections
<1> QED
  BY <1>2, <1>3, <1>4, <1>5, <1>6 DEF Connections

LEMMA HandleFrameStep ==
  ASSUME Connections, Scheduled, NEW t \in Live, HandleFrame(t)
  PROVE  Connections' /\ Live' = Live /\ wire' \in [Token -> Seq(Request)]
<1> DEFINE c == clients[t]
           frames == IF c.frames = <<>> THEN wire[t] ELSE c.frames
           d == [c EXCEPT !.frames = Tail(frames)]
<1>1. /\ frames # <<>>
      /\ clients' = [clients EXCEPT ![t] = Handled(d, Head(frames))]
      /\ wire' = IF c.frames = <<>> THEN [wire EXCEPT ![t] = <<>>] ELSE wire
  BY DEF HandleFrame
<1>2. Sound(c) /\ t \in Token
  BY DEF Connections
<1>3. c \in Client /\ wire[t] \in Seq(Request)
  BY <1>2 DEF Sound, Fits, Scheduled
<1>4. frames \in Seq(Request)
  BY <1>3 DEF Client
<1>5. Head(frames) \in Request /\ Tail(frames) \in Seq(Request)
  BY <1>1, <1>4
<1> HIDE DEF frames
<1>6. /\ d \in Client /\ d.streams = c.streams /\ d.sent = c.sent /\ d.capture = c.capture
      /\ d.written = c.written /\ d.commands = c.commands
      /\ d.evicted = c.evicted /\ d.closing = c.closing
  BY <1>3, <1>5 DEF Client
<1> HIDE DEF d
<1>7. Fits(d)
  BY <1>2, <1>6 DEF Sound, Fits
<1>8. Sound(Handled(d, Head(frames)))
  BY <1>2, <1>5, <1>6, <1>7, SoundSame, HandledSound DEF Usable
<1>9. <<>> \in Seq(Request)
  OBVIOUS
<1>10. wire' \in [Token -> Seq(Request)]
  BY <1>1, <1>9 DEF Scheduled
<1> QED
  BY <1>1, <1>8, <1>10, OneConnection

LEMMA FinishStep ==
  ASSUME Connections, NEW t \in Live, Finish(t)
  PROVE  Connections' /\ turn' = 0
<1>1. CASE Gone(t)
  BY <1>1, GoneStep DEF Gone
<1>2. ASSUME NEW n \in clients[t].written..Len(clients[t].sent),
             clients' = [clients EXCEPT ![t].written = n], turn' = 0
      PROVE  Connections'
  <2> DEFINE c == clients[t]
             d == [c EXCEPT !.written = n]
  <2>1. Sound(c) /\ c \in Client
    BY DEF Connections, Sound, Fits
  <2>2. n \in Nat /\ c.written <= n /\ n <= Len(c.sent) /\ c.written \in Nat /\ Len(c.sent) \in Nat
    BY <2>1 DEF Client
  <2>3. /\ d \in Client /\ d.streams = c.streams /\ d.sent = c.sent /\ d.capture = c.capture
        /\ d.written = n /\ d.commands = c.commands
        /\ d.evicted = c.evicted /\ d.closing = c.closing
    BY <2>1, <2>2 DEF Client
  <2>4. clients' = [clients EXCEPT ![t] = d]
    BY <1>2
  <2> HIDE DEF d
  <2>5. Fits(d)
    BY <2>1, <2>2, <2>3, IpcAssumption DEF Sound, Fits
  <2>6. Sound(d)
    BY <2>1, <2>3, <2>5, SoundSame DEF Usable
  <2> QED
    BY <2>4, <2>6, OneConnection
<1> QED
  BY <1>1, <1>2 DEF Finish

LEMMA TakeCommandsStep ==
  ASSUME Connections, Scheduled, TakeCommands
  PROVE  Connections' /\ taken' \in [Token -> Seq(DeferredRequest)]
<1>1. /\ taken' = [t \in Token |->
                     IF t \in Live /\ Usable(clients[t]) THEN clients[t].commands ELSE <<>>]
      /\ clients' = [t \in Live |->
                       IF Usable(clients[t]) THEN [clients[t] EXCEPT !.commands = <<>>]
                       ELSE clients[t]]
  BY DEF TakeCommands
<1>2. <<>> \in Seq(DeferredRequest) /\ <<>> \in Seq(Request) /\ Len(<<>>) = 0
  OBVIOUS
<1>3. \A t \in Live : Sound(clients[t]) /\ clients[t].commands \in Seq(DeferredRequest)
  BY DEF Connections, Sound, Fits
<1>4. taken' \in [Token -> Seq(DeferredRequest)]
  BY <1>1, <1>2, <1>3
<1>5. ASSUME NEW t \in Live
      PROVE  Sound(clients'[t])
  <2> DEFINE c == clients[t]
             d == [c EXCEPT !.commands = <<>>]
  <2>1. Sound(c) /\ c \in Client
    BY <1>3 DEF Sound, Fits
  <2>2. clients'[t] = c \/ clients'[t] = d
    BY <1>1
  <2>3. /\ d \in Client /\ d.streams = c.streams /\ d.sent = c.sent /\ d.capture = c.capture
        /\ d.written = c.written /\ d.commands = <<>>
        /\ d.evicted = c.evicted /\ d.closing = c.closing
    BY <1>2, <2>1 DEF Client
  <2> HIDE DEF d
  <2>4. Fits(d)
    BY <1>2, <2>1, <2>3, IpcAssumption DEF Sound, Fits
  <2>5. Sound(d)
    BY <2>1, <2>3, <2>4, SoundSame DEF Usable
  <2> QED
    BY <2>1, <2>2, <2>5
<1>6. DOMAIN clients' = Live
  BY <1>1
<1> QED
  BY <1>4, <1>5, <1>6, FewerConnections

LEMMA CompleteCommandStep ==
  ASSUME Connections, Scheduled, NEW t \in Token, CompleteCommand(t)
  PROVE  /\ Connections' /\ Live' = Live
         /\ taken' \in [Token -> Seq(DeferredRequest)]
         /\ captured' \subseteq devices
<1> DEFINE r == Head(taken[t])
<1>1. /\ t \in Live /\ taken[t] # <<>>
      /\ taken' = [taken EXCEPT ![t] = Tail(@)]
      /\ captured' = IF r.command.path \in devices THEN captured \cup {r.command.path} ELSE captured
  BY DEF CompleteCommand
<1>2. PICK ok \in BOOLEAN :
        /\ r.command.op # "start" => ok
        /\ clients' = [clients EXCEPT ![t] = Completed(@, r, ok)]
  BY DEF CompleteCommand
<1>3. taken[t] \in Seq(DeferredRequest)
  BY DEF Scheduled
<1>4. r \in DeferredRequest /\ Tail(taken[t]) \in Seq(DeferredRequest)
  BY <1>1, <1>3
<1> HIDE DEF r
<1>5. Sound(Completed(clients[t], r, ok))
  BY <1>1, <1>2, <1>4, CompletedSound DEF Connections
<1>6. clients' = [clients EXCEPT ![t] = Completed(clients[t], r, ok)]
  BY <1>2
<1>7. taken' \in [Token -> Seq(DeferredRequest)]
  BY <1>1, <1>4 DEF Scheduled
<1>8. captured' \subseteq devices
  BY <1>1 DEF Scheduled
<1> QED
  BY <1>1, <1>5, <1>6, <1>7, <1>8, OneConnection

\* What an iteration of the reactor does before it turns to the connections.
DeviceStep == \E p \in Path : RemoveSlot(p) \/ AddPath(p) \/ \E gone \in BOOLEAN : DrainDevice(p, gone)

LEMMA DeviceStepFacts ==
  ASSUME Connections, Scheduled, DeviceStep
  PROVE  /\ Connections' /\ phase = "devices" /\ sequence' \in 0..MaxEvents
         /\ captured' \subseteq devices' /\ devices' \subseteq Path
         /\ UNCHANGED <<nextToken, peerVars, phase, ready, turn, budget, taken>>
<1>1. sequence \in 0..MaxEvents /\ MaxEvents \in Nat /\ captured \subseteq devices /\ devices \subseteq Path
  BY IpcAssumption DEF Scheduled
<1>2. \A t \in DOMAIN clients : Sound(clients[t])
  BY DEF Connections, Live
<1>3. PICK p \in Path : RemoveSlot(p) \/ AddPath(p) \/ \E gone \in BOOLEAN : DrainDevice(p, gone)
  BY DEF DeviceStep
<1>4. CASE RemoveSlot(p)
  <2>1. /\ sequence' = sequence + 1 /\ sequence < MaxEvents
        /\ clients' = Published(clients, Note("removed", p, sequence'))
        /\ devices' = devices \ {p} /\ captured' = captured \ {p} /\ phase = "devices"
        /\ UNCHANGED <<nextToken, peerVars, phase, ready, turn, budget, taken>>
    BY <1>4 DEF RemoveSlot
  <2>2. sequence' \in 1..MaxEvents
    BY <1>1, <2>1
  <2>3. Connections'
    <3> DEFINE m == Note("removed", p, sequence')
    <3>1. m \in Message /\ m.type # "reply"
      BY <2>2, MessageTypes
    <3>2. clients' = Published(clients, m)
      BY <2>1
    <3> HIDE DEF m
    <3>3. DOMAIN clients' \subseteq DOMAIN clients /\ \A t \in DOMAIN clients' : Sound(clients'[t])
      BY <1>2, <3>1, <3>2, PublishedSound
    <3> QED
      BY <3>3, FewerConnections DEF Live
  <2> QED
    BY <1>1, <2>1, <2>2, <2>3
<1>5. CASE AddPath(p)
  <2>1. /\ sequence' = sequence + 1 /\ sequence < MaxEvents
        /\ clients' = Published(clients, Note("added", p, sequence'))
        /\ devices' = devices \cup {p} /\ captured' = captured /\ phase = "devices"
        /\ UNCHANGED <<nextToken, peerVars, phase, ready, turn, budget, taken>>
    BY <1>5 DEF AddPath
  <2>2. sequence' \in 1..MaxEvents
    BY <1>1, <2>1
  <2>3. Connections'
    <3> DEFINE m == Note("added", p, sequence')
    <3>1. m \in Message /\ m.type # "reply"
      BY <2>2, MessageTypes
    <3>2. clients' = Published(clients, m)
      BY <2>1
    <3> HIDE DEF m
    <3>3. DOMAIN clients' \subseteq DOMAIN clients /\ \A t \in DOMAIN clients' : Sound(clients'[t])
      BY <1>2, <3>1, <3>2, PublishedSound
    <3> QED
      BY <3>3, FewerConnections DEF Live
  <2> QED
    BY <1>1, <2>1, <2>2, <2>3
<1>6. ASSUME NEW gone \in BOOLEAN, DrainDevice(p, gone)
      PROVE  /\ Connections' /\ phase = "devices" /\ sequence' \in 0..MaxEvents
             /\ captured' \subseteq devices' /\ devices' \subseteq Path
             /\ UNCHANGED <<nextToken, peerVars, phase, ready, turn, budget, taken>>
  <2> DEFINE inputs == IF HasInputSubscribers THEN 1 ELSE 0
             drained == IF inputs = 1 THEN Published(clients, Note("input", p, sequence + 1))
                        ELSE clients
  <2>1. /\ phase = "devices" /\ sequence + 2 <= MaxEvents
        /\ devices' = IF gone THEN devices \ {p} ELSE devices
        /\ captured' = captured \cap devices'
        /\ UNCHANGED <<nextToken, peerVars, phase, ready, turn, budget, taken>>
    BY <1>6 DEF DrainDevice
  <2>2. \/ /\ sequence' = sequence + inputs + 1
           /\ clients' = Published(drained, Note("removed", p, sequence'))
        \/ sequence' = sequence + inputs /\ clients' = drained
    BY <1>6 DEF DrainDevice
  <2>3. inputs \in {0, 1}
    OBVIOUS
  <2>4. sequence + 1 \in 1..MaxEvents
    BY <1>1, <2>1
  <2>5. DOMAIN drained \subseteq DOMAIN clients /\ \A t \in DOMAIN drained : Sound(drained[t])
    <3>1. CASE inputs = 1
      BY <1>2, <2>4, <3>1, MessageTypes, PublishedSound
    <3>2. CASE inputs # 1
      BY <1>2, <3>2
    <3> QED
      BY <3>1, <3>2
  <2> HIDE DEF inputs, drained
  <2>6. sequence' \in 0..MaxEvents
    BY <1>1, <2>1, <2>2, <2>3
  <2>7. Connections'
    <3>1. CASE /\ sequence' = sequence + inputs + 1
               /\ clients' = Published(drained, Note("removed", p, sequence'))
      <4>1. sequence' \in 1..MaxEvents
        BY <1>1, <2>1, <2>3, <3>1
      <4>2. Note("removed", p, sequence') \in Message /\ Note("removed", p, sequence').type # "reply"
        BY <4>1, MessageTypes
      <4>3. DOMAIN clients' \subseteq DOMAIN drained /\ \A t \in DOMAIN clients' : Sound(clients'[t])
        BY <2>5, <3>1, <4>2, PublishedSound
      <4> QED
        BY <2>5, <4>3, FewerConnections DEF Live
    <3>2. CASE clients' = drained
      BY <2>5, <3>2, FewerConnections DEF Live
    <3> QED
      BY <2>2, <3>1, <3>2
  <2> QED
    BY <1>1, <2>1, <2>6, <2>7
<1> QED
  BY <1>3, <1>4, <1>5, <1>6

-----------------------------------------------------------------------------
(***************************************************************************)
(* Every step keeps the invariant.                                         *)
(***************************************************************************)
LEMMA PeerStep ==
  ASSUME ServerInv, PeerNext
  PROVE  ServerInv'
<1> USE DEF ServerInv
<1>1. ASSUME NEW t \in Token, HangUp(t)
      PROVE  /\ UNCHANGED <<clients, nextToken, phase, ready, turn, budget, taken, deviceVars>>
             /\ wire' \in [Token -> Seq(Request)] /\ asked' \in [Token -> 0..MaxAsked]
             /\ hung' \subseteq Token
  BY <1>1 DEF HangUp, Scheduled
<1>2. ASSUME NEW t \in Token, NEW command \in Ask, Send(t, command)
      PROVE  /\ UNCHANGED <<clients, nextToken, phase, ready, turn, budget, taken, deviceVars>>
             /\ wire' \in [Token -> Seq(Request)] /\ asked' \in [Token -> 0..MaxAsked]
             /\ hung' \subseteq Token
  <2> DEFINE r == [id |-> asked[t] + 1, command |-> command]
  <2>1. /\ asked[t] < MaxAsked /\ asked[t] \in 0..MaxAsked /\ MaxAsked \in Nat
        /\ wire' = [wire EXCEPT ![t] = Append(@, r)] /\ asked' = [asked EXCEPT ![t] = @ + 1]
        /\ UNCHANGED <<clients, nextToken, hung, phase, ready, turn, budget, taken, deviceVars>>
    BY <1>2, IpcAssumption DEF Send, Scheduled
  <2>2. r \in Request
    BY <2>1, AskAssumption DEF Request
  <2> HIDE DEF r
  <2>3. wire[t] \in Seq(Request)
    BY DEF Scheduled
  <2>4. Append(wire[t], r) \in Seq(Request)
    BY <2>2, <2>3
  <2> QED
    BY <2>1, <2>4 DEF Scheduled
<1>3. /\ UNCHANGED <<clients, nextToken, phase, ready, turn, budget, taken, deviceVars>>
      /\ wire' \in [Token -> Seq(Request)] /\ asked' \in [Token -> 0..MaxAsked]
      /\ hung' \subseteq Token
  BY <1>1, <1>2 DEF PeerNext
<1>4. Connections'
  BY <1>3 DEF Connections, Live
<1>5. Scheduled'
  BY <1>3 DEF Scheduled, Live, deviceVars
<1>6. InStep'
  BY <1>3 DEF InStep, CapturePaths, Live, deviceVars
<1> QED
  BY <1>4, <1>5, <1>6

\* Only SetCaptures leads back to the poll.
LEMMA ReactorStep ==
  ASSUME ServerInv, ReactorNext
  PROVE  ServerInv'
<1> USE DEF ServerInv
<1>1. CASE Poll
  <2>1. clients' = clients /\ ready' \subseteq Live
    BY <1>1 DEF Poll
  <2>2. Connections'
    BY <2>1 DEF Connections, Live
  <2>3. Scheduled'
    BY <1>1, <2>1 DEF Poll, Scheduled, Connections, Live, peerVars, deviceVars
  <2> QED
    BY <1>1, <2>2, <2>3 DEF Poll, InStep
<1>2. CASE DeviceStep
  <2>1. Scheduled'
    BY <1>2, DeviceStepFacts DEF Scheduled, peerVars
  <2> QED
    BY <1>2, <2>1, DeviceStepFacts DEF InStep
<1>3. CASE EndDevices
  <2>1. Connections'
    BY <1>3 DEF EndDevices, Connections, Live
  <2>2. Scheduled'
    BY <1>3 DEF EndDevices, Scheduled, Live, peerVars, deviceVars
  <2> QED
    BY <1>3, <2>1, <2>2 DEF EndDevices, InStep
<1>4. CASE Accept
  <2>1. nextToken' \in 1..MaxTokens + 1
    BY <1>4, IpcAssumption DEF Accept, Token
  <2>2. Scheduled'
    BY <1>4, <2>1, AcceptStep DEF Accept, Scheduled, peerVars, deviceVars
  <2> QED
    BY <1>4, <2>2, AcceptStep DEF Accept, InStep
<1>5. ASSUME NEW t \in Token, Begin(t)
      PROVE  ServerInv'
  <2>1. Connections'
    BY <1>5 DEF Begin, Connections, Live
  <2>2. budget' \in 0..FrameBudget
    BY <1>5, IpcAssumption DEF Begin
  <2>3. Scheduled'
    BY <1>5, <2>2 DEF Begin, Scheduled, Live, peerVars, deviceVars
  <2> QED
    BY <1>5, <2>1, <2>3 DEF Begin, InStep
<1>6. ASSUME NEW t \in Live, HandleFrame(t)
      PROVE  ServerInv'
  <2>1. phase = "ipc" /\ turn = t
    BY <1>6 DEF HandleFrame, Scheduled, Connections, Token
  <2>2. budget' \in 0..FrameBudget
    BY <1>6, IpcAssumption DEF HandleFrame, Scheduled
  <2>3. Scheduled'
    BY <1>6, <2>1, <2>2, HandleFrameStep DEF HandleFrame, Scheduled, deviceVars
  <2> QED
    BY <1>6, <2>1, <2>3, HandleFrameStep DEF HandleFrame, InStep
<1>7. ASSUME NEW t \in Live, ReadFails(t) \/ Finish(t)
      PROVE  ServerInv'
  <2>1. phase = "ipc"
    BY <1>7 DEF ReadFails, Finish, Scheduled, Connections, Token
  <2>2. Connections' /\ turn' = 0
    BY <1>7, GoneStep, FinishStep DEF ReadFails, Gone
  <2>3. UNCHANGED <<nextToken, peerVars, phase, ready, budget, taken, deviceVars>>
    BY <1>7 DEF ReadFails, Finish, Gone
  <2>4. Scheduled'
    BY <2>2, <2>3 DEF Scheduled, peerVars, deviceVars
  <2> QED
    BY <2>1, <2>2, <2>3, <2>4 DEF InStep
<1>8. CASE TakeCommands
  <2>1. Scheduled'
    BY <1>8, TakeCommandsStep DEF TakeCommands, Scheduled, peerVars, deviceVars
  <2> QED
    BY <1>8, <2>1, TakeCommandsStep DEF TakeCommands, InStep
<1>9. ASSUME NEW t \in Token, CompleteCommand(t)
      PROVE  ServerInv'
  <2>1. Scheduled'
    BY <1>9, CompleteCommandStep DEF CompleteCommand, Scheduled, peerVars
  <2> QED
    BY <1>9, <2>1, CompleteCommandStep DEF CompleteCommand, InStep
<1>10. CASE SetCaptures
  <2>1. Connections'
    BY <1>10 DEF SetCaptures, Connections, Live
  <2>2. Scheduled'
    BY <1>10 DEF SetCaptures, Scheduled, Live, peerVars
  <2>3. CapturePaths' = CapturePaths
    BY <1>10 DEF SetCaptures, CapturePaths, Live
  <2>4. InStep'
    BY <1>10, <2>3 DEF SetCaptures, InStep
  <2> QED
    BY <2>1, <2>2, <2>4
<1> QED
  BY <1>1, <1>2, <1>3, <1>4, <1>5, <1>6, <1>7, <1>8, <1>9, <1>10 DEF ReactorNext, DeviceStep

THEOREM ServerInvInductive == IpcSpec => []ServerInv
<1>1. IpcInit => ServerInv
  <2> SUFFICES ASSUME IpcInit PROVE ServerInv
    OBVIOUS
  <2>1. Live = {} /\ <<>> \in Seq(Request) /\ <<>> \in Seq(DeferredRequest)
    BY DEF IpcInit, Live
  <2>2. Connections
    BY <2>1, FS_EmptySet, IpcAssumption DEF Connections
  <2>3. Scheduled
    BY <2>1, IpcAssumption DEF IpcInit, Scheduled
  <2>4. InStep
    BY <2>1 DEF IpcInit, InStep
  <2> QED
    BY <2>2, <2>3, <2>4 DEF ServerInv
<1>2. ServerInv /\ UNCHANGED ipcVars => ServerInv'
  BY DEF ipcVars, peerVars, deviceVars, ServerInv, Connections, Scheduled, InStep,
     CapturePaths, Live
<1>3. ServerInv /\ [IpcNext]_ipcVars => ServerInv'
  BY <1>2, PeerStep, ReactorStep DEF IpcNext
<1> QED
  BY <1>1, <1>3, PTL DEF IpcSpec

-----------------------------------------------------------------------------
(***************************************************************************)
(* What the invariant says.                                                *)
(***************************************************************************)
\* The values of every variable, and the limits: no connection queues more than
\* the limit (queue_encoded), defers more than a budget of commands (handle_frame)
\* or leases too many controllers (complete_command), and no more of them are
\* accepted than fit (accept_ready).
THEOREM IpcTypeCorrect == IpcSpec => []IpcTypeOK
<1>1. ServerInv => IpcTypeOK
  <2> SUFFICES ASSUME ServerInv PROVE IpcTypeOK
    OBVIOUS
  <2>1. ASSUME NEW t \in Live
        PROVE  /\ clients[t] \in Client
               /\ Len(Output(clients[t])) <= MaxQueued
               /\ Len(clients[t].commands) <= FrameBudget
               /\ Cardinality(clients[t].capture) <= MaxLeases
    <3> DEFINE c == clients[t]
    <3>1. Fits(c)
      BY DEF ServerInv, Connections, Sound
    <3> HIDE DEF c
    <3>2. c.sent \in Seq(Message) /\ c.written \in Nat /\ Len(c.sent) \in Nat
      BY <3>1 DEF Fits, Client
    <3>3. Len(Output(c)) = Len(c.sent) - c.written
      BY <3>1, <3>2 DEF Fits, Output
    <3>4. /\ c \in Client /\ Len(Output(c)) <= MaxQueued
          /\ Len(c.commands) <= FrameBudget /\ Cardinality(c.capture) <= MaxLeases
      BY <3>1, <3>3 DEF Fits
    <3> QED
      BY <3>4 DEF c
  <2>2. Seq(DeferredRequest) \subseteq Seq(Request)
    BY DEF DeferredRequest
  <2>3. taken \in [Token -> Seq(Request)]
    BY <2>2 DEF ServerInv, Scheduled
  <2> QED
    BY <2>1, <2>3 DEF ServerInv, Connections, Scheduled, IpcTypeOK
<1> QED
  BY <1>1, ServerInvInductive, PTL

\* Whenever the daemon waits, the controllers that capture are those a usable
\* connection was told it leases (capture_paths and set_captures, against the
\* responses that complete_command queues).
THEOREM IpcLeasesHonoured == IpcSpec => []LeasesHonoured
<1>1. ServerInv => LeasesHonoured
  <2> SUFFICES ASSUME ServerInv PROVE LeasesHonoured
    OBVIOUS
  <2>1. \A t \in {u \in Live : Usable(clients[u])} : clients[t].capture = ToldLeases(clients[t])
    BY DEF ServerInv, Connections, Sound, Honest
  <2>2. CapturePaths = UNION {ToldLeases(clients[t]) : t \in {u \in Live : Usable(clients[u])}}
    BY <2>1 DEF CapturePaths
  <2> QED
    BY <2>2 DEF ServerInv, InStep, LeasesHonoured
<1> QED
  BY <1>1, ServerInvInductive, PTL

\* A notification is queued only while the last reply about its stream was to a
\* subscription (wants, against the responses of subscribe and unsubscribe).
THEOREM IpcStreamBoundary == IpcSpec => []StreamBoundary
<1>1. ServerInv => StreamBoundary
  <2> SUFFICES ASSUME ServerInv PROVE StreamBoundary
    OBVIOUS
  <2> SUFFICES ASSUME NEW t \in Live, NEW i \in DOMAIN clients[t].sent \ Replies(clients[t])
               PROVE  LET c == clients[t]
                          about == {j \in Replies(c) :
                                      /\ j < i /\ c.sent[j].ok
                                      /\ StreamOf(c.sent[i]) \in c.sent[j].request.command.streams}
                      IN \E j \in about : /\ c.sent[j].request.command.op = "subscribe"
                                          /\ \A k \in about : k <= j
    BY DEF StreamBoundary
  <2> DEFINE c == clients[t]
             s == StreamOf(c.sent[i])
             about == {j \in Replies(c) : j < i /\ c.sent[j].ok /\ s \in c.sent[j].request.command.streams}
  <2>1. Bounded(c)
    BY DEF ServerInv, Connections, Sound
  <2>2. about = {k \in About(c, s) : k < i}
    BY DEF About
  <2>3. PICK j \in {k \in About(c, s) : k < i} :
          /\ c.sent[j].request.command.op = "subscribe"
          /\ \A k \in About(c, s) : k < i => k <= j
    BY <2>1 DEF Bounded
  <2>4. j \in about /\ \A k \in about : k <= j
    BY <2>2, <2>3
  <2> QED
    BY <2>3, <2>4
<1> QED
  BY <1>1, ServerInvInductive, PTL

-----------------------------------------------------------------------------
(***************************************************************************)
(* What the handlers do to a connection, for the order of its frames.      *)
(***************************************************************************)
\* A reply was queued, or there was no room for it.
Answered(c, d, r) ==
  /\ \/ d.sent = c.sent /\ ~Usable(d)
     \/ \E ok \in BOOLEAN : Appended(c, d, Reply(r, ok))
  /\ Usable(d) => /\ Usable(c)
                  /\ d.frames = c.frames /\ d.commands = c.commands
                  /\ c.negotiated => d.negotiated
                  /\ c.streams \subseteq d.streams \/ r.command.op = "unsubscribe"

\* The request waits for service_commands, or is one too many.
Postponed(c, d, r) ==
  /\ d.sent = c.sent
  /\ Usable(d) => /\ Usable(c)
                  /\ d.frames = c.frames /\ d.commands = Append(c.commands, r)
                  /\ d.negotiated = c.negotiated /\ d.streams = c.streams

LEMMA QueuedReply ==
  ASSUME NEW c \in Client, NEW r \in Request, NEW ok \in BOOLEAN
  PROVE  LET d == Queued(c, Reply(r, ok))
         IN /\ d \in Client
            /\ d.frames = c.frames /\ d.commands = c.commands
            /\ d.negotiated = c.negotiated /\ d.streams = c.streams
            /\ \/ d.sent = c.sent /\ ~Usable(d)
               \/ Appended(c, d, Reply(r, ok)) /\ (Usable(d) => Usable(c))
<1> DEFINE m == Reply(r, ok)
           d == Queued(c, m)
<1>1. m \in Message
  BY MessageTypes
<1> HIDE DEF m
<1>2. CASE d = [c EXCEPT !.evicted = TRUE]
  BY <1>2 DEF Client, Usable, m
<1>3. CASE d = [c EXCEPT !.sent = Append(@, m)]
  <2>1. Append(c.sent, m) \in Seq(Message)
    BY <1>1 DEF Client
  <2>2. /\ d \in Client /\ d.sent = Append(c.sent, m)
        /\ d.frames = c.frames /\ d.commands = c.commands
        /\ d.negotiated = c.negotiated /\ d.streams = c.streams
        /\ d.closing = c.closing /\ d.evicted = c.evicted
    BY <1>3, <2>1 DEF Client
  <2> HIDE DEF d
  <2>3. Appended(c, d, m) /\ (Usable(d) => Usable(c))
    BY <1>1, <2>2 DEF Appended, Client, Usable
  <2> QED
    BY <2>2, <2>3 DEF d, m
<1>4. d = [c EXCEPT !.evicted = TRUE] \/ d = [c EXCEPT !.sent = Append(@, m)]
  BY DEF Queued
<1> QED
  BY <1>2, <1>3, <1>4

\* A reply on a connection that has been changed in other respects.
LEMMA QueuedAnswered ==
  ASSUME NEW c \in Client, NEW e \in Client, NEW r \in Request, NEW ok \in BOOLEAN,
         e.sent = c.sent, e.frames = c.frames, e.commands = c.commands,
         Usable(e) => Usable(c), c.negotiated => e.negotiated,
         c.streams \subseteq e.streams \/ r.command.op = "unsubscribe"
  PROVE  Answered(c, Queued(e, Reply(r, ok)), r)
<1> DEFINE d == Queued(e, Reply(r, ok))
<1>1. /\ d.frames = e.frames /\ d.commands = e.commands
      /\ d.negotiated = e.negotiated /\ d.streams = e.streams
      /\ \/ d.sent = e.sent /\ ~Usable(d)
         \/ Appended(e, d, Reply(r, ok)) /\ (Usable(d) => Usable(e))
  BY QueuedReply
<1> HIDE DEF d
<1>2. Appended(e, d, Reply(r, ok)) => Appended(c, d, Reply(r, ok))
  BY DEF Appended
<1>3. \/ d.sent = c.sent /\ ~Usable(d)
      \/ Appended(c, d, Reply(r, ok)) /\ (Usable(d) => Usable(c))
  BY <1>1, <1>2
<1>4. Answered(c, d, r)
  BY <1>1, <1>3 DEF Answered
<1> QED
  BY <1>4 DEF d

\* The error that a connection is closed with.
LEMMA ClosingAnswered ==
  ASSUME NEW c \in Client, NEW r \in Request
  PROVE  Answered(c, [Queued(c, Reply(r, FALSE)) EXCEPT !.closing = TRUE], r)
<1> DEFINE e == Queued(c, Reply(r, FALSE))
           d == [e EXCEPT !.closing = TRUE]
<1>1. e \in Client /\ (e.sent = c.sent \/ Appended(c, e, Reply(r, FALSE)))
  BY QueuedReply
<1> HIDE DEF e
<1>2. d.sent = e.sent /\ ~Usable(d)
  BY <1>1 DEF Client, Usable
<1> HIDE DEF d
<1>3. d.sent = c.sent \/ Appended(c, d, Reply(r, FALSE))
  BY <1>1, <1>2 DEF Appended
<1>4. Answered(c, d, r)
  BY <1>2, <1>3 DEF Answered
<1> QED
  BY <1>4 DEF d, e

LEMMA HandledEffect ==
  ASSUME NEW c \in Client, NEW r \in Request
  PROVE  Answered(c, Handled(c, r), r) \/ Postponed(c, Handled(c, r), r)
<1>1. r.command.op \in {"hello", "ping", "config", "stop", "oversize", "start", "subscribe", "unsubscribe"}
  BY RequestTypes
<1>2. \A ok \in BOOLEAN : Answered(c, Queued(c, Reply(r, ok)), r)
  BY QueuedAnswered
<1>3. CASE r.command.op = "oversize"
  BY <1>3, ClosingAnswered DEF Handled
<1>4. CASE r.command.op # "oversize" /\ ~c.negotiated
  <2>1. Handled(c, r) = Greeted(c, r)
    BY <1>4 DEF Handled
  <2>2. CASE r.command.op = "hello"
    <3> DEFINE e == [c EXCEPT !.negotiated = TRUE]
    <3>1. /\ e \in Client /\ e.sent = c.sent /\ e.frames = c.frames /\ e.commands = c.commands
          /\ e.streams = c.streams /\ e.negotiated
          /\ e.closing = c.closing /\ e.evicted = c.evicted
      BY DEF Client
    <3>2. Handled(c, r) = Queued(e, Reply(r, TRUE))
      BY <2>1, <2>2 DEF Greeted
    <3> HIDE DEF e
    <3>3. Usable(e) => Usable(c)
      BY <3>1 DEF Usable
    <3>4. Answered(c, Queued(e, Reply(r, TRUE)), r)
      BY <3>1, <3>3, QueuedAnswered
    <3> QED
      BY <3>2, <3>4
  <2>3. CASE r.command.op # "hello"
    BY <2>1, <2>3, ClosingAnswered DEF Greeted
  <2> QED
    BY <2>2, <2>3
<1>5. CASE c.negotiated /\ r.command.op \in {"hello", "ping"}
  <2>1. \E ok \in BOOLEAN : Handled(c, r) = Queued(c, Reply(r, ok))
    BY <1>5 DEF Handled
  <2> QED
    BY <1>2, <2>1
<1>6. CASE c.negotiated /\ r.command.op \in {"subscribe", "unsubscribe"}
  <2> DEFINE streams == IF r.command.op = "subscribe" THEN c.streams \cup r.command.streams
                        ELSE c.streams \ r.command.streams
             e == [c EXCEPT !.streams = streams]
  <2>1. Handled(c, r) = Subscribed(c, r)
    BY <1>6 DEF Handled
  <2>2. Subscribed(c, r) = Queued(e, Reply(r, TRUE))
    BY Zenon DEF Subscribed
  <2>3. r.command.streams \subseteq Stream /\ c.streams \subseteq Stream
    BY RequestTypes DEF Client
  <2>4. streams \subseteq Stream /\ (c.streams \subseteq streams \/ r.command.op = "unsubscribe")
    BY <1>6, <2>3
  <2> HIDE DEF streams
  <2>5. /\ e \in Client /\ e.sent = c.sent /\ e.frames = c.frames /\ e.commands = c.commands
        /\ e.streams = streams /\ e.negotiated = c.negotiated
        /\ e.closing = c.closing /\ e.evicted = c.evicted
    BY <2>4 DEF Client
  <2> HIDE DEF e
  <2>6. Usable(e) => Usable(c)
    BY <2>5 DEF Usable
  <2>7. Answered(c, Queued(e, Reply(r, TRUE)), r)
    BY <2>4, <2>5, <2>6, QueuedAnswered
  <2> QED
    BY <2>1, <2>2, <2>7
<1>7. CASE c.negotiated /\ r.command.op \in {"config", "start", "stop"}
  <2> DEFINE d == Deferred(c, r)
  <2>1. Handled(c, r) = d
    BY <1>7 DEF Handled
  <2>2. CASE d = Queued(c, Reply(r, FALSE))
    <3>1. Answered(c, Queued(c, Reply(r, FALSE)), r)
      BY <1>2
    <3> QED
      BY <2>1, <2>2, <3>1
  <2>3. CASE d = [c EXCEPT !.evicted = TRUE]
    <3>1. d.sent = c.sent /\ ~Usable(d)
      BY <2>3 DEF Client, Usable
    <3> QED
      BY <2>1, <3>1 DEF Postponed
  <2>4. CASE d = [c EXCEPT !.commands = Append(@, r)]
    <3>1. /\ d.sent = c.sent /\ d.frames = c.frames /\ d.commands = Append(c.commands, r)
          /\ d.negotiated = c.negotiated /\ d.streams = c.streams
          /\ d.closing = c.closing /\ d.evicted = c.evicted
      BY <2>4 DEF Client
    <3> HIDE DEF d
    <3> QED
      BY <2>1, <3>1 DEF Postponed, Usable
  <2> QED
    BY <2>2, <2>3, <2>4 DEF Deferred
<1> QED
  BY <1>1, <1>3, <1>4, <1>5, <1>6, <1>7

LEMMA CompletedEffect ==
  ASSUME NEW c \in Client, NEW r \in DeferredRequest, NEW ok \in BOOLEAN
  PROVE  Answered(c, Completed(c, r, ok), r)
<1>1. /\ r \in Request /\ r.command.op \in {"config", "start", "stop"}
      /\ r.command.op = "start" => r.command.path \in Path
  BY RequestTypes DEF DeferredRequest
<1>2. CASE ~ok \/ (r.command.op = "start" /\ OverLeased(c, r.command.path))
  <2>1. Completed(c, r, ok) = Queued(c, Reply(r, FALSE))
    BY <1>2 DEF Completed
  <2> QED
    BY <1>1, <2>1, QueuedAnswered
<1>3. CASE ok /\ ~(r.command.op = "start" /\ OverLeased(c, r.command.path))
  <2> DEFINE capture == CASE r.command.op = "start" -> c.capture \cup {r.command.path}
                          [] r.command.op = "stop"  -> {}
                          [] r.command.op = "config" -> c.capture
             e == [c EXCEPT !.capture = capture]
  <2>1. Completed(c, r, ok) = Queued(e, Reply(r, TRUE))
    BY <1>3, Zenon DEF Completed
  <2>2. /\ r.command.op = "start" => capture = c.capture \cup {r.command.path}
        /\ r.command.op = "stop" => capture = {}
        /\ r.command.op = "config" => capture = c.capture
    OBVIOUS
  <2>3. c.capture \subseteq Path
    BY DEF Client
  <2>4. capture \subseteq Path
    BY <1>1, <2>2, <2>3
  <2> HIDE DEF capture
  <2>5. /\ e \in Client /\ e.sent = c.sent /\ e.frames = c.frames /\ e.commands = c.commands
        /\ e.streams = c.streams /\ e.negotiated = c.negotiated
        /\ e.closing = c.closing /\ e.evicted = c.evicted
    BY <2>4 DEF Client
  <2> HIDE DEF e
  <2>6. Usable(e) => Usable(c)
    BY <2>5 DEF Usable
  <2>7. Answered(c, Queued(e, Reply(r, TRUE)), r)
    BY <1>1, <2>5, <2>6, QueuedAnswered
  <2> QED
    BY <2>1, <2>7
<1> QED
  BY <1>2, <1>3

-----------------------------------------------------------------------------
(***************************************************************************)
(* The order of notifications.  Besides what was sent, the invariant says  *)
(* why the next one will be in order: a connection that was told of a      *)
(* removal has been excused, or will hear of the next addition.            *)
(***************************************************************************)
Notes(c) == DOMAIN c.sent \ Replies(c)

\* Frame k explains an input of the controller whose removal is frame i.
Excuses(c, i, k) ==
  \/ k \in Notes(c) /\ c.sent[k].what = "added" /\ c.sent[k].path = c.sent[i].path
  \/ k \in Replies(c) /\ c.sent[k].request.command.op = "unsubscribe"

Ordered(c) ==
  \A i, j \in Notes(c) : i < j =>
    /\ c.sent[i].sequence < c.sent[j].sequence
    /\ c.sent[i].what = "removed" /\ c.sent[j].what = "input" /\ c.sent[i].path = c.sent[j].path
         => \E k \in i..j : Excuses(c, i, k)

Numbered(c, n) == \A i \in Notes(c) : c.sent[i].sequence <= n

\* D: the controllers owned
Awaited(c, D) ==
  Usable(c) => \A i \in Notes(c) : c.sent[i].what = "removed" =>
    \/ \E k \in DOMAIN c.sent : i < k /\ Excuses(c, i, k)
    \/ c.sent[i].path \notin D /\ c.negotiated /\ "devices" \in c.streams

Noted(c, D, n) == Ordered(c) /\ Numbered(c, n) /\ Awaited(c, D)

\* What an appended frame leaves as it was.
LEMMA AppendedNotes ==
  ASSUME NEW c, NEW d, NEW m, Appended(c, d, m)
  PROVE  LET n == Len(c.sent) + 1
         IN /\ DOMAIN d.sent = DOMAIN c.sent \cup {n}
            /\ \A i \in DOMAIN c.sent : d.sent[i] = c.sent[i] /\ i < n /\ i \in Nat
            /\ d.sent[n] = m /\ n \in Nat /\ n \notin DOMAIN c.sent
            /\ IF m.type = "reply" THEN Notes(d) = Notes(c) /\ n \in Replies(d)
               ELSE Notes(d) = Notes(c) \cup {n}
            /\ Notes(c) \subseteq DOMAIN c.sent
            /\ \A i \in Notes(c), k \in DOMAIN c.sent : Excuses(d, i, k) <=> Excuses(c, i, k)
<1> DEFINE n == Len(c.sent) + 1
<1>1. /\ DOMAIN d.sent = DOMAIN c.sent \cup {n}
      /\ \A i \in DOMAIN c.sent : d.sent[i] = c.sent[i] /\ i < n /\ i \in Nat
      /\ d.sent[n] = m /\ n \notin DOMAIN c.sent /\ n \in Nat
      /\ \/ m.type = "reply" /\ Replies(d) = Replies(c) \cup {n}
         \/ m.type # "reply" /\ Replies(d) = Replies(c)
      /\ Replies(c) \subseteq DOMAIN c.sent
  BY AppendedReplies
<1> HIDE DEF n
<1>2. IF m.type = "reply" THEN Notes(d) = Notes(c) /\ n \in Replies(d)
      ELSE Notes(d) = Notes(c) \cup {n}
  BY <1>1 DEF Notes
<1>3. Notes(c) \subseteq DOMAIN c.sent
  BY DEF Notes
<1>4. \A k \in DOMAIN c.sent :
        (k \in Notes(d) <=> k \in Notes(c)) /\ (k \in Replies(d) <=> k \in Replies(c))
  BY <1>1 DEF Notes
<1>5. ASSUME NEW i \in Notes(c), NEW k \in DOMAIN c.sent
      PROVE  Excuses(d, i, k) <=> Excuses(c, i, k)
  <2>1. d.sent[i] = c.sent[i] /\ d.sent[k] = c.sent[k]
    BY <1>1, <1>3
  <2>2. k \in Notes(d) <=> k \in Notes(c)
    BY <1>4
  <2>3. k \in Replies(d) <=> k \in Replies(c)
    BY <1>4
  <2> QED
    BY <2>1, <2>2, <2>3, Zenon DEF Excuses
<1> QED
  BY <1>1, <1>2, <1>3, <1>5 DEF n

\* Frames that were sent stay in order when a reply follows them.
LEMMA OrderedReply ==
  ASSUME NEW c, NEW d, NEW m, Appended(c, d, m), m.type = "reply", NEW n, Ordered(c), Numbered(c, n)
  PROVE  Ordered(d) /\ Numbered(d, n)
<1>1. /\ \A i \in DOMAIN c.sent : d.sent[i] = c.sent[i] /\ i \in Nat
      /\ Notes(d) = Notes(c) /\ Notes(c) \subseteq DOMAIN c.sent
      /\ \A i \in Notes(c), k \in DOMAIN c.sent : Excuses(d, i, k) <=> Excuses(c, i, k)
  BY AppendedNotes
<1>2. DOMAIN c.sent = 1..Len(c.sent) /\ Len(c.sent) \in Nat
  BY DEF Appended
<1>3. Numbered(d, n)
  BY <1>1 DEF Numbered
<1>4. SUFFICES ASSUME NEW i \in Notes(c), NEW j \in Notes(c), i < j
               PROVE  /\ d.sent[i].sequence < d.sent[j].sequence
                      /\ /\ d.sent[i].what = "removed" /\ d.sent[j].what = "input"
                         /\ d.sent[i].path = d.sent[j].path
                         => \E k \in i..j : Excuses(d, i, k)
  BY <1>1, <1>3 DEF Ordered
<1>5. d.sent[i] = c.sent[i] /\ d.sent[j] = c.sent[j]
  BY <1>1
<1>6. i..j \subseteq DOMAIN c.sent
  BY <1>1, <1>2
<1> QED
  BY <1>1, <1>4, <1>5, <1>6 DEF Ordered

\* Nothing that matters here has changed.
LEMMA NotedSame ==
  ASSUME NEW c, NEW d, NEW D, NEW n, Noted(c, D, n), d.sent = c.sent,
         Usable(d) => Usable(c) /\ (c.negotiated => d.negotiated) /\ c.streams \subseteq d.streams
  PROVE  Noted(d, D, n)
<1>1. Replies(d) = Replies(c) /\ Notes(d) = Notes(c)
  BY DEF Replies, Notes
<1>2. \A i, k : Excuses(d, i, k) <=> Excuses(c, i, k)
  BY <1>1 DEF Excuses
<1> QED
  BY <1>1, <1>2 DEF Noted, Ordered, Numbered, Awaited

\* A request is answered or waits.
LEMMA NotedAnswered ==
  ASSUME NEW c, NEW d, NEW r \in Request, NEW D, NEW n, Noted(c, D, n),
         Answered(c, d, r) \/ Postponed(c, d, r)
  PROVE  Noted(d, D, n)
<1>1. CASE d.sent = c.sent /\ ~Usable(d)
  BY <1>1, NotedSame
<1>2. CASE Postponed(c, d, r)
  BY <1>2, NotedSame DEF Postponed
<1>3. ASSUME NEW ok \in BOOLEAN, Appended(c, d, Reply(r, ok)), Answered(c, d, r)
      PROVE  Noted(d, D, n)
  <2> DEFINE m == Reply(r, ok)
             last == Len(c.sent) + 1
  <2>1. m.type = "reply" /\ m.request = r
    BY MessageTypes
  <2>2. Appended(c, d, m)
    BY <1>3
  <2> HIDE DEF m
  <2>3. Ordered(d) /\ Numbered(d, n)
    BY <2>1, <2>2, OrderedReply DEF Noted
  <2>4. /\ DOMAIN d.sent = DOMAIN c.sent \cup {last}
        /\ \A i \in DOMAIN c.sent : d.sent[i] = c.sent[i] /\ i < last /\ i \in Nat
        /\ d.sent[last] = m /\ Notes(d) = Notes(c) /\ last \in Replies(d)
        /\ Notes(c) \subseteq DOMAIN c.sent
        /\ \A i \in Notes(c), k \in DOMAIN c.sent : Excuses(d, i, k) <=> Excuses(c, i, k)
    BY <2>1, <2>2, AppendedNotes
  <2> HIDE DEF last
  <2>5. ASSUME Usable(d), NEW i \in Notes(c), d.sent[i].what = "removed"
        PROVE  \/ \E k \in DOMAIN d.sent : i < k /\ Excuses(d, i, k)
               \/ d.sent[i].path \notin D /\ d.negotiated /\ "devices" \in d.streams
    <3>1. /\ Usable(c) /\ (c.negotiated => d.negotiated)
          /\ c.streams \subseteq d.streams \/ r.command.op = "unsubscribe"
      BY <1>3, <2>5 DEF Answered
    <3>2. CASE r.command.op = "unsubscribe"
      <4>1. Excuses(d, i, last)
        BY <2>1, <2>4, <3>2 DEF Excuses
      <4> QED
        BY <2>4, <4>1
    <3>3. CASE c.streams \subseteq d.streams
      <4>1. \/ \E k \in DOMAIN c.sent : i < k /\ Excuses(c, i, k)
            \/ c.sent[i].path \notin D /\ c.negotiated /\ "devices" \in c.streams
        BY <2>4, <2>5, <3>1 DEF Noted, Awaited
      <4> QED
        BY <2>4, <3>1, <3>3, <4>1
    <3> QED
      BY <3>1, <3>2, <3>3
  <2>6. Awaited(d, D)
    BY <2>4, <2>5 DEF Awaited
  <2> QED
    BY <2>3, <2>6 DEF Noted
<1> QED
  BY <1>1, <1>2, <1>3 DEF Answered

\* The controllers owned once a notification was published of those owned before.
Told(D, E, m) ==
  \/ m.what = "input" /\ m.path \in D /\ E = D
  \/ m.what = "removed" /\ E = D \ {m.path}
  \/ m.what = "added" /\ E = D \cup {m.path}

\* publish leaves out a connection, which expects nothing of this controller.
LEMMA NotedPassed ==
  ASSUME NEW c \in Client, NEW D, NEW E, NEW n \in Nat, NEW N \in Nat, n <= N,
         NEW m, Told(D, E, m), Noted(c, D, n),
         ~(c.negotiated /\ Usable(c) /\ Wants(c, m))
  PROVE  Noted(c, E, N)
<1>1. \A i \in Notes(c) : c.sent[i].sequence \in Nat
  <2>1. \A i \in DOMAIN c.sent : c.sent[i] \in Message
    BY DEF Client
  <2>2. \A i \in Notes(c) : i \in DOMAIN c.sent /\ c.sent[i].type # "reply"
    BY DEF Notes, Replies
  <2> QED
    BY <2>1, <2>2 DEF Message
<1>2. Numbered(c, N)
  BY <1>1 DEF Noted, Numbered
<1>3. ASSUME Usable(c), NEW i \in Notes(c), c.sent[i].path \notin D, c.negotiated,
             "devices" \in c.streams
      PROVE  c.sent[i].path \notin E
  BY <1>3 DEF Told, Wants, StreamOf
<1>4. Awaited(c, E)
  BY <1>3 DEF Noted, Awaited
<1> QED
  BY <1>2, <1>4 DEF Noted

\* A notification is appended for a connection that wants it.
LEMMA NotedAppended ==
  ASSUME NEW c \in Client, NEW d, NEW D, NEW E, NEW n \in Nat,
         NEW m \in Message, m.type # "reply", m.sequence > n, Told(D, E, m), Noted(c, D, n),
         c.negotiated, Usable(c), Wants(c, m), Appended(c, d, m),
         d.negotiated = c.negotiated, d.streams = c.streams
  PROVE  Noted(d, E, m.sequence)
<1> DEFINE last == Len(c.sent) + 1
<1>1. /\ DOMAIN d.sent = DOMAIN c.sent \cup {last}
      /\ \A i \in DOMAIN c.sent : d.sent[i] = c.sent[i] /\ i < last /\ i \in Nat
      /\ d.sent[last] = m /\ last \in Nat /\ last \notin DOMAIN c.sent
      /\ Notes(d) = Notes(c) \cup {last} /\ Notes(c) \subseteq DOMAIN c.sent
      /\ \A i \in Notes(c), k \in DOMAIN c.sent : Excuses(d, i, k) <=> Excuses(c, i, k)
  BY AppendedNotes
<1>2. DOMAIN c.sent = 1..Len(c.sent) /\ Len(c.sent) \in Nat
  BY DEF Client
<1> HIDE DEF last
<1>3. \A i \in Notes(c) : c.sent[i].sequence \in Nat /\ c.sent[i].sequence <= n
  <2>1. \A i \in DOMAIN c.sent : c.sent[i] \in Message
    BY DEF Client
  <2>2. \A i \in Notes(c) : i \in DOMAIN c.sent /\ c.sent[i].type # "reply"
    BY DEF Notes, Replies
  <2> QED
    BY <2>1, <2>2 DEF Message, Noted, Numbered
<1>4. m.sequence \in Nat
  BY DEF Message
<1>5. Numbered(d, m.sequence)
  BY <1>1, <1>3, <1>4 DEF Numbered
<1>6. ASSUME NEW i \in Notes(c), c.sent[i].what = "removed"
      PROVE  \/ \E k \in DOMAIN c.sent : i < k /\ Excuses(c, i, k)
             \/ c.sent[i].path \notin D /\ c.negotiated /\ "devices" \in c.streams
  BY <1>6 DEF Noted, Awaited
<1>7. Ordered(d)
  <2> SUFFICES ASSUME NEW i \in Notes(d), NEW j \in Notes(d), i < j
               PROVE  /\ d.sent[i].sequence < d.sent[j].sequence
                      /\ /\ d.sent[i].what = "removed" /\ d.sent[j].what = "input"
                         /\ d.sent[i].path = d.sent[j].path
                         => \E k \in i..j : Excuses(d, i, k)
    BY DEF Ordered
  <2>1. i \in Notes(c) /\ d.sent[i] = c.sent[i] /\ i \in DOMAIN c.sent /\ i \in Nat
    BY <1>1, <1>2
  <2>2. CASE j \in Notes(c)
    <3>1. d.sent[j] = c.sent[j] /\ i..j \subseteq DOMAIN c.sent
      BY <1>1, <1>2, <2>1, <2>2
    <3> QED
      BY <1>1, <2>1, <2>2, <3>1 DEF Noted, Ordered
  <2>3. CASE j = last
    <3>1. d.sent[j] = m
      BY <1>1, <2>3
    <3>2. d.sent[i].sequence < d.sent[j].sequence
      BY <1>3, <1>4, <2>1, <3>1
    <3>3. ASSUME d.sent[i].what = "removed", m.what = "input", d.sent[i].path = m.path
          PROVE  \E k \in i..j : Excuses(d, i, k)
      <4>1. m.path \in D
        BY <3>3 DEF Told
      <4>2. PICK k \in DOMAIN c.sent : i < k /\ Excuses(c, i, k)
        BY <1>6, <2>1, <3>3, <4>1
      <4>3. k \in i..j
        BY <1>1, <2>1, <2>3, <4>2
      <4> QED
        BY <1>1, <2>1, <4>2, <4>3
    <3> QED
      BY <3>1, <3>2, <3>3
  <2> QED
    BY <1>1, <2>2, <2>3
<1>8. ASSUME NEW i \in Notes(d), d.sent[i].what = "removed"
      PROVE  \/ \E k \in DOMAIN d.sent : i < k /\ Excuses(d, i, k)
             \/ d.sent[i].path \notin E /\ d.negotiated /\ "devices" \in d.streams
  <2>1. CASE i = last
    <3>1. d.sent[i] = m /\ m.what = "removed"
      BY <1>1, <1>8, <2>1
    <3>2. "devices" \in c.streams /\ m.path \notin E
      BY <3>1 DEF Wants, StreamOf, Told
    <3> QED
      BY <3>1, <3>2
  <2>2. CASE i \in Notes(c)
    <3>1. d.sent[i] = c.sent[i] /\ i \in DOMAIN c.sent /\ i < last
      BY <1>1, <2>2
    <3>2. CASE \E k \in DOMAIN c.sent : i < k /\ Excuses(c, i, k)
      BY <1>1, <2>2, <3>2
    <3>3. CASE c.sent[i].path \notin D /\ c.negotiated /\ "devices" \in c.streams
      <4>1. CASE m.what = "added" /\ m.path = c.sent[i].path
        <5>1. Excuses(d, i, last)
          BY <1>1, <3>1, <4>1 DEF Excuses
        <5> QED
          BY <1>1, <3>1, <5>1
      <4>2. CASE ~(m.what = "added" /\ m.path = c.sent[i].path)
        <5>1. c.sent[i].path \notin E
          BY <3>3, <4>2 DEF Told
        <5> QED
          BY <3>1, <3>3, <5>1
      <4> QED
        BY <4>1, <4>2
    <3> QED
      BY <1>6, <1>8, <2>2, <3>1, <3>2, <3>3
  <2> QED
    BY <1>1, <2>1, <2>2
<1>9. Awaited(d, E)
  BY <1>8 DEF Awaited
<1> QED
  BY <1>5, <1>7, <1>9 DEF Noted

\* publish
LEMMA NotedPublished ==
  ASSUME NEW cs, NEW D, NEW E, NEW n \in Nat,
         \A t \in DOMAIN cs : cs[t] \in Client /\ Noted(cs[t], D, n),
         NEW m \in Message, m.type # "reply", m.sequence > n, Told(D, E, m)
  PROVE  \A t \in DOMAIN Published(cs, m) : Noted(Published(cs, m)[t], E, m.sequence)
<1> DEFINE told == [t \in DOMAIN cs |->
                      IF cs[t].negotiated /\ Usable(cs[t]) /\ Wants(cs[t], m)
                      THEN Queued(cs[t], m) ELSE cs[t]]
           kept == {t \in DOMAIN told : ~told[t].evicted}
<1>1. Published(cs, m) = [t \in kept |-> told[t]]
  BY DEF Published, Restrict
<1>2. kept \subseteq DOMAIN cs /\ \A t \in kept : ~told[t].evicted
  OBVIOUS
<1>3. m.sequence \in Nat /\ n <= m.sequence
  BY DEF Message
<1>4. ASSUME NEW t \in kept
      PROVE  Noted(told[t], E, m.sequence)
  <2> DEFINE c == cs[t]
             d == told[t]
  <2>1. c \in Client /\ Noted(c, D, n)
    BY <1>2
  <2>2. CASE ~(c.negotiated /\ Usable(c) /\ Wants(c, m))
    <3>1. d = c
      BY <1>2, <2>2
    <3> HIDE DEF d
    <3> QED
      BY <1>3, <2>1, <2>2, <3>1, NotedPassed
  <2>3. CASE c.negotiated /\ Usable(c) /\ Wants(c, m)
    <3>1. d = Queued(c, m) /\ ~d.evicted
      BY <1>2, <2>3
    <3> HIDE DEF told, kept
    <3>2. d = [c EXCEPT !.sent = Append(@, m)]
      <4>1. CASE Queued(c, m) = [c EXCEPT !.evicted = TRUE]
        BY <2>1, <3>1, <4>1 DEF Client
      <4> QED
        BY <3>1, <4>1 DEF Queued
    <3>3. /\ d.sent = Append(c.sent, m) /\ c.sent \in Seq(Message)
          /\ d.negotiated = c.negotiated /\ d.streams = c.streams
      BY <2>1, <3>2 DEF Client
    <3> HIDE DEF c, d
    <3>4. Appended(c, d, m)
      BY <3>3 DEF Appended
    <3>5. Noted(d, E, m.sequence)
      BY <2>1, <2>3, <3>3, <3>4, NotedAppended
    <3> QED
      BY <3>5 DEF d
  <2> QED
    BY <2>2, <2>3
<1> HIDE DEF told, kept
<1> QED
  BY <1>1, <1>4

InOrder == \A t \in Live : Noted(clients[t], devices, sequence)

\* A connection without frames.
LEMMA NotedNothing ==
  ASSUME NEW c, c.sent = <<>>, NEW D, NEW n
  PROVE  Noted(c, D, n)
<1>1. Notes(c) = {}
  BY DEF Notes
<1> QED
  BY <1>1 DEF Noted, Ordered, Numbered, Awaited

LEMMA DeviceStepInOrder ==
  ASSUME ServerInv, InOrder, DeviceStep
  PROVE  InOrder'
<1>1. \A t \in DOMAIN clients : clients[t] \in Client /\ Noted(clients[t], devices, sequence)
  BY DEF ServerInv, Connections, Sound, Fits, InOrder, Live
<1>2. sequence \in Nat /\ MaxEvents \in Nat /\ sequence <= MaxEvents
  BY IpcAssumption DEF ServerInv, Scheduled
<1>3. ASSUME NEW p \in Path, NEW what \in {"input", "added", "removed"}, NEW n \in 1..MaxEvents
      PROVE  /\ Note(what, p, n) \in Message /\ Note(what, p, n).type # "reply"
             /\ Note(what, p, n).what = what /\ Note(what, p, n).path = p
             /\ Note(what, p, n).sequence = n
  BY DEF Note, Message
<1>4. ASSUME NEW p \in Path, RemoveSlot(p)
      PROVE  InOrder'
  <2> DEFINE m == Note("removed", p, sequence + 1)
  <2>1. clients' = Published(clients, m) /\ devices' = devices \ {p} /\ sequence' = sequence + 1
    BY <1>4 DEF RemoveSlot
  <2>2. sequence + 1 \in 1..MaxEvents
    BY <1>2, <1>4 DEF RemoveSlot
  <2>3. /\ m \in Message /\ m.type # "reply" /\ m.sequence = sequence + 1 /\ m.sequence > sequence
        /\ Told(devices, devices', m)
    BY <1>2, <1>3, <2>1, <2>2 DEF Told
  <2> HIDE DEF m
  <2>4. \A t \in DOMAIN clients' : Noted(clients'[t], devices', sequence')
    BY <1>1, <1>2, <2>1, <2>3, NotedPublished
  <2> QED
    BY <2>4 DEF InOrder, Live
<1>5. ASSUME NEW p \in Path, AddPath(p)
      PROVE  InOrder'
  <2> DEFINE m == Note("added", p, sequence + 1)
  <2>1. clients' = Published(clients, m) /\ devices' = devices \cup {p} /\ sequence' = sequence + 1
    BY <1>5 DEF AddPath
  <2>2. sequence + 1 \in 1..MaxEvents
    BY <1>2, <1>5 DEF AddPath
  <2>3. /\ m \in Message /\ m.type # "reply" /\ m.sequence = sequence + 1 /\ m.sequence > sequence
        /\ Told(devices, devices', m)
    BY <1>2, <1>3, <2>1, <2>2 DEF Told
  <2> HIDE DEF m
  <2>4. \A t \in DOMAIN clients' : Noted(clients'[t], devices', sequence')
    BY <1>1, <1>2, <2>1, <2>3, NotedPublished
  <2> QED
    BY <2>4 DEF InOrder, Live
<1>6. ASSUME NEW p \in Path, NEW gone \in BOOLEAN, DrainDevice(p, gone)
      PROVE  InOrder'
  <2> DEFINE inputs == IF HasInputSubscribers THEN 1 ELSE 0
             drained == IF inputs = 1 THEN Published(clients, Note("input", p, sequence + 1))
                        ELSE clients
  <2>1. p \in devices /\ sequence + 2 <= MaxEvents
    BY <1>6 DEF DrainDevice
  <2>2. \/ /\ devices' = devices \ {p} /\ sequence' = sequence + inputs + 1
           /\ clients' = Published(drained, Note("removed", p, sequence'))
        \/ devices' = devices /\ sequence' = sequence + inputs /\ clients' = drained
    BY <1>6 DEF DrainDevice
  <2>3. inputs \in {0, 1} /\ sequence + inputs \in Nat
    BY <1>2
  <2>4. \A t \in DOMAIN drained : drained[t] \in Client /\ Noted(drained[t], devices, sequence + inputs)
    <3>1. CASE inputs = 1
      <4> DEFINE m == Note("input", p, sequence + 1)
      <4>1. /\ m \in Message /\ m.type # "reply" /\ m.sequence = sequence + 1 /\ m.sequence > sequence
            /\ Told(devices, devices, m)
        BY <1>2, <1>3, <2>1 DEF Told
      <4>2. drained = Published(clients, m)
        BY <3>1
      <4> HIDE DEF m, drained
      <4>3. \A t \in DOMAIN drained : Noted(drained[t], devices, sequence + 1)
        BY <1>1, <1>2, <4>1, <4>2, NotedPublished
      <4>4. \A t \in DOMAIN clients : Sound(clients[t])
        BY DEF ServerInv, Connections, Live
      <4>5. \A t \in DOMAIN drained : Sound(drained[t])
        BY <4>1, <4>2, <4>4, PublishedSound
      <4> QED
        BY <3>1, <4>3, <4>5 DEF Sound, Fits
    <3>2. CASE inputs = 0
      <4>1. drained = clients /\ sequence + inputs = sequence
        BY <1>2, <3>2
      <4> QED
        BY <1>1, <4>1
    <3> QED
      BY <2>3, <3>1, <3>2
  <2> HIDE DEF inputs, drained
  <2>5. CASE /\ devices' = devices \ {p} /\ sequence' = sequence + inputs + 1
             /\ clients' = Published(drained, Note("removed", p, sequence'))
    <3> DEFINE m == Note("removed", p, sequence')
    <3>1. sequence' \in 1..MaxEvents /\ sequence' > sequence + inputs
      BY <1>2, <2>1, <2>3, <2>5
    <3>2. /\ m \in Message /\ m.type # "reply" /\ m.sequence = sequence'
          /\ Told(devices, devices', m)
      BY <1>3, <2>5, <3>1 DEF Told
    <3>3. clients' = Published(drained, m)
      BY <2>5
    <3> HIDE DEF m
    <3>4. \A t \in DOMAIN clients' : Noted(clients'[t], devices', m.sequence)
      BY <2>3, <2>4, <3>1, <3>2, <3>3, NotedPublished
    <3> QED
      BY <3>2, <3>4 DEF InOrder, Live
  <2>6. CASE devices' = devices /\ sequence' = sequence + inputs /\ clients' = drained
    BY <2>4, <2>6 DEF InOrder, Live
  <2> QED
    BY <2>2, <2>5, <2>6
<1> QED
  BY <1>4, <1>5, <1>6 DEF DeviceStep

LEMMA OtherStepsInOrder ==
  ASSUME ServerInv, InOrder, UNCHANGED <<devices, sequence>>,
         \A t \in DOMAIN clients' :
           \/ t \in Live /\ Noted(clients'[t], devices, sequence)
           \/ clients'[t].sent = <<>>
  PROVE  InOrder'
BY NotedNothing DEF InOrder, Live

LEMMA StepInOrder ==
  ASSUME ServerInv, InOrder, [IpcNext]_ipcVars
  PROVE  InOrder'
<1>1. \A t \in Live : clients[t] \in Client /\ Noted(clients[t], devices, sequence)
  BY DEF ServerInv, Connections, Sound, Fits, InOrder
<1>2. CASE UNCHANGED <<clients, devices, sequence>>
  BY <1>2 DEF InOrder, Live
<1>3. CASE DeviceStep
  BY <1>3, DeviceStepInOrder
<1>4. CASE Accept
  <2>1. /\ DOMAIN clients' = Live \cup {nextToken} /\ UNCHANGED <<devices, sequence>>
        /\ \A t \in DOMAIN clients' : clients'[t] = IF t \in Live THEN clients[t] ELSE NewClient
    BY <1>4 DEF Accept, deviceVars
  <2>2. NewClient.sent = <<>>
    BY DEF NewClient
  <2> QED
    BY <1>1, <2>1, <2>2, OtherStepsInOrder
<1>5. ASSUME NEW t \in Live, HandleFrame(t)
      PROVE  InOrder'
  <2> DEFINE c == clients[t]
             frames == IF c.frames = <<>> THEN wire[t] ELSE c.frames
             d == [c EXCEPT !.frames = Tail(frames)]
             r == Head(frames)
  <2>1. /\ frames # <<>> /\ UNCHANGED <<devices, sequence>>
        /\ clients' = [clients EXCEPT ![t] = Handled(d, r)]
    BY <1>5 DEF HandleFrame, deviceVars
  <2>2. c \in Client /\ wire[t] \in Seq(Request) /\ Noted(c, devices, sequence)
    BY <1>1 DEF ServerInv, Scheduled, Connections
  <2>3. frames \in Seq(Request)
    BY <2>2 DEF Client
  <2>4. r \in Request /\ Tail(frames) \in Seq(Request)
    BY <2>1, <2>3
  <2> HIDE DEF frames, r
  <2>5. /\ d \in Client /\ d.sent = c.sent /\ d.negotiated = c.negotiated /\ d.streams = c.streams
        /\ d.closing = c.closing /\ d.evicted = c.evicted
    BY <2>2, <2>4 DEF Client
  <2> HIDE DEF c, d
  <2>6. Noted(d, devices, sequence)
    BY <2>2, <2>5, NotedSame DEF Usable
  <2>7. Noted(Handled(d, r), devices, sequence)
    BY <2>4, <2>5, <2>6, HandledEffect, NotedAnswered
  <2> QED
    BY <1>1, <2>1, <2>7, OtherStepsInOrder DEF Live
<1>6. ASSUME NEW t \in Live, Gone(t)
      PROVE  InOrder'
  <2>1. /\ DOMAIN clients' = Live \ {t} /\ \A u \in Live \ {t} : clients'[u] = clients[u]
        /\ UNCHANGED <<devices, sequence>>
    BY <1>6 DEF Gone, Restrict, deviceVars
  <2> QED
    BY <1>1, <2>1, OtherStepsInOrder
<1>7. ASSUME NEW t \in Live, NEW n, clients' = [clients EXCEPT ![t].written = n],
             UNCHANGED <<devices, sequence>>
      PROVE  InOrder'
  <2> DEFINE c == clients[t]
             d == [c EXCEPT !.written = n]
  <2>1. /\ d.sent = c.sent /\ d.negotiated = c.negotiated /\ d.streams = c.streams
        /\ d.closing = c.closing /\ d.evicted = c.evicted
    BY <1>1 DEF Client
  <2>2. clients' = [clients EXCEPT ![t] = d] /\ Noted(c, devices, sequence)
    BY <1>1, <1>7
  <2> HIDE DEF c, d
  <2>3. Noted(d, devices, sequence)
    BY <2>1, <2>2, NotedSame DEF Usable
  <2> QED
    BY <1>1, <1>7, <2>2, <2>3, OtherStepsInOrder DEF Live
<1>8. CASE TakeCommands
  <2>1. /\ DOMAIN clients' = Live /\ UNCHANGED <<devices, sequence>>
        /\ \A t \in Live : clients'[t] = IF Usable(clients[t]) THEN [clients[t] EXCEPT !.commands = <<>>]
                                         ELSE clients[t]
    BY <1>8 DEF TakeCommands, deviceVars
  <2>2. ASSUME NEW t \in Live PROVE Noted(clients'[t], devices, sequence)
    <3> DEFINE c == clients[t]
               d == [c EXCEPT !.commands = <<>>]
    <3>1. /\ d.sent = c.sent /\ d.negotiated = c.negotiated /\ d.streams = c.streams
          /\ d.closing = c.closing /\ d.evicted = c.evicted
      BY <1>1 DEF Client
    <3>2. Noted(c, devices, sequence) /\ (clients'[t] = c \/ clients'[t] = d)
      BY <1>1, <2>1
    <3> HIDE DEF c, d
    <3>3. Noted(d, devices, sequence)
      BY <3>1, <3>2, NotedSame DEF Usable
    <3> QED
      BY <3>2, <3>3
  <2> QED
    BY <2>1, <2>2, OtherStepsInOrder
<1>9. ASSUME NEW t \in Token, CompleteCommand(t)
      PROVE  InOrder'
  <2> DEFINE r == Head(taken[t])
  <2>1. t \in Live /\ taken[t] # <<>> /\ UNCHANGED <<devices, sequence>>
    BY <1>9 DEF CompleteCommand
  <2>2. PICK ok \in BOOLEAN : clients' = [clients EXCEPT ![t] = Completed(@, r, ok)]
    BY <1>9 DEF CompleteCommand
  <2>3. taken[t] \in Seq(DeferredRequest)
    BY DEF ServerInv, Scheduled
  <2>4. r \in DeferredRequest /\ r \in Request
    BY <2>1, <2>3 DEF DeferredRequest
  <2> HIDE DEF r
  <2> DEFINE c == clients[t]
             d == Completed(c, r, ok)
  <2>5. clients' = [clients EXCEPT ![t] = d]
    BY <2>2
  <2>6. Answered(c, d, r) /\ Noted(c, devices, sequence)
    BY <1>1, <2>1, <2>4, CompletedEffect
  <2> HIDE DEF c, d
  <2>7. Noted(d, devices, sequence)
    BY <2>4, <2>6, NotedAnswered
  <2> QED
    BY <1>1, <2>1, <2>5, <2>7, OtherStepsInOrder DEF Live
<1>10. CASE PeerNext \/ Poll \/ EndDevices \/ SetCaptures \/ UNCHANGED ipcVars
  <2>1. UNCHANGED <<clients, devices, sequence>>
    BY <1>10 DEF PeerNext, HangUp, Send, Poll, EndDevices, SetCaptures, deviceVars, ipcVars
  <2> QED
    BY <1>2, <2>1
<1>11. ASSUME NEW t \in Token, Begin(t)
       PROVE  InOrder'
  <2>1. UNCHANGED <<clients, devices, sequence>>
    BY <1>11 DEF Begin, deviceVars
  <2> QED
    BY <1>2, <2>1
<1>12. ASSUME NEW t \in Live, ReadFails(t)
       PROVE  InOrder'
  BY <1>6, <1>12 DEF ReadFails
<1>13. ASSUME NEW t \in Live, Finish(t)
       PROVE  InOrder'
  BY <1>6, <1>7, <1>13 DEF Finish, deviceVars
<1> QED
  BY <1>3, <1>4, <1>5, <1>8, <1>9, <1>10, <1>11, <1>12, <1>13 DEF IpcNext, ReactorNext, DeviceStep

\* Sequences grow on a connection, and no input of a controller follows its removal
\* unless it was added again or additions were not subscribed (drain_device,
\* remove_slot and add_path, against the subscriptions that come and go).
THEOREM IpcNotesOrdered == IpcSpec => []NotesOrdered
<1>1. IpcInit => InOrder
  BY DEF IpcInit, InOrder, Live
<1>2. ServerInv /\ InOrder /\ [IpcNext]_ipcVars => InOrder'
  BY StepInOrder
<1>3. ServerInv /\ InOrder => NotesOrdered
  <2> SUFFICES ASSUME ServerInv, InOrder, NEW t \in Live,
                      NEW i \in Notes(clients[t]), NEW j \in Notes(clients[t]), i < j
               PROVE  LET sent == clients[t].sent
                          notes == Notes(clients[t])
                      IN /\ sent[i].sequence < sent[j].sequence
                         /\ /\ sent[i].what = "removed" /\ sent[j].what = "input"
                            /\ sent[i].path = sent[j].path
                            => \E k \in i..j :
                                 \/ k \in notes /\ sent[k].what = "added" /\ sent[k].path = sent[i].path
                                 \/ k \notin notes /\ sent[k].request.command.op = "unsubscribe"
    BY Zenon DEF NotesOrdered, Notes
  <2> DEFINE c == clients[t]
  <2>1. Ordered(c)
    BY DEF InOrder, Noted
  <2>2. \A k : Excuses(c, i, k) =>
          \/ k \in Notes(c) /\ c.sent[k].what = "added" /\ c.sent[k].path = c.sent[i].path
          \/ k \notin Notes(c) /\ c.sent[k].request.command.op = "unsubscribe"
    BY DEF Excuses, Notes
  <2> QED
    BY <2>1, <2>2 DEF Ordered
<1> QED
  BY <1>1, <1>2, <1>3, ServerInvInductive, PTL DEF IpcSpec

-----------------------------------------------------------------------------
(***************************************************************************)
(* Every request is answered once.  Requests are numbered as they are      *)
(* sent; those up to some number have left the queues of input, and each   *)
(* of them is in one of three places.                                      *)
(***************************************************************************)
\* What waits to be read, w on the socket after c.frames, are the requests after h.
InTurn(c, w, a, h) ==
  /\ a = h + Len(c.frames) + Len(w)
  /\ \A k \in DOMAIN c.frames : c.frames[k].id = h + k
  /\ \A k \in DOMAIN w : w[k].id = h + Len(c.frames) + k

\* Request id has one reply, is deferred, or is among the commands taken, q.
Placed(c, q, id) ==
  \/ /\ \E i \in Nat : RepliesTo(c, id) = {i}
     /\ WaitsIn(c.commands, id) = {} /\ WaitsIn(q, id) = {}
  \/ /\ \E i \in Nat : WaitsIn(c.commands, id) = {i}
     /\ RepliesTo(c, id) = {} /\ WaitsIn(q, id) = {}
  \/ /\ \E i \in Nat : WaitsIn(q, id) = {i}
     /\ RepliesTo(c, id) = {} /\ WaitsIn(c.commands, id) = {}

Unplaced(c, q, id) ==
  RepliesTo(c, id) = {} /\ WaitsIn(c.commands, id) = {} /\ WaitsIn(q, id) = {}

AllPlaced(c, q, h) ==
  /\ \A id \in 1..h : Placed(c, q, id)
  /\ \A id \in Nat : id > h => Unplaced(c, q, id)

Matched(c, w, a, q) ==
  Usable(c) => \E h \in Nat : InTurn(c, w, a, h) /\ AllPlaced(c, q, h)

LEMMA WaitsAppended ==
  ASSUME NEW q \in Seq(Request), NEW r, NEW id
  PROVE  IF r.id = id THEN WaitsIn(Append(q, r), id) = WaitsIn(q, id) \cup {Len(q) + 1}
         ELSE WaitsIn(Append(q, r), id) = WaitsIn(q, id)
<1>1. /\ DOMAIN Append(q, r) = 1..Len(q) + 1 /\ DOMAIN q = 1..Len(q) /\ Len(q) \in Nat
      /\ \A i \in 1..Len(q) : Append(q, r)[i] = q[i]
      /\ Append(q, r)[Len(q) + 1] = r
  OBVIOUS
<1> QED
  BY <1>1 DEF WaitsIn

LEMMA WaitsTail ==
  ASSUME NEW q \in Seq(Request), q # <<>>, NEW id
  PROVE  /\ Head(q).id = id => 1 \in WaitsIn(q, id)
         /\ Head(q).id = id => \A i : WaitsIn(q, id) = {i} => WaitsIn(Tail(q), id) = {}
         /\ Head(q).id # id => \A i \in Nat : WaitsIn(q, id) = {i} => WaitsIn(Tail(q), id) = {i - 1} /\ i - 1 \in Nat
         /\ WaitsIn(q, id) = {} => WaitsIn(Tail(q), id) = {}
<1>1. /\ Len(q) \in Nat /\ Len(q) > 0 /\ DOMAIN q = 1..Len(q) /\ Head(q) = q[1]
      /\ DOMAIN Tail(q) = 1..Len(q) - 1
      /\ \A i \in 1..Len(q) - 1 : Tail(q)[i] = q[i + 1]
  OBVIOUS
<1>2. \A i : i \in WaitsIn(Tail(q), id) <=> i \in 1..Len(q) - 1 /\ q[i + 1].id = id
  BY <1>1 DEF WaitsIn
<1>3. \A i : i \in WaitsIn(q, id) <=> i \in 1..Len(q) /\ q[i].id = id
  BY <1>1 DEF WaitsIn
<1>4. \A i \in WaitsIn(Tail(q), id) : i + 1 \in WaitsIn(q, id) /\ i + 1 # 1 /\ i \in Nat
  BY <1>1, <1>2, <1>3
<1>5. Head(q).id = id => 1 \in WaitsIn(q, id)
  BY <1>1, <1>3
<1>6. ASSUME Head(q).id = id, NEW i, WaitsIn(q, id) = {i}
      PROVE  WaitsIn(Tail(q), id) = {}
  BY <1>4, <1>5, <1>6
<1>7. ASSUME Head(q).id # id, NEW i \in Nat, WaitsIn(q, id) = {i}
      PROVE  WaitsIn(Tail(q), id) = {i - 1} /\ i - 1 \in Nat
  <2>1. i \in 1..Len(q) /\ q[i].id = id
    BY <1>3, <1>7
  <2>2. i # 1 /\ i - 1 \in 1..Len(q) - 1 /\ i - 1 + 1 = i
    BY <1>1, <1>7, <2>1
  <2>3. i - 1 \in WaitsIn(Tail(q), id)
    BY <1>2, <2>1, <2>2
  <2>4. \A j \in WaitsIn(Tail(q), id) : j = i - 1
    BY <1>4, <1>7
  <2> QED
    BY <2>2, <2>3, <2>4
<1>8. ASSUME WaitsIn(q, id) = {} PROVE WaitsIn(Tail(q), id) = {}
  BY <1>4, <1>8
<1> QED
  BY <1>5, <1>6, <1>7, <1>8

LEMMA RepliesAppended ==
  ASSUME NEW c, NEW d, NEW m, Appended(c, d, m), NEW id
  PROVE  IF m.type = "reply" /\ m.request.id = id
         THEN RepliesTo(d, id) = RepliesTo(c, id) \cup {Len(c.sent) + 1} /\ Len(c.sent) + 1 \in Nat
         ELSE RepliesTo(d, id) = RepliesTo(c, id)
<1> DEFINE n == Len(c.sent) + 1
<1>1. /\ \A i \in Replies(c) : d.sent[i] = c.sent[i]
      /\ d.sent[n] = m /\ n \in Nat
      /\ \/ m.type = "reply" /\ Replies(d) = Replies(c) \cup {n}
         \/ m.type # "reply" /\ Replies(d) = Replies(c)
  BY AppendedReplies
<1> HIDE DEF n
<1>2. RepliesTo(c, id) = {i \in Replies(c) : c.sent[i].request.id = id}
  BY DEF RepliesTo
<1>3. RepliesTo(d, id) = {i \in Replies(d) : d.sent[i].request.id = id}
  BY DEF RepliesTo
<1>4. CASE m.type = "reply" /\ m.request.id = id
  <2>1. RepliesTo(d, id) = RepliesTo(c, id) \cup {n}
    BY <1>1, <1>2, <1>3, <1>4
  <2> QED
    BY <1>1, <1>4, <2>1 DEF n
<1>5. CASE ~(m.type = "reply" /\ m.request.id = id)
  <2>1. RepliesTo(d, id) = RepliesTo(c, id)
    BY <1>1, <1>2, <1>3, <1>5
  <2> QED
    BY <1>5, <2>1
<1> QED
  BY <1>4, <1>5

\* A connection that only got notifications or was written to.
Alike(c, d) ==
  /\ Usable(d) => Usable(c)
  /\ d.frames = c.frames /\ d.commands = c.commands
  /\ \A id : RepliesTo(d, id) = RepliesTo(c, id)

LEMMA MatchedAlike ==
  ASSUME NEW c, NEW d, NEW w, NEW a, NEW q, Matched(c, w, a, q), Alike(c, d)
  PROVE  Matched(d, w, a, q)
<1>1. \A h : AllPlaced(c, q, h) => AllPlaced(d, q, h)
  BY DEF Alike, AllPlaced, Placed, Unplaced
<1>2. \A h : InTurn(c, w, a, h) => InTurn(d, w, a, h)
  BY DEF Alike, InTurn
<1> QED
  BY <1>1, <1>2 DEF Matched, Alike

\* The next request is handled.
LEMMA PlacedHandled ==
  ASSUME NEW c \in Client, NEW d, NEW q, NEW h \in Nat, NEW r \in Request, r.id = h + 1,
         AllPlaced(c, q, h), Usable(d),
         Answered(c, d, r) \/ Postponed(c, d, r)
  PROVE  AllPlaced(d, q, h + 1)
<1>1. Unplaced(c, q, h + 1)
  BY DEF AllPlaced
<1>2. CASE Answered(c, d, r)
  <2>1. PICK ok \in BOOLEAN : Appended(c, d, Reply(r, ok))
    BY <1>2 DEF Answered
  <2> DEFINE m == Reply(r, ok)
  <2>2. m.type = "reply" /\ m.request = r
    BY MessageTypes
  <2>3. Appended(c, d, m)
    BY <2>1
  <2> HIDE DEF m
  <2>4. d.commands = c.commands
    BY <1>2 DEF Answered
  <2>5. \A id : id # h + 1 => RepliesTo(d, id) = RepliesTo(c, id)
    BY <2>2, <2>3, RepliesAppended
  <2>6. \E i \in Nat : RepliesTo(d, h + 1) = {i}
    <3>1. RepliesTo(d, h + 1) = RepliesTo(c, h + 1) \cup {Len(c.sent) + 1} /\ Len(c.sent) + 1 \in Nat
      BY <2>2, <2>3, RepliesAppended
    <3>2. RepliesTo(c, h + 1) = {}
      BY <1>1 DEF Unplaced
    <3>3. RepliesTo(d, h + 1) = {Len(c.sent) + 1}
      BY <3>1, <3>2
    <3> QED
      BY <3>1, <3>3
  <2>7. Placed(d, q, h + 1)
    BY <1>1, <2>4, <2>6 DEF Placed, Unplaced
  <2>8. ASSUME NEW id \in 1..h PROVE Placed(d, q, id)
    <3>1. Placed(c, q, id) /\ id # h + 1
      BY DEF AllPlaced
    <3>2. RepliesTo(d, id) = RepliesTo(c, id)
      BY <2>5, <3>1
    <3> QED
      BY <2>4, <3>1, <3>2 DEF Placed
  <2>9. ASSUME NEW id \in Nat, id > h + 1 PROVE Unplaced(d, q, id)
    <3>1. Unplaced(c, q, id) /\ id # h + 1
      BY <2>9 DEF AllPlaced
    <3> QED
      BY <2>4, <2>5, <3>1 DEF Unplaced
  <2>10. 1..h + 1 = 1..h \cup {h + 1}
    OBVIOUS
  <2> QED
    BY <2>7, <2>8, <2>9, <2>10 DEF AllPlaced
<1>3. CASE Postponed(c, d, r)
  <2>1. d.sent = c.sent /\ d.commands = Append(c.commands, r) /\ c.commands \in Seq(Request)
    BY <1>3 DEF Postponed, Client
  <2>2. \A id : RepliesTo(d, id) = RepliesTo(c, id)
    BY <2>1 DEF RepliesTo, Replies
  <2>3. \A id : id # h + 1 => WaitsIn(d.commands, id) = WaitsIn(c.commands, id)
    BY <2>1, WaitsAppended
  <2>4. \E i \in Nat : WaitsIn(d.commands, h + 1) = {i}
    <3>1. WaitsIn(d.commands, h + 1) = WaitsIn(c.commands, h + 1) \cup {Len(c.commands) + 1}
      BY <2>1, WaitsAppended
    <3>2. WaitsIn(c.commands, h + 1) = {} /\ Len(c.commands) + 1 \in Nat
      BY <1>1, <2>1 DEF Unplaced
    <3>3. WaitsIn(d.commands, h + 1) = {Len(c.commands) + 1}
      BY <3>1, <3>2
    <3> QED
      BY <3>2, <3>3
  <2>5. Placed(d, q, h + 1)
    BY <1>1, <2>2, <2>4 DEF Placed, Unplaced
  <2>6. ASSUME NEW id \in 1..h PROVE Placed(d, q, id)
    <3>1. Placed(c, q, id) /\ id # h + 1
      BY DEF AllPlaced
    <3>2. WaitsIn(d.commands, id) = WaitsIn(c.commands, id) /\ RepliesTo(d, id) = RepliesTo(c, id)
      BY <2>2, <2>3, <3>1
    <3> QED
      BY <3>1, <3>2 DEF Placed
  <2>7. ASSUME NEW id \in Nat, id > h + 1 PROVE Unplaced(d, q, id)
    <3>1. Unplaced(c, q, id) /\ id # h + 1
      BY <2>7 DEF AllPlaced
    <3> QED
      BY <2>2, <2>3, <3>1 DEF Unplaced
  <2>8. 1..h + 1 = 1..h \cup {h + 1}
    OBVIOUS
  <2> QED
    BY <2>5, <2>6, <2>7, <2>8 DEF AllPlaced
<1> QED
  BY <1>2, <1>3

\* The first of the commands taken is completed.
LEMMA PlacedCompleted ==
  ASSUME NEW c, NEW d, NEW q \in Seq(Request), q # <<>>, NEW h \in Nat,
         AllPlaced(c, q, h), Usable(d), Answered(c, d, Head(q))
  PROVE  AllPlaced(d, Tail(q), h)
<1> DEFINE r == Head(q)
<1>1. r \in Request /\ r.id \in Nat
  <2>1. r \in Request
    OBVIOUS
  <2> QED
    BY <2>1, IpcAssumption DEF Request
<1>2. PICK ok \in BOOLEAN : Appended(c, d, Reply(r, ok))
  BY DEF Answered
<1> DEFINE m == Reply(r, ok)
<1>3. m.type = "reply" /\ m.request = r
  BY <1>1, MessageTypes
<1>4. Appended(c, d, m)
  BY <1>2
<1>5. d.commands = c.commands
  BY DEF Answered
<1>6. /\ 1 \in WaitsIn(q, r.id)
      /\ \A i : WaitsIn(q, r.id) = {i} => WaitsIn(Tail(q), r.id) = {}
  BY WaitsTail
<1>7. \A id : id # r.id =>
        /\ \A i \in Nat : WaitsIn(q, id) = {i} => WaitsIn(Tail(q), id) = {i - 1} /\ i - 1 \in Nat
        /\ WaitsIn(q, id) = {} => WaitsIn(Tail(q), id) = {}
  BY WaitsTail
<1> HIDE DEF m, r
<1>8. \A id : id # r.id => RepliesTo(d, id) = RepliesTo(c, id)
  BY <1>3, <1>4, RepliesAppended
<1>9. ASSUME NEW id \in 1..h PROVE Placed(d, Tail(q), id)
  <2>1. Placed(c, q, id)
    BY DEF AllPlaced
  <2>2. CASE id = r.id
    <3>1. /\ \E i \in Nat : WaitsIn(q, id) = {i}
          /\ RepliesTo(c, id) = {} /\ WaitsIn(c.commands, id) = {}
      BY <1>6, <2>1, <2>2 DEF Placed
    <3>2. WaitsIn(Tail(q), id) = {}
      BY <1>6, <2>2, <3>1
    <3>3. RepliesTo(d, id) = RepliesTo(c, id) \cup {Len(c.sent) + 1} /\ Len(c.sent) + 1 \in Nat
      BY <1>3, <1>4, <2>2, RepliesAppended
    <3>4. RepliesTo(d, id) = {Len(c.sent) + 1}
      BY <3>1, <3>3
    <3> QED
      BY <1>5, <3>1, <3>2, <3>3, <3>4 DEF Placed
  <2>3. CASE id # r.id
    <3>1. RepliesTo(d, id) = RepliesTo(c, id)
      BY <1>8, <2>3
    <3>2. /\ \A i \in Nat : WaitsIn(q, id) = {i} => WaitsIn(Tail(q), id) = {i - 1} /\ i - 1 \in Nat
          /\ WaitsIn(q, id) = {} => WaitsIn(Tail(q), id) = {}
      BY <1>7, <2>3
    <3>3. (\E i \in Nat : WaitsIn(q, id) = {i}) => (\E i \in Nat : WaitsIn(Tail(q), id) = {i})
      BY <3>2
    <3> QED
      BY <1>5, <2>1, <3>1, <3>2, <3>3 DEF Placed
  <2> QED
    BY <2>2, <2>3
<1>10. ASSUME NEW id \in Nat, id > h PROVE Unplaced(d, Tail(q), id)
  <2>1. Unplaced(c, q, id)
    BY <1>10 DEF AllPlaced
  <2>2. id # r.id
    BY <1>6, <2>1 DEF Unplaced
  <2> QED
    BY <1>5, <1>7, <1>8, <2>1, <2>2 DEF Unplaced
<1> QED
  BY <1>9, <1>10 DEF AllPlaced

\* take_commands, once those taken before are completed.
LEMMA PlacedTaken ==
  ASSUME NEW c, NEW d, NEW h, AllPlaced(c, <<>>, h), d.sent = c.sent, d.commands = <<>>
  PROVE  AllPlaced(d, c.commands, h)
<1>1. \A id : WaitsIn(<<>>, id) = {}
  BY DEF WaitsIn
<1>2. \A id : RepliesTo(d, id) = RepliesTo(c, id)
  BY DEF RepliesTo, Replies
<1>3. ASSUME NEW id, Placed(c, <<>>, id) PROVE Placed(d, c.commands, id)
  BY <1>1, <1>2, <1>3 DEF Placed
<1>4. ASSUME NEW id, Unplaced(c, <<>>, id) PROVE Unplaced(d, c.commands, id)
  BY <1>1, <1>2, <1>4 DEF Unplaced
<1> QED
  BY <1>3, <1>4 DEF AllPlaced

Requests ==
  /\ \A t \in Live : t < nextToken /\ Matched(clients[t], wire[t], asked[t], taken[t])
  /\ \A t \in Token : t >= nextToken => wire[t] = <<>> /\ asked[t] = 0
  /\ phase # "service" => \A t \in Token : taken[t] = <<>>

\* publish appends notifications only.
LEMMA PublishedAlike ==
  ASSUME NEW cs, \A t \in DOMAIN cs : cs[t] \in Client, NEW m \in Message, m.type # "reply"
  PROVE  \A t \in DOMAIN Published(cs, m) : t \in DOMAIN cs /\ Alike(cs[t], Published(cs, m)[t])
<1> DEFINE told == [t \in DOMAIN cs |->
                      IF cs[t].negotiated /\ Usable(cs[t]) /\ Wants(cs[t], m)
                      THEN Queued(cs[t], m) ELSE cs[t]]
           kept == {t \in DOMAIN told : ~told[t].evicted}
<1>1. Published(cs, m) = [t \in kept |-> told[t]]
  BY DEF Published, Restrict
<1>2. kept \subseteq DOMAIN cs /\ \A t \in kept : ~told[t].evicted
  OBVIOUS
<1>3. ASSUME NEW t \in kept
      PROVE  Alike(cs[t], told[t])
  <2> DEFINE c == cs[t]
             d == told[t]
  <2>1. c \in Client
    BY <1>2
  <2>2. CASE d = c
    BY <2>2 DEF Alike
  <2>3. CASE d = Queued(c, m)
    <3>1. ~d.evicted
      BY <1>2
    <3> HIDE DEF told, kept
    <3>2. d = [c EXCEPT !.sent = Append(@, m)]
      <4>1. CASE Queued(c, m) = [c EXCEPT !.evicted = TRUE]
        BY <2>1, <2>3, <3>1, <4>1 DEF Client
      <4> QED
        BY <2>3, <4>1 DEF Queued
    <3>3. /\ d.sent = Append(c.sent, m) /\ c.sent \in Seq(Message)
          /\ d.frames = c.frames /\ d.commands = c.commands
          /\ d.closing = c.closing /\ d.evicted = c.evicted
      BY <2>1, <3>2 DEF Client
    <3> HIDE DEF c, d
    <3>4. Appended(c, d, m)
      BY <3>3 DEF Appended
    <3>5. \A id : RepliesTo(d, id) = RepliesTo(c, id)
      BY <3>4, RepliesAppended
    <3>6. Alike(c, d)
      BY <3>3, <3>5 DEF Alike, Usable
    <3> QED
      BY <3>6 DEF c, d
  <2>4. d = c \/ d = Queued(c, m)
    BY <1>2
  <2> QED
    BY <2>2, <2>3, <2>4
<1> HIDE DEF told, kept
<1> QED
  BY <1>1, <1>2, <1>3

LEMMA DeviceStepAlike ==
  ASSUME ServerInv, DeviceStep
  PROVE  \A t \in DOMAIN clients' : t \in Live /\ Alike(clients[t], clients'[t])
<1>1. \A t \in DOMAIN clients : clients[t] \in Client
  BY DEF ServerInv, Connections, Sound, Fits, Live
<1>2. sequence \in Nat /\ MaxEvents \in Nat /\ sequence <= MaxEvents
  BY IpcAssumption DEF ServerInv, Scheduled
<1>3. ASSUME NEW p \in Path, RemoveSlot(p)
      PROVE  \A t \in DOMAIN clients' : t \in DOMAIN clients /\ Alike(clients[t], clients'[t])
  <2> DEFINE m == Note("removed", p, sequence + 1)
  <2>1. clients' = Published(clients, m) /\ sequence + 1 \in 1..MaxEvents
    BY <1>2, <1>3 DEF RemoveSlot
  <2>2. m \in Message /\ m.type # "reply"
    BY <2>1, MessageTypes
  <2> HIDE DEF m
  <2> QED
    BY <1>1, <2>1, <2>2, PublishedAlike
<1>4. ASSUME NEW p \in Path, AddPath(p)
      PROVE  \A t \in DOMAIN clients' : t \in DOMAIN clients /\ Alike(clients[t], clients'[t])
  <2> DEFINE m == Note("added", p, sequence + 1)
  <2>1. clients' = Published(clients, m) /\ sequence + 1 \in 1..MaxEvents
    BY <1>2, <1>4 DEF AddPath
  <2>2. m \in Message /\ m.type # "reply"
    BY <2>1, MessageTypes
  <2> HIDE DEF m
  <2> QED
    BY <1>1, <2>1, <2>2, PublishedAlike
<1>5. ASSUME NEW p \in Path, NEW gone \in BOOLEAN, DrainDevice(p, gone)
      PROVE  \A t \in DOMAIN clients' : t \in DOMAIN clients /\ Alike(clients[t], clients'[t])
  <2> DEFINE inputs == IF HasInputSubscribers THEN 1 ELSE 0
             drained == IF inputs = 1 THEN Published(clients, Note("input", p, sequence + 1))
                        ELSE clients
  <2>1. sequence + 2 <= MaxEvents
    BY <1>5 DEF DrainDevice
  <2>2. \/ /\ sequence' = sequence + inputs + 1
           /\ clients' = Published(drained, Note("removed", p, sequence'))
        \/ clients' = drained
    BY <1>5 DEF DrainDevice
  <2>3. inputs \in {0, 1}
    OBVIOUS
  <2>4. \A t \in DOMAIN drained : t \in DOMAIN clients /\ Alike(clients[t], drained[t]) /\ drained[t] \in Client
    <3>1. CASE inputs = 1
      <4> DEFINE m == Note("input", p, sequence + 1)
      <4>1. m \in Message /\ m.type # "reply"
        BY <1>2, <2>1, MessageTypes
      <4>2. drained = Published(clients, m)
        BY <3>1
      <4> HIDE DEF m, drained
      <4>3. \A t \in DOMAIN clients : Sound(clients[t])
        BY DEF ServerInv, Connections, Live
      <4>4. \A t \in DOMAIN drained : Sound(drained[t])
        BY <4>1, <4>2, <4>3, PublishedSound
      <4>5. \A t \in DOMAIN drained : t \in DOMAIN clients /\ Alike(clients[t], drained[t])
        BY <1>1, <4>1, <4>2, PublishedAlike
      <4> QED
        BY <4>4, <4>5 DEF Sound, Fits
    <3>2. CASE inputs = 0
      <4>1. drained = clients
        BY <3>2
      <4>2. \A c : Alike(c, c)
        BY DEF Alike
      <4> QED
        BY <1>1, <4>1, <4>2
    <3> QED
      BY <2>3, <3>1, <3>2
  <2> HIDE DEF inputs, drained
  <2>5. CASE /\ sequence' = sequence + inputs + 1
             /\ clients' = Published(drained, Note("removed", p, sequence'))
    <3> DEFINE m == Note("removed", p, sequence')
    <3>1. sequence' \in 1..MaxEvents
      BY <1>2, <2>1, <2>3, <2>5
    <3>2. m \in Message /\ m.type # "reply" /\ clients' = Published(drained, m)
      BY <2>5, <3>1, MessageTypes
    <3> HIDE DEF m
    <3>3. \A t \in DOMAIN clients' : t \in DOMAIN drained /\ Alike(drained[t], clients'[t])
      BY <2>4, <3>2, PublishedAlike
    <3>4. \A b, c, d : Alike(b, c) /\ Alike(c, d) => Alike(b, d)
      BY DEF Alike
    <3> QED
      BY <2>4, <3>3, <3>4
  <2>6. CASE clients' = drained
    BY <2>4, <2>6
  <2> QED
    BY <2>2, <2>5, <2>6
<1> QED
  BY <1>3, <1>4, <1>5 DEF DeviceStep, Live

\* Steps that leave what waits as it is, on the socket and in service_commands.
LEMMA AlikeStep ==
  ASSUME Requests, UNCHANGED <<wire, asked, taken, nextToken>>,
         phase' # "service" => phase # "service",
         \A t \in DOMAIN clients' : t \in Live /\ Alike(clients[t], clients'[t])
  PROVE  Requests'
<1>1. \A t \in DOMAIN clients' : t < nextToken' /\ Matched(clients'[t], wire'[t], asked'[t], taken'[t])
  BY MatchedAlike DEF Requests
<1> QED
  BY <1>1 DEF Requests, Live

\* The frames that are next, from the socket when none is left, and what stays there.
Reading(c, w, frames, rest) ==
  /\ frames = IF c.frames = <<>> THEN w ELSE c.frames
  /\ rest = IF c.frames = <<>> THEN <<>> ELSE w

\* read_client takes the next request.
LEMMA NextInTurn ==
  ASSUME NEW c \in Client, NEW d, NEW w \in Seq(Request), NEW a, NEW h \in Nat, InTurn(c, w, a, h),
         NEW frames, NEW rest, Reading(c, w, frames, rest), frames # <<>>, d.frames = Tail(frames)
  PROVE  Head(frames).id = h + 1 /\ InTurn(d, rest, a, h + 1)
<1>1. c.frames \in Seq(Request)
  BY DEF Client
<1> USE DEF Reading
<1>2. /\ frames \in Seq(Request) /\ rest \in Seq(Request)
      /\ Len(frames) + Len(rest) = Len(c.frames) + Len(w)
  <2>1. CASE c.frames = <<>>
    <3>1. frames = w /\ rest = <<>>
      BY <2>1
    <3> QED
      BY <2>1, <3>1
  <2>2. CASE c.frames # <<>>
    BY <1>1, <2>2
  <2> QED
    BY <2>1, <2>2
<1>3. \A k \in DOMAIN frames : frames[k].id = h + k
  <2>1. CASE c.frames = <<>>
    <3>1. frames = w /\ Len(c.frames) = 0 /\ \A k \in DOMAIN w : k \in Nat
      BY <2>1
    <3> QED
      BY <3>1 DEF InTurn
  <2>2. CASE c.frames # <<>>
    BY <2>2 DEF InTurn
  <2> QED
    BY <2>1, <2>2
<1>4. \A k \in DOMAIN rest : rest[k].id = h + Len(frames) + k
  <2>1. CASE c.frames = <<>>
    BY <2>1
  <2>2. CASE c.frames # <<>>
    BY <2>2 DEF InTurn
  <2> QED
    BY <2>1, <2>2
<1>5. a = h + Len(c.frames) + Len(w) /\ Len(c.frames) \in Nat /\ Len(w) \in Nat
  BY <1>1 DEF InTurn
<1>6. /\ Len(frames) \in Nat /\ Len(frames) > 0 /\ DOMAIN frames = 1..Len(frames)
      /\ Head(frames) = frames[1] /\ Len(Tail(frames)) = Len(frames) - 1
      /\ DOMAIN Tail(frames) = 1..Len(frames) - 1
      /\ \A k \in 1..Len(frames) - 1 : Tail(frames)[k] = frames[k + 1]
      /\ Len(rest) \in Nat /\ DOMAIN rest = 1..Len(rest)
      /\ Len(d.frames) = Len(frames) - 1
  BY <1>2
<1>7. Head(frames).id = h + 1
  BY <1>3, <1>6
<1> DEFINE lf == Len(frames)
           lr == Len(rest)
           ld == Len(d.frames)
           lc == Len(c.frames)
           lw == Len(w)
<1>8. /\ lf \in Nat /\ lr \in Nat /\ lc \in Nat /\ lw \in Nat /\ ld = lf - 1
      /\ lf + lr = lc + lw /\ a = h + lc + lw /\ DOMAIN rest = 1..lr
  BY <1>2, <1>5, <1>6
<1> HIDE DEF lf, lr, ld, lc, lw
<1>9. a = h + 1 + ld + lr
  BY <1>8
<1>10. ASSUME NEW k \in DOMAIN d.frames PROVE d.frames[k].id = h + 1 + k
  <2>1. d.frames[k] = frames[k + 1] /\ k + 1 \in DOMAIN frames /\ k \in Nat
    BY <1>6
  <2>2. frames[k + 1].id = h + (k + 1)
    BY <1>3, <2>1
  <2> QED
    BY <2>1, <2>2
<1>11. ASSUME NEW k \in DOMAIN rest PROVE rest[k].id = h + 1 + Len(d.frames) + k
  <2>1. rest[k].id = h + lf + k /\ k \in Nat
    BY <1>4, <1>8 DEF lf
  <2>2. h + 1 + ld + k = h + lf + k
    BY <1>8, <2>1
  <2> QED
    BY <2>1, <2>2 DEF ld
<1> QED
  BY <1>7, <1>9, <1>10, <1>11 DEF InTurn, ld, lr

LEMMA HandleFrameMatched ==
  ASSUME ServerInv, Requests, NEW t \in Live, HandleFrame(t)
  PROVE  Requests'
<1> DEFINE c == clients[t]
           w == wire[t]
           frames == IF c.frames = <<>> THEN w ELSE c.frames
           rest == IF c.frames = <<>> THEN <<>> ELSE w
           d == [c EXCEPT !.frames = Tail(frames)]
           r == Head(frames)
           e == Handled(d, r)
<1>1. /\ frames # <<>> /\ Usable(c)
      /\ clients' = [clients EXCEPT ![t] = e]
      /\ wire' = IF c.frames = <<>> THEN [wire EXCEPT ![t] = <<>>] ELSE wire
      /\ UNCHANGED <<asked, taken, nextToken, phase>>
  BY DEF HandleFrame
<1>2. c \in Client /\ w \in Seq(Request) /\ t \in Token /\ wire \in [Token -> Seq(Request)]
  BY DEF ServerInv, Connections, Sound, Fits, Scheduled
<1>3. wire' = [wire EXCEPT ![t] = rest]
  BY <1>1, <1>2
<1>4. PICK h \in Nat : InTurn(c, w, asked[t], h) /\ AllPlaced(c, taken[t], h)
  BY <1>1 DEF Requests, Matched
<1>5. frames \in Seq(Request)
  BY <1>2 DEF Client
<1>6. r \in Request /\ Tail(frames) \in Seq(Request)
  BY <1>1, <1>5
<1>7. /\ d \in Client /\ d.frames = Tail(frames) /\ d.sent = c.sent /\ d.commands = c.commands
      /\ d.closing = c.closing /\ d.evicted = c.evicted
  BY <1>2, <1>6 DEF Client
<1>8. r.id = h + 1 /\ InTurn(d, rest, asked[t], h + 1)
  <2>1. Reading(c, w, frames, rest) /\ r = Head(frames) /\ frames # <<>>
    BY <1>1 DEF Reading
  <2> HIDE DEF c, w, frames, rest, d, r
  <2> QED
    BY <1>2, <1>4, <1>7, <2>1, NextInTurn
<1>9. AllPlaced(d, taken[t], h)
  <2> HIDE DEF d
  <2>1. \A id : RepliesTo(d, id) = RepliesTo(c, id)
    BY <1>7 DEF RepliesTo, Replies
  <2> QED
    BY <1>4, <1>7, <2>1 DEF AllPlaced, Placed, Unplaced
<1> HIDE DEF c, w, frames, rest, d, r
<1>10. Answered(d, e, r) \/ Postponed(d, e, r)
  BY <1>6, <1>7, HandledEffect
<1> HIDE DEF e
<1>11. ASSUME Usable(e)
       PROVE  InTurn(e, rest, asked[t], h + 1) /\ AllPlaced(e, taken[t], h + 1)
  <2>1. e.frames = d.frames
    BY <1>10, <1>11 DEF Answered, Postponed
  <2>2. AllPlaced(e, taken[t], h + 1)
    BY <1>6, <1>7, <1>8, <1>9, <1>10, <1>11, PlacedHandled
  <2> QED
    BY <1>8, <2>1, <2>2 DEF InTurn
<1>12. Matched(e, rest, asked[t], taken[t])
  BY <1>11 DEF Matched
<1>13. ASSUME NEW u \in Live
       PROVE  u < nextToken /\ Matched(clients'[u], wire'[u], asked[u], taken[u])
  <2>1. u < nextToken /\ Matched(clients[u], wire[u], asked[u], taken[u]) /\ u \in Token
    BY DEF Requests, ServerInv, Connections
  <2>2. CASE u = t
    <3>1. clients'[u] = e /\ wire'[u] = rest
      BY <1>1, <1>2, <1>3, <2>2 DEF Live
    <3> QED
      BY <1>12, <2>1, <2>2, <3>1
  <2>3. CASE u # t
    <3>1. clients'[u] = clients[u] /\ wire'[u] = wire[u]
      BY <1>1, <1>2, <1>3, <2>1, <2>3 DEF Live
    <3> QED
      BY <2>1, <3>1
  <2> QED
    BY <2>2, <2>3
<1>14. Live' = Live
  BY <1>1 DEF Live
<1>15. \A u \in Token : u >= nextToken => u # t
  BY <1>13, <1>2, IpcAssumption DEF Token, ServerInv, Scheduled
<1>16. \A u \in Token : u >= nextToken => wire'[u] = <<>> /\ asked[u] = 0
  BY <1>2, <1>3, <1>15 DEF Requests
<1> QED
  BY <1>1, <1>13, <1>14, <1>16 DEF Requests

LEMMA CompleteCommandMatched ==
  ASSUME ServerInv, Requests, NEW t \in Token, CompleteCommand(t)
  PROVE  Requests'
<1> DEFINE q == taken[t]
           r == Head(q)
           c == clients[t]
<1>1. /\ t \in Live /\ q # <<>> /\ phase = "service"
      /\ taken' = [taken EXCEPT ![t] = Tail(q)]
      /\ UNCHANGED <<wire, asked, nextToken, phase>>
  BY DEF CompleteCommand, peerVars
<1>2. PICK ok \in BOOLEAN : clients' = [clients EXCEPT ![t] = Completed(c, r, ok)]
  BY DEF CompleteCommand
<1>3. q \in Seq(DeferredRequest) /\ taken \in [Token -> Seq(DeferredRequest)]
  BY DEF ServerInv, Scheduled
<1>4. c \in Client
  BY <1>1 DEF ServerInv, Connections, Sound, Fits
<1>5. r \in DeferredRequest /\ q \in Seq(Request)
  <2>1. DeferredRequest \subseteq Request
    BY DEF DeferredRequest
  <2> QED
    BY <1>1, <1>3, <2>1
<1> DEFINE d == Completed(c, r, ok)
<1>6. Answered(c, d, r)
  BY <1>4, <1>5, CompletedEffect
<1>7. Matched(c, wire[t], asked[t], q)
  BY <1>1 DEF Requests
<1> HIDE DEF d
<1>8. Matched(d, wire[t], asked[t], Tail(q))
  <2> SUFFICES ASSUME Usable(d)
               PROVE  \E h \in Nat : InTurn(d, wire[t], asked[t], h) /\ AllPlaced(d, Tail(q), h)
    BY DEF Matched
  <2>1. Usable(c) /\ d.frames = c.frames
    BY <1>6 DEF Answered
  <2>2. PICK h \in Nat : InTurn(c, wire[t], asked[t], h) /\ AllPlaced(c, q, h)
    BY <1>7, <2>1 DEF Matched
  <2> HIDE DEF q, c
  <2>3. AllPlaced(d, Tail(q), h)
    BY <1>1, <1>5, <1>6, <2>2, PlacedCompleted DEF r
  <2>4. InTurn(d, wire[t], asked[t], h)
    BY <2>1, <2>2 DEF InTurn
  <2> QED
    BY <2>3, <2>4
<1> HIDE DEF q, r, c
<1>9. clients' = [clients EXCEPT ![t] = d]
  BY <1>2 DEF d
<1>10. ASSUME NEW u \in Live
       PROVE  u < nextToken /\ Matched(clients'[u], wire[u], asked[u], taken'[u])
  <2>1. u < nextToken /\ Matched(clients[u], wire[u], asked[u], taken[u]) /\ u \in Token
    BY DEF Requests, ServerInv, Connections
  <2>2. CASE u = t
    <3>1. clients'[u] = d /\ taken'[u] = Tail(q)
      BY <1>1, <1>3, <1>9, <2>2 DEF Live
    <3> QED
      BY <1>8, <2>1, <2>2, <3>1
  <2>3. CASE u # t
    <3>1. clients'[u] = clients[u] /\ taken'[u] = taken[u]
      BY <1>1, <1>3, <1>9, <2>1, <2>3 DEF Live
    <3> QED
      BY <2>1, <3>1
  <2> QED
    BY <2>2, <2>3
<1>11. Live' = Live
  BY <1>9 DEF Live
<1> QED
  BY <1>1, <1>10, <1>11 DEF Requests

LEMMA TakeCommandsMatched ==
  ASSUME ServerInv, Requests, TakeCommands
  PROVE  Requests'
<1>1. /\ phase = "ipc" /\ phase' = "service" /\ DOMAIN clients' = Live
      /\ \A t \in Token : taken'[t] = IF t \in Live /\ Usable(clients[t]) THEN clients[t].commands ELSE <<>>
      /\ \A t \in Live : clients'[t] = IF Usable(clients[t]) THEN [clients[t] EXCEPT !.commands = <<>>]
                                       ELSE clients[t]
      /\ UNCHANGED <<wire, asked, nextToken>>
  BY DEF TakeCommands, peerVars
<1>2. ASSUME NEW t \in Live
      PROVE  Matched(clients'[t], wire[t], asked[t], taken'[t])
  <2> DEFINE c == clients[t]
             d == [c EXCEPT !.commands = <<>>]
  <2>1. c \in Client /\ t \in Token
    BY DEF ServerInv, Connections, Sound, Fits
  <2>2. Matched(c, wire[t], asked[t], <<>>)
    BY <1>1, <2>1 DEF Requests
  <2>3. CASE ~Usable(c)
    BY <1>1, <2>3 DEF Matched
  <2>4. CASE Usable(c)
    <3>1. clients'[t] = d /\ taken'[t] = c.commands
      BY <1>1, <2>1, <2>4
    <3>2. d.sent = c.sent /\ d.commands = <<>> /\ d.frames = c.frames
      BY <2>1 DEF Client
    <3> HIDE DEF c, d
    <3>3. PICK h \in Nat : InTurn(c, wire[t], asked[t], h) /\ AllPlaced(c, <<>>, h)
      BY <2>2, <2>4 DEF Matched
    <3>4. InTurn(d, wire[t], asked[t], h)
      BY <3>2, <3>3 DEF InTurn
    <3>5. AllPlaced(d, c.commands, h)
      BY <3>2, <3>3, PlacedTaken
    <3> QED
      BY <3>1, <3>4, <3>5 DEF Matched
  <2> QED
    BY <2>3, <2>4
<1> QED
  BY <1>1, <1>2 DEF Requests, Live

LEMMA StepMatched ==
  ASSUME ServerInv, Requests, [IpcNext]_ipcVars
  PROVE  Requests'
<1>1. /\ wire \in [Token -> Seq(Request)] /\ asked \in [Token -> 0..MaxAsked] /\ Live \subseteq Token
      /\ nextToken \in Nat /\ MaxAsked \in Nat
  BY IpcAssumption DEF ServerInv, Scheduled, Connections
<1>2. ASSUME UNCHANGED <<clients, wire, asked, taken, nextToken>>, phase' # "service" => phase # "service"
      PROVE  Requests'
  BY <1>2 DEF Requests, Live
<1>3. CASE DeviceStep
  <2>1. UNCHANGED <<wire, asked, taken, nextToken, phase>>
    BY <1>3, DeviceStepFacts DEF ServerInv, peerVars
  <2> QED
    BY <1>3, <2>1, DeviceStepAlike, AlikeStep
<1>4. ASSUME NEW t \in Token, NEW command, Send(t, command)
      PROVE  Requests'
  <2> DEFINE r == [id |-> asked[t] + 1, command |-> command]
             w == Append(wire[t], r)
             a == asked[t] + 1
             c == clients[t]
  <2>1. /\ t \in Live /\ wire' = [wire EXCEPT ![t] = w] /\ asked' = [asked EXCEPT ![t] = a]
        /\ UNCHANGED <<clients, taken, nextToken, phase>>
    BY <1>4 DEF Send
  <2>2. r.id = asked[t] + 1 /\ wire[t] \in Seq(Request) /\ asked[t] \in Nat
    BY <1>1
  <2> HIDE DEF r
  <2>3. /\ Len(w) = Len(wire[t]) + 1 /\ DOMAIN w = 1..Len(wire[t]) + 1 /\ Len(wire[t]) \in Nat
        /\ DOMAIN wire[t] = 1..Len(wire[t])
        /\ \A k \in 1..Len(wire[t]) : w[k] = wire[t][k]
        /\ w[Len(wire[t]) + 1] = r
    BY <2>2
  <2>4. c.frames \in Seq(Request)
    BY <2>1 DEF ServerInv, Connections, Sound, Fits, Client
  <2>5. Len(c.frames) \in Nat
    BY <2>4
  <2>6. a = asked[t] + 1
    OBVIOUS
  <2> DEFINE lc == Len(c.frames)
             lw == Len(wire[t])
             l == Len(w)
  <2>7. lc \in Nat /\ lw \in Nat /\ l = lw + 1
    BY <2>3, <2>5
  <2> HIDE DEF w, a, c, lc, lw, l
  <2>8. ASSUME NEW h \in Nat, InTurn(c, wire[t], asked[t], h)
        PROVE  InTurn(c, w, a, h)
    <3>1. asked[t] = h + lc + lw
      BY <2>8 DEF InTurn, lc, lw
    <3>2. a = h + lc + l
      BY <2>6, <2>7, <3>1
    <3>3. ASSUME NEW k \in DOMAIN w PROVE w[k].id = h + Len(c.frames) + k
      <4>1. CASE k \in 1..Len(wire[t])
        BY <2>3, <2>8, <4>1 DEF InTurn
      <4>2. CASE k = Len(wire[t]) + 1
        <5>1. w[k].id = asked[t] + 1 /\ k = lw + 1
          BY <2>2, <2>3, <4>2 DEF lw
        <5>2. w[k].id = h + lc + k
          BY <2>7, <3>1, <5>1
        <5> QED
          BY <5>2 DEF lc
      <4> QED
        BY <2>3, <4>1, <4>2
    <3> QED
      BY <2>8, <3>2, <3>3 DEF InTurn, lc, l
  <2>9. Matched(c, w, a, taken[t])
    <3>1. Matched(c, wire[t], asked[t], taken[t])
      BY <2>1 DEF Requests, c
    <3> QED
      BY <2>8, <3>1 DEF Matched
  <2>10. ASSUME NEW u \in Live
        PROVE  u < nextToken /\ Matched(clients[u], wire'[u], asked'[u], taken[u])
    <3>1. u < nextToken /\ Matched(clients[u], wire[u], asked[u], taken[u]) /\ u \in Token
      BY <1>1 DEF Requests
    <3>2. CASE u = t
      BY <1>1, <2>1, <2>9, <3>1, <3>2 DEF c
    <3>3. CASE u # t
      BY <1>1, <2>1, <3>1, <3>3
    <3> QED
      BY <3>2, <3>3
  <2>11. \A u \in Token : u >= nextToken => u # t
    BY <1>1, <2>1, <2>10 DEF Token
  <2>12. \A u \in Token : u >= nextToken => wire'[u] = <<>> /\ asked'[u] = 0
    BY <1>1, <2>1, <2>11 DEF Requests
  <2> QED
    BY <2>1, <2>10, <2>12 DEF Requests, Live
<1>5. CASE Accept
  <2>1. /\ nextToken \in Token /\ nextToken' = nextToken + 1 /\ Live' = Live \cup {nextToken}
        /\ \A t \in Live' : clients'[t] = IF t \in Live THEN clients[t] ELSE NewClient
        /\ phase = "ipc" /\ UNCHANGED <<wire, asked, taken, phase>>
    BY <1>5 DEF Accept, Live, peerVars
  <2>2. wire[nextToken] = <<>> /\ asked[nextToken] = 0 /\ taken[nextToken] = <<>>
    BY <1>1, <2>1 DEF Requests
  <2>3. Matched(NewClient, <<>>, 0, <<>>)
    <3> DEFINE c == NewClient
    <3>1. c.frames = <<>> /\ c.commands = <<>> /\ c.sent = <<>>
      BY DEF NewClient
    <3> HIDE DEF c
    <3>2. Len(<<>>) = 0 /\ DOMAIN <<>> = {}
      OBVIOUS
    <3>3. InTurn(c, <<>>, 0, 0)
      BY <3>1, <3>2 DEF InTurn
    <3>4. \A id : RepliesTo(c, id) = {} /\ WaitsIn(<<>>, id) = {}
      BY <3>1, <3>2 DEF RepliesTo, Replies, WaitsIn
    <3>5. AllPlaced(c, <<>>, 0)
      BY <3>1, <3>4 DEF AllPlaced, Unplaced
    <3> QED
      BY <3>3, <3>5 DEF Matched, c
  <2>4. ASSUME NEW u \in Live'
        PROVE  u < nextToken' /\ Matched(clients'[u], wire[u], asked[u], taken[u])
    <3>1. CASE u \in Live
      BY <1>1, <2>1, <3>1 DEF Requests, Token
    <3>2. CASE u \notin Live
      <4>1. u = nextToken /\ clients'[u] = NewClient
        BY <2>1, <3>2
      <4> QED
        BY <1>1, <2>1, <2>2, <2>3, <4>1
    <3> QED
      BY <3>1, <3>2
  <2>5. \A u \in Token : u >= nextToken' => wire[u] = <<>> /\ asked[u] = 0
    BY <1>1, <2>1 DEF Requests, Token
  <2> QED
    BY <2>1, <2>4, <2>5 DEF Requests
<1>6. ASSUME NEW t \in Live, Gone(t)
      PROVE  Requests'
  <2>1. /\ DOMAIN clients' = Live \ {t} /\ \A u \in Live \ {t} : clients'[u] = clients[u]
        /\ UNCHANGED <<wire, asked, taken, nextToken, phase>>
    BY <1>6 DEF Gone, Restrict, peerVars
  <2>2. \A u \in DOMAIN clients' : u \in Live /\ Alike(clients[u], clients'[u])
    BY <2>1 DEF Alike
  <2> QED
    BY <2>1, <2>2, AlikeStep
<1>7. ASSUME NEW t \in Live, NEW n, clients' = [clients EXCEPT ![t].written = n],
             UNCHANGED <<wire, asked, taken, nextToken, phase>>
      PROVE  Requests'
  <2> DEFINE c == clients[t]
             d == [c EXCEPT !.written = n]
  <2>1. /\ d.sent = c.sent /\ d.frames = c.frames /\ d.commands = c.commands
        /\ d.closing = c.closing /\ d.evicted = c.evicted
    BY DEF ServerInv, Connections, Sound, Fits, Client
  <2>2. clients' = [clients EXCEPT ![t] = d]
    BY <1>7
  <2> HIDE DEF c, d
  <2>3. \A id : RepliesTo(d, id) = RepliesTo(c, id)
    BY <2>1 DEF RepliesTo, Replies
  <2>4. Alike(c, d) /\ \A b : Alike(b, b)
    BY <2>1, <2>3 DEF Alike, Usable
  <2>5. \A u \in DOMAIN clients' : u \in Live /\ Alike(clients[u], clients'[u])
    BY <2>2, <2>4 DEF Live, c
  <2> QED
    BY <1>7, <2>5, AlikeStep
<1>8. ASSUME NEW t \in Token, Begin(t) PROVE Requests'
  <2>1. UNCHANGED <<clients, wire, asked, taken, nextToken, phase>>
    BY <1>8 DEF Begin, peerVars
  <2> QED
    BY <1>2, <2>1
<1>9. ASSUME NEW t \in Token, HangUp(t) PROVE Requests'
  <2>1. UNCHANGED <<clients, wire, asked, taken, nextToken, phase>>
    BY <1>9 DEF HangUp
  <2> QED
    BY <1>2, <2>1
<1>10. CASE Poll \/ EndDevices \/ UNCHANGED ipcVars
  <2>1. UNCHANGED <<clients, wire, asked, taken, nextToken>> /\ (phase' # "service" => phase # "service")
    BY <1>10 DEF Poll, EndDevices, ipcVars, peerVars
  <2> QED
    BY <1>2, <2>1
<1>11. CASE SetCaptures
  <2>1. UNCHANGED <<clients, wire, asked, taken, nextToken>> /\ \A t \in Token : taken[t] = <<>>
    BY <1>11 DEF SetCaptures, peerVars
  <2> QED
    BY <2>1 DEF Requests, Live
<1>12. ASSUME NEW t \in Live, ReadFails(t) \/ Finish(t)
       PROVE  Requests'
  BY <1>6, <1>7, <1>12 DEF ReadFails, Finish, peerVars
<1> QED
  BY <1>3, <1>4, <1>5, <1>8, <1>9, <1>10, <1>11, <1>12,
     HandleFrameMatched, CompleteCommandMatched, TakeCommandsMatched
  DEF IpcNext, PeerNext, ReactorNext, DeviceStep

\* Every request that was taken from a usable connection has one reply or waits for
\* one (handle_frame, take_commands and complete_command, through pipelining,
\* deferral and refused leases).
THEOREM IpcRepliesMatch == IpcSpec => []RepliesMatch
<1>1. IpcInit => Requests
  <2> SUFFICES ASSUME IpcInit PROVE Requests
    OBVIOUS
  <2>1. Live = {}
    BY DEF IpcInit, Live
  <2> QED
    BY <2>1 DEF IpcInit, Requests
<1>2. ServerInv /\ Requests /\ [IpcNext]_ipcVars => Requests'
  BY StepMatched
<1>3. ServerInv /\ Requests => RepliesMatch
  <2> SUFFICES ASSUME ServerInv, Requests, NEW t \in Live, Usable(clients[t]),
                      NEW id \in 1..asked[t] - Len(wire[t]) - Len(clients[t].frames)
               PROVE  Cardinality(RepliesTo(clients[t], id))
                        + Cardinality(WaitsIn(clients[t].commands, id))
                        + Cardinality(WaitsIn(taken[t], id)) = 1
    BY DEF RepliesMatch
  <2>1. t \in Token /\ wire[t] \in Seq(Request) /\ clients[t].frames \in Seq(Request)
    BY DEF ServerInv, Scheduled, Connections, Sound, Fits, Client
  <2>2. PICK h \in Nat : InTurn(clients[t], wire[t], asked[t], h) /\ AllPlaced(clients[t], taken[t], h)
    BY DEF Requests, Matched
  <2>3. asked[t] - Len(wire[t]) - Len(clients[t].frames) = h
    BY <2>1, <2>2 DEF InTurn
  <2>4. Placed(clients[t], taken[t], id)
    BY <2>2, <2>3 DEF AllPlaced
  <2>5. Cardinality({}) = 0 /\ \A i : Cardinality({i}) = 1
    BY FS_EmptySet, FS_Singleton
  <2> DEFINE A == RepliesTo(clients[t], id)
             B == WaitsIn(clients[t].commands, id)
             C == WaitsIn(taken[t], id)
  <2>6. \/ Cardinality(A) = 1 /\ Cardinality(B) = 0 /\ Cardinality(C) = 0
        \/ Cardinality(A) = 0 /\ Cardinality(B) = 1 /\ Cardinality(C) = 0
        \/ Cardinality(A) = 0 /\ Cardinality(B) = 0 /\ Cardinality(C) = 1
    <3>1. \/ (\E i : A = {i}) /\ B = {} /\ C = {}
          \/ (\E i : B = {i}) /\ A = {} /\ C = {}
          \/ (\E i : C = {i}) /\ A = {} /\ B = {}
      BY <2>4 DEF Placed
    <3> HIDE DEF A, B, C
    <3> QED
      BY <2>5, <3>1
  <2> HIDE DEF A, B, C
  <2>7. Cardinality(A) + Cardinality(B) + Cardinality(C) = 1
    BY <2>6
  <2> QED
    BY <2>7 DEF A, B, C
<1> QED
  BY <1>1, <1>2, <1>3, ServerInvInductive, PTL DEF IpcSpec
=============================================================================
