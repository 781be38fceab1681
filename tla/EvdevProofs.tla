----------------------------- MODULE EvdevProofs -----------------------------
(***************************************************************************)
(* Theorems about EvdevInput for any keys, axes, queue and drain limit:    *)
(* the recovery delivers a key exactly if what was delivered before is out *)
(* of date, and whatever the queue lost, a daemon that has caught up with  *)
(* the kernel has told of exactly the keys that are down, and of the axes  *)
(* as they are.                                                            *)
(***************************************************************************)
EXTENDS EvdevInput, WellFoundedInduction, TLAPS

(***************************************************************************)
(* What was delivered of a key is what the decoder remembers, unless the   *)
(* key is still to be recovered.                                           *)
(***************************************************************************)
Remembers ==
  \A k \in Key \ unreported : k \in told <=> ((k \in keyState) # (k \in keyPending))

DecoderInv == keyPending \subseteq Key /\ keys \subseteq Key /\ keyState \subseteq Key /\ Remembers

USE DEF kernelVars, recoveryVars, tellVars

-----------------------------------------------------------------------------
\* The kernel and the poll change nothing that the decoder has.
LEMMA OutsideKeeps ==
  ASSUME DecoderInv,
         \/ \E k \in Key : ChangeKey(k)
         \/ \E x \in Axis : ChangeAxis(x)
         \/ Sync \/ Poll \/ UNCHANGED evdevVars
  PROVE  DecoderInv'
<1> USE DEF DecoderInv, Remembers
<1>1. ASSUME NEW k \in Key, ChangeKey(k) PROVE DecoderInv'
  BY <1>1 DEF ChangeKey, With
<1>2. ASSUME NEW x \in Axis, ChangeAxis(x) PROVE DecoderInv'
  BY <1>2 DEF ChangeAxis
<1>3. CASE Sync \/ Poll
  BY <1>3 DEF Sync, Poll
<1>4. CASE UNCHANGED evdevVars
  BY <1>4 DEF evdevVars
<1> QED
  BY <1>1, <1>2, <1>3, <1>4

\* The queue is read only when nothing is left to recover, so a key event that is
\* read is newer than all that was recovered.
LEMMA ReadKeyKeeps == ASSUME DecoderInv, ReadKey PROVE DecoderInv'
<1>1. PICK k \in Key, down \in BOOLEAN :
        /\ keyPending = {} /\ keyPending' = {} /\ keys' = keys
        /\ keyState' = With(keyState, k, down) /\ told' = With(told, k, down)
        /\ unreported' = unreported \ {k}
  BY DEF ReadKey, Read, ReadsQueue, Remembered, TellKey
<1> QED
  BY <1>1 DEF DecoderInv, Remembers, With

LEMMA RecoverKeyKeeps ==
  ASSUME DecoderInv, NEW k \in Key, RecoverKey(k)
  PROVE  DecoderInv'
BY DEF RecoverKey, TellKey, DecoderInv, Remembers, With

\* After a loss the keys that differ from the remembered ones are to be recovered,
\* the first of them at once.
LEMMA RecoverKeeps == ASSUME DecoderInv, Recover PROVE DecoderInv'
<1>1. keyPending = {} /\ keys' = keys /\ keyState' = keys
  BY DEF Recover, Read, ReadsQueue
<1>2. CASE \E k \in Changed(keys) : keyPending' = Changed(keys) \ {k} /\ TellKey(k, k \in keys)
  <2>1. PICK k \in Changed(keys) :
          /\ keyPending' = Changed(keys) \ {k}
          /\ told' = With(told, k, k \in keys) /\ unreported' = unreported \ {k}
    BY <1>2 DEF TellKey
  <2> QED
    BY <1>1, <2>1 DEF DecoderInv, Remembers, Changed, With
<1>3. CASE Changed(keys) = {} /\ UNCHANGED <<keyPending, told, unreported>>
  BY <1>1, <1>3 DEF DecoderInv, Remembers, Changed
<1> QED
  BY <1>2, <1>3 DEF Recover, TellReport, TellNothing

LEMMA DispatchKeeps == ASSUME DecoderInv, Dispatch PROVE DecoderInv'
<1>1. CASE RecoverReport \/ Blocked \/ ReadAbs \/ ReadReport \/ ReadDropped \/ Discard
  BY <1>1 DEF RecoverReport, Blocked, ReadAbs, ReadReport, ReadDropped, Discard, Read,
     TellReport, TellNothing, DecoderInv, Remembers
<1> QED
  BY <1>1, ReadKeyKeeps, RecoverKeyKeeps, RecoverKeeps DEF Dispatch

\* The decoder's memory agrees with what was delivered (RecoveryState): through
\* overflows, recoveries, and drains that end between two recovered keys.
THEOREM EvdevDecoder == EvdevSpec => []DecoderInv
<1>1. EvdevInit => DecoderInv
  BY DEF EvdevInit, DecoderInv, Remembers
<1>2. DecoderInv /\ [EvdevNext]_evdevVars => DecoderInv'
  BY OutsideKeeps, DispatchKeeps DEF EvdevNext
<1> QED
  BY <1>1, <1>2, PTL DEF EvdevSpec

\* take_recovered delivers no key that is up to date.
THEOREM EvdevPendingOutdated == EvdevSpec => []PendingOutdated
<1>1. DecoderInv => PendingOutdated
  BY DEF DecoderInv, Remembers, PendingOutdated
<1> QED
  BY <1>1, EvdevDecoder, PTL
-----------------------------------------------------------------------------
(***************************************************************************)
(* The stream of events between the kernel and the decoder.  The last      *)
(* event about a key, or about the axes, tells the state they have now;    *)
(* with none on the way, the decoder knows that state, unless it has been, *)
(* or will be, told of a loss.                                             *)
(***************************************************************************)
Lacks(s, events) == \A i \in DOMAIN s : s[i] \notin events

Latest(s, events, now) ==
  \A i \in DOMAIN s :
    s[i] \in events /\ (\A j \in DOMAIN s : j > i => s[j] \notin events) => s[i] = now

\* With no event about a thing on the way, what is known of it is current.
Known(p, q, events, now, known) ==
  Lacks(p, events) /\ Lacks(q, events) /\ Lacks(q, {Dropped}) => known = now

Tracked(events, now, known) ==
  /\ Latest(packet, events, now)
  /\ Lacks(packet, events) => Latest(queue, events, now)
  /\ ~awaiting => Known(packet, queue, events, now, known)

OfKey(k) == {KeyChange(k, d) : d \in BOOLEAN}
\* The event that tells whether a key is among those that are down.
Told(k, down) == IF k \in down THEN KeyChange(k, TRUE) ELSE KeyChange(k, FALSE)

OfAxes == {AbsChange(x) : x \in Axis}
Change == Event \ {Syn, Dropped}

\* The queue ends with a report.
Whole(q) == q # <<>> => q[Len(q)] = Syn

KeysTracked ==
  \A k \in Key : Tracked(OfKey(k), Told(k, keys), Told(k, keyState))

AxesTracked == Tracked(OfAxes, AbsChange(axis), AbsChange(cache))

\* A report follows whatever the decoder has not reported yet.
ReportComes ==
  /\ HasAbs \/ (reported = {} /\ ~reportResync)
  /\ reported \subseteq {cache} \/ reportResync \/ awaiting \/ queue # <<>>

StreamInv ==
  /\ packet \in Seq(Change) /\ queue \in Seq(Event) /\ Whole(queue)
  /\ keys \subseteq Key /\ keyState \subseteq Key /\ axis \in Axis
  /\ told \subseteq Key /\ unreported \subseteq Key /\ told \cap unreported = {}
  /\ KeysTracked
  /\ AxesTracked
  /\ ReportComes

\* The events are told apart.
LEMMA EventKinds ==
  /\ Syn # Dropped
  /\ \A k \in Key : Syn \notin OfKey(k) /\ Dropped \notin OfKey(k)
  /\ \A k \in Key, l \in Key : k # l => OfKey(k) \cap OfKey(l) = {}
  /\ \A k \in Key, l \in Key, d \in BOOLEAN, e \in BOOLEAN :
       KeyChange(k, d) = KeyChange(l, e) => k = l /\ d = e
  /\ \A k \in Key : OfKey(k) \cap OfAxes = {}
  /\ Syn \notin OfAxes /\ Dropped \notin OfAxes
  /\ \A x, y : AbsChange(x) = AbsChange(y) => x = y
<1>1. Syn.type = "syn" /\ Dropped.type = "dropped"
  BY DEF Syn, Dropped
<1>2. \A k, d : KeyChange(k, d).type = "key" /\ KeyChange(k, d).key = k
  BY DEF KeyChange
<1>3. \A x : AbsChange(x).type = "abs" /\ AbsChange(x).value = x
  BY DEF AbsChange
<1>4. \A k, d : KeyChange(k, d).down = d
  BY Zenon DEF KeyChange
<1>5. "syn" # "dropped" /\ "syn" # "key" /\ "dropped" # "key" /\ "key" # "abs" /\ "syn" # "abs" /\ "dropped" # "abs"
  OBVIOUS
<1>6. ASSUME NEW k, NEW l, NEW d, NEW e, KeyChange(k, d) = KeyChange(l, e) PROVE d = e
  <2>1. KeyChange(k, d).down = KeyChange(l, e).down
    BY <1>6, Zenon
  <2>2. KeyChange(k, d).down = d /\ KeyChange(l, e).down = e
    BY <1>4, Zenon
  <2> QED
    BY <2>1, <2>2, Zenon
<1> HIDE DEF Syn, Dropped, KeyChange, AbsChange
<1>7. Syn # Dropped
  BY <1>1, <1>5
<1>8. \A k \in Key : Syn \notin OfKey(k) /\ Dropped \notin OfKey(k)
  BY <1>1, <1>2, <1>5 DEF OfKey
<1>9. \A k \in Key, l \in Key : k # l => OfKey(k) \cap OfKey(l) = {}
  BY <1>2 DEF OfKey
<1>10. \A k \in Key : OfKey(k) \cap OfAxes = {}
  BY <1>2, <1>3, <1>5 DEF OfKey, OfAxes
<1>11. Syn \notin OfAxes /\ Dropped \notin OfAxes
  BY <1>1, <1>3, <1>5 DEF OfAxes
<1>12. \A k \in Key, l \in Key, d \in BOOLEAN, e \in BOOLEAN :
         KeyChange(k, d) = KeyChange(l, e) => k = l
  BY <1>2
<1>13. \A x, y : AbsChange(x) = AbsChange(y) => x = y
  BY <1>3
<1> QED
  BY <1>6, <1>7, <1>8, <1>9, <1>10, <1>11, <1>12, <1>13, Zenon

LEMMA ChangeEvents ==
  /\ \A k \in Key, d \in BOOLEAN : KeyChange(k, d) \in Change /\ KeyChange(k, d) \in OfKey(k)
  /\ \A x \in Axis : AbsChange(x) \in Change /\ AbsChange(x) \in OfAxes
  /\ Change \subseteq Event /\ Syn \in Event /\ Dropped \in Event
<1>1. \A k \in Key, d \in BOOLEAN : KeyChange(k, d) \in OfKey(k)
  BY Zenon DEF OfKey
<1>2. \A x \in Axis : AbsChange(x) \in OfAxes
  BY Zenon DEF OfAxes
<1>3. ASSUME NEW k \in Key, NEW d \in BOOLEAN PROVE KeyChange(k, d) \in Event
  <2>1. \E l \in Key, e \in BOOLEAN : KeyChange(k, d) = KeyChange(l, e)
    BY Zenon
  <2>2. KeyChange(k, d) \in {KeyChange(l, e) : l \in Key, e \in BOOLEAN}
    BY <2>1
  <2> QED
    BY <2>2 DEF Event
<1>4. ASSUME NEW x \in Axis PROVE AbsChange(x) \in Event
  <2>1. AbsChange(x) \in {AbsChange(y) : y \in Axis}
    BY Zenon
  <2> QED
    BY <2>1 DEF Event
<1>5. \A e \in Event : e # Syn /\ e # Dropped => e \in Change
  BY DEF Change
<1>6. ASSUME NEW k \in Key, NEW d \in BOOLEAN PROVE KeyChange(k, d) \in Change
  <2>1. KeyChange(k, d) # Syn /\ KeyChange(k, d) # Dropped
    BY <1>1, EventKinds
  <2> QED
    BY <1>3, <1>5, <2>1, Zenon
<1>7. ASSUME NEW x \in Axis PROVE AbsChange(x) \in Change
  <2>1. AbsChange(x) # Syn /\ AbsChange(x) # Dropped
    BY <1>2, EventKinds
  <2> QED
    BY <1>4, <1>5, <2>1, Zenon
<1>8. Change \subseteq Event /\ Syn \in Event /\ Dropped \in Event
  BY DEF Change, Event
<1> QED
  BY <1>1, <1>2, <1>6, <1>7, <1>8, Zenon

\* A change joins the packet.
LEMMA LatestAppend ==
  ASSUME NEW s \in Seq(Event), NEW e \in Event, NEW events, NEW now
  PROVE  /\ e \in events => Latest(Append(s, e), events, e)
         /\ e \notin events /\ Latest(s, events, now) => Latest(Append(s, e), events, now)
         /\ e \in events => ~Lacks(Append(s, e), events)
         /\ Lacks(Append(s, e), events) => Lacks(s, events)
<1> DEFINE r == Append(s, e)
           l == Len(s)
<1>1. /\ DOMAIN r = 1..(l + 1) /\ r[l + 1] = e /\ \A i \in 1..l : r[i] = s[i]
      /\ DOMAIN s = 1..l /\ l \in Nat
  OBVIOUS
<1> HIDE DEF r, l
<1>2. l + 1 \in DOMAIN r /\ DOMAIN s \subseteq DOMAIN r
  BY <1>1
<1>3. e \in events => Latest(r, events, e)
  <2> SUFFICES ASSUME e \in events, NEW i \in DOMAIN r, \A j \in DOMAIN r : j > i => r[j] \notin events
               PROVE  r[i] = e
    BY DEF Latest
  <2> QED
    BY <1>1
<1>4. ASSUME e \notin events, Latest(s, events, now) PROVE Latest(r, events, now)
  <2> SUFFICES ASSUME NEW i \in DOMAIN r, r[i] \in events,
                      \A j \in DOMAIN r : j > i => r[j] \notin events
               PROVE  r[i] = now
    BY DEF Latest
  <2>1. i \in DOMAIN s /\ r[i] = s[i]
    BY <1>1, <1>4
  <2>2. \A j \in DOMAIN s : j > i => s[j] \notin events
    BY <1>1
  <2> QED
    BY <2>1, <2>2, <1>4 DEF Latest
<1>5. e \in events => ~Lacks(r, events)
  BY <1>1, <1>2 DEF Lacks
<1>6. Lacks(r, events) => Lacks(s, events)
  BY <1>1, <1>2 DEF Lacks
<1> QED
  BY <1>3, <1>4, <1>5, <1>6 DEF r

\* The decoder takes the first event.
LEMMA LatestTail ==
  ASSUME NEW s \in Seq(Event), s # <<>>, NEW events, NEW now
  PROVE  /\ Latest(s, events, now) => Latest(Tail(s), events, now)
         /\ Head(s) \notin events /\ Lacks(Tail(s), events) => Lacks(s, events)
         /\ Lacks(Tail(s), events) /\ Latest(s, events, now) /\ Head(s) \in events
              => Head(s) = now
         /\ Whole(s) /\ Head(s) # Syn => Tail(s) # <<>>
         /\ Whole(s) => Whole(Tail(s))
         /\ Tail(s) \in Seq(Event)
<1> DEFINE r == Tail(s)
           l == Len(s)
<1>1. /\ DOMAIN r = 1..(l - 1) /\ \A i \in 1..(l - 1) : r[i] = s[i + 1]
      /\ DOMAIN s = 1..l /\ l \in Nat /\ l > 0 /\ s[1] = Head(s) /\ Len(r) = l - 1
      /\ r \in Seq(Event)
  OBVIOUS
<1>2. r = <<>> => l = 1
  <2> HIDE DEF r
  <2>1. r = <<>> => Len(r) = 0
    OBVIOUS
  <2> HIDE DEF l
  <2> QED
    BY <1>1, <2>1
<1>3. Whole(s) => Whole(r)
  <2>1. r # <<>> => Len(r) # 0
    BY <1>1
  <2> QED
    BY <1>1, <2>1 DEF Whole
<1>4. Whole(s) /\ Head(s) # Syn => r # <<>>
  BY <1>1, <1>2 DEF Whole
<1> HIDE DEF r, l
<1>5. ASSUME Latest(s, events, now) PROVE Latest(r, events, now)
  <2> SUFFICES ASSUME NEW i \in DOMAIN r, r[i] \in events,
                      \A j \in DOMAIN r : j > i => r[j] \notin events
               PROVE  r[i] = now
    BY DEF Latest
  <2>1. i + 1 \in DOMAIN s /\ s[i + 1] = r[i]
    BY <1>1
  <2>2. ASSUME NEW j \in DOMAIN s, j > i + 1 PROVE s[j] \notin events
    <3>1. j - 1 \in DOMAIN r /\ j - 1 > i /\ r[j - 1] = s[j]
      BY <1>1, <2>2
    <3> QED
      BY <3>1
  <2> QED
    BY <2>1, <2>2, <1>5 DEF Latest
<1>6. ASSUME NEW j \in DOMAIN s, j > 1, Lacks(r, events) PROVE s[j] \notin events
  <2>1. j - 1 \in DOMAIN r /\ r[j - 1] = s[j]
    BY <1>1, <1>6
  <2> QED
    BY <2>1, <1>6 DEF Lacks
<1>7. ASSUME Head(s) \notin events, Lacks(r, events) PROVE Lacks(s, events)
  <2>1. ASSUME NEW j \in DOMAIN s PROVE s[j] \notin events
    <3>1. j = 1 \/ j > 1
      BY <1>1
    <3> QED
      BY <3>1, <1>1, <1>6, <1>7
  <2> QED
    BY <2>1 DEF Lacks
<1>8. ASSUME Lacks(r, events), Latest(s, events, now), Head(s) \in events PROVE Head(s) = now
  <2>1. 1 \in DOMAIN s /\ s[1] = Head(s)
    BY <1>1
  <2> QED
    BY <2>1, <1>6, <1>8 DEF Latest
<1>9. r \in Seq(Event)
  BY <1>1 DEF r
<1> QED
  BY <1>3, <1>4, <1>5, <1>7, <1>8, <1>9 DEF r

-----------------------------------------------------------------------------
(***************************************************************************)
(* What the kernel does to a client's queue.  A recursive function is the  *)
(* one that satisfies its equation; that there is one is shown for longer  *)
(* and longer intervals.                                                   *)
(***************************************************************************)
\* Induction over the naturals, with a set in place of a predicate.
LEMMA SetInduction ==
  ASSUME NEW S, 0 \in S, \A n \in Nat : n \in S => n + 1 \in S
  PROVE  Nat \subseteq S
<1> DEFINE T == Nat \ S
           R == OpToRel(<, Nat)
<1>1. SUFFICES ASSUME T # {} PROVE FALSE
  OBVIOUS
<1>2. IsWellFoundedOn(R, Nat)
  BY NatLessThanWellFounded
<1>3. PICK x \in T : \A y \in T : <<y, x>> \notin R
  <2>1. T \subseteq Nat
    OBVIOUS
  <2> HIDE DEF R, T
  <2> QED
    BY <1>1, <1>2, <2>1, WFMin
<1>4. x \in Nat /\ x # 0 /\ x - 1 \in Nat
  OBVIOUS
<1>5. x - 1 \in T
  BY <1>4
<1>6. <<x - 1, x>> \in R
  BY <1>4, <1>5 DEF OpToRel
<1> QED
  BY <1>3, <1>5, <1>6

\* The queue after each event of a packet.
PassedUpto(q, events, m, f) ==
  f = [n \in 0..m |-> IF n = 0 THEN q ELSE Queued(f[n - 1], events[n])]

LEMMA PassedUptoExists ==
  ASSUME NEW q, NEW events, NEW m \in Nat
  PROVE  \E f : PassedUpto(q, events, m, f)
<1> DEFINE After(before, n) == Queued(before, events[n])
           S == {k \in Nat : \E f : f = [n \in 0..k |-> IF n = 0 THEN q ELSE After(f[n - 1], n)]}
<1> HIDE DEF After
<1>1. 0 \in S
  <2> DEFINE f == [n \in 0..0 |-> q]
  <2>1. f = [n \in 0..0 |-> IF n = 0 THEN q ELSE After(f[n - 1], n)]
    OBVIOUS
  <2> QED
    BY <2>1
<1>2. ASSUME NEW k \in Nat, k \in S PROVE k + 1 \in S
  <2>1. PICK f : f = [n \in 0..k |-> IF n = 0 THEN q ELSE After(f[n - 1], n)]
    BY <1>2
  <2> DEFINE g == [n \in 0..(k + 1) |-> IF n \in 0..k THEN f[n] ELSE After(f[k], n)]
  <2>2. ASSUME NEW n \in 0..(k + 1) PROVE g[n] = IF n = 0 THEN q ELSE After(g[n - 1], n)
    <3>1. n = 0 \/ n - 1 \in 0..k
      OBVIOUS
    <3>2. n # 0 => g[n - 1] = f[n - 1]
      BY <3>1
    <3>3. n \in 0..k => f[n] = IF n = 0 THEN q ELSE After(f[n - 1], n)
      BY <2>1
    <3> QED
      BY <3>2, <3>3
  <2>3. g = [n \in 0..(k + 1) |-> IF n = 0 THEN q ELSE After(g[n - 1], n)]
    BY <2>2
  <2> HIDE DEF g
  <2> QED
    BY <2>3
<1>3. Nat \subseteq S
  <2> HIDE DEF S
  <2> QED
    BY <1>1, <1>2, SetInduction
<1> QED
  BY <1>3 DEF PassedUpto, After

\* A queue that did not overflow holds all of its own and of the packet; one that
\* did, a marker and the end of the packet.
Holds(r, q, events, n) ==
  /\ Len(r) = Len(q) + n
  /\ \A i \in 1..Len(q) : r[i] = q[i]
  /\ \A i \in 1..n : r[Len(q) + i] = events[i]

Lost(r, events, n) ==
  /\ Len(r) \in 2..(n + 1)
  /\ r[1] = Dropped
  /\ \A i \in 2..Len(r) : r[i] = events[n - Len(r) + i]

LEMMA QueuedHolds ==
  ASSUME NEW q \in Seq(Event), NEW events \in Seq(Event), NEW n \in Nat, n + 1 \in 1..Len(events),
         NEW r \in Seq(Event), Holds(r, q, events, n) \/ Lost(r, events, n)
  PROVE  LET next == Queued(r, events[n + 1])
         IN  next \in Seq(Event) /\ (Holds(next, q, events, n + 1) \/ Lost(next, events, n + 1))
<1> DEFINE e == events[n + 1]
           l == Len(r)
           a == Append(r, e)
           o == <<Dropped, e>>
<1>1. e \in Event /\ l \in Nat /\ Len(q) \in Nat
  OBVIOUS
<1>2. /\ Len(a) = l + 1 /\ a[l + 1] = e /\ \A i \in 1..l : a[i] = r[i]
      /\ a \in Seq(Event)
  BY <1>1
<1>3. o \in Seq(Event) /\ Len(o) = 2 /\ o[1] = Dropped /\ o[2] = e
  BY <1>1, ChangeEvents
<1>4. e = events[n + 1] /\ l = Len(r)
  OBVIOUS
<1> HIDE DEF e, l, a, o
<1>5. Lost(o, events, n + 1)
  <2>1. \A i \in 2..2 : o[i] = events[n + 1 - 2 + i]
    <3>1. n + 1 - 2 + 2 = n + 1
      OBVIOUS
    <3> QED
      BY <1>3, <1>4, <3>1
  <2> QED
    BY <1>3, <2>1 DEF Lost
<1>6. ASSUME Holds(r, q, events, n) PROVE Holds(a, q, events, n + 1)
  <2> DEFINE p == Len(q)
  <2>1. l = p + n /\ \A i \in 1..p : r[i] = q[i]
    BY <1>4, <1>6 DEF Holds
  <2>2. \A i \in 1..n : r[p + i] = events[i]
    BY <1>6 DEF Holds
  <2>3. p \in Nat
    BY <1>1
  <2> HIDE DEF p
  <2>4. Len(a) = p + (n + 1)
    BY <1>2, <2>1, <2>3
  <2>5. \A i \in 1..p : a[i] = q[i]
    BY <1>2, <2>1, <2>3
  <2>6. ASSUME NEW i \in 1..(n + 1) PROVE a[p + i] = events[i]
    <3>1. CASE i = n + 1
      <4>1. p + i = l + 1
        BY <2>1, <2>3, <3>1
      <4> QED
        BY <4>1, <3>1, <1>2, <1>4
    <3>2. CASE i # n + 1
      <4>1. i \in 1..n /\ p + i \in 1..l
        BY <2>1, <2>3, <3>2
      <4> QED
        BY <4>1, <1>2, <2>2
    <3> QED
      BY <3>1, <3>2
  <2> QED
    BY <2>4, <2>5, <2>6 DEF Holds, p
<1>7. ASSUME Lost(r, events, n) PROVE Lost(a, events, n + 1)
  <2>1. l \in 2..(n + 1) /\ r[1] = Dropped /\ \A i \in 2..l : r[i] = events[n - l + i]
    BY <1>4, <1>7 DEF Lost
  <2>2. Len(a) \in 2..(n + 1 + 1) /\ a[1] = Dropped
    BY <1>2, <2>1
  <2>3. ASSUME NEW i \in 2..(l + 1) PROVE a[i] = events[n + 1 - (l + 1) + i]
    <3>1. n + 1 - (l + 1) + i = n - l + i
      BY <2>1
    <3>2. CASE i = l + 1
      <4>1. n - l + i = n + 1
        BY <3>2, <2>1
      <4> QED
        BY <3>1, <4>1, <3>2, <1>2, <1>4
    <3>3. CASE i # l + 1
      <4>1. i \in 1..l /\ i \in 2..l
        BY <2>1, <3>3
      <4> QED
        BY <3>1, <4>1, <1>2, <2>1
    <3> QED
      BY <3>2, <3>3
  <2> QED
    BY <1>2, <2>2, <2>3 DEF Lost
<1>8. Queued(r, events[n + 1]) = IF l + 1 = QueueSize THEN o ELSE a
  BY DEF Queued, e, l, a, o
<1> QED
  BY <1>2, <1>3, <1>5, <1>6, <1>7, <1>8

LEMMA PassedHolds ==
  ASSUME NEW q \in Seq(Event), NEW events \in Seq(Event)
  PROVE  LET r == Passed(q, events)
             n == Len(events)
         IN  r \in Seq(Event) /\ (Holds(r, q, events, n) \/ Lost(r, events, n))
<1> DEFINE n == Len(events)
           F == CHOOSE f : PassedUpto(q, events, n, f)
           Good(r, k) == r \in Seq(Event) /\ (Holds(r, q, events, k) \/ Lost(r, events, k))
           S == {k \in Nat : k \in 0..n => Good(F[k], k)}
<1>1. n \in Nat
  OBVIOUS
<1>2. PassedUpto(q, events, n, F)
  <2> HIDE DEF n
  <2> QED
    BY <1>1, PassedUptoExists, Zenon
<1>3. Passed(q, events) = F[n]
  BY DEF Passed, PassedUpto
<1> HIDE DEF F
<1>4. F[0] = q /\ \A k \in 1..n : F[k] = Queued(F[k - 1], events[k])
  <2> HIDE DEF n
  <2>1. \A k \in 0..n : F[k] = IF k = 0 THEN q ELSE Queued(F[k - 1], events[k])
    BY <1>2 DEF PassedUpto
  <2> QED
    BY <1>1, <2>1
<1>5. 0 \in S
  <2>1. Holds(q, q, events, 0)
    BY DEF Holds
  <2> QED
    BY <1>4, <2>1
<1>6. ASSUME NEW k \in Nat, k \in S PROVE k + 1 \in S
  <2> SUFFICES ASSUME k + 1 \in 0..n PROVE Good(F[k + 1], k + 1)
    OBVIOUS
  <2>1. k \in 0..n /\ k + 1 \in 1..n /\ k + 1 - 1 = k
    BY <1>1
  <2>2. Good(F[k], k)
    BY <1>6, <2>1
  <2>3. F[k + 1] = Queued(F[k], events[k + 1])
    BY <1>4, <2>1
  <2> QED
    BY <2>1, <2>2, <2>3, QueuedHolds
<1>7. Nat \subseteq S
  <2> HIDE DEF S
  <2> QED
    BY <1>5, <1>6, SetInduction
<1>8. Good(F[n], n)
  BY <1>1, <1>7
<1> QED
  BY <1>3, <1>8

\* The last event of a thing stays its last event, and is lost only with a marker.
LEMMA PassedTracks ==
  ASSUME NEW q \in Seq(Event), NEW p \in Seq(Event), NEW events, NEW now,
         Syn \notin events, Dropped \notin events,
         Latest(p, events, now), Lacks(p, events) => Latest(q, events, now)
  PROVE  LET r == Passed(q, Append(p, Syn))
         IN  /\ r \in Seq(Event) /\ Whole(r)
             /\ Latest(r, events, now)
             /\ Lacks(r, events) /\ Lacks(r, {Dropped})
                  => Lacks(p, events) /\ Lacks(q, events) /\ Lacks(q, {Dropped})
<1> DEFINE s == Append(p, Syn)
           r == Passed(q, s)
           n == Len(s)
           l == Len(r)
           ql == Len(q)
<1>1. /\ s \in Seq(Event) /\ n \in Nat /\ n >= 1 /\ s[n] = Syn
      /\ DOMAIN p = 1..(n - 1) /\ \A i \in 1..(n - 1) : s[i] = p[i]
  BY ChangeEvents
<1> HIDE DEF s
<1>2. r \in Seq(Event) /\ (Holds(r, q, s, n) \/ Lost(r, s, n))
  BY <1>1, PassedHolds
<1> HIDE DEF r
<1>3. l \in Nat /\ DOMAIN r = 1..l /\ ql \in Nat /\ DOMAIN q = 1..ql
  BY <1>2
<1>4. /\ Holds(r, q, s, n) => /\ l = ql + n /\ \A i \in 1..ql : r[i] = q[i]
                             /\ \A i \in 1..n : r[ql + i] = s[i]
      /\ Lost(r, s, n) => l \in 2..(n + 1) /\ r[1] = Dropped /\ \A i \in 2..l : r[i] = s[n - l + i]
  BY DEF Holds, Lost
<1> HIDE DEF n, l, ql
<1>5. CASE Holds(r, q, s, n)
  <2>1. r[l] = Syn
    BY <1>1, <1>3, <1>4, <1>5
  <2>2. ASSUME NEW i \in DOMAIN r, r[i] \in events, \A j \in DOMAIN r : j > i => r[j] \notin events
        PROVE  r[i] = now
    <3>1. CASE i > ql
      <4>1. i - ql \in 1..n /\ ql + (i - ql) = i
        BY <1>1, <1>3, <1>4, <1>5, <3>1
      <4>2. r[i] = s[i - ql]
        BY <4>1, <1>4, <1>5
      <4>3. i - ql # n
        BY <4>2, <1>1, <2>2
      <4>4. i - ql \in DOMAIN p /\ r[i] = p[i - ql]
        BY <4>1, <4>2, <4>3, <1>1
      <4>5. ASSUME NEW j \in DOMAIN p, j > i - ql PROVE p[j] \notin events
        <5>1. ql + j \in DOMAIN r /\ ql + j > i /\ r[ql + j] = p[j]
          BY <1>1, <1>3, <1>4, <1>5, <4>5
        <5> QED
          BY <5>1, <2>2
      <4> QED
        BY <4>4, <4>5, <2>2 DEF Latest
    <3>2. CASE i <= ql
      <4>1. ASSUME NEW j \in DOMAIN p PROVE p[j] \notin events
        <5>1. ql + j \in DOMAIN r /\ ql + j > i /\ r[ql + j] = p[j]
          BY <1>1, <1>3, <1>4, <1>5, <3>2
        <5> QED
          BY <5>1, <2>2
      <4>2. Latest(q, events, now)
        BY <4>1 DEF Lacks
      <4>3. i \in DOMAIN q /\ r[i] = q[i]
        BY <1>3, <1>4, <1>5, <3>2
      <4>4. ASSUME NEW j \in DOMAIN q, j > i PROVE q[j] \notin events
        <5>1. j \in DOMAIN r /\ r[j] = q[j]
          BY <1>1, <1>3, <1>4, <1>5
        <5> QED
          BY <5>1, <4>4, <2>2
      <4> QED
        BY <4>2, <4>3, <4>4, <2>2 DEF Latest
    <3> QED
      BY <3>1, <3>2, <1>3
  <2>3. \A t : Lacks(r, t) => Lacks(p, t) /\ Lacks(q, t)
    <3>1. ASSUME NEW j \in DOMAIN p PROVE ql + j \in DOMAIN r /\ r[ql + j] = p[j]
      BY <1>1, <1>3, <1>4, <1>5
    <3>2. ASSUME NEW j \in DOMAIN q PROVE j \in DOMAIN r /\ r[j] = q[j]
      BY <1>1, <1>3, <1>4, <1>5
    <3> QED
      BY <3>1, <3>2 DEF Lacks
  <2>4. Latest(r, events, now)
    BY <2>2 DEF Latest
  <2>5. Whole(r)
    BY <2>1 DEF Whole, l
  <2> QED
    BY <2>3, <2>4, <2>5, <1>2 DEF r, s
<1>6. CASE Lost(r, s, n)
  <2>1. r[l] = Syn
    <3>1. n - l + l = n /\ l \in 2..l
      BY <1>1, <1>3, <1>4, <1>6
    <3> QED
      BY <3>1, <1>1, <1>4, <1>6
  <2>2. ~Lacks(r, {Dropped})
    BY <1>3, <1>4, <1>6 DEF Lacks
  <2>3. ASSUME NEW i \in DOMAIN r, r[i] \in events, \A j \in DOMAIN r : j > i => r[j] \notin events
        PROVE  r[i] = now
    <3>1. i # 1
      BY <1>4, <1>6, <2>3
    <3>2. i \in 2..l /\ r[i] = s[n - l + i] /\ n - l + i \in 1..n
      BY <1>1, <1>3, <1>4, <1>6, <3>1
    <3>3. n - l + i # n
      BY <3>2, <1>1, <2>3
    <3>4. n - l + i \in DOMAIN p /\ r[i] = p[n - l + i]
      BY <1>1, <3>2, <3>3
    <3>5. ASSUME NEW j \in DOMAIN p, j > n - l + i PROVE p[j] \notin events
      <4> DEFINE k == j - n + l
      <4>1. i \in 2..l /\ j \in 1..(n - 1) /\ l \in 2..(n + 1) /\ n \in Nat
        BY <1>1, <1>4, <1>6, <3>2, <3>5
      <4>2. j > n - l + i
        BY <3>5
      <4>3. k \in 2..l /\ k > i /\ n - l + k = j
        BY <4>1, <4>2
      <4> HIDE DEF k
      <4>4. r[k] = s[j]
        <5>1. r[k] = s[n - l + k]
          BY <4>3, <1>4, <1>6
        <5> QED
          BY <5>1, <4>3
      <4>5. s[j] = p[j]
        BY <4>1, <1>1
      <4>6. k \in DOMAIN r
        BY <4>1, <4>3, <1>3
      <4>7. r[k] \notin events
        BY <4>3, <4>6, <2>3
      <4> QED
        BY <4>4, <4>5, <4>7
    <3> QED
      BY <3>4, <3>5, <2>3 DEF Latest
  <2>4. Latest(r, events, now)
    BY <2>3 DEF Latest
  <2>5. Whole(r)
    BY <2>1 DEF Whole, l
  <2> QED
    BY <2>2, <2>4, <2>5, <1>2 DEF r, s
<1> QED
  BY <1>2, <1>5, <1>6

\* What is left of each prefix of the queue once EVIOCGKEY has answered.
FlushedUpto(q, m, f) ==
  f = [n \in 0..m |->
        IF n = 0 THEN [events |-> <<>>, empty |-> FALSE]
        ELSE IF q[n].type = "key" \/ (q[n] = Syn /\ f[n - 1].empty) THEN f[n - 1]
        ELSE [events |-> Append(f[n - 1].events, q[n]), empty |-> q[n] = Syn]]

LEMMA FlushedUptoExists ==
  ASSUME NEW q, NEW m \in Nat
  PROVE  \E f : FlushedUpto(q, m, f)
<1> DEFINE c == [events |-> <<>>, empty |-> FALSE]
           After(before, n) ==
             IF q[n].type = "key" \/ (q[n] = Syn /\ before.empty) THEN before
             ELSE [events |-> Append(before.events, q[n]), empty |-> q[n] = Syn]
           S == {k \in Nat : \E f : f = [n \in 0..k |-> IF n = 0 THEN c ELSE After(f[n - 1], n)]}
<1> HIDE DEF After, c
<1>1. 0 \in S
  <2> DEFINE f == [n \in 0..0 |-> c]
  <2>1. f = [n \in 0..0 |-> IF n = 0 THEN c ELSE After(f[n - 1], n)]
    OBVIOUS
  <2> QED
    BY <2>1
<1>2. ASSUME NEW k \in Nat, k \in S PROVE k + 1 \in S
  <2>1. PICK f : f = [n \in 0..k |-> IF n = 0 THEN c ELSE After(f[n - 1], n)]
    BY <1>2
  <2> DEFINE g == [n \in 0..(k + 1) |-> IF n \in 0..k THEN f[n] ELSE After(f[k], n)]
  <2>2. ASSUME NEW n \in 0..(k + 1) PROVE g[n] = IF n = 0 THEN c ELSE After(g[n - 1], n)
    <3>1. n = 0 \/ n - 1 \in 0..k
      OBVIOUS
    <3>2. n # 0 => g[n - 1] = f[n - 1]
      BY <3>1
    <3>3. n \in 0..k => f[n] = IF n = 0 THEN c ELSE After(f[n - 1], n)
      BY <2>1
    <3> QED
      BY <3>2, <3>3
  <2>3. g = [n \in 0..(k + 1) |-> IF n = 0 THEN c ELSE After(g[n - 1], n)]
    BY <2>2
  <2> HIDE DEF g
  <2> QED
    BY <2>3
<1>3. Nat \subseteq S
  <2> HIDE DEF S
  <2> QED
    BY <1>1, <1>2, SetInduction
<1>4. \E f : f = [n \in 0..m |-> IF n = 0 THEN c ELSE After(f[n - 1], n)]
  BY <1>3
<1> QED
  BY <1>4, Zenon DEF FlushedUpto, After, c

\* Whether the last of a queue's first n axis events is still the last.
AxesLeft(r, q, n) ==
  \A j \in DOMAIN r :
    r[j] \in OfAxes /\ (\A i \in DOMAIN r : i > j => r[i] \notin OfAxes)
      => \E i \in 1..n : q[i] = r[j] /\ \A h \in 1..n : h > i => q[h] \notin OfAxes

Ended(r) == r # <<>> /\ r[Len(r)] = Syn

LEMMA EventType ==
  ASSUME NEW e \in Event
  PROVE  /\ e.type = "key" => e \notin OfAxes /\ e # Syn
         /\ e.type # "key" => \A k \in Key : e \notin OfKey(k)
<1>1. Syn.type = "syn"
  BY DEF Syn
<1>2. \A k, d : KeyChange(k, d).type = "key"
  BY DEF KeyChange
<1>3. \A x : AbsChange(x).type = "abs"
  BY DEF AbsChange
<1>4. "syn" # "key" /\ "key" # "abs"
  OBVIOUS
<1>5. \A a \in OfAxes : a.type = "abs"
  BY <1>3 DEF OfAxes
<1>6. \A k \in Key : \A a \in OfKey(k) : a.type = "key"
  BY <1>2 DEF OfKey
<1> QED
  BY <1>1, <1>4, <1>5, <1>6

\* One event of the queue is left out.
LEMMA FlushedOut ==
  ASSUME NEW q \in Seq(Event), NEW n \in Nat, n + 1 \in DOMAIN q, NEW r \in Seq(Event),
         AxesLeft(r, q, n), q[n + 1] \notin OfAxes
  PROVE  AxesLeft(r, q, n + 1)
<1> SUFFICES ASSUME NEW j \in DOMAIN r, r[j] \in OfAxes,
                    \A i \in DOMAIN r : i > j => r[i] \notin OfAxes
             PROVE  \E i \in 1..(n + 1) :
                      q[i] = r[j] /\ \A h \in 1..(n + 1) : h > i => q[h] \notin OfAxes
  BY DEF AxesLeft
<1>1. PICK i \in 1..n : q[i] = r[j] /\ \A h \in 1..n : h > i => q[h] \notin OfAxes
  BY DEF AxesLeft
<1>2. \A h \in 1..(n + 1) : h > i => q[h] \notin OfAxes
  <2> SUFFICES ASSUME NEW h \in 1..(n + 1), h > i PROVE q[h] \notin OfAxes
    OBVIOUS
  <2>1. h = n + 1 \/ h \in 1..n
    OBVIOUS
  <2> QED
    BY <2>1, <1>1
<1> QED
  BY <1>1, <1>2

\* One event of the queue is kept.
LEMMA FlushedIn ==
  ASSUME NEW q \in Seq(Event), NEW n \in Nat, n + 1 \in DOMAIN q, NEW r \in Seq(Event),
         AxesLeft(r, q, n)
  PROVE  AxesLeft(Append(r, q[n + 1]), q, n + 1)
<1> DEFINE e == q[n + 1]
           a == Append(r, e)
           l == Len(r)
<1>1. /\ e \in Event /\ l \in Nat /\ DOMAIN r = 1..l /\ DOMAIN a = 1..(l + 1) /\ a[l + 1] = e
      /\ \A i \in 1..l : a[i] = r[i]
  OBVIOUS
<1>2. e = q[n + 1]
  OBVIOUS
<1> HIDE DEF e, a, l
<1>3. CASE e \in OfAxes
  <2> SUFFICES ASSUME NEW j \in DOMAIN a, a[j] \in OfAxes,
                      \A i \in DOMAIN a : i > j => a[i] \notin OfAxes
               PROVE  \E i \in 1..(n + 1) :
                        q[i] = a[j] /\ \A h \in 1..(n + 1) : h > i => q[h] \notin OfAxes
    BY DEF AxesLeft, a, e
  <2>1. j = l + 1
    BY <1>1, <1>3
  <2>2. n + 1 \in 1..(n + 1) /\ q[n + 1] = a[j]
    BY <2>1, <1>1, <1>2
  <2> QED
    BY <2>2
<1>4. CASE e \notin OfAxes
  <2>1. AxesLeft(r, q, n + 1)
    BY <1>2, <1>4, FlushedOut
  <2> SUFFICES ASSUME NEW j \in DOMAIN a, a[j] \in OfAxes,
                      \A i \in DOMAIN a : i > j => a[i] \notin OfAxes
               PROVE  \E i \in 1..(n + 1) :
                        q[i] = a[j] /\ \A h \in 1..(n + 1) : h > i => q[h] \notin OfAxes
    BY DEF AxesLeft, a, e
  <2>2. j \in DOMAIN r /\ a[j] = r[j]
    BY <1>1, <1>4
  <2>3. \A i \in DOMAIN r : i > j => r[i] \notin OfAxes
    BY <1>1
  <2> QED
    BY <2>1, <2>2, <2>3 DEF AxesLeft
<1> QED
  BY <1>3, <1>4

LEMMA AccumulatorFields ==
  /\ \A r, b : [events |-> r, empty |-> b].events = r
  /\ \A r, b : [events |-> r, empty |-> b].empty = b
<1>1. \A r, b : [events |-> r, empty |-> b].events = r
  OBVIOUS
<1>2. \A r, b : [events |-> r, empty |-> b].empty = b
  BY Zenon
<1> QED
  BY <1>1, <1>2, Zenon

\* No key event is left, and the last axis event and the last report stay.
LEMMA FlushedTracks ==
  ASSUME NEW q \in Seq(Event), Whole(q), NEW now
  PROVE  LET r == Flushed(q)
         IN  /\ r \in Seq(Event) /\ Whole(r)
             /\ \A k \in Key : Lacks(r, OfKey(k))
             /\ Latest(q, OfAxes, now) => Latest(r, OfAxes, now)
<1> DEFINE n == Len(q)
           F == CHOOSE f : FlushedUpto(q, n, f)
           After(acc, e) ==
             IF e.type = "key" \/ (e = Syn /\ acc.empty) THEN acc
             ELSE [events |-> Append(acc.events, e), empty |-> e = Syn]
           Keyless(r) == \A k \in Key : Lacks(r, OfKey(k))
           Good(acc, k) == /\ acc.events \in Seq(Event) /\ Keyless(acc.events)
                           /\ AxesLeft(acc.events, q, k)
                           /\ acc.empty => Ended(acc.events)
                           /\ k > 0 /\ q[k] = Syn => Ended(acc.events)
           S == {k \in Nat : k \in 0..n => Good(F[k], k)}
<1>1. n \in Nat /\ DOMAIN q = 1..n
  OBVIOUS
<1>2. FlushedUpto(q, n, F)
  <2> HIDE DEF n
  <2> QED
    BY <1>1, FlushedUptoExists, Zenon
<1>3. Flushed(q) = F[n].events
  BY DEF Flushed, FlushedUpto
<1> HIDE DEF F
<1>4. /\ F[0] = [events |-> <<>>, empty |-> FALSE]
      /\ \A k \in 1..n : F[k] = After(F[k - 1], q[k])
  <2> HIDE DEF n
  <2>1. \A k \in 0..n :
          F[k] = IF k = 0 THEN [events |-> <<>>, empty |-> FALSE] ELSE After(F[k - 1], q[k])
    BY <1>2, Zenon DEF FlushedUpto
  <2>2. 0 \in 0..n /\ \A k \in 1..n : k \in 0..n /\ k # 0
    BY <1>1
  <2> QED
    BY <2>1, <2>2, Zenon
<1> HIDE DEF After
<1>5. 0 \in S
  <2>1. F[0].events = <<>> /\ ~F[0].empty
    BY <1>4, AccumulatorFields, Zenon
  <2>2. <<>> \in Seq(Event) /\ Keyless(<<>>) /\ AxesLeft(<<>>, q, 0)
    BY DEF Lacks, AxesLeft
  <2>3. Good(F[0], 0)
    BY <2>1, <2>2
  <2> QED
    BY <2>3
<1>6. ASSUME NEW k \in Nat, k \in S PROVE k + 1 \in S
  <2> SUFFICES ASSUME k + 1 \in 0..n PROVE Good(F[k + 1], k + 1)
    OBVIOUS
  <2> DEFINE e == q[k + 1]
             acc == F[k]
             r == acc.events
  <2>1. k \in 0..n /\ k + 1 \in 1..n /\ k + 1 - 1 = k /\ e \in Event /\ k + 1 \in DOMAIN q
    BY <1>1
  <2>2. Good(acc, k)
    BY <1>6, <2>1
  <2>3. F[k + 1] = IF e.type = "key" \/ (e = Syn /\ acc.empty) THEN acc
                   ELSE [events |-> Append(r, e), empty |-> e = Syn]
    <3>1. F[k + 1] = After(acc, e)
      BY <1>4, <2>1
    <3> QED
      BY <3>1, Zenon DEF After
  <2>4. /\ r \in Seq(Event) /\ Keyless(r) /\ AxesLeft(r, q, k) /\ (acc.empty => Ended(r))
    BY <2>2
  <2>5. e = q[k + 1]
    OBVIOUS
  <2> HIDE DEF e, acc, r, n, Keyless
  <2>6. CASE e.type = "key" \/ (e = Syn /\ acc.empty)
    <3>1. F[k + 1] = acc
      BY <2>3, <2>6, Zenon
    <3>2. e \notin OfAxes
      BY <2>1, <2>6, EventType, EventKinds
    <3>3. AxesLeft(r, q, k + 1)
      BY <2>1, <2>4, <2>5, <3>2, FlushedOut
    <3>4. e = Syn => Ended(r)
      BY <2>1, <2>4, <2>6, EventType
    <3> QED
      BY <3>1, <3>3, <3>4, <2>4, <2>5 DEF r
  <2>7. CASE ~(e.type = "key" \/ (e = Syn /\ acc.empty))
    <3> DEFINE a == Append(r, e)
    <3>1. F[k + 1].events = a /\ (F[k + 1].empty <=> e = Syn)
      <4>1. F[k + 1] = [events |-> a, empty |-> e = Syn]
        BY <2>3, <2>7, Zenon
      <4> DEFINE next == F[k + 1]
      <4> HIDE DEF next, a
      <4>2. next = [events |-> a, empty |-> e = Syn]
        BY <4>1 DEF next
      <4>3. next.events = a
        BY <4>2, AccumulatorFields, Zenon
      <4>4. next.empty = (e = Syn)
        BY <4>2, AccumulatorFields, Zenon
      <4> QED
        BY <4>3, <4>4, Zenon DEF next
    <3>2. AxesLeft(a, q, k + 1)
      BY <2>1, <2>4, <2>5, FlushedIn
    <3>3. a \in Seq(Event) /\ (e = Syn => Ended(a))
      <4>1. r \in Seq(Event)
        BY <2>4
      <4>2. a \in Seq(Event) /\ Len(a) = Len(r) + 1 /\ a[Len(r) + 1] = e /\ a # <<>>
        BY <2>1, <4>1
      <4> QED
        BY <4>2 DEF Ended
    <3>4. \A j \in Key : e \notin OfKey(j)
      BY <2>1, <2>7, EventType
    <3>5. Keyless(a)
      <4>1. ASSUME NEW i \in DOMAIN a PROVE a[i] = e \/ (i \in DOMAIN r /\ a[i] = r[i])
        BY <2>1, <2>4
      <4> HIDE DEF a
      <4> QED
        BY <3>4, <4>1, <2>4 DEF Keyless, Lacks
    <3> HIDE DEF a
    <3> QED
      BY <3>1, <3>2, <3>3, <3>5, <2>5
  <2> QED
    BY <2>6, <2>7
<1>7. Nat \subseteq S
  <2> HIDE DEF S
  <2> QED
    BY <1>5, <1>6, SetInduction
<1>8. Good(F[n], n)
  BY <1>1, <1>7
<1> DEFINE r == F[n].events
<1>9. r \in Seq(Event) /\ Keyless(r) /\ AxesLeft(r, q, n) /\ (n > 0 /\ q[n] = Syn => Ended(r))
  BY <1>8
<1>10. (F[n] = F[0] /\ r = <<>>) \/ n > 0
  BY <1>1, <1>4
<1>11. n > 0 => q # <<>>
  BY <1>1
<1> HIDE DEF n, r, Keyless
<1>12. Whole(r)
  BY <1>9, <1>10, <1>11 DEF Whole, Ended, n
<1>13. ASSUME Latest(q, OfAxes, now) PROVE Latest(r, OfAxes, now)
  <2> SUFFICES ASSUME NEW j \in DOMAIN r, r[j] \in OfAxes,
                      \A i \in DOMAIN r : i > j => r[i] \notin OfAxes
               PROVE  r[j] = now
    BY DEF Latest
  <2>1. PICK i \in 1..n : q[i] = r[j] /\ \A h \in 1..n : h > i => q[h] \notin OfAxes
    BY <1>9 DEF AxesLeft
  <2> QED
    BY <2>1, <1>1, <1>13 DEF Latest
<1> QED
  BY <1>3, <1>9, <1>12, <1>13 DEF r, Keyless

-----------------------------------------------------------------------------
(***************************************************************************)
(* The invariant of the stream.                                            *)
(***************************************************************************)
LEMMA ToldWith ==
  ASSUME NEW k \in Key, NEW down \in BOOLEAN, NEW set
  PROVE  /\ Told(k, With(set, k, down)) = KeyChange(k, down)
         /\ \A l \in Key : l # k => Told(l, With(set, k, down)) = Told(l, set)
<1>1. CASE down = TRUE
  BY <1>1 DEF Told, With
<1>2. CASE down = FALSE
  BY <1>2 DEF Told, With
<1> QED
  BY <1>1, <1>2

LEMMA ToldSame ==
  ASSUME NEW k \in Key, NEW one, NEW other, Told(k, one) = Told(k, other)
  PROVE  k \in one <=> k \in other
<1>1. KeyChange(k, TRUE) # KeyChange(k, FALSE)
  BY EventKinds, Zenon
<1> QED
  BY <1>1 DEF Told

\* The decoder takes an event that is not the marker of a loss.
LEMMA KnownTail ==
  ASSUME NEW p, NEW q \in Seq(Event), q # <<>>, NEW events, NEW now, NEW known, NEW after,
         Known(p, q, events, now, known), Head(q) # Dropped,
         Lacks(p, events) => Latest(q, events, now),
         Head(q) \in events => after = Head(q),
         Head(q) \notin events => after = known
  PROVE  Known(p, Tail(q), events, now, after)
<1> SUFFICES ASSUME Lacks(p, events), Lacks(Tail(q), events), Lacks(Tail(q), {Dropped})
             PROVE  after = now
  BY DEF Known
<1>1. CASE Head(q) \in events
  BY <1>1, LatestTail
<1>2. CASE Head(q) \notin events
  <2>1. Lacks(q, events) /\ Lacks(q, {Dropped})
    BY <1>2, LatestTail
  <2> QED
    BY <1>2, <2>1 DEF Known
<1> QED
  BY <1>1, <1>2

\* Nothing between the kernel and the decoder moves.
StreamStays == UNCHANGED <<packet, queue, awaiting, keys, keyState, axis, cache>>

LEMMA TrackedStays ==
  ASSUME StreamInv, StreamStays
  PROVE  KeysTracked' /\ AxesTracked' /\ Whole(queue)'
BY DEF StreamInv, StreamStays, KeysTracked, AxesTracked, Tracked

\* What a read leaves of a thing's track.
LEMMA ReadTracks ==
  ASSUME StreamInv, queue # <<>>, queue' = Tail(queue), packet' = packet,
         NEW events, NEW now, NEW known, NEW after, Tracked(events, now, known),
         \/ awaiting'
         \/ /\ ~awaiting /\ Head(queue) # Dropped
            /\ Head(queue) \in events => after = Head(queue)
            /\ Head(queue) \notin events => after = known
  PROVE  /\ Latest(packet', events, now)
         /\ Lacks(packet', events) => Latest(queue', events, now)
         /\ ~awaiting' => Known(packet', queue', events, now, after)
<1>1. queue \in Seq(Event)
  BY DEF StreamInv
<1>2. Lacks(packet, events) => Latest(Tail(queue), events, now)
  BY <1>1, LatestTail DEF Tracked
<1>3. ~awaiting' => Known(packet, Tail(queue), events, now, after)
  BY <1>1, KnownTail DEF Tracked
<1> QED
  BY <1>2, <1>3 DEF Tracked

LEMMA ChangeKeyTracks ==
  ASSUME StreamInv, NEW k \in Key, ChangeKey(k)
  PROVE  StreamInv'
<1>1. PICK down \in BOOLEAN : keys' = With(keys, k, down) /\ packet' = Append(packet, KeyChange(k, down))
  <2>1. (k \notin keys) \in BOOLEAN
    BY Zenon
  <2> QED
    BY <2>1, Zenon DEF ChangeKey
<1> DEFINE e == KeyChange(k, down)
<1>2. e \in Change /\ e \in Event /\ e \in OfKey(k) /\ packet \in Seq(Event) /\ packet \in Seq(Change)
  BY ChangeEvents DEF StreamInv
<1>3. packet' \in Seq(Change) /\ packet' = Append(packet, e)
  BY <1>1, <1>2
<1>4. /\ Told(k, keys') = e /\ \A l \in Key : l # k => Told(l, keys') = Told(l, keys)
  BY <1>1, ToldWith
<1>5. UNCHANGED <<axis, queue, awaiting, keyState, reportResync, cache, told, reported, unreported>>
  BY DEF ChangeKey
<1>6. keys' \subseteq Key
  BY <1>1 DEF StreamInv, With
<1> HIDE DEF e
<1>7. KeysTracked'
  <2> SUFFICES ASSUME NEW l \in Key PROVE Tracked(OfKey(l), Told(l, keys), Told(l, keyState))'
    BY DEF KeysTracked
  <2>1. Tracked(OfKey(l), Told(l, keys), Told(l, keyState))
    BY DEF StreamInv, KeysTracked
  <2>2. CASE l = k
    <3>1. Latest(packet', OfKey(k), e) /\ ~Lacks(packet', OfKey(k))
      BY <1>2, <1>3, LatestAppend
    <3> QED
      BY <2>2, <3>1, <1>4 DEF Tracked, Known
  <2>3. CASE l # k
    <3>1. e \notin OfKey(l)
      BY <1>2, <2>3, EventKinds
    <3>2. Latest(packet', OfKey(l), Told(l, keys)) /\ (Lacks(packet', OfKey(l)) => Lacks(packet, OfKey(l)))
      BY <1>2, <1>3, <2>1, <3>1, LatestAppend DEF Tracked
    <3> QED
      BY <2>1, <2>3, <3>2, <1>4, <1>5 DEF Tracked, Known
  <2> QED
    BY <2>2, <2>3
<1>8. AxesTracked'
  <2>1. e \notin OfAxes
    BY <1>2, EventKinds
  <2>2. Tracked(OfAxes, AbsChange(axis), AbsChange(cache))
    BY DEF StreamInv, AxesTracked
  <2>3. Latest(packet', OfAxes, AbsChange(axis)) /\ (Lacks(packet', OfAxes) => Lacks(packet, OfAxes))
    BY <1>2, <1>3, <2>1, <2>2, LatestAppend DEF Tracked
  <2> QED
    BY <2>2, <2>3, <1>5 DEF AxesTracked, Tracked, Known
<1>9. ReportComes'
  BY <1>5 DEF StreamInv, ReportComes
<1> QED
  BY <1>3, <1>5, <1>6, <1>7, <1>8, <1>9 DEF StreamInv, Whole

LEMMA ChangeAxisTracks ==
  ASSUME StreamInv, NEW x \in Axis, ChangeAxis(x)
  PROVE  StreamInv'
<1> DEFINE e == AbsChange(x)
<1>1. /\ packet' = Append(packet, e) /\ axis' = x
      /\ UNCHANGED <<keys, queue, awaiting, keyState, reportResync, cache, told, reported, unreported>>
  BY DEF ChangeAxis
<1>2. e \in Change /\ e \in Event /\ e \in OfAxes /\ packet \in Seq(Event) /\ packet \in Seq(Change)
  BY ChangeEvents DEF StreamInv
<1>3. e = AbsChange(x)
  OBVIOUS
<1> HIDE DEF e
<1>4. packet' \in Seq(Change)
  BY <1>1, <1>2
<1>5. KeysTracked'
  <2> SUFFICES ASSUME NEW l \in Key PROVE Tracked(OfKey(l), Told(l, keys), Told(l, keyState))'
    BY DEF KeysTracked
  <2>1. Tracked(OfKey(l), Told(l, keys), Told(l, keyState))
    BY DEF StreamInv, KeysTracked
  <2>2. e \notin OfKey(l)
    BY <1>2, EventKinds
  <2>3. Latest(packet', OfKey(l), Told(l, keys)) /\ (Lacks(packet', OfKey(l)) => Lacks(packet, OfKey(l)))
    BY <1>1, <1>2, <2>1, <2>2, LatestAppend DEF Tracked
  <2> QED
    BY <2>1, <2>3, <1>1 DEF Tracked, Known
<1>6. AxesTracked'
  <2>1. Latest(packet', OfAxes, e) /\ ~Lacks(packet', OfAxes)
    BY <1>1, <1>2, LatestAppend
  <2> QED
    BY <2>1, <1>1, <1>3 DEF AxesTracked, Tracked, Known
<1>7. ReportComes'
  BY <1>1 DEF StreamInv, ReportComes
<1> QED
  BY <1>1, <1>4, <1>5, <1>6, <1>7 DEF StreamInv, Whole

LEMMA SyncTracks == ASSUME StreamInv, Sync PROVE StreamInv'
<1> DEFINE r == Passed(queue, Append(packet, Syn))
<1>1. /\ queue' = r /\ packet' = <<>>
      /\ UNCHANGED <<keys, axis, awaiting, keyState, reportResync, cache, told, reported, unreported>>
  BY DEF Sync
<1>2. packet \in Seq(Event) /\ queue \in Seq(Event)
  BY ChangeEvents DEF StreamInv
<1>3. ASSUME NEW events, NEW now, NEW known, Syn \notin events, Dropped \notin events,
             Tracked(events, now, known)
      PROVE  /\ Latest(packet', events, now)
             /\ Latest(queue', events, now)
             /\ ~awaiting' => Known(packet', queue', events, now, known)
             /\ r \in Seq(Event) /\ Whole(r)
  <2>1. /\ Latest(r, events, now) /\ r \in Seq(Event) /\ Whole(r)
        /\ Lacks(r, events) /\ Lacks(r, {Dropped})
             => Lacks(packet, events) /\ Lacks(queue, events) /\ Lacks(queue, {Dropped})
    BY <1>2, <1>3, PassedTracks DEF Tracked
  <2>2. Latest(packet', events, now)
    BY <1>1 DEF Latest
  <2> HIDE DEF r
  <2> QED
    BY <1>1, <1>3, <2>1, <2>2 DEF Tracked, Known
<1> HIDE DEF r
<1>4. KeysTracked'
  <2> SUFFICES ASSUME NEW l \in Key PROVE Tracked(OfKey(l), Told(l, keys), Told(l, keyState))'
    BY DEF KeysTracked
  <2>1. Tracked(OfKey(l), Told(l, keys), Told(l, keyState)) /\ Syn \notin OfKey(l) /\ Dropped \notin OfKey(l)
    BY EventKinds DEF StreamInv, KeysTracked
  <2> QED
    BY <2>1, <1>1, <1>3 DEF Tracked
<1>5. AxesTracked' /\ r \in Seq(Event) /\ Whole(r)
  <2>1. Tracked(OfAxes, AbsChange(axis), AbsChange(cache)) /\ Syn \notin OfAxes /\ Dropped \notin OfAxes
    BY EventKinds DEF StreamInv, AxesTracked
  <2> QED
    BY <2>1, <1>1, <1>3 DEF AxesTracked, Tracked
<1>6. ReportComes'
  <2>1. r # <<>>
    <3>1. Len(r) # 0
      <4> DEFINE s == Append(packet, Syn)
      <4>1. s \in Seq(Event) /\ Len(s) >= 1 /\ Len(queue) \in Nat
        BY <1>2, ChangeEvents
      <4> HIDE DEF s
      <4>2. Holds(r, queue, s, Len(s)) \/ Lost(r, s, Len(s))
        BY <4>1, <1>2, PassedHolds DEF r, s
      <4>3. Len(r) = Len(queue) + Len(s) \/ Len(r) \in 2..(Len(s) + 1)
        BY <4>2 DEF Holds, Lost
      <4> QED
        BY <4>1, <4>3
    <3> QED
      BY <3>1
  <2> QED
    BY <1>1, <2>1 DEF StreamInv, ReportComes
<1> QED
  BY <1>1, <1>4, <1>5, <1>6 DEF StreamInv

\* A recovered event is delivered from what the decoder remembers.
LEMMA RecoveredTracks ==
  ASSUME StreamInv, RecoverReport \/ Blocked \/ \E k \in Key : RecoverKey(k)
  PROVE  StreamInv'
<1>1. /\ StreamStays
      /\ \/ UNCHANGED <<unreported, told>>
         \/ \E k \in Key, d \in BOOLEAN : unreported' = unreported \ {k} /\ told' = With(told, k, d)
  <2>1. CASE RecoverReport \/ Blocked
    BY <2>1 DEF RecoverReport, Blocked, TellReport, TellNothing, StreamStays
  <2>2. ASSUME NEW k \in Key, RecoverKey(k)
        PROVE  /\ StreamStays /\ unreported' = unreported \ {k}
               /\ \E d \in BOOLEAN : told' = With(told, k, d)
    <3>1. (k \in keyState) \in BOOLEAN
      OBVIOUS
    <3>2. \E d \in BOOLEAN : told' = With(told, k, d)
      BY <2>2, <3>1, Zenon DEF RecoverKey, TellKey
    <3> QED
      BY <2>2, <3>2 DEF RecoverKey, TellKey, StreamStays
  <2> QED
    BY <2>1, <2>2
<1>2. StreamStays
  BY <1>1
<1>3. told' \subseteq Key /\ unreported' \subseteq Key /\ told' \cap unreported' = {}
  BY <1>1 DEF StreamInv, With
<1>4. \/ reported' = reported /\ reportResync' = reportResync
      \/ reported' = {cache'} /\ reportResync /\ ~reportResync'
  BY DEF RecoverReport, Blocked, RecoverKey, TellReport, TellNothing, TellKey
<1>5. ReportComes'
  BY <1>2, <1>4 DEF StreamInv, ReportComes, StreamStays
<1> QED
  BY <1>2, <1>3, <1>5, TrackedStays DEF StreamInv, StreamStays

\* What a read does not touch.
LEMMA ReadStays ==
  ASSUME StreamInv, NEW event, Read(event)
  PROVE  /\ queue # <<>> /\ event = Head(queue) /\ queue \in Seq(Event)
         /\ keyPending = {} /\ ~reportResync
         /\ UNCHANGED <<keys, axis, packet>>
         /\ Tail(queue) \in Seq(Event) /\ Whole(Tail(queue))
         /\ event # Syn => Tail(queue) # <<>>
         /\ KeysTracked /\ AxesTracked /\ packet \in Seq(Change)
BY LatestTail DEF StreamInv, Read, ReadsQueue

LEMMA ReadKeyTracks == ASSUME StreamInv, ReadKey PROVE StreamInv'
<1>1. PICK k \in Key, down \in BOOLEAN :
        /\ ~awaiting /\ ~awaiting' /\ Read(KeyChange(k, down)) /\ queue' = Tail(queue)
        /\ keyState' = With(keyState, k, down) /\ TellKey(k, down)
        /\ UNCHANGED <<reportResync, cache>>
  BY DEF ReadKey, Remembered
<1> DEFINE e == KeyChange(k, down)
<1>2. e \in Event /\ e \in OfKey(k) /\ e # Dropped /\ e # Syn
  BY ChangeEvents, EventKinds
<1>3. Told(k, keyState') = e /\ \A l \in Key : l # k => Told(l, keyState') = Told(l, keyState)
  BY <1>1, ToldWith
<1>4. /\ queue # <<>> /\ e = Head(queue) /\ UNCHANGED <<keys, axis, packet>>
      /\ Tail(queue) \in Seq(Event) /\ Whole(Tail(queue)) /\ Tail(queue) # <<>>
      /\ KeysTracked /\ AxesTracked
  BY <1>1, <1>2, ReadStays
<1>5. keyState' \subseteq Key /\ told' \subseteq Key /\ unreported' \subseteq Key /\ told' \cap unreported' = {}
  BY <1>1 DEF StreamInv, With, TellKey
<1> HIDE DEF e
<1>6. KeysTracked'
  <2> SUFFICES ASSUME NEW l \in Key PROVE Tracked(OfKey(l), Told(l, keys), Told(l, keyState))'
    BY DEF KeysTracked
  <2>1. Tracked(OfKey(l), Told(l, keys), Told(l, keyState))
    BY <1>4 DEF KeysTracked
  <2>2. /\ Head(queue) \in OfKey(l) => Told(l, keyState') = Head(queue)
        /\ Head(queue) \notin OfKey(l) => Told(l, keyState') = Told(l, keyState)
    <3>1. l # k => e \notin OfKey(l)
      BY <1>2, EventKinds
    <3> QED
      BY <3>1, <1>2, <1>3, <1>4
  <2>3. packet' = packet /\ keys' = keys
    BY <1>4
  <2>4. /\ Latest(packet', OfKey(l), Told(l, keys))
        /\ Lacks(packet', OfKey(l)) => Latest(queue', OfKey(l), Told(l, keys))
        /\ ~awaiting' => Known(packet', queue', OfKey(l), Told(l, keys), Told(l, keyState'))
    BY <1>1, <1>2, <1>4, <2>1, <2>2, <2>3, ReadTracks
  <2> QED
    BY <2>3, <2>4 DEF Tracked
<1>7. AxesTracked'
  <2>1. Tracked(OfAxes, AbsChange(axis), AbsChange(cache))
    BY <1>4 DEF AxesTracked
  <2>2. Head(queue) \notin OfAxes /\ Head(queue) # Dropped
    BY <1>2, <1>4, EventKinds
  <2>3. packet' = packet /\ axis' = axis /\ cache' = cache
    BY <1>1, <1>4
  <2>4. /\ Latest(packet', OfAxes, AbsChange(axis))
        /\ Lacks(packet', OfAxes) => Latest(queue', OfAxes, AbsChange(axis))
        /\ ~awaiting' => Known(packet', queue', OfAxes, AbsChange(axis), AbsChange(cache))
    BY <1>1, <1>4, <2>1, <2>2, <2>3, ReadTracks
  <2> QED
    BY <2>3, <2>4 DEF AxesTracked, Tracked
<1>8. ReportComes'
  BY <1>1, <1>4 DEF StreamInv, ReportComes, TellKey
<1> QED
  BY <1>1, <1>4, <1>5, <1>6, <1>7, <1>8 DEF StreamInv

LEMMA ReadAbsTracks == ASSUME StreamInv, ReadAbs PROVE StreamInv'
<1>1. PICK x \in Axis :
        /\ ~awaiting /\ ~awaiting' /\ Read(AbsChange(x)) /\ queue' = Tail(queue) /\ cache' = x
        /\ UNCHANGED <<keyState, reportResync, told, reported, unreported>>
  BY DEF ReadAbs, TellNothing
<1> DEFINE e == AbsChange(x)
<1>2. e \in Event /\ e \in OfAxes /\ e # Dropped /\ e # Syn /\ e = AbsChange(x)
  BY ChangeEvents, EventKinds
<1>3. /\ queue # <<>> /\ e = Head(queue) /\ UNCHANGED <<keys, axis, packet>>
      /\ Tail(queue) \in Seq(Event) /\ Whole(Tail(queue)) /\ Tail(queue) # <<>>
      /\ KeysTracked /\ AxesTracked
  BY <1>1, <1>2, ReadStays
<1> HIDE DEF e
<1>4. KeysTracked'
  <2> SUFFICES ASSUME NEW l \in Key PROVE Tracked(OfKey(l), Told(l, keys), Told(l, keyState))'
    BY DEF KeysTracked
  <2>1. Tracked(OfKey(l), Told(l, keys), Told(l, keyState))
    BY <1>3 DEF KeysTracked
  <2>2. Head(queue) \notin OfKey(l) /\ Head(queue) # Dropped
    BY <1>2, <1>3, EventKinds
  <2>3. packet' = packet /\ keys' = keys /\ keyState' = keyState
    BY <1>1, <1>3
  <2>4. /\ Latest(packet', OfKey(l), Told(l, keys))
        /\ Lacks(packet', OfKey(l)) => Latest(queue', OfKey(l), Told(l, keys))
        /\ ~awaiting' => Known(packet', queue', OfKey(l), Told(l, keys), Told(l, keyState))
    BY <1>1, <1>3, <2>1, <2>2, <2>3, ReadTracks
  <2> QED
    BY <2>3, <2>4 DEF Tracked
<1>5. AxesTracked'
  <2>1. Tracked(OfAxes, AbsChange(axis), AbsChange(cache))
    BY <1>3 DEF AxesTracked
  <2>2. Head(queue) \in OfAxes /\ Head(queue) # Dropped /\ AbsChange(cache') = Head(queue)
    BY <1>1, <1>2, <1>3
  <2>3. packet' = packet /\ axis' = axis
    BY <1>3
  <2>4. /\ Latest(packet', OfAxes, AbsChange(axis))
        /\ Lacks(packet', OfAxes) => Latest(queue', OfAxes, AbsChange(axis))
        /\ ~awaiting' => Known(packet', queue', OfAxes, AbsChange(axis), AbsChange(cache'))
    BY <1>1, <1>3, <2>1, <2>2, <2>3, ReadTracks
  <2> QED
    BY <2>3, <2>4 DEF AxesTracked, Tracked
<1>6. ReportComes'
  BY <1>1, <1>3 DEF StreamInv, ReportComes
<1> QED
  BY <1>1, <1>3, <1>4, <1>5, <1>6 DEF StreamInv

\* A report, or a marker or discarded event that only a recovery follows.
LEMMA ReadOtherTracks ==
  ASSUME StreamInv, ReadReport \/ ReadDropped \/ Discard
  PROVE  StreamInv'
<1>1. PICK e \in Event : Read(e) /\ ((e = Syn /\ ~awaiting /\ ~awaiting') \/ awaiting')
  <2>1. Syn \in Event /\ Dropped \in Event
    BY ChangeEvents
  <2>2. CASE ReadReport
    BY <2>1, <2>2 DEF ReadReport
  <2>3. CASE ReadDropped
    BY <2>1, <2>3 DEF ReadDropped
  <2>4. CASE Discard
    BY <2>4 DEF Discard
  <2> QED
    BY <2>2, <2>3, <2>4
<1>2. /\ queue' = Tail(queue)
      /\ UNCHANGED <<keyState, keyPending, reportResync, cache, told, unreported>>
      /\ \/ reported' = reported /\ (awaiting' \/ ~HasAbs)
         \/ reported' = {cache'} /\ HasAbs
  BY DEF ReadReport, ReadDropped, Discard, TellReport, TellNothing
<1>3. /\ queue # <<>> /\ e = Head(queue) /\ UNCHANGED <<keys, axis, packet>>
      /\ Tail(queue) \in Seq(Event) /\ Whole(Tail(queue))
      /\ KeysTracked /\ AxesTracked
  BY <1>1, ReadStays
<1>4. Syn # Dropped /\ Syn \notin OfAxes /\ \A k \in Key : Syn \notin OfKey(k)
  BY EventKinds
<1>5. KeysTracked'
  <2> SUFFICES ASSUME NEW l \in Key PROVE Tracked(OfKey(l), Told(l, keys), Told(l, keyState))'
    BY DEF KeysTracked
  <2>1. Tracked(OfKey(l), Told(l, keys), Told(l, keyState))
    BY <1>3 DEF KeysTracked
  <2>2. packet' = packet /\ keys' = keys /\ keyState' = keyState
    BY <1>2, <1>3
  <2>3. awaiting' \/ (~awaiting /\ Head(queue) # Dropped /\ Head(queue) \notin OfKey(l))
    BY <1>1, <1>3, <1>4
  <2>4. /\ Latest(packet', OfKey(l), Told(l, keys))
        /\ Lacks(packet', OfKey(l)) => Latest(queue', OfKey(l), Told(l, keys))
        /\ ~awaiting' => Known(packet', queue', OfKey(l), Told(l, keys), Told(l, keyState))
    BY <1>2, <1>3, <2>1, <2>2, <2>3, ReadTracks
  <2> QED
    BY <2>2, <2>4 DEF Tracked
<1>6. AxesTracked'
  <2>1. Tracked(OfAxes, AbsChange(axis), AbsChange(cache))
    BY <1>3 DEF AxesTracked
  <2>2. packet' = packet /\ axis' = axis /\ cache' = cache
    BY <1>2, <1>3
  <2>3. awaiting' \/ (~awaiting /\ Head(queue) # Dropped /\ Head(queue) \notin OfAxes)
    BY <1>1, <1>3, <1>4
  <2>4. /\ Latest(packet', OfAxes, AbsChange(axis))
        /\ Lacks(packet', OfAxes) => Latest(queue', OfAxes, AbsChange(axis))
        /\ ~awaiting' => Known(packet', queue', OfAxes, AbsChange(axis), AbsChange(cache))
    BY <1>2, <1>3, <2>1, <2>2, <2>3, ReadTracks
  <2> QED
    BY <2>2, <2>4 DEF AxesTracked, Tracked
<1>7. ReportComes'
  BY <1>2, <1>3 DEF StreamInv, ReportComes
<1> QED
  BY <1>2, <1>3, <1>5, <1>6, <1>7 DEF StreamInv

\* EVIOCGKEY and EVIOCGABS answer for what is on the way.
LEMMA RecoverTracks == ASSUME StreamInv, Recover PROVE StreamInv'
<1>1. /\ awaiting /\ ~awaiting' /\ Read(Syn) /\ queue' = Flushed(Tail(queue))
      /\ keyState' = keys /\ cache' = axis
  BY DEF Recover
<1> DEFINE q == Tail(queue)
           r == Flushed(q)
<1>2. /\ queue # <<>> /\ queue \in Seq(Event) /\ UNCHANGED <<keys, axis, packet>>
      /\ q \in Seq(Event) /\ Whole(q)
      /\ KeysTracked /\ AxesTracked
  BY <1>1, ReadStays
<1>3. Lacks(packet, OfAxes) => Latest(q, OfAxes, AbsChange(axis))
  BY <1>2, LatestTail DEF AxesTracked, Tracked
<1> HIDE DEF q
<1>4. /\ r \in Seq(Event) /\ Whole(r)
      /\ \A k \in Key : Lacks(r, OfKey(k))
      /\ Lacks(packet, OfAxes) => Latest(r, OfAxes, AbsChange(axis))
  BY <1>2, <1>3, FlushedTracks
<1>5. queue' = r
  BY <1>1 DEF q
<1> HIDE DEF r
<1>6. KeysTracked'
  <2> SUFFICES ASSUME NEW l \in Key PROVE Tracked(OfKey(l), Told(l, keys), Told(l, keyState))'
    BY DEF KeysTracked
  <2>1. Latest(packet, OfKey(l), Told(l, keys))
    BY <1>2 DEF KeysTracked, Tracked
  <2>2. Latest(r, OfKey(l), Told(l, keys))
    BY <1>4 DEF Lacks, Latest
  <2>3. Told(l, keyState') = Told(l, keys)
    BY <1>1
  <2> QED
    BY <1>2, <1>5, <2>1, <2>2, <2>3 DEF Tracked, Known
<1>7. AxesTracked'
  BY <1>1, <1>2, <1>4, <1>5 DEF AxesTracked, Tracked, Known
<1>8. \/ /\ reportResync' = HasAbs /\ UNCHANGED reported
         /\ \E k \in Changed(keys), d \in BOOLEAN : told' = With(told, k, d) /\ unreported' = unreported \ {k}
      \/ /\ ~reportResync' /\ UNCHANGED <<told, unreported>>
         /\ \/ HasAbs /\ reported' = {cache'}
            \/ ~HasAbs /\ UNCHANGED reported
  <2>1. ASSUME NEW k \in Changed(keys), reportResync' = ReportNeeded, TellKey(k, k \in keys)
        PROVE  /\ reportResync' = HasAbs /\ UNCHANGED reported
               /\ \E d \in BOOLEAN : told' = With(told, k, d) /\ unreported' = unreported \ {k}
    <3>1. (k \in keys) \in BOOLEAN
      OBVIOUS
    <3> QED
      BY <2>1, <3>1, Zenon DEF TellKey, ReportNeeded
  <2>2. ASSUME reportResync' = FALSE, IF ReportNeeded THEN TellReport ELSE TellNothing
        PROVE  /\ ~reportResync' /\ UNCHANGED <<told, unreported>>
               /\ \/ HasAbs /\ reported' = {cache'}
                  \/ ~HasAbs /\ UNCHANGED reported
    BY <2>2 DEF TellReport, TellNothing, ReportNeeded
  <2>3. \/ \E k \in Changed(keys) : reportResync' = ReportNeeded /\ TellKey(k, k \in keys)
        \/ reportResync' = FALSE /\ IF ReportNeeded THEN TellReport ELSE TellNothing
    BY Zenon DEF Recover
  <2>4. CASE \E k \in Changed(keys) : reportResync' = ReportNeeded /\ TellKey(k, k \in keys)
    BY <2>1, <2>4, Zenon
  <2>5. CASE reportResync' = FALSE /\ IF ReportNeeded THEN TellReport ELSE TellNothing
    BY <2>2, <2>5, Zenon
  <2> QED
    BY <2>3, <2>4, <2>5
<1>9. Changed(keys) \subseteq Key
  BY DEF StreamInv, Changed
<1>10. told' \subseteq Key /\ unreported' \subseteq Key /\ told' \cap unreported' = {}
  BY <1>8, <1>9 DEF StreamInv, With
<1>11. ReportComes'
  BY <1>1, <1>8, EvdevAssumption DEF StreamInv, ReportComes
<1> QED
  BY <1>1, <1>2, <1>4, <1>5, <1>6, <1>7, <1>10, <1>11 DEF StreamInv

LEMMA StreamNext == ASSUME StreamInv, [EvdevNext]_evdevVars PROVE StreamInv'
<1>1. CASE Poll \/ UNCHANGED evdevVars
  <2>1. StreamStays /\ UNCHANGED <<told, reported, unreported, reportResync>>
    BY <1>1 DEF Poll, evdevVars, StreamStays
  <2>2. ReportComes'
    BY <2>1 DEF StreamStays, StreamInv, ReportComes
  <2> QED
    BY <2>1, <2>2, TrackedStays DEF StreamStays, StreamInv
<1>2. CASE Dispatch
  BY <1>2, RecoveredTracks, ReadKeyTracks, ReadAbsTracks, ReadOtherTracks, RecoverTracks
     DEF Dispatch
<1> QED
  BY <1>1, <1>2, ChangeKeyTracks, ChangeAxisTracks, SyncTracks DEF EvdevNext

\* Between the kernel and the decoder no change is forgotten (device.rs read_one,
\* decode.rs RecoveryState): the last event about a key or the axes tells what they
\* are now, whatever the queue lost and EVIOCGKEY flushed.
THEOREM EvdevStream == EvdevSpec => []StreamInv
<1>1. EvdevInit => StreamInv
  <2> SUFFICES ASSUME EvdevInit PROVE StreamInv
    OBVIOUS
  <2>1. packet = <<>> /\ queue = <<>> /\ keyState = keys /\ cache = axis
    BY DEF EvdevInit
  <2>2. \A events, now : Latest(<<>>, events, now)
    BY DEF Latest
  <2>3. KeysTracked /\ AxesTracked
    BY <2>1, <2>2 DEF KeysTracked, AxesTracked, Tracked, Known
  <2>4. packet \in Seq(Change) /\ queue \in Seq(Event) /\ Whole(queue)
    BY <2>1 DEF Whole
  <2> QED
    BY <2>1, <2>3, <2>4 DEF EvdevInit, StreamInv, ReportComes
<1> QED
  BY <1>1, StreamNext, PTL DEF EvdevSpec

\* No stuck and no missing key (decode.rs RecoveryState): caught up with the kernel,
\* the daemon has told of exactly the keys that are down, whatever was lost.
THEOREM EvdevNoStuckKey == EvdevSpec => []NoStuckKey
<1>1. DecoderInv /\ StreamInv => NoStuckKey
  <2> SUFFICES ASSUME DecoderInv, StreamInv, CaughtUp PROVE told = keys \ unreported
    BY DEF NoStuckKey
  <2>1. packet = <<>> /\ queue = <<>> /\ ~awaiting /\ keyPending = {}
    BY DEF CaughtUp
  <2>2. \A k \in Key : k \in keyState <=> k \in keys
    <3> SUFFICES ASSUME NEW k \in Key PROVE k \in keyState <=> k \in keys
      OBVIOUS
    <3>1. Known(packet, queue, OfKey(k), Told(k, keys), Told(k, keyState))
      BY <2>1 DEF StreamInv, KeysTracked, Tracked
    <3>2. Told(k, keyState) = Told(k, keys)
      BY <2>1, <3>1 DEF Known, Lacks
    <3> QED
      BY <3>2, ToldSame
  <2>3. \A k \in Key \ unreported : k \in told <=> k \in keyState
    <3> SUFFICES ASSUME NEW k \in Key \ unreported PROVE k \in told <=> k \in keyState
      OBVIOUS
    <3>1. k \notin keyPending
      BY <2>1
    <3>2. k \in told <=> ((k \in keyState) # (k \in keyPending))
      BY DEF DecoderInv, Remembers
    <3>3. CASE k \in keyState
      BY <3>1, <3>2, <3>3, Zenon
    <3>4. CASE k \notin keyState
      BY <3>1, <3>2, <3>4
    <3> QED
      BY <3>3, <3>4
  <2> QED
    BY <2>2, <2>3 DEF StreamInv
<1> QED
  BY <1>1, EvdevDecoder, EvdevStream, PTL

\* The last report tells the axes as they are (decode.rs Decoder::recover and
\* decode): also when the packet that changed them was lost.
THEOREM EvdevReportCurrent == EvdevSpec => []ReportCurrent
<1>1. StreamInv => ReportCurrent
  <2> SUFFICES ASSUME StreamInv, CaughtUp PROVE reported \subseteq {axis}
    BY DEF ReportCurrent
  <2>1. packet = <<>> /\ queue = <<>> /\ ~awaiting /\ ~reportResync
    BY DEF CaughtUp
  <2>2. Known(packet, queue, OfAxes, AbsChange(axis), AbsChange(cache))
    BY <2>1 DEF StreamInv, AxesTracked, Tracked
  <2>3. AbsChange(cache) = AbsChange(axis)
    BY <2>1, <2>2 DEF Known, Lacks
  <2>4. cache = axis
    BY <2>3, EventKinds
  <2> QED
    BY <2>1, <2>4 DEF StreamInv, ReportComes
<1> QED
  BY <1>1, EvdevStream, PTL
=============================================================================
