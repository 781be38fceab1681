----------------------------- MODULE EvdevInput -----------------------------
(***************************************************************************)
(* One open evdev interface, from the kernel's key state to the events the *)
(* bridge sees: the client queue of the kernel, which loses events when it *)
(* is full, and the decoder that recovers from the loss                    *)
(* (crates/wiiland-hid/src/device.rs read_one and dispatch, decode.rs      *)
(* RecoveryState and Decoder).                                             *)
(*                                                                         *)
(* A key has two values and an axis is one of a small set; keys that the   *)
(* decoder does not map, and autorepeat, are left out.                     *)
(***************************************************************************)
EXTENDS Naturals, Sequences

CONSTANTS
  Key,           \* the keys of the interface
  Axis,          \* the values of its axes
  HasAbs,        \* abs_codes is not empty
  QueueSize,     \* kernel: the events the client queue holds before it overflows
  PacketMax,     \* bound: the changes of one packet
  DrainMax       \* MAX_EVENTS_PER_DRAIN

ASSUME EvdevAssumption ==
  /\ HasAbs \in BOOLEAN
  /\ QueueSize \in Nat /\ QueueSize >= 2
  /\ DrainMax \in Nat \ {0}

VARIABLES
  keys,          \* kernel: the keys that are down
  axis,          \* kernel: the axis value
  packet,        \* kernel: the changes not yet passed to the clients
  queue,         \* kernel: what read() returns, whole packets
  awaiting,      \* InputInterface.awaiting_sync, RecoveryState.desynced
  keyState,      \* RecoveryState.key_state
  keyPending,    \* RecoveryState.key_pending
  keyResync,     \* RecoveryState.key_resync_pending
  reportResync,  \* RecoveryState.report_resync_pending
  cache,         \* Decoder.cache
  wake,          \* the recovery eventfd is readable
  draining,      \* dispatch calls left in this drain; 0 while the reactor polls
  told,          \* the keys that the delivered events leave down
  reported,      \* the axis values of the last delivered report; {} before it
  unreported     \* the keys that were down at open and had no event since

kernelVars == <<keys, axis, packet, queue>>
recoveryVars == <<keyPending, keyResync, reportResync>>
tellVars == <<told, reported, unreported>>
evdevVars ==
  <<kernelVars, awaiting, keyState, recoveryVars, cache, wake, draining, tellVars>>

Syn == [type |-> "syn"]
Dropped == [type |-> "dropped"]
KeyChange(k, down) == [type |-> "key", key |-> k, down |-> down]
AbsChange(x) == [type |-> "abs", value |-> x]
Event ==
  {Syn, Dropped} \cup {KeyChange(k, d) : k \in Key, d \in BOOLEAN}
    \cup {AbsChange(x) : x \in Axis}

With(set, k, down) == IF down THEN set \cup {k} ELSE set \ {k}
-----------------------------------------------------------------------------
(***************************************************************************)
(* The kernel.                                                             *)
(***************************************************************************)
\* A key or axis changes; EVIOCGKEY and EVIOCGABS see it before the clients do.
\* The input core drops a report of a value that did not change.
ChangeKey(k) ==
  /\ Len(packet) < PacketMax
  /\ keys' = With(keys, k, k \notin keys)
  /\ packet' = Append(packet, KeyChange(k, k \notin keys))
  /\ UNCHANGED <<axis, queue, awaiting, keyState, recoveryVars, cache, wake, draining, tellVars>>

ChangeAxis(x) ==
  /\ HasAbs
  /\ Len(packet) < PacketMax
  /\ axis # x
  /\ axis' = x
  /\ packet' = Append(packet, AbsChange(x))
  /\ UNCHANGED <<keys, queue, awaiting, keyState, recoveryVars, cache, wake, draining, tellVars>>

\* A full queue is replaced by a marker and the newest event.
Queued(q, event) ==
  IF Len(q) + 1 = QueueSize THEN <<Dropped, event>> ELSE Append(q, event)

\* One event after the other.
Passed(q, events) ==
  LET after[n \in 0..Len(events)] ==
        IF n = 0 THEN q ELSE Queued(after[n - 1], events[n])
  IN  after[Len(events)]

\* The packet is complete and passed to the clients.
Sync ==
  /\ packet # <<>>
  /\ queue' = Passed(queue, Append(packet, Syn))
  /\ packet' = <<>>
  /\ UNCHANGED <<keys, axis, awaiting, keyState, recoveryVars, cache, wake, draining, tellVars>>

\* EVIOCGKEY removes the queued key events it answers for, and packets left empty,
\* except a report that ends a packet already being read.
Flushed(q) ==
  LET after[n \in 0..Len(q)] ==
        IF n = 0 THEN [events |-> <<>>, empty |-> FALSE]
        ELSE IF q[n].type = "key" \/ (q[n] = Syn /\ after[n - 1].empty) THEN after[n - 1]
        ELSE [events |-> Append(after[n - 1].events, q[n]), empty |-> q[n] = Syn]
  IN  after[Len(q)].events
-----------------------------------------------------------------------------
(***************************************************************************)
(* Dispatch.                                                               *)
(***************************************************************************)

\* The reactor's poll finds the device readable and drains it.
Poll ==
  /\ draining = 0
  /\ wake \/ queue # <<>>
  /\ draining' = DrainMax
  /\ UNCHANGED <<kernelVars, awaiting, keyState, recoveryVars, cache, wake, tellVars>>

\* RecoveryState::has_pending
HasPending == keyResync \/ reportResync

\* Fault: nobody is told that recovered events wait.
Unsignalled(pendingLeft) == FALSE

\* dispatch clears the eventfd, and signal_recovery_if_pending sets it again.
Signalled(pendingLeft) == pendingLeft

\* What a dispatch call returns: an event, which the drain counts, or WouldBlock,
\* which ends the drain until the next poll.
TellKey(k, down) ==
  /\ told' = With(told, k, down)
  /\ unreported' = unreported \ {k}
  /\ draining' = draining - 1
  /\ UNCHANGED reported

TellReport ==
  /\ reported' = {cache'}
  /\ draining' = draining - 1
  /\ UNCHANGED <<told, unreported>>

TellNothing == draining' = 0 /\ UNCHANGED tellVars

\* take_recovered: next_key delivers the keys that changed during the loss.
RecoverKey(k) ==
  /\ k \in keyPending
  /\ keyPending' = keyPending \ {k}
  /\ TellKey(k, k \in keyState)
  /\ UNCHANGED <<kernelVars, awaiting, keyState, keyResync, reportResync, cache>>

\* take_recovered: take_report delivers the axes after the keys.
RecoverReport ==
  /\ keyPending = {}
  /\ reportResync
  /\ keyResync' = FALSE
  /\ reportResync' = FALSE
  /\ UNCHANGED <<kernelVars, awaiting, keyState, keyPending, cache>>
  /\ TellReport

\* Fault: the queue is read while recovered events wait.
ReadsAlways == TRUE

\* dispatch reads the queue once take_recovered has nothing left.
ReadsQueue == keyPending = {} /\ ~reportResync

\* Nothing is readable.
Blocked ==
  /\ ReadsQueue
  /\ queue = <<>>
  /\ keyResync' = FALSE
  /\ TellNothing
  /\ UNCHANGED <<kernelVars, awaiting, keyState, keyPending, reportResync, cache>>

\* read_one takes one event from the queue.
Read(event) ==
  /\ ReadsQueue
  /\ queue # <<>>
  /\ event = Head(queue)
  /\ UNCHANGED <<keys, axis, packet>>

\* RecoveryState::remember
Remembered(k, down) == With(keyState, k, down)

ReadKey ==
  \E k \in Key, down \in BOOLEAN :
    /\ ~awaiting
    /\ Read(KeyChange(k, down))
    /\ queue' = Tail(queue)
    /\ keyState' = Remembered(k, down)
    /\ keyResync' = FALSE
    /\ TellKey(k, down)
    /\ UNCHANGED <<awaiting, keyPending, reportResync, cache>>

ReadAbs ==
  \E x \in Axis :
    /\ ~awaiting
    /\ Read(AbsChange(x))
    /\ queue' = Tail(queue)
    /\ cache' = x
    /\ keyResync' = FALSE
    /\ TellNothing
    /\ UNCHANGED <<awaiting, keyState, keyPending, reportResync>>

\* A report is an event of interfaces that have axes.
ReadReport ==
  /\ ~awaiting
  /\ Read(Syn)
  /\ queue' = Tail(queue)
  /\ keyResync' = FALSE
  /\ UNCHANGED <<awaiting, keyState, keyPending, reportResync, cache>>
  /\ IF HasAbs THEN TellReport ELSE TellNothing

\* Events were lost: what follows is unreliable up to the next report.
ReadDropped ==
  /\ Read(Dropped)
  /\ queue' = Tail(queue)
  /\ awaiting' = TRUE
  /\ keyResync' = FALSE
  /\ TellNothing
  /\ UNCHANGED <<keyState, keyPending, reportResync, cache>>

Discard ==
  /\ awaiting
  /\ \E event \in Event \ {Syn, Dropped} : Read(event)
  /\ queue' = Tail(queue)
  /\ keyResync' = FALSE
  /\ TellNothing
  /\ UNCHANGED <<awaiting, keyState, keyPending, reportResync, cache>>

\* Fault: the axes are read back but not reported.
ReportForgotten == FALSE

\* RecoveryState::seed: a report follows if the interface has axes.
ReportNeeded == HasAbs

\* Fault: only the keys that went down during the loss are looked for.
ChangedDown(now) == now \ keyState

\* RecoveryState::seed: the keys that differ from the remembered ones
Changed(now) == (keyState \ now) \cup (now \ keyState)

\* The report that ends the loss: query_recovery_state, Decoder::recover, and
\* take_recovered for the first recovered event.
Recover ==
  /\ awaiting
  /\ Read(Syn)
  /\ queue' = Flushed(Tail(queue))
  /\ awaiting' = FALSE
  /\ keyState' = keys
  /\ cache' = axis
  /\ \/ \E k \in Changed(keys) :
          /\ keyPending' = Changed(keys) \ {k}
          /\ keyResync' = TRUE
          /\ reportResync' = ReportNeeded
          /\ TellKey(k, k \in keys)
     \/ /\ Changed(keys) = {}
        /\ keyResync' = FALSE
        /\ reportResync' = FALSE
        /\ UNCHANGED keyPending
        /\ IF ReportNeeded THEN TellReport ELSE TellNothing

\* One call of Interface::dispatch.
Dispatch ==
  /\ draining > 0
  /\ \/ \E k \in Key : RecoverKey(k)
     \/ RecoverReport
     \/ Blocked
     \/ ReadKey
     \/ ReadAbs
     \/ ReadReport
     \/ ReadDropped
     \/ Discard
     \/ Recover
  /\ wake' = Signalled(HasPending')
-----------------------------------------------------------------------------
\* Interface::open: query_initial_state and seed_state, on an empty queue.
EvdevInit ==
  /\ keys \in SUBSET Key
  /\ axis \in Axis
  /\ packet = <<>>
  /\ queue = <<>>
  /\ awaiting = FALSE
  /\ keyState = keys
  /\ keyPending = {}
  /\ keyResync = FALSE
  /\ reportResync = FALSE
  /\ cache = axis
  /\ wake = FALSE
  /\ draining = 0
  /\ told = {}
  /\ reported = {}
  /\ unreported = keys

EvdevNext ==
  \/ \E k \in Key : ChangeKey(k)
  \/ \E x \in Axis : ChangeAxis(x)
  \/ Sync
  \/ Poll
  \/ Dispatch

EvdevSpec == EvdevInit /\ [][EvdevNext]_evdevVars

\* The reactor polls again after every drain, and drains what it finds.
FairEvdevSpec == EvdevSpec /\ WF_evdevVars(Poll) /\ WF_evdevVars(Dispatch)
-----------------------------------------------------------------------------
(***************************************************************************)
(* Properties.                                                             *)
(***************************************************************************)

\* Everything the kernel passed has been read and delivered.
CaughtUp == packet = <<>> /\ queue = <<>> /\ ~awaiting /\ keyPending = {} /\ ~reportResync

\* No stuck and no missing key: once the daemon has caught up, what it delivered
\* leaves exactly the keys down that are, but for keys held since before the
\* interface was opened, whatever the queue lost on the way.
NoStuckKey == CaughtUp => told = keys \ unreported

\* The last report delivered is the state of the axes, also after a loss that ate
\* the packet that changed them.
ReportCurrent == CaughtUp => reported \subseteq {axis}

\* Recovered events are delivered from the remembered state: a key that is still to
\* be recovered is exactly one whose delivered state is out of date.
PendingOutdated ==
  \A k \in keyPending : (k \in keyState) # (k \in told) \/ k \in unreported

\* Recovered events that no new input follows are still delivered: the eventfd keeps
\* the device readable over the end of a drain.
RecoveryDelivered == (keyPending # {} \/ reportResync) ~> (keyPending = {} /\ ~reportResync)
=============================================================================
