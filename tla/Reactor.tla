------------------------------- MODULE Reactor -------------------------------
(***************************************************************************)
(* The daemon's reactor and discovery: wiilandd/src/runtime.rs, the         *)
(* discovery worker of platform.rs and the bounded monitor of               *)
(* wiiland-hid/src/monitor.rs.                                              *)
(*                                                                          *)
(* A single thread owns the device slots.  Uevents only say that something  *)
(* changed; what there is, a worker enumerates on request.  The controllers *)
(* come and go at any moment, also while the worker enumerates.             *)
(***************************************************************************)
EXTENDS Naturals, Sequences, FiniteSets, SequencesExt

CONSTANTS
    Root,           \* syspaths of controllers
    NoRoot,         \* marks a free slot
    Slot,           \* the device slots (MAX_DEVICES of them)
    SetupBudget,    \* DEVICE_SETUP_BUDGET
    MonitorBudget,  \* MONITOR_EVENT_BUDGET
    SnapshotLimit,  \* MAX_SNAPSHOT_DEVICES
    MaxEvents       \* capacity of the netlink socket

ASSUME RootAssumption == NoRoot \notin Root /\ IsFiniteSet(Root)
ASSUME SlotAssumption == IsFiniteSet(Slot)
ASSUME BudgetAssumption ==
    /\ SetupBudget \in Nat \ {0} /\ MonitorBudget \in Nat \ {0}
    /\ SnapshotLimit \in Nat /\ MaxEvents \in Nat

VARIABLES
    present,        \* controllers bound to the driver
    ready,          \* those whose interfaces would open
    listing,        \* steps left of the monitor's initial enumeration
    events,         \* uevents queued in the monitor's socket
    overrun,        \* the socket lost uevents
    phase,          \* where the reactor's iteration is
    single,         \* run_single instead of run_monitor
    slots,          \* Runtime.slots
    dead,           \* slots whose controller left during the session
    hot,            \* slots that poll reported and are not drained yet
    woken,          \* poll reported the monitor
    monitorPending, \* Runtime.monitor_pending
    snapshotPending,\* Runtime.snapshot_pending
    reconcileAgain, \* Runtime.reconcile_again
    additions,      \* Runtime.pending_additions
    setups,         \* additions tried in this iteration
    requested,      \* the request channel holds a request
    worker,         \* the discovery worker
    scan,           \* listed roots the worker has yet to look up
    found,          \* roots of the snapshot so far
    answer,         \* the channel of completed snapshots
    news            \* ghost: uevents were drained since the last enumeration began

world == <<present, ready>>
socket == <<listing, events, overrun>>
discovery == <<requested, worker, scan, found, answer>>
queue == <<monitorPending, snapshotPending, reconcileAgain, additions>>
batch == <<hot, woken, setups>>
vars == <<present, ready, listing, events, overrun, phase, single, slots,
          dead, hot, woken, monitorPending, snapshotPending, reconcileAgain,
          additions, setups, requested, worker, scan, found, answer, news>>

Phases == {"start", "poll", "drain", "monitor", "tick", "discover", "add",
           "done"}

Owned == {slots[s] : s \in Slot} \ {NoRoot}
Used == {s \in Slot : slots[s] # NoRoot}

-----------------------------------------------------------------------------
(* The kernel and udevd. *)

\* A uevent reaches a monitor that exists; a full socket loses it.
Broadcast ==
    IF phase = "start" \/ single
        THEN UNCHANGED <<events, overrun>>
        ELSE /\ events' = IF events < MaxEvents THEN events + 1 ELSE events
             /\ overrun' = (overrun \/ events = MaxEvents)

Plug(r) ==
    /\ r \notin present
    /\ present' = present \cup {r}
    /\ Broadcast
    /\ UNCHANGED <<ready, listing, phase, single, slots, dead, batch,
                   queue, discovery, news>>

\* The sessions of a controller that leaves are over, whatever comes back
\* under its name.
Unplug(r) ==
    /\ r \in present
    /\ present' = present \ {r}
    /\ ready' = ready \ {r}
    /\ dead' = dead \cup {s \in Slot : slots[s] = r}
    /\ Broadcast
    /\ UNCHANGED <<listing, phase, single, slots, batch, queue,
                   discovery, news>>

\* udevd sets or withdraws the permissions of input nodes; the monitor of
\* the hid subsystem is not told.
ToggleReady(r) ==
    /\ r \in present
    /\ ready' = IF r \in ready THEN ready \ {r} ELSE ready \cup {r}
    /\ UNCHANGED <<present, socket, phase, single, slots, dead, batch,
                   queue, discovery, news>>

-----------------------------------------------------------------------------
(* The discovery worker. *)

\* It takes a request and lists the devices.
StartScan ==
    /\ worker = "idle" /\ requested
    /\ requested' = FALSE
    /\ worker' = "scanning"
    /\ scan' = present
    /\ found' = {}
    /\ news' = FALSE
    /\ UNCHANGED <<world, socket, phase, single, slots, dead, batch,
                   queue, answer>>

\* It looks up a listed device: one that has left since is skipped, and one
\* too many makes the snapshot an error.
LookUp(r) ==
    /\ worker = "scanning" /\ r \in scan
    /\ IF r \in present /\ Cardinality(found) = SnapshotLimit
          THEN /\ worker' = "idle" /\ answer' = "failed"
               /\ scan' = {} /\ found' = {}
          ELSE /\ scan' = scan \ {r}
               /\ found' = found \cup ({r} \cap present)
               /\ UNCHANGED <<worker, answer>>
    /\ UNCHANGED <<world, socket, phase, single, slots, dead, batch,
                   queue, requested, news>>

\* It sends the snapshot.
FinishScan ==
    /\ worker = "scanning" /\ scan = {}
    /\ worker' = "idle"
    /\ answer' = "listed"
    /\ UNCHANGED <<world, socket, phase, single, slots, dead, batch,
                   queue, requested, scan, found, news>>

\* Or the error that ended the enumeration.
FailScan ==
    /\ worker = "scanning"
    /\ worker' = "idle"
    /\ answer' = "failed"
    /\ scan' = {} /\ found' = {}
    /\ UNCHANGED <<world, socket, phase, single, slots, dead, batch,
                   queue, requested, news>>

\* It may die; the reactor then finds its channels closed.
WorkerStops ==
    /\ worker # "stopped"
    /\ worker' = "stopped"
    /\ requested' = FALSE
    /\ scan' = {}
    /\ UNCHANGED <<world, socket, phase, single, slots, dead, batch,
                   queue, found, answer, news>>

-----------------------------------------------------------------------------
(* The reactor. *)

\* As if a request during another one were dropped.
RequestDropped ==
    IF snapshotPending \/ additions # <<>> \/ worker = "stopped"
        THEN UNCHANGED <<reconcileAgain, snapshotPending, requested>>
        ELSE /\ UNCHANGED reconcileAgain
             /\ snapshotPending' = TRUE /\ requested' = TRUE

\* request_reconcile: at most one snapshot is under way, and none while
\* additions of the last one wait.
RequestReconcile ==
    IF snapshotPending \/ additions # <<>>
        THEN /\ reconcileAgain' = TRUE
             /\ UNCHANGED <<snapshotPending, requested>>
        ELSE /\ UNCHANGED reconcileAgain
             /\ IF worker = "stopped"
                   THEN UNCHANGED <<snapshotPending, requested>>
                   ELSE snapshotPending' = TRUE /\ requested' = TRUE

\* add_path: the first free slot, if the controller is not owned and opens.
AddPath(r) ==
    IF r \in Owned \/ Used = Slot \/ r \notin ready
        THEN UNCHANGED <<slots, dead>>
        ELSE \E s \in Slot \ Used :
                slots' = [slots EXCEPT ![s] = r] /\ UNCHANGED dead

Vacate(gone) ==
    /\ slots' = [s \in Slot |-> IF s \in gone THEN NoRoot ELSE slots[s]]
    /\ dead' = dead \ gone

\* A termination signal is seen before or after poll, and a fatal error of
\* poll or of the control socket returns from the loop as well.
Leave ==
    /\ phase = "poll"
    /\ phase' = "done"
    /\ UNCHANGED <<world, socket, single, slots, dead, batch, queue,
                   discovery, news>>

\* The steps the monitor has left: one per listed device, one that ends the
\* enumeration.
Listing == Cardinality(present) + 1

StartMonitor ==
    /\ phase = "start" /\ ~single
    /\ \/ /\ phase' = "poll"
          /\ listing' = Listing
          /\ RequestReconcile
       \/ /\ phase' = "done"
          /\ UNCHANGED <<listing, snapshotPending, requested, reconcileAgain>>
    /\ UNCHANGED <<world, events, overrun, single, slots, dead, batch,
                   monitorPending, additions, worker, scan, found, answer, news>>

StartSingle(r) ==
    /\ phase = "start" /\ single
    /\ AddPath(r)
    /\ phase' = IF slots' = slots THEN "done" ELSE "poll"
    /\ UNCHANGED <<world, socket, single, batch, queue, discovery, news>>

\* Readiness is level triggered: a dead session is always reported.
Poll ==
    /\ phase = "poll"
    /\ \E more \in SUBSET Used : hot' = more \cup dead
    /\ woken' = (events > 0 \/ overrun)
    /\ phase' = "drain"
    /\ UNCHANGED <<world, socket, single, slots, dead, setups, queue,
                   discovery, news>>

\* An interrupted poll handles nothing but goes on to the ticks.
Interrupted ==
    /\ phase = "poll"
    /\ phase' = "tick"
    /\ UNCHANGED <<world, socket, single, slots, dead, batch, queue,
                   discovery, news>>

\* drain_device: more to read, or the session is gone or failed and given up.
Drain(s) ==
    /\ phase = "drain" /\ s \in hot
    /\ hot' = hot \ {s}
    /\ \/ phase' = phase /\ UNCHANGED <<slots, dead>>
       \/ s \in dead /\ phase' = phase /\ Vacate({s})
       \/ phase' = (IF single THEN "done" ELSE phase) /\ Vacate({s})
    /\ UNCHANGED <<world, socket, single, woken, setups, queue,
                   discovery, news>>

Drained ==
    /\ phase = "drain" /\ hot = {}
    /\ phase' = IF woken \/ monitorPending THEN "monitor" ELSE "tick"
    /\ UNCHANGED <<world, socket, single, slots, dead, batch, queue,
                   discovery, news>>

\* The first receive after a loss reports it and reads nothing.
ReceiveFails ==
    /\ overrun /\ listing < MonitorBudget
    /\ listing' = 0 /\ overrun' = FALSE
    /\ monitorPending' = FALSE
    /\ UNCHANGED events

\* The rest of the enumeration is read first, then uevents; a spent budget
\* means there may be more.
ReadBudget ==
    LET queued == listing + events
    IN  /\ ~overrun \/ listing >= MonitorBudget
        /\ listing' = IF listing > MonitorBudget
                         THEN listing - MonitorBudget ELSE 0
        /\ events' = IF queued <= MonitorBudget THEN 0
                     ELSE IF listing >= MonitorBudget THEN events
                     ELSE queued - MonitorBudget
        /\ monitorPending' = (queued >= MonitorBudget)
        /\ UNCHANGED overrun

\* Whatever the monitor said, there is news.
DrainMonitor ==
    /\ phase = "monitor"
    /\ ReceiveFails \/ ReadBudget
    /\ RequestReconcile
    /\ news' = TRUE
    /\ phase' = "tick"
    /\ UNCHANGED <<world, single, slots, dead, batch, additions, worker,
                   scan, found, answer>>

\* The pointer tick gives up each session whose output fails.
TickPointer ==
    /\ phase = "tick"
    /\ \E failed \in SUBSET Used :
          /\ Vacate(failed)
          /\ phase' = IF single /\ (failed # {} \/ Used = {})
                         THEN "done"
                         ELSE IF single THEN "poll" ELSE "discover"
    /\ UNCHANGED <<world, socket, single, batch, queue, discovery, news>>

\* As if the tick relied on the monitor.
TickIdle == phase = "discover" /\ UNCHANGED vars

\* The reconciliation tick of each second.
TickReconcile ==
    /\ phase = "discover"
    /\ RequestReconcile
    /\ UNCHANGED <<world, socket, phase, single, slots, dead, batch,
                   monitorPending, additions, worker, scan, found, answer, news>>

\* missing_slots: owned, and not in the snapshot.
Missing == {s \in Used : slots[s] \notin found}

\* As if owned controllers were set up again.
QueuedAll == found

\* What the snapshot adds.
Queued == found \ Owned

\* As if an error were an empty snapshot.
AnyAnswer == answer # "none"

Listed == answer = "listed"

\* service_discovery, first part: a completed snapshot is applied.  What it
\* lacks is removed, what is new waits for setup.  An error changes nothing.
TakeSnapshot ==
    /\ phase = "discover"
    /\ phase' = "add"
    /\ setups' = 0
    /\ IF ~snapshotPending \/ (answer = "none" /\ worker # "stopped")
          THEN UNCHANGED <<snapshotPending, answer, found, slots, dead,
                         additions>>
          ELSE /\ snapshotPending' = FALSE
               /\ answer' = "none" /\ found' = {}
               /\ IF Listed
                     THEN /\ Vacate(Missing)
                          /\ \E order \in SetToSeqs(Queued) :
                                additions' = additions \o order
                     ELSE UNCHANGED <<slots, dead, additions>>
    /\ UNCHANGED <<world, socket, single, hot, woken, monitorPending,
                   reconcileAgain, requested, worker, scan, news>>

\* Second part: a bounded number of setups.
AddNext ==
    /\ phase = "add" /\ setups < SetupBudget /\ additions # <<>>
    /\ AddPath(Head(additions))
    /\ additions' = Tail(additions)
    /\ setups' = setups + 1
    /\ UNCHANGED <<world, socket, phase, single, hot, woken,
                   monitorPending, snapshotPending, reconcileAgain, discovery,
                   news>>

\* Last part: a request that was put off is made now.
RequestAgain ==
    /\ phase = "add" /\ (setups = SetupBudget \/ additions = <<>>)
    /\ phase' = "poll"
    /\ IF reconcileAgain /\ ~snapshotPending /\ additions = <<>>
          THEN /\ reconcileAgain' = FALSE
               /\ IF worker = "stopped"
                     THEN UNCHANGED <<snapshotPending, requested>>
                     ELSE snapshotPending' = TRUE /\ requested' = TRUE
          ELSE UNCHANGED <<reconcileAgain, snapshotPending, requested>>
    /\ UNCHANGED <<world, socket, single, slots, dead, batch,
                   monitorPending, additions, worker, scan, found, answer, news>>

\* Dropping the Runtime releases every session; the daemon may be run again.
Close ==
    /\ phase = "done"
    /\ phase' = "start" /\ single' \in BOOLEAN
    /\ listing' = 0 /\ events' = 0 /\ overrun' = FALSE
    /\ slots' = [s \in Slot |-> NoRoot] /\ dead' = {}
    /\ hot' = {} /\ woken' = FALSE /\ setups' = 0
    /\ monitorPending' = FALSE /\ snapshotPending' = FALSE
    /\ reconcileAgain' = FALSE /\ additions' = <<>>
    /\ requested' = FALSE /\ worker' = "idle" /\ scan' = {} /\ found' = {}
    /\ answer' = "none" /\ news' = FALSE
    /\ UNCHANGED world

-----------------------------------------------------------------------------
ReactorInit ==
    /\ present \in SUBSET Root /\ ready = present
    /\ phase = "start" /\ single \in BOOLEAN
    /\ listing = 0 /\ events = 0 /\ overrun = FALSE
    /\ slots = [s \in Slot |-> NoRoot] /\ dead = {}
    /\ hot = {} /\ woken = FALSE /\ setups = 0
    /\ monitorPending = FALSE /\ snapshotPending = FALSE
    /\ reconcileAgain = FALSE /\ additions = <<>>
    /\ requested = FALSE /\ worker = "idle" /\ scan = {} /\ found = {}
    /\ answer = "none" /\ news = FALSE

World == \E r \in Root : Plug(r) \/ Unplug(r) \/ ToggleReady(r)

Worker == StartScan \/ FinishScan \/ FailScan \/ \E r \in Root : LookUp(r)

Loop ==
    \/ StartMonitor \/ (\E r \in Root : StartSingle(r))
    \/ Poll \/ Interrupted
    \/ (\E s \in Slot : Drain(s)) \/ Drained \/ DrainMonitor
    \/ TickPointer \/ TakeSnapshot \/ AddNext \/ RequestAgain \/ Close

ReactorNext ==
    World \/ Worker \/ WorkerStops \/ Loop \/ TickReconcile \/ Leave

ReactorSpec == ReactorInit /\ [][ReactorNext]_vars

\* The loop never blocks for longer than a pointer tick, its clock passes the
\* reconciliation deadline again and again, and the worker runs.
FairReactorSpec ==
    /\ ReactorSpec
    /\ WF_vars(Loop) /\ SF_vars(TickReconcile)
    /\ WF_vars(StartScan) /\ WF_vars(\E r \in Root : LookUp(r))
    /\ WF_vars(FinishScan)

-----------------------------------------------------------------------------
(* Types. *)
ReactorTypeOK ==
    /\ present \in SUBSET Root /\ ready \in SUBSET present
    /\ listing \in Nat /\ events \in 0..MaxEvents /\ overrun \in BOOLEAN
    /\ phase \in Phases /\ single \in BOOLEAN
    /\ slots \in [Slot -> Root \cup {NoRoot}] /\ dead \in SUBSET Used
    /\ hot \in SUBSET Slot /\ woken \in BOOLEAN /\ setups \in 0..SetupBudget
    /\ monitorPending \in BOOLEAN /\ snapshotPending \in BOOLEAN
    /\ reconcileAgain \in BOOLEAN /\ additions \in Seq(Root)
    /\ requested \in BOOLEAN /\ worker \in {"idle", "scanning", "stopped"}
    /\ scan \in SUBSET Root /\ found \in SUBSET Root
    /\ answer \in {"none", "listed", "failed"} /\ news \in BOOLEAN

\* No controller has two slots, and none waits for setup twice or while it is
\* owned: an addition is never a second session of one controller.
OneSession ==
    /\ \A s, t \in Used : slots[s] = slots[t] => s = t
    /\ IsInjective(additions)
    /\ ToSet(additions) \cap Owned = {}

\* A change whose uevent was drained is enumerated after it: while no
\* enumeration has begun since, one is requested, or the reactor remembers to
\* request it.  Nothing but these two flags carries the news.
NewsKept ==
    news /\ worker # "stopped" /\ phase # "done"
        => requested \/ reconcileAgain

\* Discovery gives up a session only when its controller left during that
\* session: never from a snapshot older than the session, a failed one, or a
\* list of which the worker looked up only a part.
RemovalJustified ==
    [][TakeSnapshot => \A s \in Used : slots'[s] = NoRoot => s \in dead]_vars

\* While the daemon runs, its worker lives and the snapshots succeed: a controller
\* that stays ready is offered a session until it has one or no slot is free,
\* also when the only sign of its readiness was missed; one that stays away
\* loses its session.
Converges ==
    (/\ <>[](phase \notin {"start", "done"} /\ ~single /\ worker # "stopped")
     /\ <>[](Cardinality(present) <= SnapshotLimit)
     /\ <>[][~FailScan]_vars) =>
        \A r \in Root :
            /\ <>[](r \in ready) => []<>(r \in Owned \/ Used = Slot)
            /\ <>[](r \notin present) => <>[](r \notin Owned)
=============================================================================
