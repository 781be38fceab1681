# A TLA+ verification of WiiLand

WiiLand turns Nintendo Wii controllers into virtual gamepads, keyboards and
mice on Linux. The kernel exposes each controller as several evdev
interfaces; one daemon (`wiilandd`) owns them, runs a deterministic engine per
controller, writes to uinput devices, and serves a local control socket to a
GUI and a TUI. This directory models the daemon, its clients and the control
center as TLA+ modules, checks them with TLC on small instances, and proves the
central properties with TLAPS for every value of the constants.

Source paths below are relative to `src/crates/`.

## 1. Inventory

### Components

| Component | State | Operations | Correct when |
| --- | --- | --- | --- |
| Device engine, `wiiland-core/src/engine.rs` | buttons held per source; pointer, aim and calibration state | `process`: key, motion, tick, source removed, reset | a virtual key is down exactly while some held button drives it |
| Pointer, aim, calibration, mapping, `wiiland-core/src/{pointer,aim,calibration,mapping}.rs` | pointer directions, velocity, IR baseline, aim activation | update, tick, reset; pure scaling and selection | motion stops with its last owner; results are bounded |
| Device bridge, `wiilandd/src/bridge.rs` | open and pending masks, capture, outputs, the engine | own, drain, `handle_watch`, `retry_open`, `set_capture`, pointer tick, drop | masks tell the truth; a lost interface leaves no key down |
| HID interface, `wiiland-hid/src/{device,backend}.rs` | nodes last found, descriptors, monitor, recovery eventfd | refresh, watch, open, close, dispatch | loss of a node or a descriptor is noticed and reported once |
| Evdev decoder, `wiiland-hid/src/decode.rs` | key memory, pending recovered keys, axis cache | push, recover, take recovered | what is delivered agrees with the kernel after any loss |
| HID monitor, `wiiland-hid/src/monitor.rs` | queue of initial and later roots | enumerate, poll | each root is reported, once |
| Virtual devices, `wiilandd/src/uinput.rs` | descriptor, created flag | create, emit, drop | one owner of the descriptor; destroyed on every path |
| Reactor, `wiilandd/src/{runtime,platform}.rs` | device slots, snapshot and addition queues, flags, ticks | poll, drain devices, reconcile, add, service commands, tick | every change is reconciled; slots and leases agree with the world |
| IPC server, `wiilandd/src/ipc/{mod,connection}.rs` | connections: negotiation, streams, output queue, deferred commands, leases | accept, read, handle frame, write, publish, complete | every request answered once; leases end with their connection; queues bounded |
| Socket ownership, `wiilandd/src/ipc/socket.rs` | lock, bound inode, pinned parent | lock, take over, bind, remove | never removes another daemon's socket |
| Signals, diagnostics, `wiilandd/src/{signal,diagnostics}.rs` | handler state, pipe; bounded queues | install, close; send, drain | no write to a closed descriptor; shutdown ends |
| IPC client and session, `wiiland-ipc/src/{client,session,capture}.rs` | ids, backlog, deadlines; event queue and policies | request, poll, next event; worker, receive, cancel | replies matched; queues bounded; end after the last event |
| GUI model and tasks, `wiiland-config/src/{model,config_task,process,live}.rs` | revision, transaction, worker state, child process | begin, finish, load, save, capture | stale completions never overwrite edits; children are reaped |
| Configuration, `wiiland-core/src/{config,config_io}.rs`, `wiilandd/src/cli.rs` | options, screen, calibrations, rules | apply a line, validate, dump, layers, arguments | what was saved takes effect; what is refused changes nothing |
| GUI views, `wiiland-config/src/{ui,editors}.rs` | form, confirmations, service actions, captures | edit, retarget, save, load, restart, close | no edit is lost unasked; a requested restart happens |
| Trace and report text, TUI rendering, packaging | | | not modelled: text, layout or packaging |

### How they interact

The daemon's reactor is a single thread. One iteration polls, drains ready
devices, drains the monitor, handles ready connections, services the commands
they deferred, ticks pointers and applies discovery. A device drain dispatches
HID events until nothing is ready or a budget is spent; each goes to the
bridge, which feeds the engine and writes its actions. The IPC server calls
nothing back: it queues commands that the reactor completes. Concurrency
comes from outside the thread: the kernel and udevd change nodes and key
states at any moment, peers send and hang up, a worker enumerates, and
frontends run workers of their own.

### What is hard

- **Time of check, time of use.** An enumeration, an open, and a read each see
  a different world. Node names are reused, and udevd sets permissions after
  the node exists.
- **Loss.** The kernel's event queue overflows in the middle of a packet, a
  state query races the events it replaces, monitor sockets overrun.
- **Shared ownership.** Several sources hold one button, several buttons drive
  one key, several connections lease one controller.
- **Partial failure.** Some interfaces open and some do not; a lease is granted
  to a connection that is evicted by its own reply.
- **Bounds.** Output queues, deferred commands, leases, slots, event queues.
- **Names.** The socket's name, the lock file and a device path each outlive what
  they stood for, through crashes and other programs.
- **Slow users.** A form is edited while its save is being validated; a window
  closes over a running subprocess; events wait for a user who does not look.

`PROJECT.json` lists these as hazards, at their lines, each with the
properties that cover it or the reason none does.

## 2. Modules

| Module | Models | Proofs |
| --- | --- | --- |
| `VirtualKeys` | abstract: keys owned by physical buttons | |
| `Engine` | `engine.rs`, the key and direction parts of `mapping`, `pointer`, `aim`, the key state of `uinput` | `DeviceProofs` |
| `Device` (extends `Engine`) | kernel nodes and udevd, `device.rs` refresh/monitor/read failure, `bridge.rs` | `DeviceProofs` |
| `EvdevInput` | the kernel's client queue, `device.rs` dispatch and `decode.rs` recovery | `EvdevProofs` |
| `Reactor` | `runtime.rs`, the discovery worker of `platform.rs`, the bounded monitor of `monitor.rs` | `ReactorProofs` |
| `Lifecycle` | `signal.rs`, `ipc/socket.rs`, startup and shutdown in the order of `commands.rs` and `runtime.rs` | `LifecycleProofs` |
| `IpcServer` | `ipc/mod.rs`, `ipc/connection.rs`, and the reactor around them | `IpcProofs` |
| `Session` | `client.rs`, `capture.rs` and `session.rs` of `wiiland-ipc`, against a daemon that does as it likes | `SessionProofs` |
| `ControlCenter` | `model.rs`, `config_task.rs`, `process.rs`, and the user's actions in `ui.rs` | `ControlCenterProofs` |
| `Config` | functions: `config.rs`, `config_io.rs`, `cli.rs` | |
| `Motion` | functions: axes of `decode.rs`, `mapping.rs`, infrared of `pointer.rs`, `aim.rs`, `calibration.rs` | |
| `Controls` (extends `Motion`, which extends `Config`) | from the form over files and arguments to the engine's outputs | `ControlsProofs` |
| `MC*` | instances for TLC | |

Definitions named `As if ...` or `Fault: ...` in their comments are the variants
with a bug that the properties are tested against; no specification uses them.

### VirtualKeys and Engine

`VirtualKeys` says what a controller promises: a virtual key is down exactly
while one of its owners is pressed, a release of several owners raises only
the keys nobody else drives, and losing the outputs loses everything.

`Engine` keeps `held` (`DeviceEngine.held`, per source), `pointerKeys`,
`aimHeld`, the actions of the last step and the keys that uinput holds down.
`Key` is `DeviceEngine::key` whole: ownership before and after, the gamepad
key of the button, the desktop key that may be shared, the pointer and the aim
activation. `SourceRemoved` releases all buttons of a source; the code emits
them one by one, and the model groups them because a key goes up once, with
its last owner. The bridge itself never sends `SourceRemoved`; it resets
instead. The input is part of the engine's interface and its own tests use
it. `Reset` includes the destruction of the outputs, because the bridge
always drops them first (`bridge.rs:213`).

`Engine!Abstract` refines `VirtualKeys` with the pairs <<source, button>> held
as owners.

### Device

Kernel and udevd: `Plug`, `Unplug`, `Settle`. A new node exists before udevd
sets its permissions (`unsettled`), and an open may be refused until then; the
uevent is broadcast when udevd is done. Uevents are one flag, because each is
handled by enumerating anew. Node names are reused, so an interface can come
back as it was.

Daemon: `Discover` (`Interface::new`), `Own` (the rest of
`with_backend_outputs`), `MonitorEvent`, `ReadFailure`, `KeyEvent`,
`SetCapture`, `Drop`. `HandleWatch` is `handle_watch` followed by `retry_open`,
with every subset of the wanted interfaces that may open. A refresh after a
failed read may itself fail, which is why `CloseAndRefresh` chooses between
the nodes there are and those that were known. `known[i] = NoNode` stands for
an interface that is not available; the stale path the code retains for it is
not used before a refresh replaces it. `Drop` stands for each way a slot
ends: a write or the monitor fails, discovery lost the root, or the root was
removed. Dry runs (`outputs_enabled = false`) are not modelled.

### EvdevInput

Kernel: `ChangeKey` and `ChangeAxis` collect a packet; `Sync` passes it to the
client queue, which on overflow is replaced by a `SYN_DROPPED` marker and the
newest event. `EVIOCGKEY` also drops queued key events. Daemon: `Poll` starts
a drain, and `Dispatch` is one `Interface::dispatch`: recovered events first,
then one event of the queue. The ghosts `told`, `reported` and `unreported`
record what the delivered events say. Keys that the decoder does not map and
autorepeat are left out; an axis is one value of a small set.

### Reactor

The world: controllers come and go (`Plug`, `Unplug`), and become ready for
opening without a uevent of the subsystem the daemon listens to
(`ToggleReady`). A full netlink socket loses uevents and reports so once. The
discovery worker lists what there is (`StartScan`), looks up the listed devices
one by one while they may leave (`LookUp`), sends the snapshot or an error, or
dies. The reactor's iteration goes through `phase`: `Poll`, one `Drain` per hot
slot, `DrainMonitor` with its budget, `TickPointer`, `TickReconcile`,
`TakeSnapshot` (removals, then additions in any order), `AddNext` with its
budget, `RequestAgain`. `dead` marks slots whose controller left during the
session: their descriptors are always reported by poll. `run_single` is the
same loop without discovery; `Close` drops the runtime and starts anew. The
ghost `news` is set when uevents were drained and reset when an enumeration
begins.

Devices and connections are left to `Device` and `IpcServer`: what a drain
does to its slot is a choice here, and `IpcServer` has the publications of each
phase.

### Lifecycle

Each process has a program counter over `Runtime::new`, `IpcServer::bind`,
service, and the drops in reverse order; it may crash at any of them
(`Crash`), and each step of the socket code that can return an error does
(`Fail`, `Setup`, `Verify`, `InstallFails`). The file system is the inode that
the socket's name stands for, that of the lock file, and what descriptors
refer to. An inode's number is used again once no name and no descriptor has it
(`Pinned`, `Referenced`), also when a daemon still remembers it: `entry_metadata`
keeps the number (`want`) and nothing that would hold the inode. The history
variable `reused`, which no guard reads, records for whom that happened. An entry
left behind in quarantine counts as gone, so a few more numbers are free in the
model than are in the kernel. `remove_expected_entry` is `Capture` (rename to a quarantine name), then `Unlink` or `Restore`. A
connection is made by name (`Connect`), so it can reach a socket newer than
the one that was looked at. Other programs may bind or remove the name
`MaxForeign` times in all and close their sockets.

A signal on the reactor thread runs its handler to the end (`Signal`). A
handler on a worker could still be about to write when the pipe is closed
(`loaded`). Workers inherit blocked signals, so none begins there; the flag is
what the property `HandlerSafe` would see if they did not.

### IpcServer

A connection is a record of the fields of `Client`. `sent` is everything ever
queued and `written` how much of it the peer was given, so the output queue is
the rest. The socket's input is `wire`, `pending_frames` is `frames`. Every
frame weighs one against the queue limit, and a frame is written whole.

The reactor goes through `phase`: `Poll` (which reports all readable
connections and any of the writable ones), device events (`DrainDevice`,
`RemoveSlot`, `AddPath`, each with its publications), `Accept` and
`Begin`..`Finish` for one ready connection after the other (`HandleFrame` per
frame), `TakeCommands`, `CompleteCommand`, and `SetCaptures`. Peers send and
hang up between any two steps. The pointer tick and discovery of an iteration,
which are followed by another service of the commands, are an iteration in
which no connection is ready; this also covers the early return of `poll_once`
on a timeout. Status, Devices, an unknown command and a frame that does not
decode behave as a Ping does: one immediate reply.
The bound of eight deferred commands is kept in the model but cannot be
exceeded: a connection defers at most eight per iteration, and each iteration
takes them all.

### Session

One connection and its user: a program that calls `Client` and goes on after a
request timed out, a trace (`Session::start`), or a display
(`start_visualization`), which may replace sensor values in a full queue. The
worker's `pc` and `step` follow `CaptureConnection::connect_cancellable` and the
loop of `run`; the stop flag is read where the code reads it. The daemon
answers in order, late or never, refuses captures, sends notifications and
hangs up; a chunk read from the socket holds any number of messages. The ghosts
are `fresh` (no result was older than its request), `sent` and `delivered`.
Byte framing and partial frames are a read without a message.

### ControlCenter

The user's actions are enabled whenever the dialog state allows them, and each
background task moves by itself. `txn`, `worker` and `outcome` are the
transaction and `ConfigTask`; `proc` has one record per subprocess task with
the phase of its worker thread, the child, the pipe readers (as one), and the
flags `kill`, `shot`, `held`, `ok` and `gone`. Tasks outside the constant
`Detailed` run through in one step. `Terminated` is `request_termination`,
`Dropped` the drop of a task; the window can close at any moment (`CloseWindow`)
and the process ends later (`Die`). `validated`, `edits` and `owed` are ghosts.
The tasks that run a command typed by the user and the one-shot query of
`live.rs` own no configuration state and are left out.

### Config, Motion and Controls

`Config` is the configuration as a value: a file is a sequence of lines, a line
a record of its group, key and value. `ApplyLine`, `Valid`, `Dump`, `Pass1` and
`Pass2` are functions, with a rejected input as the value `Refused`. `Motion` is
what a report becomes: the codes of each interface, the two axis tables, the
selection of an infrared point, the aim state with its baselines, smoothing and
resets, and calibration with its jitter limit. Division truncates towards zero
as the language does; the code multiplies in 64 bits, so nothing wraps.

`Controls` puts them to use: a form that is edited, loaded and saved through
`wiilandd --dump-config` and `--check-config`; an administrator who replaces
the system file; calibration lines pasted into any file; a daemon started with
any of a set of arguments; and the reports and keys of one controller.

## 3. Runs

| Run | Question | Instance |
| --- | --- | --- |
| `engine` | Do keys, pointer and aim follow ownership? Does the engine implement `VirtualKeys`? | two sources, three buttons of which two share a desktop key and one has none; exhaustive, no bound on behaviours |
| `device` | Do masks, descriptors, held buttons and outputs agree through losses, partial opens and captures? Is a hang-up always noticed? | two interfaces with buttons, one that only captures; two nodes, so that they are reused and swapped |
| `device_retry` | Is a pending interface opened once it is ready? (No: finding 1.) | the same, where a settled node always opens |
| `evdev` | Does no loss leave a key stuck? Are recovered events delivered? | two keys, an axis of two values, a queue of four events, packets of two changes, drains of one event |
| `reactor` | Is news kept, no session doubled, none ended whose controller is there? Does discovery converge? | two controllers for one slot, budgets of one, a socket for one uevent; two sessions of one controller would need two slots, which the theorem covers |
| `lifecycle` | Is a serving daemon reachable, only a dead socket unlinked, no signal lost? | two daemons that crash anywhere, four inodes, one interference by another program, one daemon signalled |
| `ipc_events` | Replies, stream boundaries and order on one connection | three requests of nine kinds, three events, two controllers, a queue of two frames, one lease |
| `ipc_leases` | Leases of two connections that hang up; every deferred command is answered | two connections with two requests each, one controller; a stop after a start, a controller that returns and an eviction need more and are covered by the theorem |
| `ipc_slow` | Is a connection over its limit disconnected? (No: finding 2.) | one connection, a queue of two frames |
| `session` | Are results fresh, key transitions kept, the end last? Does a cancelled session end? | two controllers, three notifications, two requests, a backlog of one, a queue of two |
| `gui` | Is the file valid, no edit lost, a restart made, each subprocess ended? | two targets, two contents, one edit, the configuration's subprocess in detail |
| `controls` | Does what was saved take effect? Are axes in range, does the aim come to rest? | three rules at most, four system files, two edits, four reports; two controllers that between them send every kind of report |

The bounds are the smallest at which the cases meet: two sources for shared
ownership; two required interfaces for one to be lost while the other keeps
the slot; a packet that does not fit the queue's rest, so that the loss falls
inside it; a drain shorter than the recovered events; a queue that one more
reply overflows; two deferred acquisitions that pass the first lease check
together; more controllers than slots, so that a free slot is found only by a
later snapshot; four inodes, for the lock, a socket of each daemon and one of
another program, and few enough that numbers are reused; a backlog and a queue that one more
notification overflows; an edit during a save. `engine`, `device`, `reactor` and
`lifecycle` have no bound on the length of behaviours but those of their
environment.

Named bounds of the other environments: `MaxRevision` edits in `gui`, with the
subprocesses other than the configuration's in one step (the code of all three
is the same `ProcessTask`). In `controls` the form is edited only while no
daemon runs, since a daemon reads its files only at the start; a session is
followed only from the first files, since what a start reads from others is
what `SavedTakesEffect` says; one axis of a report is away from rest; a raw
value of the balance board is not negative.

Deadlock checking is off for the runs of `IpcServer`, `session`, `gui` and
`controls`: their counters stop the environment, a session ends, and a closed
window stays closed.

### What the properties say

Beyond the ownership, mask and recovery properties of the device side:

- `NewsKept`, `RemovalJustified`, `OneSession`, `Converges`: two flags and a
  queue are all that carry a change from the monitor to the slots. A change that
  was drained is enumerated afterwards; a session is ended by discovery only if
  its controller left during that session, also over failed and partial
  snapshots; no controller is set up twice; and with a worker that lives and
  succeeds the slots converge to the controllers present.
- `ServerReachable`, `UnlinksDead`, `HandlerSafe`, `SignalEnds`: no takeover,
  failed start, exit or crash of one daemon takes the name from another that
  serves. When another program interferes, the code still never unlinks the
  socket of another daemon, and at startup a live socket of another program only
  if that got the number of the stale one (observations below).
- `FreshAnswer`: a response that comes after its deadline is never the answer
  to a later request. `ControlsKept`: key transitions reach the user complete
  and in order until a tail is cut off by an explicit error. `EndsLast`,
  `SessionEnds`: the end comes last, and comes, whoever does not cooperate.
- `FileValidated`, `EditsReported`, `RestartFollows`, `TaskEnds`: a file holds
  only what the daemon accepted, an unsaved edit is marked until it is saved or
  given up knowingly, a restart asked for while the service is busy is made,
  and a terminated subprocess is reaped and its threads end.
- `SavedTakesEffect`: what a form said is what a daemon does over whatever
  system file, unless the system file is itself refused or its rules and the
  form's exceed the limit together. `AxesInRange` relates the two tables of
  `mapping.rs` to each other and to the decoder's codes for any raw value.
  `AimReleased`, `BaselineFresh`: an aim that is not active leaves neither a
  deflected stick nor a baseline.

### Fairness

- `HangupsRead` (`device`): weak fairness on reading a hung descriptor. epoll is
  level triggered and dispatch starts from the interface after the last one it
  served (`device.rs:607`), so a descriptor that stays hung is read.
- `FairEvdevSpec`: weak fairness on `Poll` and `Dispatch`. The reactor polls
  again after every drain, and poll is level triggered.
- `FairReactorSpec`: weak fairness on the loop and the worker's steps, strong
  fairness on `TickReconcile`: poll waits at most one pointer tick, and the
  clock passes the reconciliation deadline again and again although each
  iteration looks at it only once. `Converges` itself assumes that the worker
  lives, that enumerations succeed and that the loop is not left.
- `FairLifecycleSpec`: weak fairness on each process's own steps. Nothing is
  assumed of crashes, signals or other programs.
- `FairIpcSpec`: weak fairness on the reactor as a whole. It blocks only in
  poll, whose timeout is at most one pointer tick. Nothing is assumed of peers.
- `FairSessionSpec`: weak fairness on the session's thread, whose reads time
  out. Nothing is assumed of the daemon or the user interface.
- `FairControlCenterSpec`: threads are scheduled, a killed child dies, systemctl
  ends, and the window polls the service. A program under test need not end.

### Findings

1. **A pending interface is not retried when it becomes ready** (`device_retry`).
   A refresh can find a node before udevd has set its permissions; the open
   fails and the interface is pending. When udevd announces the node,
   `monitor_event` compares a fresh enumeration with the last one, finds no
   difference and skips the event, so `retry_open` is not called.
   `doc/ARCHITECTURE.md:99-100` says pending interfaces "can be retried on
   hardware availability".
2. **A slow connection may linger** (`ipc_slow`). A reply that overflows the
   queue while deferred commands are completed sets `immediate_close` after the
   connection was handled; `poll_sources` then asks for no events for it. It is
   removed by the next publication or when its peer hangs up, and until then
   counts against the limit of 64. `doc/DAEMON_PROTOCOL:39-40` says such a
   client "is disconnected".

### Observations

What the models show and no property forbids:

- A program that replaces the socket's name between `bind` and the look at its
  inode is taken for the daemon's own, and its socket is removed at the end.
  `UnlinksDead` states this exception. `doc/DAEMON_PROTOCOL:80` speaks of the
  bound inode.
- After a stale socket was looked at, another program may remove it and bind its
  own. If the file system gives the new socket the number of the old one,
  `remove_expected_entry` compares equal and unlinks a live socket: the daemon
  has no descriptor that would keep the number taken. `UnlinksDead` states this
  exception too, and the run reaches it. `doc/DAEMON_PROTOCOL:76` speaks of the
  "still-identical" inode, `doc/wiilandd.1:267` of "the same observed inode". It
  takes another program that binds within that moment, and a file system that
  reuses numbers at once.
- After a request timed out, a program that goes on with its `Client` gets each
  later response one request late, as an unexpected id: results are never
  wrong (`FreshAnswer`), but the connection is of no more use.
- A restart that is queued behind a service action is lost if the window closes.
- The check of a saved file fails to end while a descendant of the daemon
  program holds its pipes, until the window is closed (`TaskEnds` needs the
  termination).
- An option group removed in the form (a calibration, the screen, a rule) comes
  back from the system layer at the next start; and a file that passes its own
  check can be refused over a system file whose rules and its own exceed the
  limit (`SystemInTheWay`).
- With dual infrared tracking the aim jumps when one of two points is covered.

## 4. Proofs

From the assumptions named in the modules, for any sets of sources, buttons,
interfaces, nodes, controllers, connections, slots, daemons, inodes, targets
and contents, and any limits:

- `DeviceProofs`, of `Engine`: `EngineInv` = type correctness, `KeysOwned`, `PointerOwned` and
  `AimOwned` is inductive. Types alone do not decide what a report changes: the
  step of `KeysOwned` needs that `keysDown` was right for the held buttons
  before, and case analysis over whether ownership of each of the button's keys
  changed. `ActionsFit` follows for each step: a key is pressed only when it had
  no owner, so by `KeysOwned` it was up. The refinement maps `Key` to `Acquire`
  or `Release` of one owner, `SourceRemoved` to a `Release` of a set, `Reset` to
  `Lose`.
- `DeviceProofs`, of `Device`: `DeviceInv` adds the masks (`MasksMatch`, `OpenKnown`,
  `SlotUseful`, `CaptureOnly`), `HeldOpen`, and `Idle`: before a slot is owned
  nothing is open and nothing is held. `HeldOpen` needs `MasksMatch`: that a
  required interface was lost is computed from the cached mask, so the cache has
  to be true for the reset to happen. `ReopenedReleased` follows for each step
  from the same two. The refinement of `VirtualKeys` is inherited: every step of
  `Device` is a step of `Engine` or leaves it alone.
- `EvdevProofs`: `Remembers` says that what was delivered of a key is what the
  decoder remembers, unless the key is still to be recovered. From it
  `PendingOutdated`: no recovered event is stale. `StreamInv` looks at the whole
  stream, the client's queue and then the packet that is being collected: for
  each key, the last change of it there says what the kernel has, and if there
  is none the decoder remembers it, unless a `Dropped` marker is still to be read
  (`Tracked`); the same holds of the axis; and a queue that is not empty ends with
  a `Syn` (`Whole`), so that a report follows whatever was read (`ReportComes`). It
  is kept because an overflow leaves a marker in front of what it drops, and
  because `EVIOCGKEY` drops queued changes of keys only, whose state the decoder
  gets with the same call. `NoStuckKey` and `ReportCurrent` are what `StreamInv` says
  when nothing is left to read. It was checked with TLC on the instance of the
  run before it was proved.
- `ReactorProofs`: `ReactorInv` adds `Order` (at most one request, enumeration or
  answer, and none while additions wait) and `Alive` (a live session's
  controller is present, and an enumeration under way or complete has it). `Order`
  is why a snapshot's additions cannot repeat those of an older one, hence
  `OneSession`; `Alive` is why a snapshot lacks only what left, hence
  `RemovalJustified`. `NewsKept` is inductive relative to `Order`.
- `LifecycleProofs`: the lock is exclusive because its file is never removed, so
  all who pass `flock` hold the same inode (`Exclusive`); with it a bound name is
  left alone until its owner moves it (`Reachable`), a daemon that lost its name
  does not get it back (`Owning`), and a stale entry that is captured is not
  what another program has bound since, unless its number was reused (`Refused`).
  That the sockets of daemons are safe does not rest on remembered numbers: a
  daemon's own socket is pinned by its listener. `Guarded` orders mask,
  handler, published descriptor and pipe. `LifecycleInv` was also checked
  with TLC on the instance of the run before it was proved.
- `IpcProofs`: `ServerInv` says that each connection is sound and that the
  capture of the controllers agrees with the leases at every poll. A connection is
  sound if it keeps its limits (`Fits`), if what it was told is what the server
  holds for it, unless its end is near (`Honest`), and if each notification it got
  follows a subscription (`Bounded`). `Honest` is why a lease and its response
  cannot part: `complete_command` changes the lease and queues the response, and
  when there is no room for the response the connection is evicted and its leases
  no longer count. From it follow `IpcTypeOK`, `LeasesHonoured` and
  `StreamBoundary`. `InOrder` adds why the next notification will be in order: a
  usable connection that was told of a removal has been told of an addition or
  has unsubscribed since, or the controller is not owned and the connection will
  hear of its return; hence `NotesOrdered`. `Requests` follows the numbers of the
  requests: those up to some number have left the input, and each of them is
  in one of three places, a reply, a deferred command or a command taken; hence
  `RepliesMatch`. Assumed: the limits are positive (`IpcAssumption`), and peers
  send commands (`AskAssumption`).
- `SessionProofs`: `RequestsOK` says that everything on its way answers an earlier
  request, and that an answer to the current one was written after it was made;
  identifiers only grow. `FreshAnswer` follows. `EndsLast` is inductive by itself
  with the order in which the thread closes its queue and sends its result.
  `FlowOK` follows the notifications through the six places they can be in: the
  sequence in each is increasing, each place is behind the next one
  (`HandedOrder`, `LaterOrder`, `Earlier`), all were sent (`SentOK`), and no key
  transition is missing from them while the connection lasts, nor ever one older
  than a transition that reached the queue (`KeptOK`). The second half is what
  survives an overflow, which drops a tail. `UserOK` is needed for the sensor
  values that a display lets go, and for what cannot be sent before a display
  has chosen its controllers. `ControlsKept` follows by joining the six sequences.
- `ControlCenterProofs`: `Accepted` ties the snapshot to the set of what was
  validated at each stage of the worker, and `Revisions` says that an edit after
  the beginning of a transaction has a later revision, so that a completion
  that finds its own revision finds no newer edit.
- `ControlsProofs`: `AimInv` says what is left of an aim that is not active (`Still`):
  no infrared baseline, a reference that is the configured one or the latest
  sample, a stick at rest, and an aim that is not set to the stick never moved
  it. A step of the aim takes the old aim and gives the next one, so it is
  proved once as a lemma and cited for each kind of input; a release goes
  through the reset of the aim. `AimReleased` and `BaselineFresh` follow. `RangeInv`
  gives the numbers. A configuration that was not refused has options of their
  ranges and calibrations that are complete (`ConfigOK`, `ParseOK`): by induction
  over the lines of a file (`AfterLines`) and over the arguments (`AfterArgs`). A
  point the camera's frame is reduced to is a pair of numbers (`PointPair`, by
  induction over the visible points), so what the aim keeps and emits are
  numbers (`AimNumbers`), which `emit_aim` limits to the stick's range. Each axis
  of the map of each kind of report reads a component that report has (`Placed`)
  and is scaled to the limits its code was created with (`Fits`): the two tables
  are compared row by row, and scaling is shown to stay within its target
  (`ScaleSignedRange`, `ScaleUnsignedRange`). `AxesInRange` follows. Assumed: files
  and arguments are sequences with keys of their groups (`FilesAssumption`), and
  reports and frames are integers (`ReportsAssumption`); `Installed` may hold
  any such files.

  `SavedInv` says that the file of each saved form holds the form's lines, and
  that its numbers passed when the file was checked by itself (`NumbersParsed`,
  `CheckedNumbers`): `Valid` is about the form, the limits of a line's number are
  only tested when the line is read, so without the check the file could be
  refused at the next start. Every widget keeps the form one that can be written
  (`FormOK`). What the lines do over another layer is proved group by group
  (`OptionLines`, `ScreenLines`, `CalLines`, joined by `ApplyConcat`), and then for
  the rules (`RuleLines`): a rule that is set again goes to the end (`Renewed`
  lemmas), so after the last line the form's rules are behind those of the
  system file, in the form's order, and the rule that decides for a controller in
  the form decides for it in the layers (`FormHonoured`). There is room for them
  as long as the different rules of both fit the limit, which is what
  `SystemInTheWay` excludes. The two passes over the arguments are followed
  for the three command lines that matter (`ParseNone`, `ParseFile`, `ParseCheck`).
  `SavedTakesEffect` follows. Assumed further: a slider belongs to a side of the
  screen (`SidesAssumption`). `SavedInv` was checked with TLC on the instance of
  the run as well.

Functions over sequences are recursive functions in the models, and what they
compute is proved by induction all the same: the set of positions at which the
claim holds contains the first and with each its successor, so by
well-foundedness of the naturals it has them all (`SetInduction` in the modules
that need it).

Only model-checked: liveness (`HungReleased`, `RecoveryDelivered`, `Converges`,
`SignalEnds`, `CommandAnswered`, `SessionEnds`, `RestartFollows`, `TaskEnds`), which
needs `ENABLED`, and the two findings, which are false of the code. Every safety
invariant and action property of a passing run is a theorem.

## 5. Not modelled, and plan

Not modelled: trace and report text, JSON and byte framing, lexing of a line,
widgets, rendering and packaging: text and layout, which tests reach well. The
diagnostic writers: their queue only counts what overflows, and their end is
bounded by 100 ms. Rumble, LEDs and battery: plain reads and writes. The
construction of a virtual device: a sequence of ioctls with one early return.
`MotionPlusNormalizer`: the daemon never gives it a factor. The tasks of the
control center that run a typed command. Failures of `renameat2` and `unlinkat`
themselves, and of the creation of a worker thread: they end the startup, and at
the end of the daemon they are ignored.
The connect of a session, which has no timeout: `Session` starts connected, so
`SessionEnds` says nothing of a thread that waits in it.

Worth adding, in order:

1. A composition of `IpcServer` and `Session` over one wire, in place of the
   environments each has now.
2. Engine and motion in one instance, with the right stick written by an
   extension and by the aim.
