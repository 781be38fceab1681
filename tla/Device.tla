------------------------------- MODULE Device -------------------------------
(***************************************************************************)
(* One owned controller: the evdev interfaces of a Wii Remote as the       *)
(* kernel and udevd expose them, the hid layer that opens and watches them *)
(* (crates/wiiland-hid/src/device.rs), and the bridge that feeds the       *)
(* engine and owns the virtual devices (crates/wiilandd/src/bridge.rs).    *)
(*                                                                         *)
(* The kernel and udevd act at any time; the daemon's side is one thread,  *)
(* so a dispatched event and its handling are one step.  A uevent is a     *)
(* hint to look again: unread ones are a single flag, because each is      *)
(* handled by comparing a fresh enumeration with the last one.             *)
(***************************************************************************)
EXTENDS Engine

CONSTANTS
  Interface,     \* the interfaces of the controller
  Required,      \* requested_interfaces: those the profile needs
  OpenFaults,    \* interfaces whose settled node may still fail to open
  Node,          \* device nodes the kernel hands out, and reuses
  NoNode

ASSUME InterfaceAssumption ==
  /\ Source \subseteq Interface
  /\ Required \subseteq Interface
  /\ Required # {}
  /\ NoNode \notin Node

VARIABLES
  node,          \* sysfs: the node of each interface of the controller
  unsettled,     \* interfaces whose last change udevd has not broadcast yet
  uevent,        \* the monitor socket holds unread uevents
  phase,         \* "absent", "refreshed" (Interface::new) or "owned" (a bridge slot)
  known,         \* Interface.nodes: the nodes found by the last refresh
  fd,            \* "closed", "live", or "hung" on a node that is gone
  opened,        \* BridgeDevice.opened_ifaces
  pending,       \* BridgeDevice.pending_ifaces
  capture        \* BridgeDevice.capture

kernelVars == <<node, unsettled>>
bridgeVars == <<phase, known, fd, opened, pending, capture>>
deviceVars == <<kernelVars, uevent, bridgeVars, engineVars>>

None == [i \in Interface |-> NoNode]
Closed == [i \in Interface |-> "closed"]

\* Interface::opened
Open(f) == {i \in Interface : f[i] # "closed"}

\* Interface::close
Shut(f, gone) == [i \in Interface |-> IF i \in gone THEN "closed" ELSE f[i]]

\* Interface::watch: the bridge enables the monitor before it opens anything, and
\* has no device if that fails; the monitor lives as long as the bridge's slot.
Watching == phase = "owned"

\* BridgeDevice::requested_interfaces: a capture lease asks for every interface.
Requested(lease) == IF lease THEN Interface ELSE Required
-----------------------------------------------------------------------------
(***************************************************************************)
(* The kernel and udevd.                                                   *)
(***************************************************************************)
\* The kernel creates a node; udevd has not set its permissions yet.
Plug(i) ==
  /\ node[i] = NoNode
  /\ \E n \in Node :
       /\ \A j \in Interface : node[j] # n
       /\ node' = [node EXCEPT ![i] = n]
  /\ unsettled' = unsettled \cup {i}
  /\ UNCHANGED <<uevent, bridgeVars, engineVars>>

\* The kernel removes a node; a descriptor open on it hangs up.
Unplug(i) ==
  /\ node[i] # NoNode
  /\ node' = [node EXCEPT ![i] = NoNode]
  /\ unsettled' = unsettled \cup {i}
  /\ fd' = [fd EXCEPT ![i] = IF @ = "live" THEN "hung" ELSE @]
  /\ UNCHANGED <<uevent, phase, known, opened, pending, capture, engineVars>>

\* udevd has run its rules and broadcasts the change to the monitors that exist.
Settle(i) ==
  /\ i \in unsettled
  /\ unsettled' = unsettled \ {i}
  /\ uevent' = (uevent \/ Watching)
  /\ UNCHANGED <<node, bridgeVars, engineVars>>
-----------------------------------------------------------------------------
(***************************************************************************)
(* Opening and refreshing.                                                 *)
(***************************************************************************)
\* Interface::open on some interfaces: it opens those whose node is still the one
\* that was found; one that udevd has not settled may be refused.
Opens(wanted, found) ==
  LET there == {i \in wanted : found[i] # NoNode /\ found[i] = node[i]}
  IN {got \in SUBSET there : there \ (unsettled \cup OpenFaults) \subseteq got}

WithOpen(f, got) == [i \in Interface |-> IF i \in got THEN "live" ELSE f[i]]

\* refresh_requires_close: an interface that is gone or has another node
Outdated(found) == {i \in Interface : found[i] = NoNode \/ found[i] # known[i]}

\* Interface::refresh
Refreshed(f, found) == Shut(f, Outdated(found))

\* The slot is dropped: descriptors, outputs and engine go with it.
Dropped ==
  /\ phase' = "absent"
  /\ uevent' = FALSE
  /\ known' = None
  /\ fd' = Closed
  /\ opened' = {}
  /\ pending' = {}
  /\ capture' = FALSE
  /\ Reset
  /\ UNCHANGED kernelVars

\* Fault: what was lost is looked for after the retry has reopened it.
LostAfterRetry(f, now) == (opened \ Open(now)) \cap Required

\* The required interfaces that were open before the refresh and not after it.
Lost(f, now) == (opened \ Open(f)) \cap Required

\* Fault: a lost interface changes nothing.
SessionKept(lost) == UNCHANGED engineVars

\* Losing a required interface destroys the outputs and resets the engine.
Session(lost) == IF lost = {} THEN UNCHANGED engineVars ELSE Reset

\* retry_open fails: something was wanted and nothing the profile needs is open.
Useless(wanted, now) == wanted # {} /\ Open(now) \cap Required = {}

\* Fault: pending only shrinks, a lost interface is not added to it.
MissingShrinks(wanted, got) == pending \ got

\* pending_ifaces after opening some of the wanted ones
Missing(wanted, got) == wanted \ got

\* BridgeDevice::handle_watch and retry_open, after a refresh that found these nodes
\* and left these descriptors.  The device is dropped when new outputs cannot be
\* created, and when it is useless.
HandleWatch(found, f, unread) ==
  LET wanted == Requested(capture) \ Open(f)
  IN \E got \in Opens(wanted, found) :
       LET now  == WithOpen(f, got)
           lost == Lost(f, now)
       IN \/ (lost # {} \/ Useless(wanted, now)) /\ Dropped
          \/ /\ ~Useless(wanted, now)
             /\ uevent' = unread
             /\ known' = found
             /\ fd' = now
             /\ opened' = Open(now)
             /\ pending' = Missing(wanted, got)
             /\ Session(lost)
             /\ UNCHANGED <<kernelVars, phase, capture>>
-----------------------------------------------------------------------------
(***************************************************************************)
(* The life of a slot.                                                     *)
(***************************************************************************)
\* Interface::new, from add_path: the first refresh.
Discover ==
  /\ phase = "absent"
  /\ phase' = "refreshed"
  /\ known' = node
  /\ UNCHANGED <<kernelVars, uevent, fd, opened, pending, capture, engineVars>>

\* The rest of with_backend_outputs: watch, open, create the outputs.  A step of
\* it that fails, or nothing to open, leaves no slot.
Own ==
  /\ phase = "refreshed"
  /\ \/ \E got \in Opens(Required, known) \ {{}} :
          /\ phase' = "owned"
          /\ fd' = WithOpen(fd, got)
          /\ opened' = got
          /\ pending' = Required \ got
          /\ UNCHANGED <<kernelVars, uevent, known, capture, engineVars>>
     \/ Dropped

\* A uevent of the controller, read by monitor_event: a refresh that finds nothing
\* new is not reported to the bridge.
MonitorEvent ==
  /\ Watching
  /\ uevent
  /\ \/ /\ node = known
        /\ uevent' = FALSE
        /\ UNCHANGED <<kernelVars, bridgeVars, engineVars>>
     \/ /\ node # known
        /\ HandleWatch(node, Refreshed(fd, node), FALSE)

\* The interface is closed, and a refresh may report more, or itself fail.
CloseAndRefresh(i) ==
  \E found \in {node, known} :
    HandleWatch(found, Refreshed(Shut(fd, {i}), found), uevent)

\* Fault: a failed read is taken seriously only while the node is missing.
ReadFailureMissing(i) ==
  /\ phase = "owned"
  /\ fd[i] # "closed"
  /\ node[i] = NoNode
  /\ CloseAndRefresh(i)

\* A read fails, or the state query after dropped events does (read_one).
ReadFailure(i) ==
  /\ phase = "owned"
  /\ fd[i] # "closed"
  /\ CloseAndRefresh(i)

\* A key event of an open interface: read, or recovered before the node went away.
\* Only those of required interfaces reach the engine (forwards_to_engine).
KeyEvent(i, b, state) ==
  /\ phase = "owned"
  /\ fd[i] # "closed"
  /\ IF i \in Required THEN Key(i, b, state) ELSE UNCHANGED engineVars
  /\ UNCHANGED <<kernelVars, uevent, bridgeVars>>

\* drain or tick_pointer fails (a write to a virtual device, the monitor, a new
\* output), or the reactor removes the slot: discovery lost it, or the root of
\* the controller was removed (EventKind::Gone).
Drop == phase = "owned" /\ Dropped

\* What set_capture closes.
Surplus(desired) == Open(fd) \ desired

\* BridgeDevice::set_capture: the lease count of the IPC server reached or left
\* zero.  Its retry_open may fail, which is only logged.
SetCapture ==
  /\ phase = "owned"
  /\ capture' = ~capture
  /\ LET desired == Requested(capture')
         left == Shut(fd, Surplus(desired))
         wanted == desired \ Open(left)
     IN \E got \in Opens(wanted, known) :
          /\ fd' = WithOpen(left, got)
          /\ opened' = Open(left) \cup got
          /\ pending' = Missing(wanted, got)
  /\ UNCHANGED <<kernelVars, uevent, phase, known, engineVars>>

DeviceInit ==
  /\ node = None
  /\ unsettled = {}
  /\ uevent = FALSE
  /\ phase = "absent"
  /\ known = None
  /\ fd = Closed
  /\ opened = {}
  /\ pending = {}
  /\ capture = FALSE
  /\ EngineInit

DeviceNext ==
  \/ \E i \in Interface : Plug(i) \/ Unplug(i) \/ Settle(i) \/ ReadFailure(i)
  \/ \E i \in Source, b \in Button, state \in ButtonState : KeyEvent(i, b, state)
  \/ Discover
  \/ Own
  \/ MonitorEvent
  \/ SetCapture
  \/ Drop

DeviceSpec == DeviceInit /\ [][DeviceNext]_deviceVars

\* epoll reports a hung descriptor until it is read, and takes turns.
HangupsRead ==
  \A i \in Interface : WF_deviceVars(fd[i] = "hung" /\ ReadFailure(i))

FairDeviceSpec == DeviceSpec /\ HangupsRead
-----------------------------------------------------------------------------
(***************************************************************************)
(* Properties.                                                             *)
(***************************************************************************)
\* The values of the variables of the kernel, the hid layer and the bridge.
DeviceTypeOK ==
  /\ node \in [Interface -> Node \cup {NoNode}]
  /\ unsettled \subseteq Interface
  /\ uevent \in BOOLEAN
  /\ phase \in {"absent", "refreshed", "owned"}
  /\ known \in [Interface -> Node \cup {NoNode}]
  /\ fd \in [Interface -> {"closed", "live", "hung"}]
  /\ opened \subseteq Interface
  /\ pending \subseteq Interface
  /\ capture \in BOOLEAN
  /\ EngineTypeOK

\* The masks that the bridge caches and reports over IPC match the descriptors
\* the hid layer holds, whatever closed or reopened them.
MasksMatch ==
  phase = "owned" =>
    /\ opened = Open(fd)
    /\ pending = Requested(capture) \ Open(fd)

\* A descriptor is kept only on an interface that the last refresh found.
OpenKnown == \A i \in Interface : fd[i] # "closed" => known[i] # NoNode

\* The engine holds buttons only of interfaces that are open and required: those
\* whose release can still arrive, or whose loss will reset the engine.
HeldOpen == \A s \in Source : held[s] # {} => s \in Required /\ fd[s] # "closed"

\* A slot is worth its virtual devices: something the profile needs is open,
\* however interfaces came and went and leases were taken and released.
SlotUseful == phase = "owned" => Open(fd) \cap Required # {}

\* Diagnostic-only interfaces are open only under a capture lease.
CaptureOnly == phase = "owned" /\ ~capture => Open(fd) \subseteq Required

\* An interface that hung up is not reopened with the buttons of its last session:
\* their releases are lost with the old descriptor.
ReopenedReleased ==
  [][\A s \in Source : fd[s] = "hung" /\ fd'[s] # "hung" => held'[s] = {}]_deviceVars

\* Buttons held on an interface that hung up are eventually let go, even when
\* the interface came back under the same node before udevd said anything.
HungReleased ==
  \A s \in Source : (fd[s] = "hung" /\ held[s] # {}) ~> (held[s] = {})

\* doc/ARCHITECTURE.md: pending interfaces can be retried on hardware availability.
\* Once udevd has settled a required interface and nothing is left to read, it is open.
PendingRetried ==
  \A i \in Required :
    phase = "owned" /\ ~uevent /\ i \notin unsettled /\ node[i] # NoNode /\ known[i] = node[i]
      => fd[i] # "closed"
=============================================================================
