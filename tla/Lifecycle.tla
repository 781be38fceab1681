------------------------------ MODULE Lifecycle ------------------------------
(***************************************************************************)
(* The life of daemon processes that share one socket path: termination     *)
(* signals (wiilandd/src/signal.rs) and the ownership of the control socket *)
(* (wiilandd/src/ipc/socket.rs), in the order of commands.rs and of the     *)
(* drop of the Runtime.                                                     *)
(*                                                                          *)
(* The name of the socket may at any moment stand for no inode, a socket    *)
(* whose owner died, the socket of a daemon, or one of another program.     *)
(* Daemons crash at any step; the kernel then drops their lock and their    *)
(* listener, but not the name.                                              *)
(***************************************************************************)
EXTENDS Naturals, FiniteSets

CONSTANTS
    Daemon,      \* processes started with the same --ipc-socket
    Inode,       \* inode numbers; one is reused once no name and no descriptor has it
    NoInode,
    Signalled,   \* the daemons that are sent termination signals
    MaxForeign   \* how often another program interferes with the name

ASSUME InodeAssumption == NoInode \notin Inode
ASSUME ForeignAssumption == MaxForeign \in Nat

VARIABLES
    sockEntry,   \* the inode the socket's name stands for
    lockEntry,   \* the inode of the lock file
    foreign,     \* inodes of live sockets of other programs
    meddled,     \* how often another program interfered
    reused,      \* history: whose wanted number another program's socket got
    pc,          \* where each process is
    lockFd,      \* its descriptor of the lock file
    own,         \* the socket it is bound to
    want,        \* the inode number it remembers: a stale one, later its own
    held,        \* the inode it moved to a quarantine name
    back,        \* where remove_expected_entry returns to
    sig          \* its signal state

names == <<sockEntry, lockEntry>>
others == <<foreign, meddled, reused>>
files == <<lockFd, own, want, held, back>>
vars == <<sockEntry, lockEntry, foreign, meddled, reused, pc, lockFd, own, want,
          held, back, sig>>

\* masked: the reactor thread blocks the signals.  handler: on_signal is the
\* disposition.  published: WRITE_FD is set.  pipe: the pipe is open.
\* worker: how worker threads inherited the mask.  loaded: a worker runs the
\* handler and has read WRITE_FD.  asked is a ghost: a signal was sent.
SignalState ==
    [masked : BOOLEAN, handler : BOOLEAN, published : BOOLEAN, pipe : BOOLEAN,
     stop : BOOLEAN, pending : BOOLEAN, loaded : BOOLEAN, asked : BOOLEAN,
     worker : {"none", "blocked", "open"}]

NoSignals ==
    [masked |-> FALSE, handler |-> FALSE, published |-> FALSE, pipe |-> FALSE,
     stop |-> FALSE, pending |-> FALSE, loaded |-> FALSE, asked |-> FALSE,
     worker |-> "none"]

Binding == {"parent", "flock", "lockcheck", "look", "connect", "capture",
            "captured", "bind", "listen", "stat", "setup", "verify"}
Phases == {"off", "pipe", "install", "unblock", "worker", "serve", "close",
           "block", "unpublish", "closefds", "unmask"} \cup Binding

\* What a descriptor, the name of the lock or a quarantine name stands for.  A
\* number that a process only remembers keeps nothing from being reused.
Pinned == {lockEntry} \cup foreign
          \cup UNION {{lockFd[d], own[d], held[d]} : d \in Daemon}

Referenced == Pinned \cup {sockEntry}

\* A socket accepts connections between listen and the end of its process.
Live(i) ==
    i # NoInode /\ (i \in foreign \/ \E d \in Daemon : own[d] = i /\ pc[d] # "listen")

Goto(d, label) == pc' = [pc EXCEPT ![d] = label]

-----------------------------------------------------------------------------
(* The end of a process: the kernel closes its descriptors. *)
Release(d) ==
    /\ lockFd' = [lockFd EXCEPT ![d] = NoInode]
    /\ own' = [own EXCEPT ![d] = NoInode]
    /\ want' = [want EXCEPT ![d] = NoInode]
    /\ held' = [held EXCEPT ![d] = NoInode]
    /\ back' = [back EXCEPT ![d] = "close"]

Exit(d) ==
    /\ Goto(d, "off")
    /\ Release(d)
    /\ sig' = [sig EXCEPT ![d] = NoSignals]

Crash(d) == pc[d] # "off" /\ Exit(d) /\ UNCHANGED <<names, others>>

-----------------------------------------------------------------------------
(* Signals. *)

\* Runtime::new begins: the exclusive claim and the pipe.
Start(d) ==
    /\ pc[d] = "off"
    /\ Goto(d, "pipe")
    /\ sig' = [sig EXCEPT ![d].pipe = TRUE]
    /\ UNCHANGED <<names, others, files>>

Block(d) ==
    /\ \/ pc[d] = "pipe" /\ Goto(d, "install")
       \/ pc[d] = "block" /\ Goto(d, "unpublish")
    /\ sig' = [sig EXCEPT ![d].masked = TRUE]
    /\ UNCHANGED <<names, others, files>>

\* publish_handler_state, then both dispositions.
Publish(d) ==
    /\ pc[d] = "install"
    /\ Goto(d, "unblock")
    /\ sig' = [sig EXCEPT ![d].stop = FALSE, ![d].published = TRUE,
                          ![d].handler = TRUE]
    /\ UNCHANGED <<names, others, files>>

\* sigaction fails: everything is rolled back and Runtime::new fails.
InstallFails(d) ==
    /\ pc[d] = "install"
    /\ Exit(d)
    /\ UNCHANGED <<names, others>>

\* As if the state were published after the handler can run.
UnblockAndReset(d) ==
    /\ pc[d] = "unblock"
    /\ Goto(d, "worker")
    /\ sig' = [sig EXCEPT ![d].masked = FALSE, ![d].pending = FALSE,
                          ![d].stop = FALSE]
    /\ UNCHANGED <<names, others, files>>

\* A signal that waited is handled now.
Unblock(d) ==
    /\ pc[d] = "unblock"
    /\ Goto(d, "worker")
    /\ sig' = [sig EXCEPT ![d].masked = FALSE, ![d].pending = FALSE,
                          ![d].stop = @ \/ sig[d].pending]
    /\ UNCHANGED <<names, others, files>>

\* As if workers were spawned without blocking the signals first.
SpawnOpen(d) ==
    /\ pc[d] = "worker"
    /\ Goto(d, "parent")
    /\ sig' = [sig EXCEPT ![d].worker = "open"]
    /\ UNCHANGED <<names, others, files>>

\* Workers inherit blocked signals and keep them blocked.
SpawnWorker(d) ==
    /\ pc[d] = "worker"
    /\ Goto(d, "parent")
    /\ sig' = [sig EXCEPT ![d].worker = "blocked"]
    /\ UNCHANGED <<names, others, files>>

\* A signal sent to the process.  On the reactor thread the handler runs to
\* its end before the thread goes on; on a worker it would only have begun,
\* and nothing bounds when it writes.
Signal(d) ==
    /\ pc[d] # "off" /\ d \in Signalled
    /\ IF sig[d].masked /\ sig[d].worker # "open"
          THEN /\ sig' = [sig EXCEPT ![d].pending = TRUE, ![d].asked = TRUE]
               /\ UNCHANGED <<pc, files>>
       ELSE IF ~sig[d].handler THEN Exit(d)
       ELSE /\ sig' = [sig EXCEPT ![d].stop = TRUE, ![d].asked = TRUE,
                          ![d].loaded = sig[d].worker = "open"
                                        /\ sig[d].published]
            /\ UNCHANGED <<pc, files>>
    /\ UNCHANGED <<names, others>>

\* SignalPipe::close, with the signals blocked.
Unpublish(d) ==
    /\ pc[d] = "unpublish"
    /\ Goto(d, "closefds")
    /\ sig' = [sig EXCEPT ![d].published = FALSE, ![d].handler = FALSE]
    /\ UNCHANGED <<names, others, files>>

ClosePipe(d) ==
    /\ pc[d] = "closefds"
    /\ Goto(d, "unmask")
    /\ sig' = [sig EXCEPT ![d].pipe = FALSE]
    /\ UNCHANGED <<names, others, files>>

\* The mask is restored, the writers get 100 ms, and the process ends, with
\* or without a waiting signal.
Finish(d) ==
    /\ pc[d] = "unmask"
    /\ Exit(d)
    /\ UNCHANGED <<names, others>>

-----------------------------------------------------------------------------
(* IpcServer::bind. *)

\* An error before the socket is bound: the lock is dropped with it.
Fail(d) ==
    /\ pc[d] \in {"parent", "flock", "lockcheck", "look", "connect"}
    /\ Goto(d, "close")
    /\ UNCHANGED <<names, others, files, sig>>

\* The lock file is opened, or created if there is none.
OpenLock(d) ==
    /\ pc[d] = "parent"
    /\ \E i \in IF lockEntry = NoInode THEN Inode \ Referenced ELSE {lockEntry} :
          /\ lockEntry' = i
          /\ lockFd' = [lockFd EXCEPT ![d] = i]
    /\ Goto(d, "flock")
    /\ UNCHANGED <<sockEntry, others, own, want, held, back, sig>>

\* As if the lock were not exclusive.
NeverLocked(e, i) == FALSE

\* flock does not wait.
LockedBy(e, i) == lockFd[e] = i /\ pc[e] \notin {"flock", "close"}

Flock(d) ==
    /\ pc[d] = "flock"
    /\ IF \E e \in Daemon \ {d} : LockedBy(e, lockFd[d])
          THEN Goto(d, "close")
          ELSE Goto(d, "lockcheck")
    /\ UNCHANGED <<names, others, files, sig>>

CheckLock(d) ==
    /\ pc[d] = "lockcheck"
    /\ Goto(d, IF lockEntry = lockFd[d] THEN "look" ELSE "close")
    /\ UNCHANGED <<names, others, files, sig>>

\* (device, inode) of entry_metadata: a number, and no descriptor with it.
Remember(d, i) ==
    /\ want' = [want EXCEPT ![d] = i]
    /\ reused' = reused \ {d}

Look(d) ==
    /\ pc[d] = "look"
    /\ Remember(d, sockEntry)
    /\ Goto(d, IF sockEntry = NoInode THEN "bind" ELSE "connect")
    /\ UNCHANGED <<names, foreign, meddled, lockFd, own, held, back, sig>>

\* The connection is made by name, so it may reach a newer socket than the
\* one that was looked at; no socket at all counts as a stale one.
Connect(d) ==
    /\ pc[d] = "connect"
    /\ IF Live(sockEntry)
          THEN Goto(d, "close") /\ UNCHANGED back
          ELSE Goto(d, "capture") /\ back' = [back EXCEPT ![d] = "bind"]
    /\ UNCHANGED <<names, others, lockFd, own, want, held, sig>>

\* remove_expected_entry: the entry is moved to a quarantine name first.
Capture(d) ==
    /\ pc[d] = "capture"
    /\ held' = [held EXCEPT ![d] = sockEntry]
    /\ sockEntry' = NoInode
    /\ Goto(d, IF sockEntry = NoInode THEN back[d] ELSE "captured")
    /\ UNCHANGED <<lockEntry, others, lockFd, own, want, back, sig>>

\* As if the captured inode were not compared.
Anything(d) == TRUE

Expected(d) == held[d] = want[d]

\* The expected socket is unlinked.
Unlink(d) ==
    /\ pc[d] = "captured" /\ Expected(d)
    /\ held' = [held EXCEPT ![d] = NoInode]
    /\ Goto(d, back[d])
    /\ UNCHANGED <<names, others, lockFd, own, want, back, sig>>

\* Another one is put back, unless the name is taken by now; it then stays in
\* quarantine.  At startup this is an error.
Restore(d) ==
    /\ pc[d] = "captured" /\ ~Expected(d)
    /\ sockEntry' = IF sockEntry = NoInode THEN held[d] ELSE sockEntry
    /\ held' = [held EXCEPT ![d] = NoInode]
    /\ Goto(d, "close")
    /\ UNCHANGED <<lockEntry, others, lockFd, own, want, back, sig>>

Bind(d) ==
    /\ pc[d] = "bind"
    /\ IF sockEntry # NoInode
          THEN Goto(d, "close") /\ UNCHANGED <<sockEntry, own>>
          ELSE \E i \in Inode \ Referenced :
                  /\ sockEntry' = i
                  /\ own' = [own EXCEPT ![d] = i]
                  /\ Goto(d, "listen")
    /\ UNCHANGED <<lockEntry, others, lockFd, want, held, back, sig>>

Listen(d) ==
    /\ pc[d] = "listen"
    /\ Goto(d, "stat")
    /\ UNCHANGED <<names, others, files, sig>>

\* The inode is read back by name, and is the daemon's own from here on.
Stat(d) ==
    /\ pc[d] = "stat"
    /\ Remember(d, sockEntry)
    /\ back' = [back EXCEPT ![d] = "close"]
    /\ Goto(d, IF sockEntry = NoInode THEN "close" ELSE "setup")
    /\ UNCHANGED <<names, foreign, meddled, lockFd, own, held, sig>>

\* BoundSocketGuard: any later error removes the socket again.
Setup(d) ==
    /\ pc[d] = "setup"
    /\ \/ sockEntry = want[d] /\ Goto(d, "verify")
       \/ Goto(d, "capture")
    /\ UNCHANGED <<names, others, files, sig>>

Verify(d) ==
    /\ pc[d] = "verify"
    /\ Goto(d, "serve") \/ Goto(d, "capture")
    /\ UNCHANGED <<names, others, files, sig>>

\* The loop ends on a signal or a fatal error, and the server is dropped
\* first: it removes its socket while it still listens and has the lock.
Leave(d) ==
    /\ pc[d] = "serve"
    /\ Goto(d, "capture")
    /\ UNCHANGED <<names, others, files, sig>>

\* Listener and lock go, then the signal pipe is closed.
Drop(d) ==
    /\ pc[d] = "close"
    /\ Goto(d, "block")
    /\ Release(d)
    /\ UNCHANGED <<names, others, sig>>

-----------------------------------------------------------------------------
(* Another program takes the name for its own socket, removes it, or closes. *)
(* It has to remove what had the name before it binds, so its socket may get *)
(* the number of a dead one.                                                 *)
ForeignBinds ==
    /\ meddled < MaxForeign
    /\ \E i \in Inode \ Pinned :
          /\ sockEntry' = i
          /\ foreign' = foreign \cup {i}
          /\ reused' = reused \cup {d \in Daemon : want[d] = i}
    /\ meddled' = meddled + 1
    /\ UNCHANGED <<lockEntry, pc, files, sig>>

ForeignRemoves ==
    /\ meddled < MaxForeign
    /\ sockEntry' = NoInode
    /\ meddled' = meddled + 1
    /\ UNCHANGED <<lockEntry, foreign, reused, pc, files, sig>>

ForeignCloses(i) ==
    /\ i \in foreign
    /\ foreign' = foreign \ {i}
    /\ UNCHANGED <<names, meddled, reused, pc, files, sig>>

-----------------------------------------------------------------------------
LifecycleInit ==
    /\ sockEntry = NoInode /\ lockEntry = NoInode
    /\ foreign = {} /\ meddled = 0 /\ reused = {}
    /\ pc = [d \in Daemon |-> "off"]
    /\ lockFd = [d \in Daemon |-> NoInode] /\ own = [d \in Daemon |-> NoInode]
    /\ want = [d \in Daemon |-> NoInode] /\ held = [d \in Daemon |-> NoInode]
    /\ back = [d \in Daemon |-> "close"]
    /\ sig = [d \in Daemon |-> NoSignals]

\* What a process does by itself, once it was started.
Step(d) ==
    \/ Block(d) \/ Publish(d) \/ Unblock(d) \/ SpawnWorker(d)
    \/ OpenLock(d) \/ Flock(d) \/ CheckLock(d) \/ Look(d) \/ Connect(d)
    \/ Capture(d) \/ Unlink(d) \/ Restore(d) \/ Bind(d) \/ Listen(d) \/ Stat(d)
    \/ Setup(d) \/ Verify(d) \/ (sig[d].stop /\ Leave(d))
    \/ Drop(d) \/ Unpublish(d) \/ ClosePipe(d) \/ Finish(d)

LifecycleNext ==
    \/ \E d \in Daemon : Start(d) \/ Step(d) \/ Fail(d) \/ InstallFails(d)
                         \/ Leave(d) \/ Signal(d) \/ Crash(d)
    \/ ForeignBinds \/ ForeignRemoves \/ \E i \in Inode : ForeignCloses(i)

LifecycleSpec == LifecycleInit /\ [][LifecycleNext]_vars

\* Every process goes on by itself; the reactor never blocks for longer than
\* a pointer tick, so it sees that it was asked to stop.
FairLifecycleSpec == LifecycleSpec /\ \A d \in Daemon : WF_vars(Step(d))

-----------------------------------------------------------------------------
(* Types. *)
LifecycleTypeOK ==
    /\ sockEntry \in Inode \cup {NoInode} /\ lockEntry \in Inode \cup {NoInode}
    /\ foreign \in SUBSET Inode /\ meddled \in 0..MaxForeign
    /\ reused \in SUBSET Daemon
    /\ pc \in [Daemon -> Phases]
    /\ lockFd \in [Daemon -> Inode \cup {NoInode}]
    /\ own \in [Daemon -> Inode \cup {NoInode}]
    /\ want \in [Daemon -> Inode \cup {NoInode}]
    /\ held \in [Daemon -> Inode \cup {NoInode}]
    /\ back \in [Daemon -> {"bind", "close"}]
    /\ sig \in [Daemon -> SignalState]

\* A daemon that serves can be reached: while no other program interferes, no
\* start, failed start, takeover or exit of another daemon, and no crash,
\* removes, moves or replaces its socket.
ServerReachable ==
    meddled = 0 => \A d \in Daemon :
        pc[d] = "serve" => sockEntry = own[d] /\ want[d] = own[d]

\* What is about to be unlinked is never the socket of another daemon.  It is a
\* live one of another program only in two cases: its number is that of the
\* stale socket that was looked at, which that program removed and whose number
\* its own socket got since; or, at the daemon's end, it took the name between
\* bind and the look at the bound inode.
UnlinksDead ==
    \A d \in Daemon : pc[d] = "captured" /\ Expected(d) =>
        /\ \A e \in Daemon \ {d} : own[e] # held[d]
        /\ held[d] \in foreign => own[d] # held[d] /\ (back[d] = "close" \/ d \in reused)

\* The signal handler never writes to a closed descriptor, on any thread that
\* may run it.
HandlerSafe ==
    \A d \in Daemon :
        (sig[d].handler /\ sig[d].published /\ ~sig[d].masked) \/ sig[d].loaded
            => sig[d].pipe

\* No termination signal is lost: whenever it comes during startup, service
\* or shutdown, the process ends.
SignalEnds == \A d \in Daemon : sig[d].asked ~> pc[d] = "off"
=============================================================================
