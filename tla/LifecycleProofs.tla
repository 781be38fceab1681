--------------------------- MODULE LifecycleProofs ---------------------------
(***************************************************************************)
(* Theorems about Lifecycle for any number of daemons that crash, start    *)
(* and end on one socket path, and any interference by other programs: a   *)
(* daemon that serves keeps its socket, nobody unlinks the socket of       *)
(* another, and the signal handler finds its pipe open.                    *)
(***************************************************************************)
EXTENDS Lifecycle, TLAPS

(***************************************************************************)
(* The lock is exclusive: its file is created once and never replaced, so  *)
(* all who got past flock have the same inode.                             *)
(***************************************************************************)
Locked == {"lockcheck", "look", "connect", "capture", "captured", "bind",
           "listen", "stat", "setup", "verify", "serve"}

Exclusive ==
    /\ \A d \in Daemon : lockFd[d] \in {NoInode, lockEntry}
    /\ \A d \in Daemon : pc[d] \in Locked \cup {"flock"} => lockFd[d] # NoInode
    /\ \A d, e \in Daemon : pc[d] \in Locked /\ pc[e] \in Locked => d = e

(***************************************************************************)
(* A bound socket keeps its name until its owner removes it.               *)
(***************************************************************************)
Reachable ==
    meddled = 0 => \A d \in Daemon :
        /\ pc[d] \in {"listen", "stat"} => sockEntry = own[d]
        /\ pc[d] \in {"setup", "verify", "serve"} => sockEntry = own[d] /\ want[d] = own[d]

(***************************************************************************)
(* A daemon that gave up its name, or lost it before it looked for it,     *)
(* does not get it back; so the entry that another one captures is never   *)
(* its socket.                                                             *)
(***************************************************************************)
Bound == {"listen", "stat", "setup", "verify", "serve", "capture", "captured", "close"}

Owning ==
    /\ \A d \in Daemon : pc[d] \in {"setup", "verify", "serve"} => back[d] = "close"
    /\ \A d \in Daemon : pc[d] = "captured" => held[d] # NoInode
    /\ \A d \in Daemon : own[d] # NoInode =>
          /\ pc[d] \in Bound /\ own[d] \notin foreign
          /\ pc[d] \in {"capture", "captured"} => back[d] = "close"
          /\ pc[d] \in {"captured", "close"} => sockEntry # own[d]
          /\ pc[d] \in {"setup", "verify", "serve", "capture"} /\ want[d] # own[d]
                => sockEntry # own[d]
          /\ pc[d] = "captured" /\ want[d] # own[d] => held[d] # own[d]
    /\ \A d, e \in Daemon : d # e /\ own[e] # NoInode => held[d] # own[e]

(***************************************************************************)
(* At startup, the socket that refused the connection was no live one of   *)
(* another program; the number it had can be that of a live one only if it *)
(* was reused, since a number that is only remembered is free again once   *)
(* the stale socket is gone.                                               *)
(***************************************************************************)
Refused ==
    \A d \in Daemon : back[d] = "bind" /\ want[d] \in foreign /\ d \notin reused =>
        /\ pc[d] = "capture" => sockEntry # want[d]
        /\ pc[d] = "captured" => held[d] # want[d]

(***************************************************************************)
(* The pipe is open from before the handler state is published until after *)
(* it is taken back; no worker runs the handler.                           *)
(***************************************************************************)
GuardedBy(d) ==
    /\ sig[d].published \/ pc[d] \in {"pipe", "install"} => sig[d].pipe
    /\ pc[d] = "closefds" => ~sig[d].published
    /\ ~sig[d].loaded /\ sig[d].worker # "open"

Guarded == \A d \in Daemon : GuardedBy(d)

SocketInv == Exclusive /\ Reachable /\ Owning /\ Refused
LifecycleInv == LifecycleTypeOK /\ SocketInv /\ Guarded

-----------------------------------------------------------------------------
(***************************************************************************)
(* Most steps leave the socket alone.                                      *)
(***************************************************************************)
Outside == Phases \ (Locked \cup Bound \cup {"flock"})

\* A step of the signal machinery.
Quiet ==
    /\ UNCHANGED <<names, others, files>>
    /\ \/ pc' = pc
       \/ \E d \in Daemon, l \in Outside : pc[d] \in Outside /\ Goto(d, l)

\* The end of a process.
Ends(d) == Goto(d, "off") /\ Release(d) /\ UNCHANGED <<names, others>>

\* A step of IpcServer::bind or of its removal.
Socket(d) ==
    \/ OpenLock(d) \/ Flock(d) \/ CheckLock(d) \/ Look(d) \/ Connect(d)
    \/ Capture(d) \/ Unlink(d) \/ Restore(d) \/ Bind(d) \/ Listen(d) \/ Stat(d)
    \/ Setup(d) \/ Verify(d) \/ Fail(d) \/ Leave(d) \/ Drop(d)

Foreign == ForeignBinds \/ ForeignRemoves \/ \E i \in Inode : ForeignCloses(i)

LEMMA SocketSteps ==
  ASSUME [LifecycleNext]_vars
  PROVE  Quiet \/ Foreign \/ \E d \in Daemon : Ends(d) \/ Socket(d)
<1>1. CASE UNCHANGED vars
  BY <1>1 DEF vars, Quiet, names, others, files
<1>2. CASE Foreign
  BY <1>2
<1>3. ASSUME NEW d \in Daemon,
             Start(d) \/ Block(d) \/ Publish(d) \/ Unblock(d) \/ SpawnWorker(d)
             \/ Unpublish(d) \/ ClosePipe(d)
      PROVE  Quiet
  BY <1>3 DEF Start, Block, Publish, Unblock, SpawnWorker, Unpublish, ClosePipe,
     Quiet, Outside, Phases, Binding, Locked, Bound, Goto
<1>5. ASSUME NEW d \in Daemon, Signal(d)
      PROVE  Quiet \/ Ends(d)
  BY <1>5 DEF Signal, Quiet, Ends, Exit
<1>6. ASSUME NEW d \in Daemon, Crash(d) \/ InstallFails(d) \/ Finish(d)
      PROVE  Ends(d)
  BY <1>6 DEF Crash, InstallFails, Finish, Exit, Ends
<1> QED
  BY <1>1, <1>2, <1>3, <1>5, <1>6 DEF LifecycleNext, Step, Socket, Foreign

-----------------------------------------------------------------------------
(***************************************************************************)
(* Types.                                                                  *)
(***************************************************************************)
FilesOK ==
    /\ sockEntry \in Inode \cup {NoInode} /\ lockEntry \in Inode \cup {NoInode}
    /\ foreign \in SUBSET Inode /\ meddled \in 0..MaxForeign
    /\ reused \in SUBSET Daemon
    /\ pc \in [Daemon -> Phases]
    /\ lockFd \in [Daemon -> Inode \cup {NoInode}]
    /\ own \in [Daemon -> Inode \cup {NoInode}]
    /\ want \in [Daemon -> Inode \cup {NoInode}]
    /\ held \in [Daemon -> Inode \cup {NoInode}]
    /\ back \in [Daemon -> {"bind", "close"}]

USE DEF names, others, files

LEMMA FilesStep ==
  ASSUME FilesOK, [LifecycleNext]_vars
  PROVE  FilesOK'
<1> USE DEF FilesOK, Goto, Phases, Binding
<1>1. CASE Quiet
  BY <1>1 DEF Quiet, Outside
<1>2. CASE Foreign
  BY <1>2, ForeignAssumption DEF Foreign, ForeignBinds, ForeignRemoves, ForeignCloses
<1>3. ASSUME NEW d \in Daemon, Ends(d)
      PROVE  FilesOK'
  BY <1>3 DEF Ends, Release
<1>4. ASSUME NEW d \in Daemon, Socket(d)
      PROVE  FilesOK'
  <2>1. CASE OpenLock(d)
    BY <2>1 DEF OpenLock
  <2>2. CASE Flock(d) \/ CheckLock(d) \/ Listen(d) \/ Setup(d) \/ Verify(d) \/ Fail(d) \/ Leave(d)
    BY <2>2 DEF Flock, CheckLock, Listen, Setup, Verify, Fail, Leave
  <2>3. CASE Look(d) \/ Stat(d)
    BY <2>3 DEF Look, Stat, Remember
  <2>4. CASE Connect(d)
    BY <2>4 DEF Connect
  <2>5. CASE Capture(d)
    BY <2>5 DEF Capture
  <2>6. CASE Unlink(d) \/ Restore(d)
    BY <2>6 DEF Unlink, Restore
  <2>7. CASE Bind(d)
    BY <2>7 DEF Bind
  <2>8. CASE Drop(d)
    BY <2>8 DEF Drop, Release
  <2> QED
    BY <1>4, <2>1, <2>2, <2>3, <2>4, <2>5, <2>6, <2>7, <2>8 DEF Socket
<1> QED
  BY <1>1, <1>2, <1>3, <1>4, SocketSteps

-----------------------------------------------------------------------------
(***************************************************************************)
(* The lock.                                                               *)
(***************************************************************************)
LEMMA ExclusiveStep ==
  ASSUME FilesOK, Exclusive, [LifecycleNext]_vars
  PROVE  Exclusive'
<1> USE DEF FilesOK, Exclusive, Locked, Goto
<1>1. CASE Quiet
  BY <1>1 DEF Quiet, Outside, Phases, Binding, Bound
<1>2. CASE Foreign
  BY <1>2 DEF Foreign, ForeignBinds, ForeignRemoves, ForeignCloses
<1>3. ASSUME NEW d \in Daemon, Ends(d)
      PROVE  Exclusive'
  BY <1>3 DEF Ends, Release
<1>4. ASSUME NEW d \in Daemon, Socket(d)
      PROVE  Exclusive'
  \* No other process holds a lock unless the lock file exists; a new one is
  \* made only when none did.
  <2>1. CASE OpenLock(d)
    BY <2>1, InodeAssumption DEF OpenLock
  <2>2. CASE Flock(d)
    BY <2>2 DEF Flock, LockedBy
  <2>3. CASE CheckLock(d) \/ Listen(d) \/ Setup(d) \/ Verify(d) \/ Fail(d) \/ Leave(d)
    BY <2>3 DEF CheckLock, Listen, Setup, Verify, Fail, Leave
  <2>4. CASE Look(d) \/ Stat(d)
    BY <2>4 DEF Look, Stat, Remember
  <2>5. CASE Connect(d)
    BY <2>5 DEF Connect
  <2>6. CASE Capture(d)
    BY <2>6 DEF Capture
  <2>7. CASE Unlink(d) \/ Restore(d)
    BY <2>7 DEF Unlink, Restore
  <2>8. CASE Bind(d)
    BY <2>8 DEF Bind
  <2>9. CASE Drop(d)
    BY <2>9 DEF Drop, Release
  <2> QED
    BY <1>4, <2>1, <2>2, <2>3, <2>4, <2>5, <2>6, <2>7, <2>8, <2>9 DEF Socket
<1> QED
  BY <1>1, <1>2, <1>3, <1>4, SocketSteps

-----------------------------------------------------------------------------
(***************************************************************************)
(* The name.                                                               *)
(***************************************************************************)
\* Whoever moves the name has the lock, so nobody else has a socket there.
LEMMA ReachableStep ==
  ASSUME FilesOK, Exclusive, Reachable, [LifecycleNext]_vars
  PROVE  Reachable'
<1> USE DEF FilesOK, Exclusive, Reachable, Locked, Goto
<1>1. CASE Quiet
  BY <1>1 DEF Quiet, Outside, Phases, Binding, Bound
<1>2. CASE Foreign
  BY <1>2, ForeignAssumption DEF Foreign, ForeignBinds, ForeignRemoves, ForeignCloses
<1>3. ASSUME NEW d \in Daemon, Ends(d)
      PROVE  Reachable'
  BY <1>3 DEF Ends, Release
<1>4. ASSUME NEW d \in Daemon, Socket(d)
      PROVE  Reachable'
  <2>1. CASE OpenLock(d)
    BY <2>1 DEF OpenLock
  <2>2. CASE Flock(d) \/ CheckLock(d) \/ Listen(d) \/ Fail(d) \/ Leave(d)
    BY <2>2 DEF Flock, CheckLock, Listen, Fail, Leave
  <2>3. CASE Setup(d) \/ Verify(d)
    BY <2>3 DEF Setup, Verify
  <2>4. CASE Look(d) \/ Stat(d)
    BY <2>4 DEF Look, Stat, Remember
  <2>5. CASE Connect(d)
    BY <2>5 DEF Connect
  <2>6. CASE Capture(d)
    BY <2>6 DEF Capture
  <2>7. CASE Unlink(d)
    BY <2>7 DEF Unlink
  <2>8. CASE Restore(d)
    BY <2>8 DEF Restore
  <2>9. CASE Bind(d)
    BY <2>9 DEF Bind
  <2>10. CASE Drop(d)
    BY <2>10 DEF Drop, Release
  <2> QED
    BY <1>4, <2>1, <2>2, <2>3, <2>4, <2>5, <2>6, <2>7, <2>8, <2>9, <2>10 DEF Socket
<1> QED
  BY <1>1, <1>2, <1>3, <1>4, SocketSteps

LEMMA OwningStep ==
  ASSUME FilesOK, Exclusive, Owning, [LifecycleNext]_vars
  PROVE  Owning'
<1> USE DEF FilesOK, Exclusive, Owning, Locked, Bound, Goto
<1>1. CASE Quiet
  BY <1>1 DEF Quiet, Outside
\* A new inode is none that a daemon refers to.
<1>2. CASE Foreign
  BY <1>2 DEF Foreign, ForeignBinds, ForeignRemoves, ForeignCloses, Pinned
<1>3. ASSUME NEW d \in Daemon, Ends(d)
      PROVE  Owning'
  BY <1>3 DEF Ends, Release
<1>4. ASSUME NEW d \in Daemon, Socket(d)
      PROVE  Owning'
  <2>1. CASE OpenLock(d)
    BY <2>1 DEF OpenLock
  <2>2. CASE Flock(d) \/ CheckLock(d) \/ Listen(d) \/ Fail(d) \/ Leave(d)
    BY <2>2 DEF Flock, CheckLock, Listen, Fail, Leave
  <2>3. CASE Setup(d) \/ Verify(d)
    BY <2>3 DEF Setup, Verify
  <2>4. CASE Look(d) \/ Stat(d)
    BY <2>4 DEF Look, Stat, Remember
  <2>5. CASE Connect(d)
    BY <2>5 DEF Connect
  <2>6. CASE Capture(d)
    BY <2>6 DEF Capture
  <2>7. CASE Unlink(d)
    BY <2>7 DEF Unlink, Expected
  <2>8. CASE Restore(d)
    BY <2>8 DEF Restore, Expected
  <2>9. CASE Bind(d)
    BY <2>9 DEF Bind, Referenced, Pinned
  <2>10. CASE Drop(d)
    BY <2>10 DEF Drop, Release
  <2> QED
    BY <1>4, <2>1, <2>2, <2>3, <2>4, <2>5, <2>6, <2>7, <2>8, <2>9, <2>10 DEF Socket
<1> QED
  BY <1>1, <1>2, <1>3, <1>4, SocketSteps

LEMMA RefusedStep ==
  ASSUME FilesOK, Exclusive, Owning, Refused, [LifecycleNext]_vars
  PROVE  Refused'
<1> USE DEF FilesOK, Exclusive, Refused, Locked, Goto
<1>1. CASE Quiet
  BY <1>1 DEF Quiet, Outside, Phases, Binding, Bound
<1>2. CASE Foreign
  BY <1>2, InodeAssumption DEF Foreign, ForeignBinds, ForeignRemoves, ForeignCloses, Pinned
<1>3. ASSUME NEW d \in Daemon, Ends(d)
      PROVE  Refused'
  BY <1>3 DEF Ends, Release
<1>4. ASSUME NEW d \in Daemon, Socket(d)
      PROVE  Refused'
  <2>1. CASE OpenLock(d)
    BY <2>1 DEF OpenLock
  <2>2. CASE Flock(d) \/ CheckLock(d) \/ Listen(d) \/ Fail(d)
    BY <2>2 DEF Flock, CheckLock, Listen, Fail
  <2>3. CASE Setup(d) \/ Verify(d) \/ Leave(d)
    BY <2>3 DEF Setup, Verify, Leave, Owning
  <2>4. CASE Look(d) \/ Stat(d)
    BY <2>4 DEF Look, Stat, Remember
  <2>5. CASE Connect(d)
    BY <2>5, InodeAssumption DEF Connect, Live
  <2>6. CASE Capture(d)
    BY <2>6, InodeAssumption DEF Capture
  <2>7. CASE Unlink(d)
    BY <2>7 DEF Unlink
  <2>8. CASE Restore(d)
    BY <2>8 DEF Restore
  <2>9. CASE Bind(d)
    BY <2>9 DEF Bind
  <2>10. CASE Drop(d)
    BY <2>10 DEF Drop, Release
  <2> QED
    BY <1>4, <2>1, <2>2, <2>3, <2>4, <2>5, <2>6, <2>7, <2>8, <2>9, <2>10 DEF Socket
<1> QED
  BY <1>1, <1>2, <1>3, <1>4, SocketSteps

-----------------------------------------------------------------------------
(***************************************************************************)
(* Signals.                                                                *)
(***************************************************************************)
LEMMA NoSignalsType == NoSignals \in SignalState
BY DEF NoSignals, SignalState

\* What touches the signal state of a daemon.
SignalStep(d) ==
    \/ Start(d) \/ Block(d) \/ Publish(d) \/ InstallFails(d) \/ Unblock(d)
    \/ SpawnWorker(d) \/ Signal(d) \/ Unpublish(d)
    \/ ClosePipe(d) \/ Finish(d) \/ Crash(d)

LEMMA SignalSteps ==
  ASSUME FilesOK, [LifecycleNext]_vars
  PROVE  \/ \E d \in Daemon : SignalStep(d)
         \/ sig' = sig /\ \A d \in Daemon : pc'[d] = pc[d] \/ pc'[d] \notin {"pipe", "install", "closefds"}
<1> USE DEF FilesOK, Goto
<1>1. ASSUME NEW d \in Daemon, Socket(d)
      PROVE  sig' = sig /\ \A e \in Daemon : pc'[e] = pc[e] \/ pc'[e] \notin {"pipe", "install", "closefds"}
  <2>1. CASE OpenLock(d) \/ Flock(d) \/ CheckLock(d) \/ Listen(d) \/ Setup(d) \/ Verify(d) \/ Fail(d) \/ Leave(d)
    BY <2>1 DEF OpenLock, Flock, CheckLock, Listen, Setup, Verify, Fail, Leave
  <2>2. CASE Look(d) \/ Stat(d) \/ Connect(d) \/ Bind(d) \/ Restore(d) \/ Drop(d)
    BY <2>2 DEF Look, Stat, Remember, Connect, Bind, Restore, Drop
  <2>3. CASE Capture(d) \/ Unlink(d)
    BY <2>3 DEF Capture, Unlink
  <2> QED
    BY <1>1, <2>1, <2>2, <2>3 DEF Socket
<1>2. CASE Foreign
  BY <1>2 DEF Foreign, ForeignBinds, ForeignRemoves, ForeignCloses
<1>3. CASE UNCHANGED vars
  BY <1>3 DEF vars
<1> QED
  BY <1>1, <1>2, <1>3 DEF LifecycleNext, Step, Socket, Foreign, SignalStep

LEMMA GuardedStep ==
  ASSUME FilesOK, sig \in [Daemon -> SignalState], Guarded, [LifecycleNext]_vars
  PROVE  sig' \in [Daemon -> SignalState] /\ Guarded'
<1> USE DEF FilesOK, Goto, Guarded
<1>1. CASE sig' = sig /\ \A d \in Daemon : pc'[d] = pc[d] \/ pc'[d] \notin {"pipe", "install", "closefds"}
  BY <1>1 DEF GuardedBy
<1>2. ASSUME NEW d \in Daemon, SignalStep(d)
      PROVE  sig' \in [Daemon -> SignalState] /\ Guarded'
  <2> USE <1>2
  <2>1. /\ \A e \in Daemon : e # d => sig'[e] = sig[e] /\ pc'[e] = pc[e]
        /\ sig' = [e \in Daemon |-> sig'[e]]
    BY DEF SignalStep, Start, Block, Publish, InstallFails, Unblock,
       SpawnWorker, Signal, Unpublish, ClosePipe, Finish, Crash, Exit
  <2>2. sig[d] \in SignalState /\ GuardedBy(d)
    OBVIOUS
  <2>3. sig'[d] \in SignalState
    <3>1. CASE Start(d) \/ Block(d) \/ ClosePipe(d) \/ SpawnWorker(d)
      <4>1. CASE Start(d)
        BY <2>2, <4>1 DEF Start, SignalState
      <4>2. CASE Block(d)
        BY <2>2, <4>2 DEF Block, SignalState
      <4>3. CASE ClosePipe(d)
        BY <2>2, <4>3 DEF ClosePipe, SignalState
      <4>4. CASE SpawnWorker(d)
        BY <2>2, <4>4 DEF SpawnWorker, SignalState
      <4> QED
        BY <3>1, <4>1, <4>2, <4>3, <4>4
    <3>2. CASE Publish(d)
      BY <2>2, <3>2 DEF Publish, SignalState
    <3>3. CASE Unblock(d)
      <4>1. sig'[d] = [sig[d] EXCEPT !.masked = FALSE, !.pending = FALSE,
                                     !.stop = sig[d].stop \/ sig[d].pending]
        BY <3>3, Zenon DEF Unblock
      <4>2. (sig[d].stop \/ sig[d].pending) \in BOOLEAN
        OBVIOUS
      <4> QED
        BY <2>2, <4>1, <4>2 DEF SignalState
    <3>4. CASE Unpublish(d)
      BY <2>2, <3>4 DEF Unpublish, SignalState
    <3>5. CASE Exit(d)
      BY <3>5, NoSignalsType DEF Exit
    <3>6. CASE Signal(d) /\ ~Exit(d)
      <4>1. \/ sig'[d] = [sig[d] EXCEPT !.pending = TRUE, !.asked = TRUE]
            \/ sig'[d] = [sig[d] EXCEPT !.stop = TRUE, !.asked = TRUE,
                  !.loaded = sig[d].worker = "open" /\ sig[d].published]
        BY <3>6, Zenon DEF Signal
      <4>2. (sig[d].worker = "open" /\ sig[d].published) \in BOOLEAN
        OBVIOUS
      <4> QED
        BY <2>2, <4>1, <4>2 DEF SignalState
    <3> QED
      BY <3>1, <3>2, <3>3, <3>4, <3>5, <3>6 DEF SignalStep, InstallFails, Finish, Crash
  <2>4. GuardedBy(d)'
    <3> USE DEF GuardedBy
    <3>1. CASE Start(d) \/ Block(d) \/ ClosePipe(d) \/ SpawnWorker(d)
      <4>1. CASE Start(d)
        BY <2>2, <4>1 DEF Start, SignalState
      <4>2. CASE Block(d)
        BY <2>2, <4>2 DEF Block, SignalState
      <4>3. CASE ClosePipe(d)
        BY <2>2, <4>3 DEF ClosePipe, SignalState
      <4>4. CASE SpawnWorker(d)
        BY <2>2, <4>4 DEF SpawnWorker, SignalState
      <4> QED
        BY <3>1, <4>1, <4>2, <4>3, <4>4
    <3>2. CASE Publish(d) \/ Unblock(d) \/ Unpublish(d)
      BY <2>2, <3>2 DEF Publish, Unblock, Unpublish, SignalState
    <3>3. CASE Exit(d)
      BY <3>3 DEF Exit, NoSignals
    \* No worker has the signals unblocked, so none begins the handler.
    <3>4. CASE Signal(d) /\ ~Exit(d)
      BY <2>2, <3>4 DEF Signal, SignalState
    <3> QED
      BY <3>1, <3>2, <3>3, <3>4 DEF SignalStep, InstallFails, Finish, Crash
  <2>5. \A e \in Daemon : GuardedBy(e)'
    BY <2>1, <2>4 DEF GuardedBy
  <2> QED
    BY <2>1, <2>3, <2>5
<1> QED
  BY <1>1, <1>2, SignalSteps

-----------------------------------------------------------------------------
LEMMA LifecycleInitInv == LifecycleInit => LifecycleInv
<1> SUFFICES ASSUME LifecycleInit PROVE LifecycleInv
  OBVIOUS
<1> USE DEF LifecycleInit
<1>1. LifecycleTypeOK
  BY ForeignAssumption, NoSignalsType DEF LifecycleTypeOK, Phases
<1>2. Exclusive /\ Reachable
  BY DEF Exclusive, Reachable, Locked
<1>3. Owning /\ Refused
  BY DEF Owning, Refused
<1>4. Guarded
  BY DEF Guarded, GuardedBy, NoSignals
<1> QED
  BY <1>1, <1>2, <1>3, <1>4 DEF LifecycleInv, SocketInv

LEMMA LifecycleStep ==
  ASSUME LifecycleInv, [LifecycleNext]_vars
  PROVE  LifecycleInv'
<1>1. FilesOK /\ sig \in [Daemon -> SignalState]
  BY DEF LifecycleInv, LifecycleTypeOK, FilesOK
<1>2. Exclusive /\ Reachable /\ Owning /\ Refused /\ Guarded
  BY DEF LifecycleInv, SocketInv
<1>3. FilesOK'
  BY <1>1, FilesStep
<1>4. Exclusive' /\ Reachable' /\ Owning' /\ Refused'
  BY <1>1, <1>2, ExclusiveStep, ReachableStep, OwningStep, RefusedStep
<1>5. sig' \in [Daemon -> SignalState] /\ Guarded'
  BY <1>1, <1>2, GuardedStep
<1> QED
  BY <1>3, <1>4, <1>5 DEF LifecycleInv, LifecycleTypeOK, SocketInv, FilesOK

\* The lock, the name, what each daemon owns and the signal machinery stay in
\* order, whatever crashes and however the steps of the daemons interleave.
THEOREM LifecycleInvariant == LifecycleSpec => []LifecycleInv
<1>1. LifecycleInv /\ [LifecycleNext]_vars => LifecycleInv'
  BY LifecycleStep
<1> QED
  BY LifecycleInitInv, <1>1, PTL DEF LifecycleSpec

\* Every variable keeps its values.
THEOREM LifecycleTypeCorrect == LifecycleSpec => []LifecycleTypeOK
<1>1. LifecycleInv => LifecycleTypeOK
  BY DEF LifecycleInv
<1> QED
  BY <1>1, LifecycleInvariant, PTL

\* A daemon that serves keeps its socket (IpcServer::bind, Drop): no start,
\* takeover, failure, crash or exit of another daemon removes it.
THEOREM LifecycleServerReachable == LifecycleSpec => []ServerReachable
<1>1. LifecycleInv => ServerReachable
  BY DEF LifecycleInv, SocketInv, Reachable, ServerReachable
<1> QED
  BY <1>1, LifecycleInvariant, PTL

\* remove_expected_entry unlinks no socket of another daemon; and at startup no
\* live one of another program, unless that got the number of the stale socket.
THEOREM LifecycleUnlinksDead == LifecycleSpec => []UnlinksDead
<1>1. ASSUME LifecycleInv
      PROVE  UnlinksDead
  <2> USE DEF LifecycleInv, SocketInv
  <2>1. ASSUME NEW d \in Daemon, pc[d] = "captured", Expected(d), held[d] \in foreign
        PROVE  own[d] # held[d] /\ (back[d] = "close" \/ d \in reused)
    <3>1. own[d] # held[d]
      BY <1>1, <2>1, InodeAssumption DEF Owning, LifecycleTypeOK
    <3>2. back[d] = "close" \/ d \in reused
      BY <1>1, <2>1 DEF Refused, LifecycleTypeOK, Expected
    <3> QED
      BY <3>1, <3>2
  <2>2. ASSUME NEW d \in Daemon, NEW e \in Daemon \ {d}, pc[d] = "captured", Expected(d)
        PROVE  own[e] # held[d]
    BY <1>1, <2>2 DEF Owning
  <2> QED
    BY <2>1, <2>2 DEF UnlinksDead
<1> QED
  BY <1>1, LifecycleInvariant, PTL

\* on_signal never writes to a closed descriptor, on any thread (SignalPipe).
THEOREM LifecycleHandlerSafe == LifecycleSpec => []HandlerSafe
<1>1. LifecycleInv => HandlerSafe
  BY DEF LifecycleInv, Guarded, GuardedBy, HandlerSafe
<1> QED
  BY <1>1, LifecycleInvariant, PTL
=============================================================================
