---------------------------- MODULE ReactorProofs ----------------------------
(***************************************************************************)
(* Theorems about Reactor for every set of controllers, any number of      *)
(* slots and all budgets: discovery makes no second session of one         *)
(* controller, forgets no news and removes only what has left.             *)
(***************************************************************************)
EXTENDS Reactor, FiniteSetTheorems, TLAPS

(***************************************************************************)
(* The order that the flags enforce between one discovery and the next: at *)
(* most one request, enumeration or answer is there, only while a snapshot *)
(* is pending, and none while additions of the last one wait.              *)
(***************************************************************************)
Order ==
    /\ snapshotPending => additions = <<>>
    /\ requested \/ worker = "scanning" \/ answer # "none" => snapshotPending
    /\ worker = "scanning" => ~requested /\ answer = "none"
    /\ answer # "none" \/ worker = "stopped" => ~requested
    /\ phase = "start" => ~snapshotPending /\ additions = <<>>

Live == Used \ dead

(***************************************************************************)
(* A live session's controller is there, and an enumeration that is under  *)
(* way or complete has it on its list.                                     *)
(***************************************************************************)
Alive ==
    /\ \A s \in Live : slots[s] \in present
    /\ worker = "scanning" => \A s \in Live : slots[s] \in scan \cup found
    /\ answer = "listed" => \A s \in Live : slots[s] \in found

ReactorInv == ReactorTypeOK /\ Order /\ Alive /\ OneSession

(***************************************************************************)
(* What the operators on slots do.                                         *)
(***************************************************************************)
\* Vacated slots are free, the others keep their controllers.
LEMMA VacateLeaves ==
  ASSUME ReactorTypeOK, NEW gone \in SUBSET Slot, Vacate(gone)
  PROVE  /\ slots' \in [Slot -> Root \cup {NoRoot}] /\ dead' \in SUBSET Used'
         /\ Used' = Used \ gone /\ Live' = Live \ gone
         /\ \A s \in Slot \ gone : slots'[s] = slots[s]
         /\ Owned' \subseteq Owned
<1>1. slots \in [Slot -> Root \cup {NoRoot}] /\ dead \in SUBSET Used
  BY DEF ReactorTypeOK
<1>2. /\ slots' = [s \in Slot |-> IF s \in gone THEN NoRoot ELSE slots[s]]
      /\ dead' = dead \ gone
  BY DEF Vacate
<1>3. \A s \in Slot : slots'[s] = IF s \in gone THEN NoRoot ELSE slots[s]
  BY <1>2
<1>4. slots' \in [Slot -> Root \cup {NoRoot}]
  BY <1>1, <1>2
<1>5. Used' = Used \ gone
  BY <1>3 DEF Used
<1>6. dead' \in SUBSET Used' /\ Live' = Live \ gone
  BY <1>1, <1>2, <1>5 DEF Live
<1>7. Owned' \subseteq Owned
  BY <1>3 DEF Owned
<1> QED
  BY <1>3, <1>4, <1>5, <1>6, <1>7

\* An addition leaves everything, or gives one free slot to a controller that
\* is there and has none.
LEMMA AddPathLeaves ==
  ASSUME ReactorTypeOK, NEW r \in Root, AddPath(r)
  PROVE  /\ slots' \in [Slot -> Root \cup {NoRoot}] /\ dead' = dead /\ dead \in SUBSET Used'
         /\ \/ slots' = slots
            \/ /\ r \notin Owned /\ r \in present
               /\ \E s \in Slot \ Used :
                     /\ slots' = [slots EXCEPT ![s] = r]
                     /\ Used' = Used \cup {s} /\ Live' = Live \cup {s}
               /\ Owned' = Owned \cup {r}
<1>1. slots \in [Slot -> Root \cup {NoRoot}] /\ dead \in SUBSET Used /\ ready \in SUBSET present
  BY DEF ReactorTypeOK
<1>2. CASE UNCHANGED <<slots, dead>>
  BY <1>1, <1>2 DEF Used
<1>3. CASE r \notin Owned /\ r \in ready
           /\ \E s \in Slot \ Used : slots' = [slots EXCEPT ![s] = r] /\ UNCHANGED dead
  <2>1. PICK s \in Slot \ Used : slots' = [slots EXCEPT ![s] = r] /\ UNCHANGED dead
    BY <1>3
  <2>2. r # NoRoot
    BY RootAssumption
  <2>3. \A t \in Slot : slots'[t] = IF t = s THEN r ELSE slots[t]
    BY <1>1, <2>1
  <2>4. slots' \in [Slot -> Root \cup {NoRoot}]
    BY <1>1, <2>1
  <2>5. slots[s] = NoRoot
    BY DEF Used
  <2>6. Used' = Used \cup {s}
    BY <2>2, <2>3 DEF Used
  <2>7. Owned' = Owned \cup {r}
    BY <2>2, <2>3, <2>5 DEF Owned
  <2>8. Live' = Live \cup {s} /\ dead \in SUBSET Used'
    BY <1>1, <2>1, <2>6 DEF Live
  <2> QED
    BY <1>1, <1>3, <2>1, <2>4, <2>6, <2>7, <2>8
<1> QED
  BY <1>2, <1>3 DEF AddPath

\* What a snapshot queues, each new controller once.
LEMMA QueuedOrder ==
  ASSUME ReactorTypeOK, NEW order \in SetToSeqs(Queued)
  PROVE  /\ order \in Seq(Root)
         /\ \A i, j \in DOMAIN order : order[i] = order[j] => i = j
         /\ \A i \in DOMAIN order : order[i] \in found /\ order[i] \notin Owned
<1>1. Queued \subseteq Root /\ IsFiniteSet(Queued)
  BY RootAssumption, FS_Subset DEF ReactorTypeOK, Queued
<1>2. Cardinality(Queued) \in Nat
  BY <1>1, FS_CardinalityType
<1>3. /\ order \in [1..Cardinality(Queued) -> Queued]
      /\ \A i, j \in 1..Cardinality(Queued) : i # j => order[i] # order[j]
  BY DEF SetToSeqs
<1>4. order \in Seq(Queued)
  BY <1>2, <1>3
<1>5. order \in Seq(Root)
  BY <1>1, <1>4
<1> QED
  BY <1>3, <1>5 DEF Queued

(***************************************************************************)
(* Types.                                                                  *)
(***************************************************************************)
LEMMA ReactorInitInv == ReactorInit => ReactorInv
<1> SUFFICES ASSUME ReactorInit PROVE ReactorInv
  OBVIOUS
<1>1. Used = {} /\ Owned = {}
  BY DEF ReactorInit, Used, Owned
<1>2. ReactorTypeOK
  <2>1. slots \in [Slot -> Root \cup {NoRoot}] /\ dead \in SUBSET Used
    BY DEF ReactorInit
  <2>2. <<>> \in Seq(Root)
    OBVIOUS
  <2>3. additions \in Seq(Root)
    BY <2>2 DEF ReactorInit
  <2>4. hot \in SUBSET Slot /\ scan \in SUBSET Root /\ found \in SUBSET Root
    BY DEF ReactorInit
  <2>5. listing \in Nat /\ events \in 0..MaxEvents /\ setups \in 0..SetupBudget
    BY BudgetAssumption DEF ReactorInit
  <2>6. phase \in Phases /\ worker \in {"idle", "scanning", "stopped"} /\ answer \in {"none", "listed", "failed"}
    BY DEF ReactorInit, Phases
  <2> QED
    BY <2>1, <2>3, <2>4, <2>5, <2>6 DEF ReactorInit, ReactorTypeOK
<1>3. Order
  BY DEF ReactorInit, Order
<1>4. Alive
  BY <1>1 DEF ReactorInit, Alive, Live
<1>5. OneSession
  BY <1>1 DEF ReactorInit, OneSession, IsInjective, ToSet
<1> QED
  BY <1>2, <1>3, <1>4, <1>5 DEF ReactorInv

\* What the kernel and the worker do is within the types.
LEMMA OutsideType ==
  ASSUME ReactorTypeOK, World \/ Worker \/ WorkerStops
  PROVE  ReactorTypeOK'
<1> USE BudgetAssumption DEF batch, queue, discovery, socket, world
<1>1. ASSUME NEW r \in Root, Plug(r) \/ Unplug(r) \/ ToggleReady(r)
      PROVE  ReactorTypeOK'
  <2>1. present' \in SUBSET Root /\ ready' \in SUBSET present'
    BY <1>1 DEF Plug, Unplug, ToggleReady, ReactorTypeOK
  <2>2. events' \in 0..MaxEvents /\ overrun' \in BOOLEAN
    <3>1. events \in 0..MaxEvents /\ overrun \in BOOLEAN
      BY DEF ReactorTypeOK
    <3>2. Broadcast => events' \in 0..MaxEvents
      BY <3>1 DEF Broadcast
    <3>3. Broadcast => overrun' = overrun \/ overrun' = (overrun \/ events = MaxEvents)
      BY DEF Broadcast
    <3>4. (overrun \/ events = MaxEvents) \in BOOLEAN
      OBVIOUS
    <3>5. Broadcast => overrun' \in BOOLEAN
      BY <3>1, <3>3, <3>4, Zenon
    <3> QED
      BY <1>1, <3>1, <3>2, <3>5 DEF Plug, Unplug, ToggleReady
  <2>3. Used' = Used /\ dead' \in SUBSET Used'
    <3>1. slots' = slots
      BY <1>1 DEF Plug, Unplug, ToggleReady
    <3>2. r # NoRoot
      BY RootAssumption
    <3> QED
      BY <1>1, <3>1, <3>2 DEF Plug, Unplug, ToggleReady, Used, ReactorTypeOK
  <2>4. UNCHANGED <<listing, phase, single, slots, hot, woken, setups, monitorPending,
                    snapshotPending, reconcileAgain, additions, requested, worker,
                    scan, found, answer, news>>
    BY <1>1 DEF Plug, Unplug, ToggleReady
  <2> QED
    BY <2>1, <2>2, <2>3, <2>4 DEF ReactorTypeOK
<1>2. ASSUME Worker \/ WorkerStops
      PROVE  /\ requested' \in BOOLEAN /\ worker' \in {"idle", "scanning", "stopped"}
             /\ scan' \in SUBSET Root /\ found' \in SUBSET Root
             /\ answer' \in {"none", "listed", "failed"} /\ news' \in BOOLEAN
             /\ UNCHANGED <<present, ready, listing, events, overrun, phase, single,
                            slots, dead, hot, woken, setups, monitorPending,
                            snapshotPending, reconcileAgain, additions>>
  BY <1>2 DEF Worker, WorkerStops, StartScan, LookUp, FinishScan, FailScan, ReactorTypeOK
<1>3. CASE Worker \/ WorkerStops
  <2>1. Used' = Used
    BY <1>2, <1>3 DEF Used
  <2> QED
    BY <1>2, <1>3, <2>1 DEF ReactorTypeOK
<1> QED
  BY <1>1, <1>3 DEF World

\* A request only sets flags.
LEMMA RequestType ==
  ASSUME ReactorTypeOK, RequestReconcile
  PROVE  /\ reconcileAgain' \in BOOLEAN /\ snapshotPending' \in BOOLEAN
         /\ requested' \in BOOLEAN
BY DEF RequestReconcile, ReactorTypeOK

\* The steps of the loop that leave the slots alone.
LEMMA FlagsType ==
  ASSUME ReactorTypeOK,
         \/ StartMonitor \/ Poll \/ Interrupted \/ Drained \/ DrainMonitor
         \/ RequestAgain \/ TickReconcile \/ Leave
  PROVE  ReactorTypeOK'
<1> USE DEF batch, queue, discovery, socket, world, Phases
<1>1. UNCHANGED <<slots, dead, present, ready, additions, scan, found, worker, answer, single, setups>>
  BY DEF StartMonitor, Poll, Interrupted, Drained, DrainMonitor, RequestAgain, TickReconcile, Leave
<1>2. Used' = Used
  BY <1>1 DEF Used
<1>3. reconcileAgain' \in BOOLEAN /\ snapshotPending' \in BOOLEAN /\ requested' \in BOOLEAN
  BY RequestType DEF StartMonitor, Poll, Interrupted, Drained, DrainMonitor, RequestAgain,
     TickReconcile, Leave, ReactorTypeOK
<1>4. listing' \in Nat /\ events' \in 0..MaxEvents /\ overrun' \in BOOLEAN
  <2>1. CASE StartMonitor
    <3>1. IsFiniteSet(present)
      BY RootAssumption, FS_Subset DEF ReactorTypeOK
    <3>2. Listing \in Nat
      BY <3>1, FS_CardinalityType DEF Listing
    <3> QED
      BY <2>1, <3>2 DEF StartMonitor, ReactorTypeOK
  <2>2. CASE DrainMonitor
    <3>1. CASE ReceiveFails
      BY <3>1 DEF ReceiveFails, ReactorTypeOK
    <3>2. CASE ReadBudget
      BY <3>2, BudgetAssumption DEF ReadBudget, ReactorTypeOK
    <3> QED
      BY <2>2, <3>1, <3>2 DEF DrainMonitor
  <2>3. CASE Poll \/ Interrupted \/ Drained \/ RequestAgain \/ TickReconcile \/ Leave
    BY <2>3 DEF Poll, Interrupted, Drained, RequestAgain, TickReconcile, Leave, ReactorTypeOK
  <2> QED
    BY <2>1, <2>2, <2>3
<1>5. hot' \in SUBSET Slot /\ woken' \in BOOLEAN
  BY DEF StartMonitor, Poll, Interrupted, Drained, DrainMonitor, RequestAgain, TickReconcile,
     Leave, ReactorTypeOK, Used
<1>6. monitorPending' \in BOOLEAN /\ phase' \in Phases /\ news' \in BOOLEAN
  <2>1. CASE DrainMonitor
    <3>1. phase' = "tick" /\ news' = TRUE /\ (ReceiveFails \/ ReadBudget)
      BY <2>1 DEF DrainMonitor
    <3>2. ReadBudget => monitorPending' = (listing + events >= MonitorBudget)
      BY DEF ReadBudget
    <3>3. monitorPending' \in BOOLEAN
      <4>1. (listing + events >= MonitorBudget) \in BOOLEAN
        OBVIOUS
      <4> QED
        BY <3>1, <3>2, <4>1, Zenon DEF ReceiveFails
    <3> QED
      BY <3>1, <3>3
  <2>2. CASE StartMonitor \/ Poll \/ Interrupted \/ Drained \/ RequestAgain \/ TickReconcile \/ Leave
    BY <2>2 DEF StartMonitor, Poll, Interrupted, Drained, RequestAgain, TickReconcile, Leave,
       ReactorTypeOK
  <2> QED
    BY <2>1, <2>2
<1> QED
  BY <1>1, <1>2, <1>3, <1>4, <1>5, <1>6 DEF ReactorTypeOK

\* The steps of the loop that fill or free slots.
LEMMA SlotsType ==
  ASSUME ReactorTypeOK, Order,
         \/ \E r \in Root : StartSingle(r)
         \/ \E s \in Slot : Drain(s)
         \/ TickPointer \/ TakeSnapshot \/ AddNext \/ Close
  PROVE  ReactorTypeOK'
<1> USE BudgetAssumption DEF batch, queue, discovery, socket, world, Phases
<1>1. ASSUME NEW r \in Root, StartSingle(r)
      PROVE  ReactorTypeOK'
  <2>1. slots' \in [Slot -> Root \cup {NoRoot}] /\ dead' \in SUBSET Used'
    BY <1>1, AddPathLeaves DEF StartSingle
  <2> QED
    BY <1>1, <2>1 DEF StartSingle, ReactorTypeOK
<1>2. ASSUME NEW s \in Slot, Drain(s)
      PROVE  ReactorTypeOK'
  <2>1. CASE UNCHANGED <<slots, dead>> /\ phase' = phase
    <3>1. Used' = Used
      BY <2>1 DEF Used
    <3> QED
      BY <1>2, <2>1, <3>1 DEF Drain, ReactorTypeOK
  <2>2. CASE Vacate({s}) /\ phase' \in {"done", phase}
    <3>1. slots' \in [Slot -> Root \cup {NoRoot}] /\ dead' \in SUBSET Used'
      BY <2>2, VacateLeaves
    <3> QED
      BY <1>2, <2>2, <3>1 DEF Drain, ReactorTypeOK
  <2> QED
    BY <1>2, <2>1, <2>2 DEF Drain
<1>3. CASE TickPointer
  <2>1. PICK failed \in SUBSET Used : Vacate(failed)
    BY <1>3 DEF TickPointer
  <2>2. slots' \in [Slot -> Root \cup {NoRoot}] /\ dead' \in SUBSET Used'
    BY <2>1, VacateLeaves DEF Used
  <2>3. phase' \in Phases
    BY <1>3 DEF TickPointer
  <2> QED
    BY <1>3, <2>2, <2>3 DEF TickPointer, ReactorTypeOK
<1>4. CASE TakeSnapshot
  <2>1. slots' \in [Slot -> Root \cup {NoRoot}] /\ dead' \in SUBSET Used'
    <3>1. CASE UNCHANGED <<slots, dead>>
      BY <3>1 DEF Used, ReactorTypeOK
    <3>2. CASE Vacate(Missing)
      BY <3>2, VacateLeaves DEF Missing, Used
    <3> QED
      BY <1>4, <3>1, <3>2 DEF TakeSnapshot
  <2>2. additions' \in Seq(Root)
    <3>1. CASE \E order \in SetToSeqs(Queued) : additions' = additions \o order
      BY <3>1, QueuedOrder DEF ReactorTypeOK
    <3>2. CASE UNCHANGED additions
      BY <3>2 DEF ReactorTypeOK
    <3> QED
      BY <1>4, <3>1, <3>2 DEF TakeSnapshot
  <2>3. /\ snapshotPending' \in BOOLEAN /\ answer' \in {"none", "listed", "failed"}
        /\ found' \in SUBSET Root /\ phase' = "add" /\ setups' = 0
    BY <1>4 DEF TakeSnapshot, ReactorTypeOK
  <2> QED
    BY <1>4, <2>1, <2>2, <2>3 DEF TakeSnapshot, ReactorTypeOK
<1>5. CASE AddNext
  <2>1. Head(additions) \in Root /\ Tail(additions) \in Seq(Root)
    BY <1>5 DEF AddNext, ReactorTypeOK
  <2>2. slots' \in [Slot -> Root \cup {NoRoot}] /\ dead' \in SUBSET Used'
    BY <1>5, <2>1, AddPathLeaves DEF AddNext
  <2>3. setups' \in 0..SetupBudget
    BY <1>5 DEF AddNext, ReactorTypeOK
  <2> QED
    BY <1>5, <2>1, <2>2, <2>3 DEF AddNext, ReactorTypeOK
<1>6. CASE Close
  <2>1. slots' \in [Slot -> Root \cup {NoRoot}] /\ dead' \in SUBSET Used'
    BY <1>6 DEF Close
  <2>2. <<>> \in Seq(Root)
    OBVIOUS
  <2>3. UNCHANGED <<present, ready>> /\ single' \in BOOLEAN /\ phase' = "start"
    BY <1>6 DEF Close
  <2>4. /\ listing' = 0 /\ events' = 0 /\ overrun' = FALSE
        /\ hot' = {} /\ woken' = FALSE /\ setups' = 0
        /\ monitorPending' = FALSE /\ snapshotPending' = FALSE
        /\ reconcileAgain' = FALSE /\ additions' = <<>>
        /\ requested' = FALSE /\ worker' = "idle" /\ scan' = {} /\ found' = {}
        /\ answer' = "none" /\ news' = FALSE
    BY <1>6 DEF Close
  <2>5. additions' \in Seq(Root)
    BY <2>2, <2>4
  <2>6. ready' \in SUBSET present' /\ present' \in SUBSET Root
    BY <2>3 DEF ReactorTypeOK
  <2>7. listing' \in Nat /\ events' \in 0..MaxEvents /\ setups' \in 0..SetupBudget
    BY <2>4
  <2>8. hot' \in SUBSET Slot /\ scan' \in SUBSET Root /\ found' \in SUBSET Root
    BY <2>4
  <2> QED
    BY <2>1, <2>3, <2>4, <2>5, <2>6, <2>7, <2>8 DEF ReactorTypeOK
<1> QED
  BY <1>1, <1>2, <1>3, <1>4, <1>5, <1>6

LEMMA ReactorTypeStep ==
  ASSUME ReactorTypeOK, Order, [ReactorNext]_vars
  PROVE  ReactorTypeOK'
<1>1. CASE UNCHANGED vars
  BY <1>1 DEF vars, batch, ReactorTypeOK, Used
<1>2. CASE ReactorNext
  BY <1>2, OutsideType, FlagsType, SlotsType DEF ReactorNext, Loop
<1> QED
  BY <1>1, <1>2

(***************************************************************************)
(* The order of requests, enumerations, answers and additions.             *)
(***************************************************************************)
LEMMA OrderStep ==
  ASSUME ReactorTypeOK, Order, [ReactorNext]_vars
  PROVE  Order'
<1> USE DEF Order, batch, queue, discovery, socket, world
<1>1. ASSUME NEW r \in Root, Plug(r) \/ Unplug(r) \/ ToggleReady(r)
      PROVE  Order'
  BY <1>1 DEF Plug, Unplug, ToggleReady
<1>2. CASE Worker \/ WorkerStops
  BY <1>2 DEF Worker, WorkerStops, StartScan, LookUp, FinishScan, FailScan
<1>3. RequestReconcile /\ UNCHANGED <<additions, worker, answer>> /\ phase' # "start" => Order'
  BY DEF RequestReconcile
<1>4. CASE StartMonitor
  <2>1. CASE RequestReconcile /\ phase' = "poll"
    BY <1>3, <1>4, <2>1 DEF StartMonitor
  <2>2. CASE UNCHANGED <<snapshotPending, requested, reconcileAgain>> /\ phase' = "done"
    BY <1>4, <2>2 DEF StartMonitor
  <2> QED
    BY <1>4, <2>1, <2>2 DEF StartMonitor
<1>5. CASE DrainMonitor \/ TickReconcile
  BY <1>3, <1>5 DEF DrainMonitor, TickReconcile
<1>6. ASSUME NEW r \in Root, StartSingle(r)
      PROVE  Order'
  BY <1>6 DEF StartSingle
<1>7. ASSUME NEW s \in Slot, Drain(s)
      PROVE  Order'
  BY <1>7 DEF Drain
<1>8. CASE Poll \/ Interrupted \/ Drained \/ TickPointer \/ Leave
  BY <1>8 DEF Poll, Interrupted, Drained, TickPointer, Leave
<1>9. CASE TakeSnapshot
  <2>1. CASE UNCHANGED <<snapshotPending, answer, found, slots, dead, additions>>
    BY <1>9, <2>1 DEF TakeSnapshot
  <2>2. CASE snapshotPending /\ (answer # "none" \/ worker = "stopped")
             /\ snapshotPending' = FALSE /\ answer' = "none"
    BY <1>9, <2>2 DEF TakeSnapshot
  <2> QED
    BY <1>9, <2>1, <2>2 DEF TakeSnapshot
<1>10. CASE AddNext
  BY <1>10 DEF AddNext
<1>11. CASE RequestAgain
  BY <1>11 DEF RequestAgain
<1>12. CASE Close
  BY <1>12 DEF Close
<1>13. CASE UNCHANGED vars
  BY <1>13 DEF vars
<1> QED
  BY <1>1, <1>2, <1>4, <1>5, <1>6, <1>7, <1>8, <1>9, <1>10, <1>11, <1>12, <1>13
  DEF ReactorNext, World, Loop

(***************************************************************************)
(* Sessions follow the snapshot.                                           *)
(***************************************************************************)
LEMMA AliveStep ==
  ASSUME ReactorTypeOK, Order, Alive, [ReactorNext]_vars
  PROVE  Alive'
<1> USE DEF batch, queue, discovery, socket, world
<1>1. ASSUME UNCHANGED <<slots, dead, present, worker, scan, found, answer>>
      PROVE  Alive'
  BY <1>1 DEF Alive, Live, Used
<1>2. ASSUME NEW gone \in SUBSET Slot, Vacate(gone), UNCHANGED <<present, worker, scan, found, answer>>
      PROVE  Alive'
  BY <1>2, VacateLeaves DEF Alive, Live, Used
<1>3. ASSUME NEW r \in Root, AddPath(r), ~snapshotPending, UNCHANGED <<present, worker, scan, found, answer>>
      PROVE  Alive'
  <2>1. worker # "scanning" /\ answer # "listed"
    BY <1>3 DEF Order
  <2>2. CASE slots' = slots
    BY <1>1, <1>3, <2>2, AddPathLeaves
  <2>3. CASE slots' # slots
    <3>1. PICK s \in Slot \ Used : /\ slots' = [slots EXCEPT ![s] = r]
                                   /\ Live' = Live \cup {s} /\ r \in present
      BY <1>3, <2>3, AddPathLeaves
    <3>2. \A t \in Live' : slots'[t] \in present
      BY <3>1 DEF Alive, Live, Used, ReactorTypeOK
    <3> QED
      BY <1>3, <2>1, <3>2 DEF Alive
  <2> QED
    BY <2>2, <2>3
<1>4. ASSUME NEW r \in Root, Plug(r)
      PROVE  Alive'
  BY <1>4 DEF Plug, Alive, Live, Used
<1>5. ASSUME NEW r \in Root, Unplug(r)
      PROVE  Alive'
  <2>1. Live' \subseteq Live /\ \A s \in Live' : slots[s] # r
    BY <1>5 DEF Unplug, Live, Used
  <2> QED
    BY <1>5, <2>1 DEF Unplug, Alive
<1>6. ASSUME NEW r \in Root, ToggleReady(r)
      PROVE  Alive'
  BY <1>1, <1>6 DEF ToggleReady
<1>7. CASE Worker \/ WorkerStops
  <2>1. Live' = Live /\ slots' = slots /\ present' = present
    BY <1>7 DEF Worker, WorkerStops, StartScan, LookUp, FinishScan, FailScan, Live, Used
  <2>2. CASE StartScan
    BY <2>1, <2>2 DEF StartScan, Alive, Order
  <2>3. ASSUME NEW r \in Root, LookUp(r)
        PROVE  Alive'
    BY <2>1, <2>3 DEF LookUp, Alive, Order
  <2>4. CASE FinishScan
    BY <2>1, <2>4 DEF FinishScan, Alive
  <2>5. CASE FailScan \/ WorkerStops
    BY <2>1, <2>5 DEF FailScan, WorkerStops, Alive
  <2> QED
    BY <1>7, <2>2, <2>3, <2>4, <2>5 DEF Worker
<1>8. CASE \/ StartMonitor \/ Poll \/ Interrupted \/ Drained \/ DrainMonitor
           \/ RequestAgain \/ TickReconcile \/ Leave
  BY <1>1, <1>8 DEF StartMonitor, Poll, Interrupted, Drained, DrainMonitor, RequestAgain,
     TickReconcile, Leave
<1>9. ASSUME NEW r \in Root, StartSingle(r)
      PROVE  Alive'
  BY <1>3, <1>9 DEF StartSingle, Order
<1>10. ASSUME NEW s \in Slot, Drain(s)
       PROVE  Alive'
  BY <1>1, <1>2, <1>10 DEF Drain
<1>11. CASE TickPointer
  BY <1>2, <1>11 DEF TickPointer, Used
<1>12. CASE TakeSnapshot
  <2>1. present' = present /\ worker' = worker /\ scan' = scan
    BY <1>12 DEF TakeSnapshot
  <2>2. CASE UNCHANGED <<answer, found, slots, dead>>
    BY <1>1, <2>1, <2>2
  <2>3. CASE /\ snapshotPending /\ (answer # "none" \/ worker = "stopped") /\ answer' = "none"
             /\ Vacate(Missing) \/ UNCHANGED <<slots, dead>>
    <3>1. worker # "scanning"
      BY <2>3 DEF Order
    <3>2. \A s \in Live' : s \in Live /\ slots'[s] = slots[s]
      <4>1. CASE Vacate(Missing)
        BY <4>1, VacateLeaves DEF Missing, Used, Live
      <4>2. CASE UNCHANGED <<slots, dead>>
        BY <4>2 DEF Live, Used
      <4> QED
        BY <2>3, <4>1, <4>2
    <3> QED
      BY <2>1, <2>3, <3>1, <3>2 DEF Alive
  <2> QED
    BY <1>12, <2>2, <2>3 DEF TakeSnapshot
<1>13. CASE AddNext
  <2>1. Head(additions) \in Root /\ ~snapshotPending
    BY <1>13 DEF AddNext, Order, ReactorTypeOK
  <2> QED
    BY <1>3, <1>13, <2>1 DEF AddNext
<1>14. CASE Close
  BY <1>14 DEF Close, Alive, Live, Used
<1>15. CASE UNCHANGED vars
  BY <1>1, <1>15 DEF vars
<1> QED
  BY <1>4, <1>5, <1>6, <1>7, <1>8, <1>9, <1>10, <1>11, <1>12, <1>13, <1>14, <1>15
  DEF ReactorNext, World, Loop

(***************************************************************************)
(* One session per controller.                                             *)
(***************************************************************************)
LEMMA OneSessionStep ==
  ASSUME ReactorTypeOK, Order, OneSession, [ReactorNext]_vars
  PROVE  OneSession'
<1> USE DEF batch, queue, discovery, socket, world
<1>1. ASSUME UNCHANGED <<slots, additions>>
      PROVE  OneSession'
  BY <1>1 DEF OneSession, Owned, Used
<1>2. ASSUME NEW gone \in SUBSET Slot, Vacate(gone), UNCHANGED additions
      PROVE  OneSession'
  BY <1>2, VacateLeaves DEF OneSession, Used
<1>3. ASSUME NEW r \in Root, AddPath(r), r \notin ToSet(additions'),
             IsInjective(additions'), ToSet(additions') \subseteq ToSet(additions)
      PROVE  OneSession'
  <2>1. CASE slots' = slots
    BY <1>3, <2>1 DEF OneSession, Owned, Used
  <2>2. CASE slots' # slots
    <3>1. PICK s \in Slot \ Used : slots' = [slots EXCEPT ![s] = r] /\ Used' = Used \cup {s}
      BY <1>3, <2>2, AddPathLeaves
    <3>2. r \notin Owned /\ Owned' = Owned \cup {r}
      BY <1>3, <2>2, AddPathLeaves
    <3>3. \A t \in Used : slots[t] # r
      BY <3>2, RootAssumption DEF Owned, Used
    <3>4. \A t, u \in Used' : slots'[t] = slots'[u] => t = u
      BY <3>1, <3>3 DEF OneSession, Used, ReactorTypeOK
    <3> QED
      BY <1>3, <3>2, <3>4 DEF OneSession
  <2> QED
    BY <2>1, <2>2
<1>4. CASE World \/ Worker \/ WorkerStops
  BY <1>1, <1>4 DEF World, Plug, Unplug, ToggleReady, Worker, WorkerStops, StartScan, LookUp,
     FinishScan, FailScan
<1>5. CASE \/ StartMonitor \/ Poll \/ Interrupted \/ Drained \/ DrainMonitor
           \/ RequestAgain \/ TickReconcile \/ Leave
  BY <1>1, <1>5 DEF StartMonitor, Poll, Interrupted, Drained, DrainMonitor, RequestAgain,
     TickReconcile, Leave
<1>6. ASSUME NEW r \in Root, StartSingle(r)
      PROVE  OneSession'
  <2>1. additions = <<>> /\ additions' = additions
    BY <1>6 DEF StartSingle, Order
  <2> QED
    BY <1>3, <1>6, <2>1 DEF StartSingle, ToSet, OneSession
<1>7. ASSUME NEW s \in Slot, Drain(s)
      PROVE  OneSession'
  BY <1>1, <1>2, <1>7 DEF Drain
<1>8. CASE TickPointer
  BY <1>2, <1>8 DEF TickPointer, Used
<1>9. CASE TakeSnapshot
  <2>1. CASE UNCHANGED <<slots, additions>>
    BY <1>1, <2>1
  <2>2. CASE snapshotPending /\ Vacate(Missing)
             /\ \E order \in SetToSeqs(Queued) : additions' = additions \o order
    <3>1. PICK order \in SetToSeqs(Queued) : additions' = additions \o order
      BY <2>2
    <3>2. order \in Seq(Root)
      BY <3>1, QueuedOrder
    <3>3. additions' = order
      BY <2>2, <3>1, <3>2 DEF Order
    <3>4. IsInjective(additions') /\ ToSet(additions') \cap Owned = {}
      BY <3>1, <3>3, QueuedOrder DEF IsInjective, ToSet
    <3>5. Owned' \subseteq Owned /\ \A s, t \in Used' : slots'[s] = slots'[t] => s = t
      BY <2>2, VacateLeaves DEF Missing, OneSession, Used
    <3> QED
      BY <3>4, <3>5 DEF OneSession
  <2> QED
    BY <1>9, <2>1, <2>2 DEF TakeSnapshot
<1>10. CASE AddNext
  <2> DEFINE r == Head(additions)
  <2>1. additions \in Seq(Root) /\ additions # <<>> /\ additions' = Tail(additions) /\ AddPath(r)
    BY <1>10 DEF AddNext, ReactorTypeOK
  <2>2. r \in Root /\ r = additions[1] /\ 1 \in DOMAIN additions
    BY <2>1
  <2>3. \A i \in DOMAIN additions' : /\ i + 1 \in DOMAIN additions /\ i + 1 # 1
                                     /\ additions'[i] = additions[i + 1]
    BY <2>1
  <2>4. DOMAIN additions' \subseteq Nat
    BY <2>1
  <2>5. IsInjective(additions')
    <3> SUFFICES ASSUME NEW i \in DOMAIN additions', NEW j \in DOMAIN additions',
                        additions'[i] = additions'[j]
                 PROVE  i = j
      BY DEF IsInjective
    <3>1. i + 1 = j + 1
      BY <2>3 DEF OneSession, IsInjective
    <3> QED
      BY <2>4, <3>1
  <2>6. ToSet(additions') \subseteq ToSet(additions)
    BY <2>3 DEF ToSet
  <2>7. r \notin ToSet(additions')
    BY <2>2, <2>3 DEF ToSet, OneSession, IsInjective
  <2> QED
    BY <1>3, <2>1, <2>2, <2>5, <2>6, <2>7
<1>11. CASE Close
  BY <1>11 DEF Close, OneSession, Owned, Used, IsInjective, ToSet
<1>12. CASE UNCHANGED vars
  BY <1>1, <1>12 DEF vars
<1> QED
  BY <1>4, <1>5, <1>6, <1>7, <1>8, <1>9, <1>10, <1>11, <1>12 DEF ReactorNext, Loop

LEMMA ReactorNextInv == ReactorInv /\ [ReactorNext]_vars => ReactorInv'
BY ReactorTypeStep, OrderStep, AliveStep, OneSessionStep DEF ReactorInv

(***************************************************************************)
(* A step keeps the news: only a new enumeration, the worker's death or    *)
(* the end of the loop excuses both flags.                                 *)
(***************************************************************************)
LEMMA NewsKeptStep ==
  ASSUME NewsKept, [ReactorNext]_vars
  PROVE  NewsKept'
<1> USE DEF NewsKept, batch, queue, discovery, socket, world
<1>1. ASSUME UNCHANGED <<news, worker, requested, reconcileAgain>>, phase = "done" => phase' = "done"
      PROVE  NewsKept'
  BY <1>1
<1>2. ASSUME RequestReconcile, UNCHANGED worker
      PROVE  NewsKept'
  BY <1>2 DEF RequestReconcile
<1>3. CASE World
  BY <1>1, <1>3 DEF World, Plug, Unplug, ToggleReady
<1>4. CASE Worker \/ WorkerStops
  BY <1>4 DEF Worker, WorkerStops, StartScan, LookUp, FinishScan, FailScan
<1>5. CASE StartMonitor
  <2>1. phase = "start" /\ UNCHANGED <<worker, news>>
    BY <1>5 DEF StartMonitor
  <2>2. CASE RequestReconcile
    BY <1>2, <2>1, <2>2
  <2>3. CASE UNCHANGED <<requested, reconcileAgain>> /\ phase' = "done"
    BY <1>1, <2>1, <2>3
  <2> QED
    BY <1>5, <2>2, <2>3 DEF StartMonitor
<1>6. CASE DrainMonitor \/ TickReconcile
  BY <1>2, <1>6 DEF DrainMonitor, TickReconcile
<1>7. CASE (\E r \in Root : StartSingle(r)) \/ (\E s \in Slot : Drain(s))
  BY <1>1, <1>7 DEF StartSingle, Drain
<1>8. CASE \/ Poll \/ Interrupted \/ Drained \/ TickPointer \/ TakeSnapshot \/ AddNext \/ Leave
  BY <1>1, <1>8 DEF Poll, Interrupted, Drained, TickPointer, TakeSnapshot, AddNext, Leave
<1>9. CASE RequestAgain
  BY <1>9 DEF RequestAgain
<1>10. CASE Close
  BY <1>10 DEF Close
<1>11. CASE UNCHANGED vars
  BY <1>1, <1>11 DEF vars
<1> QED
  BY <1>3, <1>4, <1>5, <1>6, <1>7, <1>8, <1>9, <1>10, <1>11 DEF ReactorNext, Loop

(***************************************************************************)
(* The theorems.                                                           *)
(***************************************************************************)
\* The order of discovery, the live sessions' place in it and the slots agree in
\* every state of Runtime and its worker.
THEOREM ReactorInvariant == ReactorSpec => []ReactorInv
<1>1. ReactorInit => ReactorInv
  BY ReactorInitInv
<1>2. ReactorInv /\ [ReactorNext]_vars => ReactorInv'
  BY ReactorNextInv
<1> QED
  BY <1>1, <1>2, PTL DEF ReactorSpec

\* Every variable of the reactor, its monitor and its worker keeps its values.
THEOREM ReactorTypeCorrect == ReactorSpec => []ReactorTypeOK
<1>1. ReactorInv => ReactorTypeOK
  BY DEF ReactorInv
<1> QED
  BY <1>1, ReactorInvariant, PTL

\* No controller has two of the slots or waits for a second one (add_path and
\* service_discovery), whatever snapshots, failures and removals come between.
THEOREM ReactorOneSession == ReactorSpec => []OneSession
<1>1. ReactorInv => OneSession
  BY DEF ReactorInv
<1> QED
  BY <1>1, ReactorInvariant, PTL

\* request_reconcile and the end of service_discovery forget no drained uevent.
THEOREM ReactorNewsKept == ReactorSpec => []NewsKept
<1>1. ReactorInit => NewsKept
  BY DEF ReactorInit, NewsKept
<1>2. NewsKept /\ [ReactorNext]_vars => NewsKept'
  BY NewsKeptStep
<1> QED
  BY <1>1, <1>2, PTL DEF ReactorSpec

\* missing_slots removes only sessions whose controller left while they lasted,
\* although the snapshot was enumerated one device at a time and some time ago.
THEOREM ReactorRemovalJustified == ReactorSpec => RemovalJustified
<1>1. ReactorInv /\ [ReactorNext]_vars
        => [TakeSnapshot => \A s \in Used : slots'[s] = NoRoot => s \in dead]_vars
  <2> SUFFICES ASSUME ReactorInv, TakeSnapshot, NEW s \in Used, slots'[s] = NoRoot
               PROVE  s \in dead
    OBVIOUS
  <2>1. slots[s] # NoRoot /\ s \in Slot
    BY DEF Used
  <2>2. CASE UNCHANGED <<slots, dead>>
    BY <2>1, <2>2
  <2>3. CASE Listed /\ Vacate(Missing)
    <3>1. s \in Missing
      BY <2>1, <2>3, VacateLeaves DEF ReactorInv, Missing, Used
    <3> QED
      BY <2>3, <3>1 DEF ReactorInv, Alive, Live, Listed, Missing
  <2> QED
    BY <2>2, <2>3 DEF TakeSnapshot
<1> QED
  BY <1>1, ReactorInvariant, PTL DEF ReactorSpec, RemovalJustified
=============================================================================
