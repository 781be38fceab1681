------------------------- MODULE ControlCenterProofs -------------------------
(***************************************************************************)
(* Theorems about ControlCenter for any targets, configurations and number *)
(* of edits: files hold only what the daemon program accepted, and no edit *)
(* is forgotten.                                                           *)
(***************************************************************************)
EXTENDS ControlCenter, TLAPS

Process ==
    [ph : {"idle", "spawning", "gap", "waiting", "joining", "finished"},
     child : {"none", "alive", "dead"}, reader : {"off", "reading", "blocked"},
     kill : BOOLEAN, shot : BOOLEAN, held : BOOLEAN, ok : BOOLEAN, gone : BOOLEAN]

Transaction ==
    [kind : {"load", "save"}, revision : Nat, target : Path, captured : Content,
     restart : BOOLEAN]

FormTypes ==
    /\ form \in Content /\ path \in Path /\ revision \in Nat
    /\ files \in [Path -> Content] /\ validated \subseteq Content
    /\ edits \in {"none", "old", "new"}

TxnTypes ==
    /\ txn \in Transaction \cup {NoTxn}
    /\ worker = "none" <=> txn.kind = "none"

ProcTypes == proc \in [Task -> Process]

Types == FormTypes /\ TxnTypes /\ ProcTypes

(***************************************************************************)
(* A snapshot is renamed over its target only after the daemon program     *)
(* accepted that snapshot.                                                 *)
(***************************************************************************)
Accepted ==
    txn.kind = "save" =>
        /\ worker = "process" /\ proc["config"].ok => txn.captured \in validated
        /\ worker = "persist" => txn.captured \in validated

(***************************************************************************)
(* An edit after the beginning of a transaction has a later revision.      *)
(***************************************************************************)
Revisions ==
    Open /\ txn.kind # "none" =>
        txn.revision <= revision /\ (edits = "new" => txn.revision < revision)

ControlCenterInv == Types /\ Accepted /\ Revisions /\ FileValidated /\ EditsReported

USE DEF modelVars, configVars, serviceVars, windowVars

-----------------------------------------------------------------------------
(***************************************************************************)
(* Subprocesses.                                                           *)
(***************************************************************************)
LEMMA IdleType == Idle \in Process /\ Spawning \in Process /\ ~Idle.ok /\ ~Spawning.ok
BY DEF Idle, Spawning, Process

LEMMA TerminatedType ==
  ASSUME NEW p \in Process
  PROVE  /\ Terminated(p) \in Process /\ Terminated(p).ok = p.ok
         /\ Dropped(p) \in Process /\ Dropped(p).ok = p.ok
<1>1. (p.ph # "finished") \in BOOLEAN /\ (p.shot \/ p.ph = "waiting") \in BOOLEAN
  OBVIOUS
<1>2. Terminated(p) = [p EXCEPT !.kill = p.ph # "finished", !.shot = p.shot \/ p.ph = "waiting"]
  BY Zenon DEF Terminated
<1>3. Terminated(p) \in Process /\ Terminated(p).ok = p.ok
  BY <1>1, <1>2 DEF Process
<1>4. [Terminated(p) EXCEPT !.gone = TRUE] \in Process /\ [Terminated(p) EXCEPT !.gone = TRUE].ok = p.ok
  BY <1>3 DEF Process
<1> QED
  BY <1>3, <1>4 DEF Dropped

\* A step of a child or a thread of a subprocess.
ProcessStep(t) ==
    RunsThrough(t) \/ Threads(t) \/ ChildExits(t) \/ ReaderBlocks(t)

\* It changes nothing but the subprocess, and the child of a save succeeds
\* only by accepting the snapshot.
LEMMA ProcessStepFrame ==
  ASSUME Types, NEW t \in Task, ProcessStep(t)
  PROVE  /\ UNCHANGED <<modelVars, configVars, files, serviceVars, capture, windowVars, edits>>
         /\ \E p \in Process : proc' = [proc EXCEPT ![t] = p] /\ (p.ok => proc[t].ok \/ Accepts(t, TRUE))
         /\ validated \subseteq validated' /\ validated' \subseteq Content
<1>0. proc[t] \in Process
  BY DEF Types, ProcTypes
<1> DEFINE Goal ==
      /\ UNCHANGED <<modelVars, configVars, files, serviceVars, capture, windowVars, edits>>
      /\ \E p \in Process : proc' = [proc EXCEPT ![t] = p] /\ (p.ok => proc[t].ok \/ Accepts(t, TRUE))
      /\ validated \subseteq validated' /\ validated' \subseteq Content
<1>1. ASSUME NEW p \in Process, ProcStep(t, p), p.ok => proc[t].ok, validated' = validated
      PROVE  Goal
  BY <1>1 DEF ProcStep, Types, FormTypes
<1>2. ASSUME NEW ok \in BOOLEAN, Accepts(t, ok)
      PROVE  /\ validated \subseteq validated' /\ validated' \subseteq Content
             /\ ok => Accepts(t, TRUE)
  BY <1>2 DEF Accepts, Types, FormTypes, TxnTypes, Transaction, NoTxn
<1>3. CASE RunsThrough(t)
  <2>1. PICK ok \in {FALSE, ~proc[t].kill} :
           ProcStep(t, [proc[t] EXCEPT !.ph = "finished", !.ok = ok]) /\ Accepts(t, ok)
    BY <1>3 DEF RunsThrough
  <2>2. ok \in BOOLEAN
    BY <1>0 DEF Process
  <2>3. [proc[t] EXCEPT !.ph = "finished", !.ok = ok] \in Process
        /\ [proc[t] EXCEPT !.ph = "finished", !.ok = ok].ok = ok
    BY <1>0, <2>2 DEF Process
  <2> QED
    BY <1>2, <2>1, <2>2, <2>3 DEF ProcStep
<1>4. CASE ChildExits(t)
  <2>1. PICK ok \in {FALSE, ~proc[t].shot}, held \in {FALSE, t # "service"} :
           /\ ProcStep(t, [proc[t] EXCEPT !.child = "dead", !.ok = ok, !.held = held])
           /\ Accepts(t, ok)
    BY <1>4 DEF ChildExits
  <2>2. ok \in BOOLEAN /\ held \in BOOLEAN
    BY <1>0 DEF Process
  <2>3. [proc[t] EXCEPT !.child = "dead", !.ok = ok, !.held = held] \in Process
        /\ [proc[t] EXCEPT !.child = "dead", !.ok = ok, !.held = held].ok = ok
    BY <1>0, <2>2 DEF Process
  <2> QED
    BY <1>2, <2>1, <2>2, <2>3 DEF ProcStep
<1>5. CASE Spawn(t)
  BY <1>0, <1>1, <1>5 DEF Spawn, Process
<1>6. CASE Publish(t)
  BY <1>0, <1>1, <1>6 DEF Publish, Process
<1>7. CASE Reap(t)
  BY <1>0, <1>1, <1>7 DEF Reap, Process
<1>8. CASE ReaderBlocks(t)
  BY <1>0, <1>1, <1>8 DEF ReaderBlocks, Process
<1>9. CASE ReaderEnds(t)
  BY <1>0, <1>1, <1>9 DEF ReaderEnds, Process
<1>10. CASE Drain(t)
  BY <1>0, <1>1, <1>10 DEF Drain, Process
<1>11. CASE Join(t)
  BY <1>0, <1>1, <1>11 DEF Join, Idle, Process
<1> QED
  BY <1>3, <1>4, <1>5, <1>6, <1>7, <1>8, <1>9, <1>10, <1>11 DEF ProcessStep, Threads

-----------------------------------------------------------------------------
(***************************************************************************)
(* The parts of the invariant.                                             *)
(***************************************************************************)
\* A transaction takes a snapshot of what the form is.
LEMMA BeginType ==
  ASSUME Types, NEW kind \in {"load", "save"}, NEW restart \in BOOLEAN, Begin(kind, restart)
  PROVE  /\ txn' \in Transaction /\ worker' = "prepare" /\ txn'.revision = revision
         /\ edits' \in {"none", "old"} /\ (edits = "none" => edits' = "none")
BY ContentAssumption DEF Types, FormTypes, TxnTypes, Begin, Transaction

\* A window that closes takes the form with it, and gives up its tasks.
LEMMA CloseType ==
  ASSUME Types, CloseWindow
  PROVE  /\ form' \in Content /\ path' \in Path /\ revision' \in Nat
         /\ proc' \in [Task -> Process] /\ proc'["config"] = proc["config"]
         /\ app' = "closed"
<1>1. form' \in Content /\ path' \in Path /\ revision' \in Nat /\ app' = "closed"
  BY ContentAssumption, PathAssumption DEF CloseWindow
<1>2. proc' = [t \in Task |-> IF t = "config" THEN proc[t] ELSE Dropped(proc[t])]
  BY DEF CloseWindow
<1>3. proc' \in [Task -> Process] /\ proc'["config"] = proc["config"]
  BY <1>2, TerminatedType DEF Types, ProcTypes, Task
<1> QED
  BY <1>1, <1>3

\* Every variable keeps its values.
LEMMA FormTypesStep ==
  ASSUME Types, [ControlCenterNext]_vars
  PROVE  FormTypes'
<1> USE DEF Types, FormTypes
<1>1. CASE UNCHANGED vars
  BY <1>1 DEF vars
<1>2. ASSUME NEW t \in Task, ProcessStep(t)
      PROVE  FormTypes'
  BY <1>2, ProcessStepFrame
<1>3. CASE Persist
  BY <1>3 DEF Persist, WorkerFails, WorkerStep, Written, TxnTypes, Transaction, NoTxn
<1>4. CASE BeginSave
  BY <1>4, BeginType DEF BeginSave
<1>5. CASE RequestReload
  BY <1>5, BeginType DEF RequestReload
<1>6. CASE Discard
  BY <1>6, BeginType, CloseType DEF Discard
<1>7. CASE RequestClose
  BY <1>7, CloseType DEF RequestClose
<1>8. CASE Edit
  BY <1>8 DEF Edit
<1>9. CASE SetPath
  BY <1>9 DEF SetPath
<1>10. CASE Finish
  BY <1>10 DEF Finish, RequestRestart, Dispatch, TxnTypes, Transaction, NoTxn
<1>11. CASE PollCapture
  BY <1>11 DEF PollCapture, FinishCalibration
<1>12. CASE Prepare \/ RunProcess
  BY <1>12 DEF Prepare, WorkerFails, WorkerStep, RunProcess, WorkerFails, WorkerStep
<1>13. CASE KeepEditing \/ Die \/ ServiceAction \/ PollService \/ StartCapture \/ StopCapture
  BY <1>13 DEF KeepEditing, Die, ServiceAction, Dispatch, PollService, Dispatch, StartCapture, StopCapture
<1> QED
  BY <1>1, <1>2, <1>3, <1>4, <1>5, <1>6, <1>7, <1>8, <1>9, <1>10,
     <1>11, <1>12, <1>13
  DEF ControlCenterNext, ProcessStep

\* There is a transaction while the worker has one.
LEMMA TxnTypesStep ==
  ASSUME Types, [ControlCenterNext]_vars
  PROVE  TxnTypes'
<1> USE DEF Types, TxnTypes
<1>1. CASE UNCHANGED vars
  BY <1>1 DEF vars
<1>2. ASSUME NEW t \in Task, ProcessStep(t)
      PROVE  TxnTypes'
  BY <1>2, ProcessStepFrame DEF Types
<1>3. CASE BeginSave
  BY <1>3, BeginType DEF BeginSave, Transaction
<1>4. CASE RequestReload
  BY <1>4, BeginType DEF RequestReload, Transaction, Types
<1>5. CASE Discard
  BY <1>5, BeginType DEF Discard, CloseWindow, Transaction, Types
<1>6. CASE Die
  BY <1>6 DEF Die, NoTxn
<1>7. CASE Finish
  BY <1>7 DEF Finish, NoTxn
<1>8. CASE Prepare \/ RunProcess \/ Persist
  BY <1>8 DEF Prepare, WorkerFails, WorkerStep, RunProcess, WorkerFails, WorkerStep, Persist, WorkerFails, WorkerStep, Written
<1>9. CASE KeepEditing \/ RequestClose \/ Edit \/ SetPath \/ ServiceAction \/ PollService \/ StartCapture \/ StopCapture \/ PollCapture
  BY <1>9 DEF KeepEditing, RequestClose, CloseWindow, Edit, SetPath, ServiceAction, Dispatch, PollService, Dispatch, StartCapture, StopCapture, PollCapture, FinishCalibration
<1> QED
  BY <1>1, <1>2, <1>3, <1>4, <1>5, <1>6, <1>7, <1>8, <1>9
  DEF ControlCenterNext, ProcessStep

\* Each task has a subprocess or none.
LEMMA ProcTypesStep ==
  ASSUME Types, [ControlCenterNext]_vars
  PROVE  ProcTypes'
<1> USE DEF Types, ProcTypes
<1>1. CASE UNCHANGED vars
  BY <1>1 DEF vars
<1>2. ASSUME NEW t \in Task, ProcessStep(t)
      PROVE  ProcTypes'
  BY <1>2, ProcessStepFrame
<1>3. CASE Prepare
  BY <1>3, IdleType, TerminatedType DEF Prepare, WorkerFails, WorkerStep
<1>4. CASE RunProcess
  BY <1>4, IdleType, TerminatedType DEF RunProcess, WorkerFails, WorkerStep
<1>5. CASE Discard
  BY <1>5, IdleType, TerminatedType DEF Discard, CloseWindow
<1>6. CASE RequestClose
  BY <1>6, IdleType, TerminatedType DEF RequestClose, CloseWindow
<1>7. CASE Die
  BY <1>7, IdleType, TerminatedType DEF Die
<1>8. CASE Finish
  BY <1>8, IdleType, TerminatedType DEF Finish, RequestRestart, Dispatch
<1>9. CASE ServiceAction
  BY <1>9, IdleType, TerminatedType DEF ServiceAction, Dispatch
<1>10. CASE PollService
  BY <1>10, IdleType, TerminatedType DEF PollService, Dispatch
<1>11. CASE StartCapture
  BY <1>11, IdleType, TerminatedType DEF StartCapture
<1>12. CASE StopCapture
  BY <1>12, IdleType, TerminatedType DEF StopCapture
<1>13. CASE PollCapture
  BY <1>13, IdleType, TerminatedType DEF PollCapture, FinishCalibration
<1>14. CASE KeepEditing \/ Edit \/ SetPath
  BY <1>14 DEF KeepEditing, Edit, SetPath
<1>15. CASE BeginSave \/ RequestReload \/ Persist
  BY <1>15 DEF BeginSave, RequestReload, Persist, WorkerFails, WorkerStep, Written
<1> QED
  BY <1>1, <1>2, <1>3, <1>4, <1>5, <1>6, <1>7, <1>8, <1>9, <1>10,
     <1>11, <1>12, <1>13, <1>14, <1>15
  DEF ControlCenterNext, ProcessStep

\* The child of a save succeeds only by accepting the snapshot, and until the
\* transaction ends no other snapshot takes its place.
LEMMA AcceptedStep ==
  ASSUME Types, Accepted, [ControlCenterNext]_vars
  PROVE  Accepted'
<1> USE DEF Accepted
<1>1. CASE UNCHANGED vars
  BY <1>1 DEF vars
<1>2. ASSUME NEW t \in Task, ProcessStep(t)
      PROVE  Accepted'
  <2>1. CASE t = "config"
    BY <1>2, <2>1, ProcessStepFrame DEF Accepts, Types, ProcTypes, Task
  <2>2. CASE t # "config"
    BY <1>2, <2>2, ProcessStepFrame DEF Types, ProcTypes, Task
  <2> QED
    BY <2>1, <2>2
<1>3. CASE Prepare
  BY <1>3, IdleType DEF Prepare, WorkerFails, WorkerStep, Types, ProcTypes, Task
<1>4. CASE RunProcess
  BY <1>4 DEF RunProcess, WorkerFails, WorkerStep
<1>5. CASE BeginSave
  BY <1>5, BeginType DEF BeginSave
<1>6. CASE RequestReload
  BY <1>6, BeginType DEF RequestReload
<1>7. CASE Discard
  BY <1>7, BeginType, CloseType DEF Discard
<1>8. CASE RequestClose
  BY <1>8, CloseType DEF RequestClose
<1>9. CASE Die
  BY <1>9 DEF Die, NoTxn
<1>10. CASE Finish
  BY <1>10 DEF Finish, NoTxn
<1>11. CASE ServiceAction
  BY <1>11 DEF ServiceAction, Dispatch, Types, ProcTypes, Task
<1>12. CASE PollService
  BY <1>12 DEF PollService, Dispatch, Types, ProcTypes, Task
<1>13. CASE StartCapture
  BY <1>13 DEF StartCapture, Types, ProcTypes, Task
<1>14. CASE StopCapture
  BY <1>14 DEF StopCapture, Types, ProcTypes, Task
<1>15. CASE PollCapture
  BY <1>15 DEF PollCapture, Types, ProcTypes, Task
<1>16. CASE Persist
  BY <1>16 DEF Persist, WorkerFails, WorkerStep, Written
<1>17. CASE KeepEditing \/ Edit \/ SetPath
  BY <1>17 DEF KeepEditing, Edit, SetPath
<1> QED
  BY <1>1, <1>2, <1>3, <1>4, <1>5, <1>6, <1>7, <1>8, <1>9, <1>10,
     <1>11, <1>12, <1>13, <1>14, <1>15, <1>16, <1>17
  DEF ControlCenterNext, ProcessStep

\* Only a persisted save changes a file.
LEMMA FileValidatedStep ==
  ASSUME Types, Accepted, FileValidated, [ControlCenterNext]_vars
  PROVE  FileValidated'
<1> USE DEF FileValidated
<1>1. CASE UNCHANGED vars
  BY <1>1 DEF vars
<1>2. ASSUME NEW t \in Task, ProcessStep(t)
      PROVE  FileValidated'
  BY <1>2, ProcessStepFrame
<1>3. CASE Persist
  BY <1>3 DEF Persist, WorkerFails, WorkerStep, Written, Accepted, Types, FormTypes
<1>4. CASE Prepare \/ RunProcess
  BY <1>4 DEF Prepare, WorkerFails, WorkerStep, RunProcess, WorkerFails, WorkerStep
<1>5. CASE BeginSave \/ RequestReload \/ KeepEditing \/ Discard
  BY <1>5 DEF BeginSave, RequestReload, KeepEditing, Discard, CloseWindow
<1>6. CASE RequestClose \/ Die \/ Edit \/ SetPath \/ Finish
  BY <1>6 DEF RequestClose, CloseWindow, Die, Edit, SetPath, Finish, RequestRestart, Dispatch
<1>7. CASE ServiceAction \/ PollService \/ StartCapture \/ StopCapture \/ PollCapture
  BY <1>7 DEF ServiceAction, Dispatch, PollService, Dispatch, StartCapture, StopCapture, PollCapture, FinishCalibration
<1> QED
  BY <1>1, <1>2, <1>3, <1>4, <1>5, <1>6, <1>7
  DEF ControlCenterNext, ProcessStep

\* No edit is later than a transaction that just began.
LEMMA BeginRevisions ==
  ASSUME Types, NEW kind \in {"load", "save"}, NEW restart \in BOOLEAN,
         Begin(kind, restart), UNCHANGED revision
  PROVE  Revisions'
<1>1. /\ txn'.revision = revision /\ edits' \in {"none", "old"}
      /\ revision \in Nat /\ revision' = revision
  BY BeginType DEF Types, FormTypes
<1> QED
  BY <1>1 DEF Revisions

\* Each edit raises the revision.
LEMMA RevisionsStep ==
  ASSUME Types, Revisions, [ControlCenterNext]_vars
  PROVE  Revisions'
<1> USE DEF Revisions
<1>1. CASE UNCHANGED vars
  BY <1>1 DEF vars, Open
<1>2. ASSUME NEW t \in Task, ProcessStep(t)
      PROVE  Revisions'
  BY <1>2, ProcessStepFrame DEF Open
<1>3. CASE BeginSave
  <2>1. UNCHANGED revision /\ \E restart \in BOOLEAN : Begin("save", restart)
    BY <1>3 DEF BeginSave
  <2> QED
    BY <2>1, BeginRevisions
<1>4. CASE RequestReload
  <2>1. CASE dirty
    BY <1>4, <2>1 DEF RequestReload, Open
  <2>2. CASE ~dirty
    BY <1>4, <2>2, BeginRevisions DEF RequestReload
  <2> QED
    BY <2>1, <2>2
<1>5. CASE Discard
  <2>1. CASE Begin("load", FALSE)
    BY <1>5, <2>1, BeginRevisions DEF Discard, CloseWindow, Open
  <2>2. CASE UNCHANGED <<configVars, edits>>
    BY <1>5, <2>2, CloseType DEF Discard, Open
  <2> QED
    BY <1>5, <2>1, <2>2 DEF Discard
<1>6. CASE RequestClose
  BY <1>6, CloseType DEF RequestClose, Open
<1>7. CASE Die
  BY <1>7 DEF Die, NoTxn
<1>8. CASE Edit
  BY <1>8 DEF Edit, Open, Types, FormTypes, TxnTypes, Transaction, NoTxn
<1>9. CASE SetPath
  BY <1>9 DEF SetPath, Open, Types, FormTypes, TxnTypes, Transaction, NoTxn
<1>10. CASE Finish
  BY <1>10 DEF Finish, Open, NoTxn
<1>11. CASE PollCapture
  BY <1>11 DEF PollCapture, Open, Types, FormTypes, TxnTypes, Transaction, NoTxn
<1>12. CASE Prepare \/ RunProcess \/ Persist
  BY <1>12 DEF Open, Prepare, WorkerFails, WorkerStep, RunProcess, WorkerFails, WorkerStep, Persist, WorkerFails, WorkerStep, Written
<1>13. CASE KeepEditing \/ ServiceAction \/ PollService \/ StartCapture \/ StopCapture
  BY <1>13 DEF Open, KeepEditing, ServiceAction, Dispatch, PollService, Dispatch, StartCapture, StopCapture
<1> QED
  BY <1>1, <1>2, <1>3, <1>4, <1>5, <1>6, <1>7, <1>8, <1>9, <1>10,
     <1>11, <1>12, <1>13
  DEF ControlCenterNext, ProcessStep

\* A completion of an older revision leaves the form dirty.
LEMMA EditsStep ==
  ASSUME Types, Revisions, EditsReported, [ControlCenterNext]_vars
  PROVE  EditsReported'
<1> USE DEF EditsReported
<1>1. CASE UNCHANGED vars
  BY <1>1 DEF vars, Open
<1>2. ASSUME NEW t \in Task, ProcessStep(t)
      PROVE  EditsReported'
  <2>1. UNCHANGED <<modelVars, windowVars, edits>>
    BY <1>2, ProcessStepFrame
  <2> QED
    BY <2>1 DEF Open
<1>3. CASE BeginSave
  BY <1>3, BeginType DEF BeginSave, Open, Types, FormTypes
<1>4. CASE RequestReload
  BY <1>4, BeginType DEF RequestReload, Open, Types, FormTypes
<1>5. CASE Discard
  BY <1>5, BeginType, CloseType DEF Discard, Open, Types, FormTypes
<1>6. CASE RequestClose
  BY <1>6, CloseType DEF RequestClose, Open
<1>7. CASE Edit
  BY <1>7 DEF Edit, Open
<1>8. CASE Finish
  <2>1. CASE outcome = "ok" /\ Unchanged
    <3>1. txn.kind # "none" /\ edits # "new"
      BY <1>8, <2>1 DEF Finish, Unchanged, Types, TxnTypes, FormTypes, Revisions, Open
    <3>2. edits' = "none"
      BY <1>8, <2>1, <3>1 DEF Finish, Types, FormTypes
    <3> QED
      BY <3>2
  <2>2. CASE ~(outcome = "ok" /\ Unchanged)
    <3>1. (edits' # "none" => edits # "none") /\ dirty' = dirty /\ app' = app /\ Open
      BY <1>8, <2>2 DEF Finish
    <3> QED
      BY <3>1 DEF Open
  <2> QED
    BY <2>1, <2>2
<1>9. CASE PollCapture
  BY <1>9 DEF PollCapture, Open
<1>10. CASE Prepare \/ RunProcess \/ Persist
  BY <1>10 DEF Open, Prepare, WorkerFails, WorkerStep, RunProcess, WorkerFails, WorkerStep, Persist, WorkerFails, WorkerStep, Written
<1>11. CASE KeepEditing \/ Die \/ SetPath \/ ServiceAction \/ PollService \/ StartCapture \/ StopCapture
  BY <1>11 DEF Open, KeepEditing, Die, SetPath, ServiceAction, Dispatch, PollService, Dispatch, StartCapture, StopCapture
<1> QED
  BY <1>1, <1>2, <1>3, <1>4, <1>5, <1>6, <1>7, <1>8, <1>9, <1>10,
     <1>11
  DEF ControlCenterNext, ProcessStep

-----------------------------------------------------------------------------
LEMMA ControlCenterInitInv == ControlCenterInit => ControlCenterInv
<1> SUFFICES ASSUME ControlCenterInit PROVE ControlCenterInv
  OBVIOUS
<1> USE ContentAssumption, PathAssumption DEF ControlCenterInit
<1>1. FormTypes
  BY DEF FormTypes
<1>2. TxnTypes
  BY DEF TxnTypes, Transaction
<1>3. ProcTypes
  BY IdleType DEF ProcTypes
<1>4. Accepted /\ Revisions /\ EditsReported
  BY DEF Accepted, Revisions, EditsReported
<1>5. FileValidated
  BY DEF FileValidated
<1> QED
  BY <1>1, <1>2, <1>3, <1>4, <1>5 DEF ControlCenterInv, Types

\* What is accepted, the revisions, the files and the edits stay in order,
\* however the window, the worker and the subprocesses interleave.
THEOREM ControlCenterInvariant == ControlCenterSpec => []ControlCenterInv
<1>1. ControlCenterInv /\ [ControlCenterNext]_vars => ControlCenterInv'
  BY FormTypesStep, TxnTypesStep, ProcTypesStep, AcceptedStep, RevisionsStep,
     FileValidatedStep, EditsStep DEF ControlCenterInv, Types
<1> QED
  BY ControlCenterInitInv, <1>1, PTL DEF ControlCenterSpec

\* ConfigTask renames a temporary file over its target only after the daemon
\* program accepted what is in it.
THEOREM ControlCenterFileValidated == ControlCenterSpec => []FileValidated
<1>1. ControlCenterInv => FileValidated
  BY DEF ControlCenterInv
<1> QED
  BY <1>1, ControlCenterInvariant, PTL

\* ConfigModel reports every edit that is on no disk as unsaved, past stale
\* completions (finish_save, finish_load), and a window closes over none
\* without a confirmation.
THEOREM ControlCenterEditsReported == ControlCenterSpec => []EditsReported
<1>1. ControlCenterInv => EditsReported
  BY DEF ControlCenterInv
<1> QED
  BY <1>1, ControlCenterInvariant, PTL
=============================================================================
