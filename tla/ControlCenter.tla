---------------------------- MODULE ControlCenter ----------------------------
(***************************************************************************)
(* The configuration GUI: the form and its transactions                      *)
(* (wiiland-config/src/model.rs), the user interface thread that starts and  *)
(* polls tasks (ui.rs), the worker that loads and saves (config_task.rs) and *)
(* the subprocesses with their pipe readers (process.rs).                    *)
(*                                                                          *)
(* The user edits the form, retargets it, saves, reloads, restarts the       *)
(* service, calibrates, stops a capture and closes the window at any time;   *)
(* each task goes on by itself between two looks of the user interface.      *)
(***************************************************************************)
EXTENDS Naturals

CONSTANTS
    Path,          \* configuration targets
    DefaultPath,   \* the one the service reads
    Content,       \* configurations
    DefaultContent,
    Stored,        \* what the targets may hold at the start
    MaxRevision,   \* bound on edits
    Detailed       \* tasks whose child, pipes and threads are told apart

ASSUME PathAssumption == DefaultPath \in Path
ASSUME ContentAssumption ==
    DefaultContent \in Content /\ Stored \subseteq Content /\ MaxRevision \in Nat

Task == {"config", "service", "capture"}

ASSUME DetailedAssumption == Detailed \subseteq Task

VARIABLES
    form, path, revision, dirty,   \* the model
    txn,         \* the configuration transaction, with restart_after_save
    worker,      \* where the configuration worker is
    outcome,     \* its result
    files,       \* what each target holds
    proc,        \* the subprocess of each task and its threads
    service,     \* the service action that runs
    queuedRestart,
    capture,     \* the validation task, with what a calibration captured
    confirm, closeApproved, app,
    validated,   \* ghost: contents the daemon program accepted
    edits,       \* ghost: edits not saved, from before or after the last begin
    owed         \* ghost: a saved configuration waits for a restart

modelVars == <<form, path, revision, dirty>>
configVars == <<txn, worker, outcome>>
serviceVars == <<service, queuedRestart, owed>>
windowVars == <<confirm, closeApproved, app>>
vars == <<modelVars, configVars, files, proc, serviceVars, capture,
          windowVars, validated, edits>>

NoTxn == [kind |-> "none"]
NoCapture == [kind |-> "none"]

\* A subprocess: its worker thread, the child, the pipe readers (as one), and
\* whether termination was requested, the child was killed, a descendant
\* holds the pipes, the child succeeded, the receiver is gone.
Idle == [ph |-> "idle", child |-> "none", reader |-> "off", kill |-> FALSE,
         shot |-> FALSE, held |-> FALSE, ok |-> FALSE, gone |-> FALSE]
Spawning == [Idle EXCEPT !.ph = "spawning"]

-----------------------------------------------------------------------------
(* ProcessTask. *)
ProcStep(t, p) ==
    /\ proc' = [proc EXCEPT ![t] = p]
    /\ app # "dead"
    /\ UNCHANGED <<modelVars, configVars, files, serviceVars,
                   capture, windowVars, edits>>

\* A snapshot is validated when the daemon program accepts it.
Accepts(t, ok) ==
    validated' = IF t = "config" /\ ok /\ txn.kind = "save"
                    THEN validated \cup {txn.captured} ELSE validated

\* The whole life of a subprocess whose parts are not told apart.
RunsThrough(t) ==
    /\ t \notin Detailed /\ proc[t].ph = "spawning"
    /\ \E ok \in {FALSE, ~proc[t].kill} :
          ProcStep(t, [proc[t] EXCEPT !.ph = "finished", !.ok = ok]) /\ Accepts(t, ok)

Spawn(t) ==
    /\ t \in Detailed /\ proc[t].ph = "spawning"
    /\ \/ ProcStep(t, [proc[t] EXCEPT !.ph = "gap", !.child = "alive"])
       \/ ProcStep(t, [proc[t] EXCEPT !.ph = "finished"])
    /\ UNCHANGED validated

\* As if a termination requested before the child is published were ignored.
PublishUnseen(t) ==
    /\ proc[t].ph = "gap"
    /\ ProcStep(t, [proc[t] EXCEPT !.ph = "waiting", !.reader = "reading"])
    /\ UNCHANGED validated

\* The child is put where request_termination finds it.
Publish(t) ==
    /\ proc[t].ph = "gap"
    /\ ProcStep(t, [proc[t] EXCEPT !.ph = "waiting", !.reader = "reading",
                                   !.shot = proc[t].kill])
    /\ UNCHANGED validated

\* The child ends, by itself or killed.  A descendant of a program other than
\* systemctl may keep the pipes open.
ChildExits(t) ==
    /\ proc[t].child = "alive"
    /\ \E ok \in {FALSE, ~proc[t].shot}, held \in {FALSE, t # "service"} :
          /\ ProcStep(t, [proc[t] EXCEPT !.child = "dead", !.ok = ok, !.held = held])
          /\ Accepts(t, ok)

Reap(t) ==
    /\ proc[t].ph = "waiting" /\ proc[t].child = "dead"
    /\ ProcStep(t, [proc[t] EXCEPT !.ph = "joining", !.child = "none"])
    /\ UNCHANGED validated

\* A reader with output to report waits for room in the event queue.
ReaderBlocks(t) ==
    /\ proc[t].reader = "reading"
    /\ proc[t].child = "alive" \/ proc[t].held
    /\ ProcStep(t, [proc[t] EXCEPT !.reader = "blocked"])
    /\ UNCHANGED validated

ReaderEnds(t) ==
    /\ \/ /\ proc[t].reader = "reading"
          /\ proc[t].kill \/ (proc[t].child # "alive" /\ ~proc[t].held)
       \/ proc[t].reader = "blocked" /\ proc[t].gone
    /\ ProcStep(t, [proc[t] EXCEPT !.reader = "off"])
    /\ UNCHANGED validated

\* Whoever receives the events makes room.
Drain(t) ==
    /\ proc[t].reader = "blocked" /\ ~proc[t].gone
    /\ ProcStep(t, [proc[t] EXCEPT !.reader = "reading"])
    /\ UNCHANGED validated

Join(t) ==
    /\ proc[t].ph = "joining" /\ proc[t].reader = "off"
    /\ ProcStep(t, [Idle EXCEPT !.ph = "finished", !.ok = proc[t].ok])
    /\ UNCHANGED validated

Terminated(p) ==
    [p EXCEPT !.kill = p.ph # "finished", !.shot = @ \/ p.ph = "waiting"]

Dropped(p) ==
    IF p.ph = "idle" THEN p ELSE [Terminated(p) EXCEPT !.gone = TRUE]

-----------------------------------------------------------------------------
(* The configuration worker. *)
Cancelled == app # "open"

WorkerStep(next) ==
    /\ app # "dead"
    /\ worker' = next
    /\ UNCHANGED <<modelVars, txn, serviceVars, capture,
                   windowVars, validated, edits>>

WorkerFails ==
    /\ WorkerStep("finished")
    /\ outcome' = "failed"
    /\ UNCHANGED files

\* A save writes and syncs a temporary file beside its target first.
Prepare ==
    /\ worker = "prepare"
    /\ \/ WorkerFails /\ UNCHANGED proc
       \/ /\ ~Cancelled
          /\ WorkerStep("process")
          /\ proc' = [proc EXCEPT !["config"] = Spawning]
          /\ UNCHANGED <<files, outcome>>

RunProcess ==
    /\ worker = "process"
    /\ \/ /\ Cancelled
          /\ WorkerFails
          /\ proc' = [proc EXCEPT !["config"] = Dropped(@)]
       \/ /\ proc["config"].ph = "finished"
          /\ proc' = [proc EXCEPT !["config"] = Idle]
          /\ IF proc["config"].ok /\ ~Cancelled
                THEN WorkerStep("persist") /\ UNCHANGED <<files, outcome>>
                ELSE WorkerFails

\* As if the form were written instead of the snapshot that was validated.
FormWritten(t) == form

Written(t) == t.captured

\* The validated temporary file is renamed, or the output is parsed.
Persist ==
    /\ worker = "persist"
    /\ \/ WorkerFails
       \/ /\ WorkerStep("finished")
          /\ outcome' = "ok"
          /\ files' = IF txn.kind = "save"
                         THEN [files EXCEPT ![txn.target] = Written(txn)]
                         ELSE files
    /\ UNCHANGED proc

-----------------------------------------------------------------------------
(* The user interface thread. *)
Open == app = "open"

Begin(kind, restart) ==
    /\ worker = "none"
    /\ txn' = [kind |-> kind, revision |-> revision, target |-> path,
               captured |-> IF kind = "save" THEN form ELSE DefaultContent,
               restart |-> restart]
    /\ worker' = "prepare"
    /\ outcome' = "none"
    /\ edits' = IF edits = "new" THEN "old" ELSE edits

BeginSave ==
    /\ Open /\ confirm = "none"
    /\ \E restart \in {FALSE, path = DefaultPath} : Begin("save", restart)
    /\ UNCHANGED <<modelVars, files, proc, serviceVars, capture,
                   windowVars, validated>>

\* Unsaved edits are given up only after a confirmation.
RequestReload ==
    /\ Open /\ confirm = "none" /\ worker = "none"
    /\ IF dirty THEN confirm' = "reload" /\ UNCHANGED <<configVars, edits>>
                ELSE Begin("load", FALSE) /\ UNCHANGED confirm
    /\ UNCHANGED <<modelVars, files, proc, serviceVars, capture,
                   closeApproved, app, validated>>

KeepEditing ==
    /\ Open /\ confirm # "none"
    /\ confirm' = "none"
    /\ UNCHANGED <<modelVars, configVars, files, proc, serviceVars,
                   capture, closeApproved, app, validated, edits>>

\* The window takes the model and its tasks with it: dropping a process task
\* requests termination and detaches its threads, and the configuration
\* worker goes on until it sees the cancellation.
CloseWindow ==
    /\ app' = "closed" /\ confirm' = "none"
    /\ form' = DefaultContent /\ path' = DefaultPath /\ revision' = 0 /\ dirty' = FALSE
    /\ capture' = NoCapture
    /\ service' = "none" /\ queuedRestart' = FALSE /\ owed' = FALSE
    /\ proc' = [t \in Task |-> IF t = "config" THEN proc[t] ELSE Dropped(proc[t])]

Discard ==
    /\ Open /\ confirm # "none"
    /\ IF confirm = "close"
          THEN closeApproved' = TRUE /\ CloseWindow /\ UNCHANGED <<configVars, edits>>
          ELSE /\ IF worker = "none" THEN Begin("load", FALSE)
                                     ELSE UNCHANGED <<configVars, edits>>
               /\ confirm' = "none"
               /\ UNCHANGED <<modelVars, capture, serviceVars, proc,
                              closeApproved, app>>
    /\ UNCHANGED <<files, validated>>

RequestClose ==
    /\ Open
    /\ IF dirty THEN /\ confirm' = "close"
                     /\ UNCHANGED <<modelVars, capture, serviceVars, proc, app>>
                ELSE CloseWindow
    /\ UNCHANGED <<configVars, files, closeApproved, validated, edits>>

\* The process ends soon after its window; threads stop wherever they are.
Die ==
    /\ app = "closed"
    /\ app' = "dead"
    /\ worker' = "none" /\ txn' = NoTxn /\ outcome' = "none"
    /\ proc' = [t \in Task |-> Idle]
    /\ UNCHANGED <<modelVars, files, serviceVars,
                   capture, confirm, closeApproved, validated, edits>>

Edit ==
    /\ Open /\ confirm = "none" /\ revision < MaxRevision
    /\ \E c \in Content \ {form} : form' = c
    /\ revision' = revision + 1 /\ dirty' = TRUE
    /\ edits' = "new"
    /\ UNCHANGED <<path, configVars, files, proc, serviceVars,
                   capture, windowVars, validated>>

\* Another target, or another daemon program: a new revision, but no edit.
SetPath ==
    /\ Open /\ confirm = "none" /\ revision < MaxRevision
    /\ \E p \in Path : path' = p
    /\ revision' = revision + 1
    /\ UNCHANGED <<form, dirty, configVars, files, proc, serviceVars,
                   capture, windowVars, validated, edits>>

\* As if a completion were applied to whatever the form is by now.
AnyForm == TRUE

Unchanged == revision = txn.revision /\ path = txn.target

Dispatch(action) ==
    /\ service' = action
    /\ proc' = [proc EXCEPT !["service"] = Spawning]

\* As if a restart that is requested while the service is busy were dropped.
RestartDropped ==
    IF service = "none"
       THEN Dispatch("restart") /\ queuedRestart' = FALSE /\ owed' = FALSE
       ELSE owed' = TRUE /\ UNCHANGED <<service, proc, queuedRestart>>

RequestRestart ==
    IF service = "none"
       THEN Dispatch("restart") /\ queuedRestart' = FALSE /\ owed' = FALSE
       ELSE /\ queuedRestart' = TRUE /\ owed' = TRUE
            /\ UNCHANGED <<service, proc>>

\* poll_config_task takes the completion; a save of an older revision leaves
\* newer edits dirty and restarts nothing.
Finish ==
    /\ Open /\ worker = "finished"
    /\ worker' = "none" /\ txn' = NoTxn /\ outcome' = "none"
    /\ edits' = IF outcome = "ok" /\ edits = "old"
                   /\ (txn.kind = "save" \/ Unchanged) THEN "none" ELSE edits
    /\ IF outcome = "ok" /\ Unchanged
          THEN /\ dirty' = FALSE
               /\ form' = IF txn.kind = "load" THEN files[txn.target] ELSE form
               /\ IF txn.restart THEN RequestRestart
                                 ELSE UNCHANGED <<serviceVars, proc>>
          ELSE UNCHANGED <<dirty, form, serviceVars, proc>>
    /\ UNCHANGED <<path, revision, files, capture, windowVars,
                   validated>>

\* The user restarts, starts or stops the service, or looks at its state.
ServiceAction ==
    /\ Open /\ confirm = "none" /\ service = "none"
    /\ \E action \in {"restart", "stop", "is-active"} :
          Dispatch(action) /\ owed' = (owed /\ action # "restart")
    /\ UNCHANGED <<modelVars, configVars, files, queuedRestart,
                   capture, windowVars, validated, edits>>

\* poll_service: a queued restart goes before the query of the state.
PollService ==
    /\ Open /\ service # "none" /\ proc["service"].ph = "finished"
    /\ IF queuedRestart
          THEN Dispatch("restart") /\ queuedRestart' = FALSE /\ owed' = FALSE
       ELSE /\ UNCHANGED <<queuedRestart, owed>>
            /\ IF service # "is-active" /\ proc["service"].ok
                  THEN Dispatch("is-active")
                  ELSE /\ service' = "none"
                       /\ proc' = [proc EXCEPT !["service"] = Idle]
    /\ UNCHANGED <<modelVars, configVars, files, capture,
                   windowVars, validated, edits>>

\* A trace or a calibration, one at a time, by a process of its own or by the
\* daemon over a session (Session).
StartCapture ==
    /\ Open /\ confirm = "none" /\ capture.kind = "none"
    /\ capture' \in {[kind |-> "trace", stop |-> FALSE],
                    [kind |-> "calibration", stop |-> FALSE,
                     revision |-> revision, target |-> path, captured |-> form]}
    /\ proc' = [proc EXCEPT !["capture"] = Spawning]
    /\ UNCHANGED <<modelVars, configVars, files, serviceVars, windowVars,
                   validated, edits>>

\* What a stopped calibration captured is of no use any more.
StopCapture ==
    /\ Open /\ capture.kind # "none" /\ ~capture.stop
    /\ capture' = [kind |-> capture.kind, stop |-> TRUE]
    /\ proc' = [proc EXCEPT !["capture"] = Terminated(@)]
    /\ UNCHANGED <<modelVars, configVars, files, serviceVars,
                   windowVars, validated, edits>>

FinishCalibration ==
    /\ revision = capture.revision /\ path = capture.target
    /\ form = capture.captured

\* A calibration is applied only to the form it was captured for.
PollCapture ==
    /\ Open /\ proc["capture"].ph = "finished"
    /\ \/ /\ proc["capture"].ok /\ capture.kind = "calibration" /\ ~capture.stop
          /\ FinishCalibration /\ revision < MaxRevision
          /\ \E c \in Content : form' = c
          /\ revision' = revision + 1 /\ dirty' = TRUE /\ edits' = "new"
       \/ UNCHANGED <<form, revision, dirty, edits>>
    /\ capture' = NoCapture
    /\ proc' = [proc EXCEPT !["capture"] = Idle]
    /\ UNCHANGED <<path, configVars, files, serviceVars, windowVars, validated>>

-----------------------------------------------------------------------------
\* The application loads and asks for the state of the service at once.
ControlCenterInit ==
    /\ form = DefaultContent /\ path = DefaultPath /\ revision = 0 /\ dirty = FALSE
    /\ txn = [kind |-> "load", revision |-> 0, target |-> DefaultPath,
              captured |-> DefaultContent, restart |-> FALSE]
    /\ worker = "prepare" /\ outcome = "none"
    /\ capture = NoCapture
    /\ \E c \in Stored : files = [p \in Path |-> c] /\ validated = {c}
    /\ proc = [t \in Task |-> IF t = "service" THEN Spawning ELSE Idle]
    /\ service = "is-active" /\ queuedRestart = FALSE /\ owed = FALSE
    /\ confirm = "none" /\ closeApproved = FALSE /\ app = "open"
    /\ edits = "none"

Threads(t) ==
    Spawn(t) \/ Publish(t) \/ Reap(t) \/ ReaderEnds(t) \/ Drain(t) \/ Join(t)

ControlCenterNext ==
    \/ \E t \in Task : RunsThrough(t) \/ Threads(t) \/ ChildExits(t) \/ ReaderBlocks(t)
    \/ Prepare \/ RunProcess \/ Persist
    \/ BeginSave \/ RequestReload \/ KeepEditing \/ Discard \/ RequestClose \/ Die
    \/ Edit \/ SetPath \/ Finish \/ ServiceAction \/ PollService
    \/ StartCapture \/ StopCapture \/ PollCapture

ControlCenterSpec == ControlCenterInit /\ [][ControlCenterNext]_vars

\* Threads are scheduled, the window repaints, a killed child dies and
\* systemctl ends.  A program under test need not end.
FairControlCenterSpec ==
    /\ ControlCenterSpec
    /\ \A t \in Detailed :
          /\ WF_vars(Threads(t))
          /\ WF_vars((t = "service" \/ proc[t].shot) /\ ChildExits(t))
    /\ WF_vars(RunsThrough("service"))
    /\ WF_vars(PollService)

-----------------------------------------------------------------------------

\* A configuration file holds, whatever is edited, retargeted or closed in the
\* meantime, only what the daemon program accepted.
FileValidated == \A p \in Path : files[p] \in validated

\* An edit that is on no disk is reported as unsaved: a load, a save of an
\* older form or a calibration never hides it, and the window closes over it
\* only if that was confirmed.
EditsReported ==
    edits # "none" => IF Open THEN dirty ELSE closeApproved

\* A save with restart that was applied is followed by a restart, also if the
\* service was busy, unless the window is closed first.
RestartFollows == owed ~> (~owed \/ app # "open")

\* A subprocess whose termination was requested, before its child was
\* published or after, is killed and reaped and its threads end, also if a
\* descendant keeps its pipes or its events find no room.
TaskEnds ==
    \A t \in Detailed :
        proc[t].kill ~> (proc[t].ph \in {"idle", "finished"} \/ app = "dead")
=============================================================================
