---------------------------- MODULE InProcessRuns ----------------------------
(***************************************************************************)
(* analysis_worker_mode = inprocess: the web process analyses the fights   *)
(* itself, on an executor with one thread (app/main.py executor, _run_job).*)
(* Handlers and the executor's thread share the process and its _jobs.     *)
(***************************************************************************)
EXTENDS JobRequests, Sequences

VARIABLES
    tasks,   \* <<job, run>> submitted and not begun, oldest first
    task     \* what the executor's thread is doing

inpVars == <<vars, tasks, task, untouched>>

\* worker_id is inprocess-<pid>-<run>: one per run.
ASSUME InProcessAssumption ==
    WorkerIds = 1..MaxRuns /\ Processes = {Web} /\ ~Detached

TaskSteps == {"idle", "begin", "analysing", "finished", "saving", "failing",
              "release", "unmark", "error"}

\* saved: the generation _save_remote_fight found when it looked.
NoTask(j) == [at |-> "idle", job |-> j, run |-> NoRun, saved |-> NoRun]

TaskGoto(step) ==
    task' = IF step = "idle" THEN NoTask(task.job) ELSE [task EXCEPT !.at = step]

\* Nothing of the web process's handlers moves.
Handlers == <<req, created, deleted, crashes>>

-----------------------------------------------------------------------------

\* Slip: the run is submitted twice.
SubmitTwice(q) ==
    /\ req[q].at = "submit"
    /\ tasks' = tasks \o <<<<req[q].job, req[q].seen.run>>, <<req[q].job, req[q].seen.run>>>>
    /\ Done(q)
    /\ UNCHANGED <<storeVars, task, created, deleted, crashes>>

\* executor.submit, at the end of the handler that queued the run.
Submit(q) ==
    /\ req[q].at = "submit"
    /\ tasks' = Append(tasks, <<req[q].job, req[q].seen.run>>)
    /\ Done(q)
    /\ UNCHANGED <<storeVars, task, created, deleted, crashes>>

\* The executor's thread is free and takes the oldest task.
TakeTask ==
    /\ task.at = "idle" /\ tasks # <<>>
    /\ task' = [at |-> "begin", job |-> Head(tasks)[1], run |-> Head(tasks)[2],
                saved |-> NoRun]
    /\ tasks' = Tail(tasks)
    /\ UNCHANGED vars

\* start_job_run: the queued generation it was submitted for, or nothing.  It
\* looks at this process's copy when there is no file.
StartRun(ok) ==
    LET s == Base(Web, task.job)
        mine == s.status = "queued" /\ s.run = task.run
    IN  /\ task.at = "begin"
        /\ IF mine THEN UpdateJob(Web, task.job, Started(s, task.run), ok)
           ELSE ok /\ Refresh(task.job, OnDisk(task.job)) /\ UNCHANGED mirror
        /\ TaskGoto(IF mine /\ ok THEN "analysing" ELSE "idle")
        /\ UNCHANGED <<claims, usage, history, reports, lastRun, Handlers, tasks>>

Kept(ok) == OwnsRun(OnDisk(task.job), task.run, task.run) /\ ok

Progress(ok) ==
    /\ task.at = "analysing"
    /\ RenewRun(Web, task.job, task.run, task.run, ok)
    /\ TaskGoto(IF Kept(ok) THEN "analysing" ELSE "idle")
    /\ UNCHANGED <<claims, usage, history, reports, lastRun, Handlers, tasks>>

Finish(ok) ==
    /\ task.at = "analysing"
    /\ FinalizeRun(Web, task.job, task.run, task.run, ok)
    /\ TaskGoto(IF Kept(ok) THEN "finished" ELSE "idle")
    /\ UNCHANGED <<claims, usage, history, lastRun, Handlers, tasks>>

\* _save_remote_fight(job_id, get_job(job_id), ...): the generation to save is
\* read back, and a session that is gone raises.
ReadBack ==
    LET s == Seen(Web, task.job)
    IN  /\ task.at = "finished"
        /\ GetJob(Web, task.job)
        /\ task' = [task EXCEPT !.at = IF s = Absent THEN "failing" ELSE "saving",
                                !.saved = s.run]
        /\ UNCHANGED <<claims, usage, history, reports, lastRun, Handlers, tasks>>

Save(saves, writes) ==
    /\ task.at = "saving"
    /\ PersistRun(Web, task.job, task.saved, saves, writes)
    /\ TaskGoto("idle")
    /\ UNCHANGED <<claims, usage, reports, lastRun, Handlers, tasks>>

AnalysisFails == task.at = "analysing" /\ TaskGoto("failing") /\ UNCHANGED <<vars, tasks>>

FailRead ==
    LET s == Seen(Web, task.job)
        owns == s # Absent /\ s.run = task.run
    IN  /\ task.at = "failing"
        /\ GetJob(Web, task.job)
        /\ TaskGoto(IF ~owns THEN "idle"
                    ELSE IF s.reserved /\ HasAccount(task.job) THEN "release"
                    ELSE "error")
        /\ UNCHANGED <<claims, usage, history, reports, lastRun, Handlers, tasks>>

FailRelease ==
    /\ task.at = "release"
    /\ usage' = usage \ {task.job}
    /\ TaskGoto("unmark")
    /\ UNCHANGED <<file, mirror, folders, claims, history, reports, lastRun,
                   faults, Handlers, tasks>>

FailUnmark(ok) ==
    /\ task.at = "unmark"
    /\ PatchJob(Web, task.job, [Base(Web, task.job) EXCEPT !.reserved = FALSE], ok)
    /\ TaskGoto("error")
    /\ UNCHANGED <<claims, usage, history, reports, lastRun, Handlers, tasks>>

FailError(ok) ==
    /\ task.at = "error"
    /\ PatchJob(Web, task.job, Failed(Base(Web, task.job)), ok)
    /\ TaskGoto("idle")
    /\ UNCHANGED <<claims, usage, history, reports, lastRun, Handlers, tasks>>

\* The executor and its tasks die with the web process; nothing submits the
\* queued runs again.
Restart ==
    /\ WebRestarts
    /\ tasks' = <<>>
    /\ task' = NoTask(task.job)

-----------------------------------------------------------------------------

Init ==
    /\ RequestInit
    /\ tasks = <<>>
    /\ task = NoTask(CHOOSE j \in Jobs : TRUE)

\* What the executor's thread does on its own, whatever the analysis does.
ExecutorTurn ==
    /\ \/ TakeTask \/ ReadBack \/ FailRead \/ FailRelease
       \/ \E ok \in BOOLEAN : StartRun(ok) \/ FailUnmark(ok) \/ FailError(ok)
       \/ \E saves, writes \in BOOLEAN : Save(saves, writes)
    /\ Ages

AnalysisEnds ==
    /\ AnalysisFails \/ \E ok \in BOOLEAN : Finish(ok)
    /\ Ages

\* What a handler under way does next.
HandlerTurn(q) ==
    /\ \/ UNCHANGED <<tasks, task>> /\ \E ok \in BOOLEAN : HandlerStep(q, ok) \/ QueueStep(q, ok)
       \/ Submit(q)
    /\ Ages

\* What needs no particular scheduling.
OtherTurn ==
    /\ \/ UNCHANGED <<tasks, task>> /\ WebStep
       \/ Restart
       \/ \E ok \in BOOLEAN : Progress(ok)
    /\ Ages

Next ==
    \/ OtherTurn \/ ExecutorTurn \/ AnalysisEnds
    \/ \E q \in Requests : HandlerTurn(q)

Spec == Init /\ [][Next]_inpVars

\* The executor's thread and the handlers' threads keep running, and an
\* analysis ends.
FairSpec ==
    /\ Spec
    /\ WF_inpVars(ExecutorTurn) /\ WF_inpVars(AnalysisEnds)
    /\ \A q \in Requests : WF_inpVars(HandlerTurn(q))

TypeOK ==
    /\ RequestTypeOK
    /\ tasks \in Seq(Jobs \X Nat)
    /\ task \in [at : TaskSteps, job : Jobs, run : Nat, saved : Nat]
    /\ untouched \subseteq Jobs

-----------------------------------------------------------------------------

\* The executor never holds two tasks for the same generation, and never one
\* for a generation that is analysing: a run is analysed once.
EachRunSubmittedOnce ==
    /\ \A m, n \in 1..Len(tasks) : m # n => tasks[m] # tasks[n]
    /\ task.at # "idle" => \A n \in 1..Len(tasks) : tasks[n] # <<task.job, task.run>>

\* While the process lives and can write, a queued run has somebody who will
\* start it: its task is waiting, or a handler is about to submit it.
QueuedHasATask ==
    crashes = 0 /\ faults = 0 => \A j \in Jobs : file[j].status = "queued" =>
        \/ \E n \in 1..Len(tasks) : tasks[n] = <<j, file[j].run>>
        \/ task.at = "begin" /\ task.job = j /\ task.run = file[j].run
        \/ \E q \in Requests : req[q].at = "submit" /\ req[q].job = j
                                /\ req[q].seen.run = file[j].run

\* A queued fight is taken up as long as the process lives and can write.
QueuedIsServed ==
    \A j \in Jobs : file[j].status = "queued" ~>
        file[j].status # "queued" \/ crashes > 0 \/ faults > 0
=============================================================================
