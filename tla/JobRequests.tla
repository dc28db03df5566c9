----------------------------- MODULE JobRequests -----------------------------
(***************************************************************************)
(* The web process's side of an analysis job (app/main.py): the handlers   *)
(* behind Start, Restart, Cancel and the library, and the maintenance      *)
(* sweep.  Handlers run on a thread pool, so several are under way at      *)
(* once; each is cut here at the points where it holds no lock - between   *)
(* two calls of app/state.py, the accounts database or the file system.    *)
(*                                                                         *)
(* A handler under way is one element of Requests.  seen is the copy of    *)
(* the session it took when it began: what it tests later is that copy,    *)
(* not the session as it then is.                                          *)
(***************************************************************************)
EXTENDS JobStore

CONSTANTS
    Requests,     \* bound: handlers under way at the same time
    RequestKinds, \* bound: which kinds of request arrive in this instance
    Detached,     \* analysis_worker_mode is external or remote: queueing a run
                  \* also wakes the analysis machine
    MaxCrashes    \* bound: process deaths in one behaviour

ASSUME RequestAssumption ==
    /\ RequestKinds \subseteq {"start", "restart", "cancel", "sweep", "list",
                               "edit", "delete"}
    /\ Detached \in BOOLEAN
    /\ MaxCrashes \in Nat

VARIABLES
    req,      \* the handler each request is in
    created,  \* the jobs uploaded so far
    deleted,  \* the jobs a cancel or a sweep has finished deleting
    crashes,  \* processes that died so far
    untouched \* the jobs in whose directory nothing was written since the sweep
              \* under way took its snapshot

\* untouched is not among them: it follows from each step (Ages).
requestVars == <<req, created, deleted, crashes>>
vars == <<file, mirror, folders, claims, usage, history, reports, lastRun,
          faults, req, created, deleted, crashes>>

SweepSteps == {"sweep_files", "sweep_release", "sweep_unlink", "sweep_forget"}

Steps == {"idle", "trim", "reserve", "mark", "queue", "submit", "undo", "unreserve",
          "unmark", "requeue", "patch", "unlink", "forget", "release", "wipe",
          "files", "remember"} \cup SweepSteps

Idle(j) == [at |-> "idle", job |-> j, seen |-> Absent]

\* Request q goes on to its next step, or is done.
Goto(q, step) == req' = [req EXCEPT ![q].at = step]
Done(q) == req' = [req EXCEPT ![q] = Idle(req[q].job)]
Begin(q, step, j, s) == req' = [req EXCEPT ![q] = [at |-> step, job |-> j, seen |-> s]]

Free(q, kind) == kind \in RequestKinds /\ req[q].at = "idle"

-----------------------------------------------------------------------------
(* upload: the fight has been admitted - an account's analysis is already  *)
(* reserved - and its session is created.                                  *)
CreateJob(j, ok) ==
    /\ j \notin created
    /\ created' = created \cup {j}
    /\ usage' = IF HasAccount(j) THEN usage \cup {j} ELSE usage
    /\ MayFail(ok)
    /\ faults' = IF ok THEN faults ELSE faults + 1
    /\ file' = IF ok THEN [file EXCEPT ![j] = NewSession] ELSE file
    /\ folders' = folders \cup {j}
    /\ Remember(Web, j, NewSession)
    /\ UNCHANGED <<claims, history, reports, lastRun, req, deleted, crashes>>

\* Any page or poll of the web process that reads the job (get_job).
Poll(j) ==
    /\ Seen(Web, j) # Absent
    /\ GetJob(Web, j)
    /\ UNCHANGED <<claims, usage, history, reports, lastRun, requestVars>>

\* result_page: a finished fight whose history save failed is saved again.
ViewResult(j, saves, writes) ==
    /\ Seen(Web, j).status = "complete" /\ Seen(Web, j).saved = "no"
    /\ PersistRun(Web, j, Seen(Web, j).run, saves, writes)
    /\ UNCHANGED <<claims, usage, reports, lastRun, requestVars>>

-----------------------------------------------------------------------------
(* POST /api/start (a solo session differs only in the data it queues).    *)

\* An account whose session has no analysis reserved must reserve one first.
AfterTrim(j, s) == IF HasAccount(j) /\ ~s.reserved THEN "reserve" ELSE "queue"

StartRead(q, j) ==
    LET s == Seen(Web, j)
    IN  /\ Free(q, "start")
        /\ s.status \notin {"absent", "queued", "running"}
        /\ GetJob(Web, j)
        /\ \/ Begin(q, AfterTrim(j, s), j, s)
           \/ Begin(q, "trim", j, s)
        /\ UNCHANGED <<claims, usage, history, reports, lastRun, created, deleted, crashes>>

\* _apply_trim: the request asks for a part of the video only.
StartTrim(q, ok) ==
    LET j == req[q].job
    IN  /\ req[q].at = "trim"
        /\ PatchJob(Web, j, Base(Web, j), ok)
        /\ Goto(q, AfterTrim(j, req[q].seen))
        /\ UNCHANGED <<claims, usage, history, reports, lastRun, created, deleted, crashes>>

\* reserve_analysis: granted, or refused because the plan is spent (429).  A
\* job that already holds a row keeps it.
StartReserve(q) ==
    LET j == req[q].job
    IN  /\ req[q].at = "reserve"
        /\ \/ usage' = usage \cup {j} /\ Goto(q, "mark")
           \/ j \notin usage /\ UNCHANGED usage /\ Done(q)
        /\ UNCHANGED <<file, mirror, folders, claims, history, reports, lastRun,
                       faults, created, deleted, crashes>>

StartMark(q, ok) ==
    LET j == req[q].job
    IN  /\ req[q].at = "mark"
        /\ PatchJob(Web, j, [Base(Web, j) EXCEPT !.reserved = TRUE], ok)
        /\ Goto(q, "queue")
        /\ UNCHANGED <<claims, usage, history, reports, lastRun, created, deleted, crashes>>

Leave(q, after) == IF after = "idle" THEN Done(q) ELSE Goto(q, after)

\* prepare_job_run, from start and from restart_interrupted_analysis.  after is
\* where the handler goes when the queued session could not be written.  The
\* run is then handed to the executor, or the analysis machine is woken if
\* there is a way to wake it.
QueueRun(q, ok, after) ==
    LET j == req[q].job
        run == lastRun + 1
    IN  \/ /\ Base(Web, j) # Absent
           /\ lastRun < MaxRuns
           /\ lastRun' = run
           /\ UpdateJob(Web, j, Queued(Base(Web, j), run), ok)
           /\ CASE ok /\ Detached -> Goto(q, "patch") \/ Done(q)
                [] ok /\ ~Detached -> Begin(q, "submit", j, Queued(Base(Web, j), run))
                [] ~ok -> Leave(q, after)
        \/ /\ Base(Web, j) = Absent /\ ok
           /\ UNCHANGED <<file, mirror, folders, faults, lastRun>>
           /\ Leave(q, after)

StartQueue(q, ok) ==
    /\ req[q].at = "queue"
    /\ QueueRun(q, ok, IF HasAccount(req[q].job) THEN "undo" ELSE "idle")
    /\ UNCHANGED <<claims, usage, history, reports, created, deleted, crashes>>

\* The handler could not queue the run: it reads the session again, and gives
\* the analysis back if the session says one is reserved.  A session that is
\* gone makes the handler fail here.
StartUndo(q) ==
    LET j == req[q].job
    IN  /\ req[q].at = "undo"
        /\ GetJob(Web, j)
        /\ IF Seen(Web, j).reserved THEN Goto(q, "unreserve") ELSE Done(q)
        /\ UNCHANGED <<claims, usage, history, reports, lastRun, created, deleted, crashes>>

StartUnreserve(q) ==
    /\ req[q].at = "unreserve"
    /\ usage' = usage \ {req[q].job}
    /\ Goto(q, "unmark")
    /\ UNCHANGED <<file, mirror, folders, claims, history, reports, lastRun,
                   faults, created, deleted, crashes>>

StartUnmark(q, ok) ==
    LET j == req[q].job
    IN  /\ req[q].at = "unmark"
        /\ PatchJob(Web, j, [Base(Web, j) EXCEPT !.reserved = FALSE], ok)
        /\ Done(q)
        /\ UNCHANGED <<claims, usage, history, reports, lastRun, created, deleted, crashes>>

-----------------------------------------------------------------------------
(* Handlers that read the session and then patch fields nothing here       *)
(* depends on: the selection frame, its rotation, the trim, and the time   *)
(* _wake_analysis_worker asked for a wake.  The patch is left out; that    *)
(* the whole session is written, from this process's copy if there is no   *)
(* file, is not.                                                           *)

EditRead(q, j) ==
    LET s == Seen(Web, j)
    IN  /\ Free(q, "edit")
        /\ s # Absent
        /\ GetJob(Web, j)
        /\ Begin(q, "patch", j, s)
        /\ UNCHANGED <<claims, usage, history, reports, lastRun, created, deleted, crashes>>

Patch(q, ok) ==
    LET j == req[q].job
    IN  /\ req[q].at = "patch"
        /\ PatchJob(Web, j, Base(Web, j), ok)
        /\ Done(q)
        /\ UNCHANGED <<claims, usage, history, reports, lastRun, created, deleted, crashes>>

-----------------------------------------------------------------------------
(* POST /api/restart: only an interrupted analysis, and nothing reserved.  *)

RestartRead(q, j) ==
    LET s == Seen(Web, j)
    IN  /\ Free(q, "restart")
        /\ s.status = "interrupted"
        /\ GetJob(Web, j)
        /\ Begin(q, "requeue", j, s)
        /\ UNCHANGED <<claims, usage, history, reports, lastRun, created, deleted, crashes>>

\* Slip: the queued run is not handed to anybody.
RestartQueueOnly(q, ok) ==
    /\ req[q].at = "requeue" /\ ok
    /\ lastRun < MaxRuns
    /\ lastRun' = lastRun + 1
    /\ UpdateJob(Web, req[q].job, Queued(Base(Web, req[q].job), lastRun + 1), TRUE)
    /\ Done(q)
    /\ UNCHANGED <<claims, usage, history, reports, created, deleted, crashes>>

RestartQueue(q, ok) ==
    /\ req[q].at = "requeue"
    /\ QueueRun(q, ok, "idle")
    /\ UNCHANGED <<claims, usage, history, reports, created, deleted, crashes>>

-----------------------------------------------------------------------------
(* POST /pending/{job}/cancel and _discard_pending_job.                    *)

CancelRead(q, j) ==
    LET s == Seen(Web, j)
    IN  /\ Free(q, "cancel")
        /\ s.status \notin {"absent", "complete"} /\ history[j] = NoRun
        /\ GetJob(Web, j)
        /\ Begin(q, "unlink", j, s)
        /\ UNCHANGED <<claims, usage, history, reports, lastRun, created, deleted, crashes>>

\* delete_job unlinks the file under the job's lock ...
Unlink(q, step, next) ==
    /\ req[q].at = step
    /\ file' = [file EXCEPT ![req[q].job] = Absent]
    /\ Goto(q, next)
    /\ UNCHANGED <<mirror, folders, claims, usage, history, reports, lastRun,
                   faults, created, deleted, crashes>>

\* ... and drops this process's copy after it has let the lock go.
Forget(q) == Remember(Web, req[q].job, Absent)

\* Whether the copy the handler took says an analysis must be given back.
HeldReservation(q) == req[q].seen.reserved /\ HasAccount(req[q].job)

CancelUnlink(q) == Unlink(q, "unlink", "forget")

CancelForget(q) ==
    /\ req[q].at = "forget"
    /\ Forget(q)
    /\ Goto(q, IF HeldReservation(q) THEN "release" ELSE "wipe")
    /\ UNCHANGED <<file, folders, claims, usage, history, reports, lastRun,
                   faults, created, deleted, crashes>>

CancelRelease(q) ==
    /\ req[q].at = "release"
    /\ usage' = usage \ {req[q].job}
    /\ Goto(q, "wipe")
    /\ UNCHANGED <<file, mirror, folders, claims, history, reports, lastRun,
                   faults, created, deleted, crashes>>

\* rmtree of the job's output directory: session, claim and every run in it.
WipeFolder(j) ==
    /\ file' = [file EXCEPT ![j] = Absent]
    /\ folders' = folders \ {j}
    /\ claims' = claims \ {j}
    /\ reports' = {r \in reports : r[1] # j}

CancelWipe(q) ==
    /\ req[q].at = "wipe"
    /\ WipeFolder(req[q].job)
    /\ deleted' = deleted \cup {req[q].job}
    /\ Done(q)
    /\ UNCHANGED <<mirror, usage, history, lastRun, faults, created, crashes>>

-----------------------------------------------------------------------------
(* _delete_own_fight: the history row, then the files.  The session goes   *)
(* with the directory; no copy of it in memory is dropped.                 *)

DeleteRead(q, j) ==
    /\ Free(q, "delete")
    /\ history[j] # NoRun
    /\ history' = [history EXCEPT ![j] = NoRun]
    /\ Begin(q, "files", j, Absent)
    /\ UNCHANGED <<file, mirror, folders, claims, usage, reports, lastRun,
                   faults, created, deleted, crashes>>

DeleteFiles(q) ==
    /\ req[q].at = "files"
    /\ WipeFolder(req[q].job)
    /\ deleted' = deleted \cup {req[q].job}
    /\ Done(q)
    /\ UNCHANGED <<mirror, usage, history, lastRun, faults, created, crashes>>

-----------------------------------------------------------------------------
(* _run_periodic_maintenance: one sweep at a time; it protects the jobs    *)
(* its own list_jobs snapshot showed at work, then removes old files.      *)

Protected(s) ==
    \/ s.status \in {"queued", "running"}
    \/ s.status = "complete" /\ s.saved = "no"

\* Slip: fights saved in an account's history are not asked for.
SparedUnsaved(j, s) == Protected(s)

Spared(j, s) == Protected(s) \/ history[j] # NoRun

SweepRead(q, j) ==
    LET s == Seen(Web, j)
    IN  /\ Free(q, "sweep")
        /\ \A r \in Requests : req[r].at \notin SweepSteps
        /\ s # Absent /\ ~Spared(j, s)
        /\ GetJob(Web, j)
        /\ Begin(q, "sweep_files", j, s)
        /\ UNCHANGED <<claims, usage, history, reports, lastRun, created, deleted, crashes>>

\* The video is older than the retention period and goes.  The directory goes
\* too if nothing was written in it since - a write makes it young again - and
\* an expired visitor's goes regardless (cleanup_expired_guest_jobs).
SweepFiles(q) ==
    LET j == req[q].job
    IN  /\ req[q].at = "sweep_files"
        /\ \/ j \in untouched \cup Guests /\ WipeFolder(j)
           \/ UNCHANGED <<file, folders, claims, reports>>
        /\ Goto(q, IF HeldReservation(q) THEN "sweep_release" ELSE "sweep_unlink")
        /\ UNCHANGED <<mirror, usage, history, lastRun, faults, created, deleted, crashes>>

SweepRelease(q) ==
    /\ req[q].at = "sweep_release"
    /\ usage' = usage \ {req[q].job}
    /\ Goto(q, "sweep_unlink")
    /\ UNCHANGED <<file, mirror, folders, claims, history, reports, lastRun,
                   faults, created, deleted, crashes>>

SweepUnlink(q) == Unlink(q, "sweep_unlink", "sweep_forget")

SweepForget(q) ==
    /\ req[q].at = "sweep_forget"
    /\ Forget(q)
    /\ deleted' = deleted \cup {req[q].job}
    /\ Done(q)
    /\ UNCHANGED <<file, folders, claims, usage, history, reports, lastRun,
                   faults, created, crashes>>

-----------------------------------------------------------------------------
(* list_jobs reads a session under the job's lock, and puts it into _jobs  *)
(* after it has let the lock go.                                           *)

ListRead(q, j) ==
    LET s == Seen(Web, j)
    IN  /\ Free(q, "list")
        /\ file[j] # Absent
        /\ Refresh(j, s)
        /\ Begin(q, "remember", j, s)
        /\ UNCHANGED <<mirror, claims, usage, history, reports, lastRun, created, deleted, crashes>>

ListRemember(q) ==
    /\ req[q].at = "remember"
    /\ Remember(Web, req[q].job, req[q].seen)
    /\ Done(q)
    /\ UNCHANGED <<file, folders, claims, usage, history, reports, lastRun,
                   faults, created, deleted, crashes>>

-----------------------------------------------------------------------------

\* The web process dies and is started again: what it had in memory is gone.
WebRestarts ==
    /\ crashes < MaxCrashes
    /\ crashes' = crashes + 1
    /\ mirror' = [mirror EXCEPT ![Web] = [j \in Jobs |-> Absent]]
    /\ req' = [q \in Requests |-> Idle(req[q].job)]
    /\ UNCHANGED <<file, folders, claims, usage, history, reports, lastRun,
                   faults, created, deleted>>

\* What every step does to the directories a sweep looks at: one stays old as
\* long as its session is not written, and only a new snapshot makes it old.
Ages ==
    untouched' = {j \in Jobs :
        /\ file'[j] = file[j]
        /\ \E q \in Requests : /\ req'[q].at = "sweep_files" /\ req'[q].job = j
                               /\ req[q].at = "idle" \/ j \in untouched}

RequestInit ==
    /\ StoreInit
    /\ req = [q \in Requests |-> Idle(CHOOSE j \in Jobs : TRUE)]
    /\ created = {} /\ deleted = {}
    /\ crashes = 0
    /\ untouched = {}

\* The handlers that queue a run are left out: a module that adds an executor
\* adds to what they do.
QueueStep(q, ok) == StartQueue(q, ok) \/ RestartQueue(q, ok)

HandlerStep(q, ok) ==
    \/ StartTrim(q, ok) \/ StartReserve(q) \/ StartMark(q, ok)
    \/ StartUndo(q) \/ StartUnreserve(q) \/ StartUnmark(q, ok) \/ Patch(q, ok)
    \/ CancelUnlink(q) \/ CancelForget(q) \/ CancelRelease(q) \/ CancelWipe(q)
    \/ SweepFiles(q) \/ SweepRelease(q) \/ SweepUnlink(q) \/ SweepForget(q)
    \/ DeleteFiles(q) \/ ListRemember(q)

Arrival(q, j) ==
    \/ StartRead(q, j) \/ RestartRead(q, j) \/ CancelRead(q, j)
    \/ SweepRead(q, j) \/ ListRead(q, j) \/ EditRead(q, j) \/ DeleteRead(q, j)

PageRead(j) == Poll(j) \/ \E saves, writes \in BOOLEAN : ViewResult(j, saves, writes)

\* Everything the web process and the clock do on their own.
WebStep ==
    \/ \E j \in Jobs : PageRead(j)
    \/ \E j \in Jobs : LeaseExpires(j) /\ UNCHANGED requestVars
    \/ \E j \in Jobs, ok \in BOOLEAN : CreateJob(j, ok)
    \/ \E q \in Requests, j \in Jobs : Arrival(q, j)
    \/ \E q \in Requests, ok \in BOOLEAN : HandlerStep(q, ok)

RequestTypeOK ==
    /\ StoreTypeOK
    /\ req \in [Requests -> [at : Steps, job : Jobs, seen : Session]]
    /\ created \subseteq Jobs /\ deleted \subseteq Jobs
    /\ crashes \in Nat

-----------------------------------------------------------------------------
(* What every deployment - external, remote or in-process - has to keep.   *)

\* A finished session names the artifacts of its own current generation, so a
\* reader never resolves another run's report (finalize_job_from_worker,
\* completed_artifact_directory).
ResultIsCurrent ==
    \A j \in Jobs : file[j].status = "complete" => file[j].artifacts = file[j].run

\* The report a saved fight points at is there, unless the owner's cancel or
\* delete, or a sweep, has finished with the job: no analysis, retry or failed
\* write leaves a history row whose report is missing.
ReportMissingOnlyAfterDeletion ==
    \A j \in Jobs : history[j] # NoRun /\ j \notin deleted
                    => <<j, history[j]>> \in reports

\* A result is committed only while its generation is running under a lease
\* that has not run out: an owner that lost its lease, or a run that was
\* replaced, cannot publish (the fence of finalize_job_from_worker).
CommitsOnlyUnderALiveLease ==
    [][\A j \in Jobs :
          file'[j].status = "complete" /\ file[j].status \notin {"complete", "absent"}
          => /\ file[j].status = "running" /\ file[j].lease = "live"
             /\ file'[j].run = file[j].run]_vars

PhaseOf(s) ==
    CASE s.status = "absent" -> "none"
      [] s.status \in {"queued", "running"} -> "open"
      [] s.status = "complete" -> "published"
      [] OTHER -> "closed"

Promise == INSTANCE ResultPromise WITH
    phase <- [j \in Jobs |-> PhaseOf(file[j])],
    current <- [j \in Jobs |-> file[j].run],
    newest <- lastRun

\* The session files implement the promise of ResultPromise: a job has one
\* current generation, published at most once and never after it was given up,
\* failed or replaced, whatever handlers, workers and sweeps interleave.
KeepsPromise == Promise!Spec

\* No handler that reserves, queues or gives back is in the middle of job j.
Settled(j) == \A q \in Requests : req[q].job = j
                                  => req[q].at \in {"idle", "trim", "patch", "remember"}

\* An analysis that failed before completion is given back (core/legal.py:132).
FailureIsNotCharged ==
    \A j \in Jobs : file[j].status = "error" /\ Settled(j) => j \notin usage

\* Once a cancel has deleted an unfinished fight, its session is gone for good.
DeletedStaysDeleted == \A j \in deleted : file[j] = Absent
=============================================================================
