------------------------------ MODULE JobStore ------------------------------
(***************************************************************************)
(* app/state.py: the analysis session of every job, and what several       *)
(* processes do with it.                                                   *)
(*                                                                         *)
(* A job's session is one JSON file (file) that is replaced atomically and *)
(* only written under the job's lock; every process also keeps the last    *)
(* copy it saw in its own _jobs dictionary (mirror).  One call of          *)
(* app/state.py holds the job's lock from its first read to its last       *)
(* write, so it is one step here; a request handler or a worker makes      *)
(* several such calls, and other processes act in between.                 *)
(*                                                                         *)
(* The operators below give the effect of one call on the store.  They are *)
(* composed into actions by JobRequests (the web process's handlers) and   *)
(* by ExternalWorkers, RemoteWorkers and InProcessRuns.                    *)
(***************************************************************************)
EXTENDS Naturals

CONSTANTS
    Jobs,        \* job ids (fresh uuids: an id is never used twice)
    Guests,      \* the jobs of signed-out visitors: no account_id, no history
    Processes,   \* operating-system processes that import app/state.py
    Web,         \* the web process
    WorkerIds,   \* values of worker_id
    Nobody,      \* worker_id = None
    MaxRuns,     \* bound: analysis generations queued in one behaviour
    MaxFaults    \* bound: writes and saves that fail in one behaviour

ASSUME StoreAssumption ==
    /\ Jobs # {}
    /\ Web \in Processes
    /\ Guests \subseteq Jobs
    /\ Nobody \notin WorkerIds
    /\ MaxRuns \in Nat
    /\ MaxFaults \in Nat

VARIABLES
    file,      \* analysis-session.json of each job (Absent: no file)
    mirror,    \* _jobs of each process (Absent: not in the dictionary)
    folders,   \* the jobs whose output directory exists
    claims,    \* the jobs whose .claim directory exists
    usage,     \* the jobs with a row in analysis_usage
    history,   \* the run each job's row in fights points at (NoRun: no row)
    reports,   \* <<job, run>>: the report.json committed for that run
    lastRun,   \* the newest analysis_run_id (uuid4: never repeated)
    faults     \* failed writes so far

storeVars == <<file, mirror, folders, claims, usage, history, reports,
               lastRun, faults>>

NoRun == 0

Statuses == {"absent", "selecting", "queued", "running", "interrupted",
             "complete", "error"}

\* The fields of a session the code decides on.  lease abstracts
\* worker_lease_expires_epoch: still in the future, in the past, or None.
Session == [status    : Statuses,
            run       : Nat,
            worker    : WorkerIds \cup {Nobody},
            lease     : {"none", "live", "expired"},
            artifacts : Nat,
            saved     : {"none", "no", "yes"},
            reserved  : BOOLEAN]

Absent == [status |-> "absent", run |-> NoRun, worker |-> Nobody,
           lease |-> "none", artifacts |-> NoRun, saved |-> "none",
           reserved |-> FALSE]

NewSession == [Absent EXCEPT !.status = "selecting", !.reserved = TRUE]

HasAccount(j) == j \notin Guests

-----------------------------------------------------------------------------
(* What _read_session does to a session on the way in.                     *)

\* Slip: a lease that has run out is not noticed.
LapsedNever(s, recoverOrphan) == s.status = "running" /\ s.worker = Nobody /\ recoverOrphan

\* A running session is given up when its lease has run out, or - where the
\* caller asks for it - when it never had a worker.
Lapsed(s, recoverOrphan) ==
    /\ s.status = "running"
    /\ IF s.worker = Nobody THEN recoverOrphan ELSE s.lease # "live"

Interrupted(s) == [s EXCEPT !.status = "interrupted", !.worker = Nobody,
                            !.lease = "none"]

Recovered(s, recoverOrphan) ==
    IF Lapsed(s, recoverOrphan) THEN Interrupted(s) ELSE s

\* _read_session(job_id): Absent when there is no file.
OnDisk(j) == Recovered(file[j], FALSE)

\* get_job(job_id) in process p: the file, else the process's own copy.
Seen(p, j) ==
    IF file[j] # Absent THEN Recovered(file[j], mirror[p][j] = Absent)
    ELSE mirror[p][j]

\* The session update_job patches: the file, else the process's own copy.
Base(p, j) == IF file[j] # Absent THEN OnDisk(j) ELSE mirror[p][j]

-----------------------------------------------------------------------------
(* What a call leaves behind.  ok is FALSE when _write_session meets an    *)
(* OSError: the file keeps its old contents and the caller is told.        *)

MayFail(ok) == ok \/ faults < MaxFaults

Remember(p, j, s) == mirror' = [mirror EXCEPT ![p][j] = s]

WriteFile(j, s, ok) ==
    /\ MayFail(ok)
    /\ file' = IF ok THEN [file EXCEPT ![j] = s] ELSE file
    /\ folders' = IF ok THEN folders \cup {j} ELSE folders
    /\ faults' = IF ok THEN faults ELSE faults + 1

\* A read rewrites the file only when it found the session lapsed.
Refresh(j, s) ==
    /\ file' = IF file[j] # Absent THEN [file EXCEPT ![j] = s] ELSE file
    /\ UNCHANGED <<folders, faults>>

GetJob(p, j) == Refresh(j, Seen(p, j)) /\ Remember(p, j, Seen(p, j))

\* update_job: no condition on status, worker or run.
UpdateJob(p, j, s, ok) == WriteFile(j, s, ok) /\ Remember(p, j, s)

\* update_job(job_id, patch) where nobody looks at the returned flag; a job
\* that is neither on disk nor in this process is left alone.
PatchJob(p, j, s, ok) ==
    \/ Base(p, j) = Absent /\ ok /\ UNCHANGED <<file, mirror, folders, faults>>
    \/ Base(p, j) # Absent /\ UpdateJob(p, j, s, ok)

\* The condition of update_job_for_worker and finalize_job_from_worker.
OwnsRun(s, w, run) == s.status = "running" /\ s.worker = w /\ s.run = run

-----------------------------------------------------------------------------
(* The sessions the calls write.  A definition whose comment begins with    *)
(* "Slip" is a version of the next one with a plausible mistake in it; the  *)
(* project's mutants put it in the next one's place.                        *)

\* Slip: the old generation's id is kept.
QueuedSameRun(s, run) == [s EXCEPT !.status = "queued", !.worker = Nobody,
                                   !.lease = "none", !.artifacts = NoRun, !.saved = "none"]

\* prepare_job_run: a clean generation; the reservation is left as it is.
Queued(s, run) == [s EXCEPT !.status = "queued", !.run = run,
                            !.worker = Nobody, !.lease = "none",
                            !.artifacts = NoRun, !.saved = "none"]

\* Slip: a job that is being analysed is claimed as well.
ClaimableRunning(s) == s.status \in {"queued", "running"}

\* The condition of claim_next_job.
Claimable(s) == s.status = "queued"

\* claim_next_job and start_job_run.
Started(s, w) == [s EXCEPT !.status = "running", !.worker = w,
                           !.lease = "live"]

Renewed(s) == [s EXCEPT !.lease = "live"]

\* Slip: artifacts_run_id is not set.
CompletedUnnamed(j, s) == [s EXCEPT !.status = "complete", !.lease = "none",
                                    !.saved = IF HasAccount(j) THEN "no" ELSE "none"]

\* finalize_job_from_worker: the worker keeps its name on the result.
Completed(j, s) == [s EXCEPT !.status = "complete", !.lease = "none",
                             !.artifacts = s.run,
                             !.saved = IF HasAccount(j) THEN "no" ELSE "none"]

\* Slip: a status no reader knows.
FailedUnknown(s) == [s EXCEPT !.status = "failed", !.lease = "none"]

Failed(s) == [s EXCEPT !.status = "error", !.lease = "none"]

\* update_job_for_worker(job_id, w, run, {}) in process p.  The caller is told
\* FALSE when the run is not its own and when the write fails.
RenewRun(p, j, w, run, ok) ==
    IF OwnsRun(OnDisk(j), w, run)
    THEN UpdateJob(p, j, Renewed(OnDisk(j)), ok)
    ELSE ok /\ Refresh(j, OnDisk(j)) /\ UNCHANGED mirror

\* finalize_job_from_worker: the report file is moved into the run's own
\* directory before the session that names it is written.
FinalizeRun(p, j, w, run, ok) ==
    IF OwnsRun(OnDisk(j), w, run)
    THEN /\ WriteFile(j, Completed(j, OnDisk(j)), ok)
         /\ IF ok THEN reports' = reports \cup {<<j, run>>}
                  ELSE reports' \in {reports, reports \cup {<<j, run>>}}
         /\ IF ok THEN Remember(p, j, Completed(j, OnDisk(j)))
                  ELSE UNCHANGED mirror
    ELSE /\ ok
         /\ Refresh(j, OnDisk(j))
         /\ UNCHANGED <<reports, mirror>>

\* persist_completed_job(job_id, run): the history row first, then the session
\* that says so.  saves is FALSE when save_completed_analysis raises - there is
\* no report to read, or the database refuses - and writes is FALSE when the
\* session cannot be written; neither loses the report.
PersistRun(p, j, run, saves, writes) ==
    LET s == OnDisk(j)
        due == /\ s.status = "complete" /\ s.artifacts = run
               /\ HasAccount(j) /\ s.saved # "yes"
        new == [s EXCEPT !.saved = IF saves THEN "yes" ELSE "no"]
        broken == {f \in {"save", "write"} :
                     \/ f = "save" /\ ~saves /\ <<j, run>> \in reports
                     \/ f = "write" /\ ~writes}
    IN  IF due
        THEN /\ saves => <<j, run>> \in reports
             /\ broken # {} => faults < MaxFaults
             /\ faults' = IF broken = {} THEN faults ELSE faults + 1
             /\ history' = IF saves THEN [history EXCEPT ![j] = run] ELSE history
             /\ IF writes THEN /\ file' = [file EXCEPT ![j] = new]
                               /\ Remember(p, j, new)
                          ELSE UNCHANGED <<file, mirror>>
             /\ UNCHANGED folders
        ELSE saves /\ writes /\ Refresh(j, s) /\ UNCHANGED <<history, mirror>>

-----------------------------------------------------------------------------

\* Wall-clock time passing the lease of a running job.
LeaseExpires(j) ==
    /\ file[j].status = "running" /\ file[j].lease = "live"
    /\ file' = [file EXCEPT ![j].lease = "expired"]
    /\ UNCHANGED <<mirror, folders, claims, usage, history, reports, lastRun,
                   faults>>

StoreInit ==
    /\ file = [j \in Jobs |-> Absent]
    /\ mirror = [p \in Processes |-> [j \in Jobs |-> Absent]]
    /\ folders = {}
    /\ claims = {}
    /\ usage = {}
    /\ history = [j \in Jobs |-> NoRun]
    /\ reports = {}
    /\ lastRun = NoRun
    /\ faults = 0

StoreTypeOK ==
    /\ file \in [Jobs -> Session]
    /\ mirror \in [Processes -> [Jobs -> Session]]
    /\ folders \subseteq Jobs
    /\ claims \subseteq Jobs
    /\ usage \subseteq Jobs
    /\ history \in [Jobs -> Nat]
    /\ reports \subseteq Jobs \X Nat
    /\ lastRun \in Nat
    /\ faults \in Nat
=============================================================================
