--------------------------- MODULE ExternalWorkers ---------------------------
(***************************************************************************)
(* analysis_worker_mode = external: GPU worker processes on the machine    *)
(* that holds the runtime directory (worker.py run_worker and              *)
(* run_claimed_job), beside the web process of JobRequests.  They share    *)
(* the session files and the accounts database, and nothing else.          *)
(***************************************************************************)
EXTENDS JobRequests

VARIABLE worker   \* where each worker process is, and the copy it claimed

extVars == <<vars, worker, untouched>>

ASSUME ExternalAssumption ==
    WorkerIds \subseteq Processes /\ Web \notin WorkerIds /\ Detached

WorkerSteps == {"idle", "scanned", "claiming", "claimed", "analysing", "saving",
                "failing", "release", "unmark", "error", "dead"}

At(w, step) == worker[w].at = step
AtRest(step, j) == [at |-> step, job |-> j, copy |-> Absent]

\* Worker w goes on to its next step; back at the top of its loop, or dead, it
\* holds nothing.
WorkerGoto(w, step) ==
    worker' = IF step \in {"idle", "dead"}
              THEN [worker EXCEPT ![w] = AtRest(step, @.job)]
              ELSE [worker EXCEPT ![w].at = step]

\* The run a worker is working on, from its claim until it lets go.
Working == {"claimed", "analysing", "saving", "failing", "release", "unmark", "error"}
Job(w) == worker[w].job
Run(w) == worker[w].copy.run

-----------------------------------------------------------------------------
(* claim_next_job.                                                         *)

\* The list of candidates is taken first ...
ClaimScan(w, j) ==
    /\ At(w, "idle") /\ file[j] # Absent
    /\ worker' = [worker EXCEPT ![w] = AtRest("scanned", j)]
    /\ UNCHANGED vars

\* ... then the claim directory is made.  One that is there already is
\* somebody else's claim; a job directory that is gone by now raises
\* FileNotFoundError, which nothing in run_worker catches.
ClaimMake(w) ==
    /\ At(w, "scanned")
    /\ \/ /\ Job(w) \in folders \ claims
          /\ claims' = claims \cup {Job(w)}
          /\ WorkerGoto(w, "claiming")
          /\ UNCHANGED mirror
       \/ /\ Job(w) \in folders \cap claims
          /\ WorkerGoto(w, "idle")
          /\ UNCHANGED <<claims, mirror>>
       \/ /\ Job(w) \notin folders
          /\ WorkerGoto(w, "dead")
          /\ mirror' = [mirror EXCEPT ![w] = [j \in Jobs |-> Absent]]
          /\ UNCHANGED claims
    /\ UNCHANGED <<file, folders, usage, history, reports, lastRun, faults, requestVars>>

ClaimTake(w, ok) ==
    LET s == OnDisk(Job(w))
        mine == Claimable(s) /\ ok
    IN  /\ At(w, "claiming")
        /\ IF Claimable(s) THEN WriteFile(Job(w), Started(s, w), ok)
           ELSE ok /\ Refresh(Job(w), s)
        /\ IF mine THEN Remember(w, Job(w), Started(s, w)) ELSE UNCHANGED mirror
        /\ worker' = [worker EXCEPT ![w].at = "claimed",
                                    ![w].copy = IF mine THEN Started(s, w) ELSE Absent]
        /\ UNCHANGED <<claims, usage, history, reports, lastRun, requestVars>>

\* Slip: the claim directory is left behind.
ClaimDropKeeps(w) ==
    /\ At(w, "claimed")
    /\ WorkerGoto(w, IF worker[w].copy = Absent THEN "idle" ELSE "analysing")
    /\ UNCHANGED vars

\* The finally of claim_next_job.
ClaimDrop(w) ==
    /\ At(w, "claimed")
    /\ claims' = claims \ {Job(w)}
    /\ WorkerGoto(w, IF worker[w].copy = Absent THEN "idle" ELSE "analysing")
    /\ UNCHANGED <<file, mirror, folders, usage, history, reports, lastRun,
                   faults, requestVars>>

-----------------------------------------------------------------------------
(* run_claimed_job.                                                        *)

\* A refused progress report raises AnalysisRunLost, and the run is dropped.
Progress(w, ok) ==
    LET kept == OwnsRun(OnDisk(Job(w)), w, Run(w)) /\ ok
    IN  /\ At(w, "analysing")
        /\ RenewRun(w, Job(w), w, Run(w), ok)
        /\ WorkerGoto(w, IF kept THEN "analysing" ELSE "idle")
        /\ UNCHANGED <<claims, usage, history, reports, lastRun, requestVars>>

Finish(w, ok) ==
    LET kept == OwnsRun(OnDisk(Job(w)), w, Run(w)) /\ ok
    IN  /\ At(w, "analysing")
        /\ FinalizeRun(w, Job(w), w, Run(w), ok)
        /\ WorkerGoto(w, IF kept THEN "saving" ELSE "idle")
        /\ UNCHANGED <<claims, usage, history, lastRun, requestVars>>

Save(w, saves, writes) ==
    /\ At(w, "saving")
    /\ PersistRun(w, Job(w), Run(w), saves, writes)
    /\ WorkerGoto(w, "idle")
    /\ UNCHANGED <<claims, usage, reports, lastRun, requestVars>>

\* analyze() raises: the video cannot be read, the model fails, ...
AnalysisFails(w) == At(w, "analysing") /\ WorkerGoto(w, "failing") /\ UNCHANGED vars

\* The session - or the copy claimed, when there is none - decides by its run
\* id alone whether the failure is still this worker's to report.
FailRead(w) ==
    LET current == IF Seen(w, Job(w)) = Absent THEN worker[w].copy ELSE Seen(w, Job(w))
        owns == current.run = Run(w)
    IN  /\ At(w, "failing")
        /\ GetJob(w, Job(w))
        /\ WorkerGoto(w, IF ~owns THEN "idle"
                         ELSE IF current.reserved /\ HasAccount(Job(w)) THEN "release"
                         ELSE "error")
        /\ UNCHANGED <<claims, usage, history, reports, lastRun, requestVars>>

FailRelease(w) ==
    /\ At(w, "release")
    /\ usage' = usage \ {Job(w)}
    /\ WorkerGoto(w, "unmark")
    /\ UNCHANGED <<file, mirror, folders, claims, history, reports, lastRun,
                   faults, requestVars>>

FailUnmark(w, ok) ==
    /\ At(w, "unmark")
    /\ PatchJob(w, Job(w), [Base(w, Job(w)) EXCEPT !.reserved = FALSE], ok)
    /\ WorkerGoto(w, "error")
    /\ UNCHANGED <<claims, usage, history, reports, lastRun, requestVars>>

FailError(w, ok) ==
    /\ At(w, "error")
    /\ PatchJob(w, Job(w), Failed(Base(w, Job(w))), ok)
    /\ WorkerGoto(w, "idle")
    /\ UNCHANGED <<claims, usage, history, reports, lastRun, requestVars>>

\* The process is killed, or the machine loses power.
WorkerDies(w) ==
    /\ ~At(w, "dead") /\ crashes < MaxCrashes
    /\ crashes' = crashes + 1
    /\ WorkerGoto(w, "dead")
    /\ mirror' = [mirror EXCEPT ![w] = [j \in Jobs |-> Absent]]
    /\ UNCHANGED <<file, folders, claims, usage, history, reports, lastRun,
                   faults, req, created, deleted>>

-----------------------------------------------------------------------------

Init ==
    /\ RequestInit
    /\ worker = [w \in WorkerIds |-> AtRest("idle", CHOOSE j \in Jobs : TRUE)]

\* What a worker does in its loop, whatever the analysis does.
WorkerTurn(w) ==
    /\ \/ \E j \in Jobs : ClaimScan(w, j)
       \/ ClaimMake(w) \/ ClaimDrop(w) \/ FailRead(w) \/ FailRelease(w)
       \/ \E ok \in BOOLEAN : ClaimTake(w, ok) \/ FailUnmark(w, ok) \/ FailError(w, ok)
       \/ \E saves, writes \in BOOLEAN : Save(w, saves, writes)
    /\ Ages

AnalysisEnds(w) ==
    /\ AnalysisFails(w) \/ \E ok \in BOOLEAN : Finish(w, ok)
    /\ Ages

\* What needs no particular scheduling: progress reports and deaths.
Mishap(w) ==
    /\ WorkerDies(w) \/ \E ok \in BOOLEAN : Progress(w, ok)
    /\ Ages

WebTurn ==
    /\ \/ WebStep \/ WebRestarts
       \/ \E q \in Requests, ok \in BOOLEAN : QueueStep(q, ok)
    /\ Ages
    /\ UNCHANGED worker

Next == WebTurn \/ \E w \in WorkerIds : WorkerTurn(w) \/ AnalysisEnds(w) \/ Mishap(w)

Spec == Init /\ [][Next]_extVars

\* A worker that is alive keeps going and an analysis ends; wall-clock time
\* passes; somebody has the job's page open, and the page polls.
FairSpec ==
    /\ Spec
    /\ \A w \in WorkerIds : WF_extVars(WorkerTurn(w)) /\ WF_extVars(AnalysisEnds(w))
    /\ \A j \in Jobs : /\ WF_extVars(UNCHANGED <<worker, requestVars>> /\ LeaseExpires(j) /\ Ages)
                       /\ WF_extVars(UNCHANGED worker /\ Poll(j) /\ Ages)

TypeOK ==
    /\ RequestTypeOK
    /\ worker \in [WorkerIds -> [at : WorkerSteps, job : Jobs, copy : Session]]
    /\ untouched \subseteq Jobs

-----------------------------------------------------------------------------

\* Two workers never analyse the same generation of a job: the claim directory
\* and the job's lock hand each queued run to one of them (claim_next_job).
\* It is claimed of handlers that come one at a time; DeletedStaysDeleted says
\* what can bring an older copy of a session back.
OneWorkerPerRun ==
    \A v, w \in WorkerIds :
        /\ v # w /\ worker[v].at \in Working /\ worker[w].at \in Working
        /\ Job(v) = Job(w) /\ worker[v].copy # Absent
        => Run(v) # Run(w)

\* A running analysis ends one way or another, also when its worker died: the
\* lease runs out and the next reader of the session interrupts it.
RunningEnds == \A j \in Jobs : file[j].status = "running" ~> file[j].status # "running"

\* claim_next_job (README: a queued fight starts when the worker connects):
\* barring a failed write and a process that is killed, a queued fight is taken
\* up - unless no worker is left, because the directory of a fight it was about
\* to claim had just been deleted.
ServedBarringMishaps ==
    \A j \in Jobs : file[j].status = "queued"
        ~> \/ file[j].status # "queued" \/ crashes > 0 \/ faults > 0
           \/ \A w \in WorkerIds : At(w, "dead")
=============================================================================
