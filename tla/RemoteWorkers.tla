---------------------------- MODULE RemoteWorkers ----------------------------
(***************************************************************************)
(* analysis_worker_mode = remote: workers on machines of their own         *)
(* (worker.py run_remote_worker, run_remote_claimed_job) that reach the    *)
(* web process over HTTP (core/worker_client.py).  The web process runs a  *)
(* handler per call (remote_worker_claim and so on, in app/main.py); it    *)
(* alone touches the store.  A worker that stops waiting does not stop the *)
(* handler, which goes on beside whatever the worker does next.            *)
(***************************************************************************)
EXTENDS JobRequests

CONSTANTS
    Calls,    \* bound: handlers of worker calls under way at the same time
    Resends   \* a worker posts a result again when the answer to it was lost, as
              \* remote_worker_complete expects of one; the worker.py beside it
              \* posts a result once

VARIABLES
    worker,   \* each worker: where it is, its run, and ownership_lost
    call,     \* each handler under way and whether its worker still waits
    retaken   \* history, for FailureIsGivenBack: the jobs for which an analysis was
              \* reserved between the release and the un-mark of an earlier one

remoteVars == <<vars, worker, call, retaken, untouched>>

ASSUME RemoteAssumption ==
    Processes = {Web} /\ WorkerIds # {} /\ Detached /\ Resends \in BOOLEAN

WorkerSteps == {"idle", "asking", "analysing", "sending", "failing",
                "reporting", "dead"}

ClaimCall == {"make", "take", "drop"}
ProgressCall == {"owned", "renew"}
ResultCall == {"result", "commit", "save"}
FailureCall == {"failure", "release", "unmark", "error"}
CallSteps == {"free"} \cup ClaimCall \cup ProgressCall \cup ResultCall \cup FailureCall

AtRest(w, step) == [at |-> step, job |-> worker[w].job, run |-> NoRun, lost |-> FALSE]
NoCall(c) == [at |-> "free", by |-> call[c].by, job |-> call[c].job,
              run |-> NoRun, waits |-> FALSE]

WorkerGoto(w, step) ==
    worker' = [worker EXCEPT ![w] = IF step \in {"idle", "dead"} THEN AtRest(w, step)
                                    ELSE [@ EXCEPT !.at = step]]

\* Worker w sends a call; a free handler takes it up at step.
Send(c, w, step, j) ==
    /\ call[c].at = "free"
    /\ call' = [call EXCEPT ![c] = [at |-> step, by |-> w, job |-> j,
                  run |-> worker[w].run, waits |-> TRUE]]

\* The handler of call c goes on to its next step.
CallGoto(c, step) == call' = [call EXCEPT ![c].at = step] /\ UNCHANGED worker

\* It returns, and a worker that still waits for it reads the answer: w is
\* what the worker does then.
Answer(c, w) ==
    /\ call' = [call EXCEPT ![c] = NoCall(c)]
    /\ worker' = IF call[c].waits THEN [worker EXCEPT ![call[c].by] = w] ELSE worker

By(c) == call[c].by
CJob(c) == call[c].job
CRun(c) == call[c].run
Here(c) == worker[By(c)]

\* The condition of _owned_worker_job, on what get_job shows.
Owned(c) == OwnsRun(Seen(Web, CJob(c)), By(c), CRun(c))

-----------------------------------------------------------------------------
(* POST /api/worker/claim: claim_next_job in the web process.  A claim that *)
(* passes over a candidate answers that there is no job here, and is made   *)
(* again for the next one.                                                  *)

AskForJob(w, c, j) ==
    /\ worker[w].at = "idle" /\ file[j] # Absent
    /\ Send(c, w, "make", j)
    /\ worker' = [worker EXCEPT ![w] = [AtRest(w, "asking") EXCEPT !.job = j]]
    /\ UNCHANGED vars

NoJob(c) == AtRest(By(c), "idle")

\* mkdir of the claim directory; a job directory that is gone makes the
\* handler fail, which the worker survives.
ClaimMake(c) ==
    /\ call[c].at = "make"
    /\ IF CJob(c) \in folders \ claims
       THEN claims' = claims \cup {CJob(c)} /\ CallGoto(c, "take")
       ELSE UNCHANGED claims /\ Answer(c, NoJob(c))
    /\ UNCHANGED <<file, mirror, folders, usage, history, reports, lastRun,
                   faults, requestVars>>

ClaimTake(c, ok) ==
    LET s == OnDisk(CJob(c))
        mine == Claimable(s) /\ ok
    IN  /\ call[c].at = "take"
        /\ IF Claimable(s) THEN WriteFile(CJob(c), Started(s, By(c)), ok)
           ELSE ok /\ Refresh(CJob(c), s)
        /\ IF mine THEN Remember(Web, CJob(c), Started(s, By(c))) ELSE UNCHANGED mirror
        /\ call' = [call EXCEPT ![c].at = "drop", ![c].run = IF mine THEN s.run ELSE NoRun]
        /\ UNCHANGED <<claims, usage, history, reports, lastRun, requestVars, worker>>

ClaimDrop(c) ==
    /\ call[c].at = "drop"
    /\ claims' = claims \ {CJob(c)}
    /\ Answer(c, IF CRun(c) = NoRun THEN NoJob(c)
                 ELSE [at |-> "analysing", job |-> CJob(c), run |-> CRun(c), lost |-> FALSE])
    /\ UNCHANGED <<file, mirror, folders, usage, history, reports, lastRun,
                   faults, requestVars>>

-----------------------------------------------------------------------------
(* POST .../progress: sent by the lease keeper and by _ProgressSender, from *)
(* threads of their own while the analysis goes on.  409 sets               *)
(* ownership_lost; 404, for a session that is gone, is only logged.         *)

SendProgress(w, c) ==
    /\ worker[w].at = "analysing" /\ ~worker[w].lost
    /\ Send(c, w, "owned", worker[w].job)
    /\ UNCHANGED <<vars, worker>>

\* ownership_lost belongs to one run: a late 409 about another changes nothing.
LosesRun(c) == IF Here(c).run = CRun(c) THEN [Here(c) EXCEPT !.lost = TRUE] ELSE Here(c)

ProgressCheck(c) ==
    /\ call[c].at = "owned"
    /\ GetJob(Web, CJob(c))
    /\ IF Owned(c) THEN CallGoto(c, "renew")
       ELSE Answer(c, IF Seen(Web, CJob(c)) = Absent THEN Here(c) ELSE LosesRun(c))
    /\ UNCHANGED <<claims, usage, history, reports, lastRun, requestVars>>

ProgressRenew(c, ok) ==
    LET kept == OwnsRun(OnDisk(CJob(c)), By(c), CRun(c)) /\ ok
    IN  /\ call[c].at = "renew"
        /\ RenewRun(Web, CJob(c), By(c), CRun(c), ok)
        /\ Answer(c, IF kept THEN Here(c) ELSE LosesRun(c))
        /\ UNCHANGED <<claims, usage, history, reports, lastRun, requestVars>>

\* The analysis hands over its next progress, or ends, and finds the run lost.
GiveUpRun(w) ==
    /\ worker[w].at = "analysing" /\ worker[w].lost
    /\ WorkerGoto(w, "idle")
    /\ UNCHANGED <<vars, call>>

-----------------------------------------------------------------------------
(* POST .../complete.                                                      *)

SendResult(w, c) ==
    /\ \/ worker[w].at = "analysing" /\ ~worker[w].lost
       \/ worker[w].at = "sending" /\ Resends
          /\ \A d \in Calls : ~(call[d].by = w /\ call[d].waits /\ call[d].at \in ResultCall)
    /\ Send(c, w, "result", worker[w].job)
    /\ WorkerGoto(w, "sending")
    /\ UNCHANGED vars

Accepted(c) == AtRest(By(c), "idle")
Refused(c) == AtRest(By(c), "idle")             \* 409: the run is lost
Broken(c) == [Here(c) EXCEPT !.at = "failing"]  \* any other error

ResultCheck(c) ==
    LET s == Seen(Web, CJob(c))
        again == /\ s.status = "complete" /\ s.worker = By(c) /\ s.run = CRun(c)
                 /\ s.artifacts = s.run /\ <<CJob(c), CRun(c)>> \in reports
    IN  /\ call[c].at = "result"
        /\ GetJob(Web, CJob(c))
        /\ IF again THEN CallGoto(c, "save")
           ELSE IF Owned(c) THEN CallGoto(c, "commit")
           ELSE Answer(c, IF s = Absent THEN Broken(c) ELSE Refused(c))
        /\ UNCHANGED <<claims, usage, history, reports, lastRun, requestVars>>

\* The archive has been received and unpacked, which took time and let other
\* handlers in.  It may be no good (400), or come from outdated code (409).
ResultCommit(c, ok) ==
    LET kept == OwnsRun(OnDisk(CJob(c)), By(c), CRun(c)) /\ ok
    IN  /\ call[c].at = "commit"
        /\ FinalizeRun(Web, CJob(c), By(c), CRun(c), ok)
        /\ IF kept THEN CallGoto(c, "save") ELSE Answer(c, Refused(c))
        /\ UNCHANGED <<claims, usage, history, lastRun, requestVars>>

ResultRejected(c) ==
    /\ call[c].at = "commit"
    /\ Answer(c, Broken(c)) \/ Answer(c, Refused(c))
    /\ UNCHANGED vars

ResultSave(c, saves, writes) ==
    /\ call[c].at = "save"
    /\ PersistRun(Web, CJob(c), CRun(c), saves, writes)
    /\ Answer(c, Accepted(c))
    /\ UNCHANGED <<claims, usage, reports, lastRun, requestVars>>

-----------------------------------------------------------------------------
(* POST .../failed.                                                        *)

\* The analysis, the download or the upload raised.
AnalysisFails(w) ==
    /\ worker[w].at = "analysing"
    /\ WorkerGoto(w, "failing")
    /\ UNCHANGED <<vars, call>>

SendFailure(w, c) ==
    /\ worker[w].at = "failing"
    /\ Send(c, w, "failure", worker[w].job)
    /\ WorkerGoto(w, "reporting")
    /\ UNCHANGED vars

\* Slip: the reserved analysis is not given back.
FailureCheckKeeps(c) ==
    /\ call[c].at = "failure"
    /\ GetJob(Web, CJob(c))
    /\ IF Owned(c) THEN CallGoto(c, "error") ELSE Answer(c, AtRest(By(c), "idle"))
    /\ UNCHANGED <<claims, usage, history, reports, lastRun, requestVars>>

FailureCheck(c) ==
    LET s == Seen(Web, CJob(c))
        holds == s.reserved /\ HasAccount(CJob(c))
    IN  /\ call[c].at = "failure"
        /\ GetJob(Web, CJob(c))
        /\ IF Owned(c) THEN CallGoto(c, IF holds THEN "release" ELSE "error")
           ELSE Answer(c, AtRest(By(c), "idle"))
        /\ UNCHANGED <<claims, usage, history, reports, lastRun, requestVars>>

FailureRelease(c) ==
    /\ call[c].at = "release"
    /\ usage' = usage \ {CJob(c)}
    /\ CallGoto(c, "unmark")
    /\ UNCHANGED <<file, mirror, folders, claims, history, reports, lastRun,
                   faults, requestVars>>

FailureUnmark(c, ok) ==
    /\ call[c].at = "unmark"
    /\ PatchJob(Web, CJob(c), [Base(Web, CJob(c)) EXCEPT !.reserved = FALSE], ok)
    /\ CallGoto(c, "error")
    /\ UNCHANGED <<claims, usage, history, reports, lastRun, requestVars>>

\* Slip: as in the other modes, not fenced.
FailureErrorUnfenced(c, ok) ==
    /\ call[c].at = "error"
    /\ PatchJob(Web, CJob(c), Failed(Base(Web, CJob(c))), ok)
    /\ Answer(c, AtRest(By(c), "idle"))
    /\ UNCHANGED <<claims, usage, history, reports, lastRun, requestVars>>

\* Fenced, unlike the same step of the other modes.
FailureError(c, ok) ==
    LET s == OnDisk(CJob(c))
    IN  /\ call[c].at = "error"
        /\ IF OwnsRun(s, By(c), CRun(c)) THEN UpdateJob(Web, CJob(c), Failed(s), ok)
           ELSE ok /\ Refresh(CJob(c), s) /\ UNCHANGED mirror
        /\ Answer(c, AtRest(By(c), "idle"))
        /\ UNCHANGED <<claims, usage, history, reports, lastRun, requestVars>>

-----------------------------------------------------------------------------

\* The worker's wait times out, or the connection breaks: the answer is lost
\* and the handler goes on alone.  A claim is forgotten, a progress report is
\* not missed, and a result that cannot be delivered is reported as a failure
\* (or, if the worker resends, posted again).
StopsWaiting(c) ==
    /\ call[c].waits
    /\ call' = [call EXCEPT ![c].waits = FALSE]
    /\ CASE call[c].at \in ClaimCall \cup FailureCall -> WorkerGoto(By(c), "idle")
         [] call[c].at \in ResultCall ->
              (WorkerGoto(By(c), "failing") \/ (Resends /\ UNCHANGED worker))
         [] OTHER -> UNCHANGED worker
    /\ UNCHANGED vars

\* The worker's process or machine dies; its calls are nobody's to wait for.
WorkerDies(w) ==
    /\ worker[w].at # "dead" /\ crashes < MaxCrashes
    /\ crashes' = crashes + 1
    /\ WorkerGoto(w, "dead")
    /\ call' = [c \in Calls |-> IF call[c].by = w THEN [call[c] EXCEPT !.waits = FALSE]
                                ELSE call[c]]
    /\ UNCHANGED <<file, mirror, folders, claims, usage, history, reports,
                   lastRun, faults, req, created, deleted>>

\* The web process dies and takes the handlers with it: their workers see a
\* broken connection.
Restart ==
    /\ WebRestarts
    /\ call' = [c \in Calls |-> NoCall(c)]
    /\ worker' = [w \in WorkerIds |->
           CASE worker[w].at \in {"asking", "reporting"} -> AtRest(w, "idle")
             [] worker[w].at = "sending" -> [worker[w] EXCEPT !.at = "failing"]
             [] OTHER -> worker[w]]

-----------------------------------------------------------------------------

\* The jobs for which this step reserves an analysis while a handler that gave
\* one of theirs back has not cleared the mark yet: it will clear the new one's.
Retakes == {j \in usage' \ usage :
               \/ \E c \in Calls : call[c].at = "unmark" /\ CJob(c) = j
               \/ \E q \in Requests : req[q].at = "unmark" /\ req[q].job = j}

Init ==
    /\ RequestInit
    /\ retaken = {}
    /\ worker = [w \in WorkerIds |->
           [at |-> "idle", job |-> CHOOSE j \in Jobs : TRUE, run |-> NoRun, lost |-> FALSE]]
    /\ call = [c \in Calls |->
           [at |-> "free", by |-> CHOOSE w \in WorkerIds : TRUE,
            job |-> CHOOSE j \in Jobs : TRUE, run |-> NoRun, waits |-> FALSE]]

ServerTurn(c) ==
    /\ \/ ClaimMake(c) \/ ClaimDrop(c)
       \/ ProgressCheck(c) \/ ResultCheck(c) \/ ResultRejected(c)
       \/ FailureCheck(c) \/ FailureRelease(c)
       \/ \E ok \in BOOLEAN :
             \/ ClaimTake(c, ok) \/ ProgressRenew(c, ok) \/ ResultCommit(c, ok)
             \/ FailureUnmark(c, ok) \/ FailureError(c, ok)
       \/ \E saves, writes \in BOOLEAN : ResultSave(c, saves, writes)
    /\ UNCHANGED retaken /\ Ages

\* What a worker does in its loop apart from the analysis and its progress.
WorkerTurn(w) ==
    /\ \/ \E c \in Calls, j \in Jobs : AskForJob(w, c, j)
       \/ \E c \in Calls : SendFailure(w, c)
       \/ GiveUpRun(w)
    /\ UNCHANGED retaken /\ Ages

AnalysisEnds(w) ==
    /\ AnalysisFails(w) \/ \E c \in Calls : SendResult(w, c)
    /\ UNCHANGED retaken /\ Ages

\* What needs no particular scheduling: a worker's wait, its death, its progress
\* reports, and the death of the web process.
Mishap ==
    /\ \/ \E c \in Calls : StopsWaiting(c)
       \/ \E w \in WorkerIds : WorkerDies(w)
       \/ \E w \in WorkerIds, c \in Calls : SendProgress(w, c)
       \/ Restart
    /\ UNCHANGED retaken /\ Ages

WebTurn ==
    /\ \/ WebStep
       \/ \E q \in Requests, ok \in BOOLEAN : QueueStep(q, ok)
    /\ retaken' = retaken \cup Retakes /\ Ages
    /\ UNCHANGED <<worker, call>>

Next ==
    \/ WebTurn \/ Mishap
    \/ \E c \in Calls : ServerTurn(c)
    \/ \E w \in WorkerIds : WorkerTurn(w) \/ AnalysisEnds(w)

Spec == Init /\ [][Next]_remoteVars

\* Handlers and living workers keep going and an analysis ends; wall-clock time
\* passes; the page of the job polls.
FairSpec ==
    /\ Spec
    /\ \A c \in Calls : WF_remoteVars(ServerTurn(c))
    /\ \A w \in WorkerIds : WF_remoteVars(WorkerTurn(w)) /\ WF_remoteVars(AnalysisEnds(w))
    /\ \A j \in Jobs : /\ WF_remoteVars(UNCHANGED <<worker, call, retaken, requestVars>>
                                        /\ LeaseExpires(j) /\ Ages)
                       /\ WF_remoteVars(UNCHANGED <<worker, call, retaken>> /\ Poll(j) /\ Ages)

TypeOK ==
    /\ RequestTypeOK
    /\ worker \in [WorkerIds -> [at : WorkerSteps, job : Jobs, run : Nat, lost : BOOLEAN]]
    /\ call \in [Calls -> [at : CallSteps, by : WorkerIds, job : Jobs, run : Nat,
                           waits : BOOLEAN]]
    /\ retaken \subseteq Jobs /\ untouched \subseteq Jobs

-----------------------------------------------------------------------------

\* Two workers are never on the same generation of a job, also when an answer is
\* lost and a claim, or the run after it, is somebody else's by then.
OneWorkerPerRun ==
    \A v, w \in WorkerIds :
        v # w /\ worker[v].run # NoRun /\ worker[v].job = worker[w].job
        => worker[v].run # worker[w].run

\* An analysis that failed before completion is given back (core/legal.py:132),
\* if no write failed and nothing died, and unless another was reserved for the
\* job while the failure was being worked off: its late un-mark is taken for the
\* new reservation's, and that one is not given back when its run fails.
FailureIsGivenBack ==
    faults = 0 /\ crashes = 0
    => \A j \in Jobs : file[j].status = "error" /\ Settled(j) /\ j \notin retaken
                      => j \notin usage

\* A running analysis ends one way or another: also when the worker died, or
\* never heard that its claim was granted.
RunningEnds == \A j \in Jobs : file[j].status = "running" ~> file[j].status # "running"

\* A result posted again after its answer was lost is accepted, and changes
\* nothing that was committed (comment in remote_worker_complete).
CommittedStays ==
    [][\A j \in Jobs, c \in Calls :
          call[c].at \in ResultCall \cup FailureCall /\ call'[c] # call[c]
          /\ file[j].status = "complete" /\ file[j].run = CRun(c)
          => file'[j].status = "complete" /\ file'[j].artifacts = file[j].artifacts]_remoteVars
=============================================================================
