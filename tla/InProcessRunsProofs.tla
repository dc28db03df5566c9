---------------------------- MODULE InProcessRunsProofs ----------------------------
(***************************************************************************)
(* The in-process executor keeps the types, the result, the lease fence    *)
(* and the promise of app/state.py, whatever its handlers and its restarts *)
(* do.  As for the other deployments, every step is shown to keep          *)
(* RequestInv and to be one of the FileMoves of JobRequestsProofs.  Then:  *)
(* a queued run is handed over once, and unless something fails there is a *)
(* task for it.                                                            *)
(***************************************************************************)
EXTENDS InProcessRuns, JobRequestsProofs

Run == 1..MaxRuns

TasksTyped ==
    /\ tasks \in Seq(Jobs \X Run)
    /\ task \in [at : TaskSteps, job : Jobs, run : Nat, saved : Nat]
    /\ task.at # "idle" => task.run \in Run

InProcessInv == RequestInv /\ TasksTyped

\* What the invariant says of the executor's thread.
LEMMA TheTask ==
    ASSUME InProcessInv
    PROVE  /\ RequestInv /\ StoreInv /\ Web \in Processes /\ task.job \in Jobs
           /\ task.run \in Nat /\ task.saved \in Nat
           /\ task.at # "idle" => task.run \in Run /\ task.run \in WorkerIds
BY UnchangedTyped, InProcessAssumption DEF InProcessInv, TasksTyped, Run

\* A task that only goes on stays well typed.
LEMMA TaskGoesOn ==
    ASSUME InProcessInv, NEW step \in TaskSteps, TaskGoto(step), task.at # "idle", UNCHANGED tasks
    PROVE  TasksTyped'
BY DEF InProcessInv, TasksTyped, TaskGoto, NoTask, NoRun, TaskSteps

\* The thread's call about its job, with nothing of the handlers.
LEMMA TaskCallKeeps ==
    ASSUME InProcessInv, Effect(Web, task.job), OthersTyped, UNCHANGED <<lastRun, Handlers>>
    PROVE  RequestInv' /\ FileMoves
BY TheTask, UnchangedTyped, CallKeeps DEF Handlers

\* A handler submits the run it queued.
LEMMA SubmitKeeps ==
    ASSUME InProcessInv, NEW q \in Requests, Submit(q)
    PROVE  InProcessInv' /\ FileMoves
<1>1. <<req[q].job, req[q].seen.run>> \in Jobs \X Run
  BY UnchangedTyped DEF Submit, InProcessInv, RequestInv, SubmitsGood, Run
<1>2. TasksTyped'
  BY <1>1 DEF Submit, InProcessInv, TasksTyped
<1>3. RequestInv' /\ FileMoves
  <2>1. UNCHANGED <<file, mirror, folders, claims, usage, history, reports, lastRun, faults>>
    BY DEF Submit, storeVars
  <2>2. req[q].job \in Jobs /\ Effect(Web, req[q].job)
    BY <2>1, TheTask, UnchangedTyped, NoEffect
  <2>3. OthersTyped /\ Handled(q)
    BY <2>1, TheTask, UnchangedTyped DEF OthersTyped, Handled, Submit
  <2> QED
    BY <2>1, <2>2, <2>3, TheTask, UnchangedTyped, CallKeeps DEF Submit
<1> QED
  BY <1>2, <1>3 DEF InProcessInv

\* The thread takes the oldest task.
LEMMA TakeTaskKeeps ==
    ASSUME InProcessInv, TakeTask
    PROVE  InProcessInv' /\ FileMoves
<1>1. /\ Head(tasks) \in Jobs \X Run /\ Tail(tasks) \in Seq(Jobs \X Run)
  BY DEF TakeTask, InProcessInv, TasksTyped
<1>2. TasksTyped'
  BY <1>1 DEF TakeTask, TasksTyped, TaskSteps, NoRun, Run
<1>3. RequestInv' /\ FileMoves
  BY TheTask, StutterKeeps DEF TakeTask
<1> QED
  BY <1>2, <1>3 DEF InProcessInv

\* The queued generation starts, or is not there any more.
LEMMA StartRunKeeps ==
    ASSUME InProcessInv, NEW ok \in BOOLEAN, StartRun(ok)
    PROVE  InProcessInv' /\ FileMoves
<1>1. TasksTyped'
  BY TaskGoesOn DEF StartRun, TaskSteps
<1>2. RequestInv' /\ FileMoves
  <2> DEFINE s == Base(Web, task.job)
             mine == s.status = "queued" /\ s.run = task.run
  <2>1. Effect(Web, task.job)
    <3>1. CASE mine
      <4>1. GoodFor(task.job, Started(s, task.run)) /\ SessionMoves(file[task.job], Started(s, task.run))
        BY <3>1, TheTask, ReadsAreGood, StartedIsGood, MoveAfterRead DEF Claimable, StartRun
      <4> QED
        BY <3>1, <4>1, TheTask, UpdateEffect DEF StartRun
    <3>2. CASE ~mine
      BY <3>2, TheTask, ReadEffect DEF StartRun
    <3> QED
      BY <3>1, <3>2
  <2>2. OthersTyped
    BY TheTask, UnchangedTyped DEF StartRun, OthersTyped
  <2> QED
    BY <2>1, <2>2, TaskCallKeeps DEF StartRun
<1> QED
  BY <1>1, <1>2 DEF InProcessInv

\* A progress report.
LEMMA ProgressKeeps ==
    ASSUME InProcessInv, NEW ok \in BOOLEAN, Progress(ok)
    PROVE  InProcessInv' /\ FileMoves
<1>1. TasksTyped'
  BY TaskGoesOn DEF Progress, TaskSteps
<1>2. RequestInv' /\ FileMoves
  <2>1. Effect(Web, task.job)
    BY TheTask, RenewEffect DEF Progress
  <2>2. OthersTyped
    BY <2>1, TheTask, UnchangedTyped DEF Progress, OthersTyped
  <2> QED
    BY <2>1, <2>2, TaskCallKeeps DEF Progress
<1> QED
  BY <1>1, <1>2 DEF InProcessInv

\* The result is committed, or refused.
LEMMA FinishKeeps ==
    ASSUME InProcessInv, NEW ok \in BOOLEAN, Finish(ok)
    PROVE  InProcessInv' /\ FileMoves
<1>1. TasksTyped'
  BY TaskGoesOn DEF Finish, TaskSteps
<1>2. RequestInv' /\ FileMoves
  <2>1. Effect(Web, task.job) /\ reports' \subseteq Jobs \X Nat
    BY TheTask, FinalizeEffect DEF Finish
  <2>2. OthersTyped
    BY <2>1, TheTask, UnchangedTyped DEF Finish, OthersTyped
  <2> QED
    BY <2>1, <2>2, TaskCallKeeps DEF Finish
<1> QED
  BY <1>1, <1>2 DEF InProcessInv

\* The committed session is read back.
LEMMA ReadBackKeeps ==
    ASSUME InProcessInv, ReadBack
    PROVE  InProcessInv' /\ FileMoves
<1>1. TasksTyped'
  <2>1. Seen(Web, task.job).run \in Nat
    BY TheTask, ReadsAreGood DEF GoodFor, Session
  <2> QED
    BY <2>1 DEF ReadBack, InProcessInv, TasksTyped, TaskSteps
<1>2. RequestInv' /\ FileMoves
  <2>1. Effect(Web, task.job)
    BY TheTask, GetJobEffect DEF ReadBack
  <2>2. OthersTyped
    BY <2>1, TheTask, UnchangedTyped DEF ReadBack, OthersTyped
  <2> QED
    BY <2>1, <2>2, TaskCallKeeps DEF ReadBack
<1> QED
  BY <1>1, <1>2 DEF InProcessInv

\* The result is saved in the account's history.
LEMMA SaveKeeps ==
    ASSUME InProcessInv, NEW saves \in BOOLEAN, NEW writes \in BOOLEAN,
           Save(saves, writes)
    PROVE  InProcessInv' /\ FileMoves
<1>1. TasksTyped'
  BY TaskGoesOn DEF Save, TaskSteps
<1>2. RequestInv' /\ FileMoves
  <2>1. Effect(Web, task.job) /\ history' \in [Jobs -> Nat]
    BY TheTask, PersistEffect DEF Save
  <2>2. OthersTyped
    BY <2>1, TheTask, UnchangedTyped DEF Save, OthersTyped
  <2> QED
    BY <2>1, <2>2, TaskCallKeeps DEF Save
<1> QED
  BY <1>1, <1>2 DEF InProcessInv

\* The analysis raises.
LEMMA AnalysisFailsKeeps ==
    ASSUME InProcessInv, AnalysisFails
    PROVE  InProcessInv' /\ FileMoves
<1>1. TasksTyped'
  BY TaskGoesOn DEF AnalysisFails, TaskSteps
<1>2. RequestInv' /\ FileMoves
  BY TheTask, StutterKeeps DEF AnalysisFails
<1> QED
  BY <1>1, <1>2 DEF InProcessInv

\* The failure branch reads the session.
LEMMA FailReadKeeps ==
    ASSUME InProcessInv, FailRead
    PROVE  InProcessInv' /\ FileMoves
<1>1. TasksTyped'
  BY TaskGoesOn DEF FailRead, TaskSteps
<1>2. RequestInv' /\ FileMoves
  <2>1. Effect(Web, task.job)
    BY TheTask, GetJobEffect DEF FailRead
  <2>2. OthersTyped
    BY <2>1, TheTask, UnchangedTyped DEF FailRead, OthersTyped
  <2> QED
    BY <2>1, <2>2, TaskCallKeeps DEF FailRead
<1> QED
  BY <1>1, <1>2 DEF InProcessInv

\* The failure branch gives the analysis back.
LEMMA FailReleaseKeeps ==
    ASSUME InProcessInv, FailRelease
    PROVE  InProcessInv' /\ FileMoves
<1>1. TasksTyped'
  BY TaskGoesOn DEF FailRelease, TaskSteps
<1>2. RequestInv' /\ FileMoves
  <2>1. Effect(Web, task.job)
    BY TheTask, NoEffect DEF FailRelease
  <2>2. OthersTyped
    BY <2>1, TheTask, UnchangedTyped DEF FailRelease, OthersTyped
  <2> QED
    BY <2>1, <2>2, TaskCallKeeps DEF FailRelease
<1> QED
  BY <1>1, <1>2 DEF InProcessInv

\* The failure branch clears the mark.
LEMMA FailUnmarkKeeps ==
    ASSUME InProcessInv, NEW ok \in BOOLEAN, FailUnmark(ok)
    PROVE  InProcessInv' /\ FileMoves
<1>1. TasksTyped'
  BY TaskGoesOn DEF FailUnmark, TaskSteps
<1>2. RequestInv' /\ FileMoves
  <2>1. Effect(Web, task.job)
    BY TheTask, MarkEffect DEF FailUnmark
  <2>2. OthersTyped
    BY <2>1, TheTask, UnchangedTyped DEF FailUnmark, OthersTyped
  <2> QED
    BY <2>1, <2>2, TaskCallKeeps DEF FailUnmark
<1> QED
  BY <1>1, <1>2 DEF InProcessInv

\* The failure branch marks the job as failed.
LEMMA FailErrorKeeps ==
    ASSUME InProcessInv, NEW ok \in BOOLEAN, FailError(ok)
    PROVE  InProcessInv' /\ FileMoves
<1>1. TasksTyped'
  BY TaskGoesOn DEF FailError, TaskSteps
<1>2. RequestInv' /\ FileMoves
  <2>1. Effect(Web, task.job)
    BY TheTask, FailEffect DEF FailError
  <2>2. OthersTyped
    BY <2>1, TheTask, UnchangedTyped DEF FailError, OthersTyped
  <2> QED
    BY <2>1, <2>2, TaskCallKeeps DEF FailError
<1> QED
  BY <1>1, <1>2 DEF InProcessInv

\* The web process dies with its executor.
LEMMA RestartKeeps ==
    ASSUME InProcessInv, Restart
    PROVE  InProcessInv' /\ FileMoves
<1>1. TasksTyped'
  <2>1. <<>> \in Seq(Jobs \X Run)
    OBVIOUS
  <2> QED
    BY <2>1, TheTask DEF Restart, TasksTyped, NoTask, NoRun, TaskSteps
<1>2. RequestInv' /\ FileMoves
  BY TheTask, WebRestartsKeeps DEF Restart
<1> QED
  BY <1>1, <1>2 DEF InProcessInv

-----------------------------------------------------------------------------

\* The invariant holds before anything is submitted.
LEMMA InProcessInitGood == Init => InProcessInv
<1>1. PICK first \in Jobs : first = CHOOSE j \in Jobs : TRUE
  BY StoreAssumption
<1>2. NoTask(first) \in [at : TaskSteps, job : Jobs, run : Nat, saved : Nat] /\ NoTask(first).at = "idle"
  BY DEF NoTask, TaskSteps, NoRun
<1>3. <<>> \in Seq(Jobs \X Run)
  OBVIOUS
<1>4. Init => TasksTyped
  BY <1>1, <1>2, <1>3 DEF Init, TasksTyped
<1> QED
  BY <1>4, RequestInitGood DEF Init, InProcessInv

\* The induction step: every action keeps the invariant and moves the session
\* files as it may.
LEMMA InProcessStep ==
    ASSUME InProcessInv, [Next]_inpVars
    PROVE  InProcessInv' /\ FileMoves
<1>1. CASE UNCHANGED <<tasks, task>> /\ WebStep
  BY <1>1, WebStepKeeps DEF InProcessInv, TasksTyped
<1>2. ASSUME NEW q \in Requests, HandlerTurn(q) PROVE InProcessInv' /\ FileMoves
  <2>1. ASSUME NEW ok \in BOOLEAN, HandlerStep(q, ok) \/ QueueStep(q, ok), UNCHANGED <<tasks, task>>
        PROVE  InProcessInv' /\ FileMoves
    BY <2>1, HandlerStepKeeps, QueueStepKeeps DEF InProcessInv, TasksTyped
  <2> QED
    BY <1>2, <2>1, SubmitKeeps DEF HandlerTurn
<1>3. CASE ExecutorTurn
  BY <1>3, TakeTaskKeeps, ReadBackKeeps, FailReadKeeps, FailReleaseKeeps, StartRunKeeps,
     FailUnmarkKeeps, FailErrorKeeps, SaveKeeps DEF ExecutorTurn
<1>4. CASE AnalysisEnds \/ Restart
  BY <1>4, AnalysisFailsKeeps, FinishKeeps, RestartKeeps DEF AnalysisEnds
<1>5. ASSUME NEW ok \in BOOLEAN, Progress(ok) PROVE InProcessInv' /\ FileMoves
  BY <1>5, ProgressKeeps
<1>6. CASE UNCHANGED inpVars
  BY <1>6, StutterKeeps DEF inpVars, InProcessInv, TasksTyped
<1> QED
  BY <1>1, <1>2, <1>3, <1>4, <1>5, <1>6 DEF Next, OtherTurn

\* No step leaves out what time does to a directory.
LEMMA InProcessAges ==
    ASSUME [Next]_inpVars
    PROVE  Ages \/ UNCHANGED inpVars
BY DEF Next, OtherTurn, ExecutorTurn, AnalysisEnds, HandlerTurn

\* The invariant holds in every reachable state.
THEOREM InProcessInvariant == Spec => []InProcessInv
<1>1. Init => InProcessInv
  BY InProcessInitGood
<1>2. InProcessInv /\ [Next]_inpVars => InProcessInv'
  BY InProcessStep
<1> QED
  BY <1>1, <1>2, PTL DEF Spec

\* Type correctness of the in-process deployment.
THEOREM InProcessTypes == Spec => []TypeOK
<1>1. Init => InProcessInv /\ untouched \subseteq Jobs
  BY InProcessInitGood DEF Init, RequestInit
<1>2. InProcessInv /\ untouched \subseteq Jobs /\ [Next]_inpVars
      => InProcessInv' /\ (untouched \subseteq Jobs)'
  BY InProcessStep, InProcessAges DEF Ages, inpVars
<1>3. InProcessInv /\ untouched \subseteq Jobs => TypeOK
  BY DEF InProcessInv, RequestInv, TasksTyped, Run, TypeOK
<1> QED
  BY <1>1, <1>2, <1>3, PTL DEF Spec

\* A finished session names the artifacts of its own current generation.
THEOREM InProcessResults == Spec => []ResultIsCurrent
<1>1. InProcessInv => ResultIsCurrent
  BY RequestInvResult DEF InProcessInv
<1> QED
  BY <1>1, InProcessInvariant, PTL

\* Results are committed only under a live lease of their own generation
\* (finalize_job_from_worker).
THEOREM InProcessCommits == Spec => CommitsOnlyUnderALiveLease
<1> DEFINE Commit == \A j \in Jobs :
          file'[j].status = "complete" /\ file[j].status \notin {"complete", "absent"}
          => /\ file[j].status = "running" /\ file[j].lease = "live"
             /\ file'[j].run = file[j].run
<1>1. InProcessInv /\ [Next]_inpVars => [Commit]_vars
  <2> SUFFICES ASSUME InProcessInv, [Next]_inpVars PROVE Commit
    OBVIOUS
  <2> QED
    BY InProcessStep, MovesCommitUnderALease DEF InProcessInv
<1>2. CommitsOnlyUnderALiveLease <=> [][Commit]_vars
  BY DEF CommitsOnlyUnderALiveLease
<1> HIDE DEF Commit
<1> QED
  BY <1>1, <1>2, InProcessInvariant, PTL DEF Spec

\* The in-process deployment implements ResultPromise under the mapping of
\* JobRequests.
THEOREM InProcessKeepsPromise == Spec => KeepsPromise
<1>1. Init => Promise!Init
  <2> SUFFICES ASSUME Init PROVE Promise!Init
    OBVIOUS
  <2>1. \A j \in Jobs : PhaseOf(file[j]) = "none" /\ file[j].run = 0
    BY DEF Init, RequestInit, StoreInit, PhaseOf, Absent, NoRun
  <2> QED
    BY <2>1 DEF Promise!Init, Init, RequestInit, StoreInit, NoRun
<1>2. InProcessInv /\ InProcessInv' /\ [Next]_inpVars => [Promise!Next]_(Promise!vars)
  BY InProcessStep, MovesKeepPromise DEF InProcessInv
<1> QED
  BY <1>1, <1>2, InProcessInvariant, PTL DEF Spec, KeepsPromise, Promise!Spec

-----------------------------------------------------------------------------
(* A generation is handed to the executor once.  The property is about the *)
(* executor's tasks only; it is inductive together with the handlers that  *)
(* have queued a run and have not submitted it yet, and with the counter   *)
(* the next generation is drawn from.                                      *)

Submits(q) == req[q].at = "submit"

\* No two of those who hold a generation - the tasks waiting, the task the
\* thread is at, the handlers about to submit - hold the same one, and all of
\* them are generations handed out so far.
WaitingOnce ==
    /\ \A n \in 1..Len(tasks) : tasks[n][2] <= lastRun
    /\ \A m, n \in 1..Len(tasks) : m # n => tasks[m][2] # tasks[n][2]

ThreadOnce ==
    task.at # "idle" => /\ task.run <= lastRun
                        /\ \A n \in 1..Len(tasks) : tasks[n][2] # task.run

SubmitsOnce ==
    \A q \in Requests : Submits(q) =>
        /\ \A n \in 1..Len(tasks) : tasks[n][2] # req[q].seen.run
        /\ task.at # "idle" => task.run # req[q].seen.run
        /\ \A r \in Requests \ {q} : Submits(r) => req[r].seen.run # req[q].seen.run

OnceInv == InProcessInv /\ WaitingOnce /\ ThreadOnce /\ SubmitsOnce

\* How the handlers about to submit may change: they go, or at most one is new
\* and holds the generation the step has handed out.
StillSubmits(q) == Submits(q) /\ req'[q].seen.run = req[q].seen.run

SubmitsMove ==
    /\ lastRun <= lastRun'
    /\ \A q \in Requests : Submits(q)' => StillSubmits(q) \/ lastRun < req'[q].seen.run
    /\ \A q, r \in Requests : q # r /\ Submits(q)' /\ Submits(r)' => StillSubmits(q) \/ StillSubmits(r)

\* A handler about to submit holds a generation that was handed out.
LEMMA SubmittedRun ==
    ASSUME InProcessInv, NEW q \in Requests
    PROVE  req[q].seen.run \in Nat /\ req[q].seen.run <= lastRun
BY UnchangedTyped DEF InProcessInv, GoodFor, Session

\* The shape of the tasks.
LEMMA TaskShape ==
    ASSUME InProcessInv
    PROVE  /\ tasks \in Seq(Jobs \X Run) /\ Len(tasks) \in Nat
           /\ \A n \in 1..Len(tasks) : tasks[n][2] \in Nat
           /\ task.run \in Nat /\ lastRun \in Nat
<1>1. tasks \in Seq(Jobs \X Run) /\ Len(tasks) \in Nat
  BY DEF InProcessInv, TasksTyped
<1>2. \A n \in 1..Len(tasks) : tasks[n] \in Jobs \X Run
  BY <1>1
<1> QED
  BY <1>1, <1>2, TheTask, UnchangedTyped DEF Run

\* A step that leaves the waiting tasks alone and has the thread go on, stop,
\* or do nothing.
LEMMA OnceKept ==
    ASSUME OnceInv, InProcessInv', SubmitsMove, UNCHANGED tasks,
           \/ task'.at = "idle"
           \/ task.at # "idle" /\ task'.run = task.run
    PROVE  OnceInv'
<1>1. lastRun' \in Nat /\ \A q \in Requests : req'[q].seen.run \in Nat
  BY DEF InProcessInv, RequestInv, RequestTypeOK, StoreTypeOK, Session
<1>2. WaitingOnce' /\ ThreadOnce'
  BY <1>1, TaskShape DEF OnceInv, WaitingOnce, ThreadOnce, SubmitsMove
<1>3. SubmitsOnce'
  <2> SUFFICES ASSUME NEW q \in Requests, Submits(q)'
               PROVE  /\ \A n \in 1..Len(tasks) : tasks[n][2] # req'[q].seen.run
                      /\ task'.at # "idle" => task'.run # req'[q].seen.run
                      /\ \A r \in Requests \ {q} : Submits(r)' => req'[r].seen.run # req'[q].seen.run
    BY DEF SubmitsOnce, Submits
  <2>1. StillSubmits(q) \/ lastRun < req'[q].seen.run
    BY DEF SubmitsMove
  <2>2. ASSUME NEW r \in Requests \ {q}, Submits(r)' PROVE req'[r].seen.run # req'[q].seen.run
    <3>1. \/ StillSubmits(q) /\ StillSubmits(r)
          \/ StillSubmits(q) /\ lastRun < req'[r].seen.run
          \/ StillSubmits(r) /\ lastRun < req'[q].seen.run
      BY <2>2 DEF SubmitsMove
    <3>2. /\ req[q].seen.run \in Nat /\ req[q].seen.run <= lastRun
          /\ req[r].seen.run \in Nat /\ req[r].seen.run <= lastRun
      BY SubmittedRun DEF OnceInv
    <3> QED
      BY <1>1, <3>1, <3>2, TaskShape DEF StillSubmits, OnceInv, SubmitsOnce
  <2>3. \A n \in 1..Len(tasks) : tasks[n][2] # req'[q].seen.run
    BY <1>1, <2>1, TaskShape DEF StillSubmits, OnceInv, SubmitsOnce, WaitingOnce
  <2>4. task'.at # "idle" => task'.run # req'[q].seen.run
    BY <1>1, <2>1, TaskShape DEF StillSubmits, OnceInv, SubmitsOnce, ThreadOnce
  <2> QED
    BY <2>2, <2>3, <2>4
<1> QED
  BY <1>2, <1>3 DEF OnceInv

\* A handler that goes on to another step, or is done, submits nothing new.
LEMMA NothingSubmitted ==
    ASSUME RequestInv, lastRun' = lastRun,
           \/ UNCHANGED req
           \/ \E q \in Requests :
                 \/ \E step \in Steps \ {"submit"} : Goto(q, step)
                 \/ Done(q)
                 \/ \E step \in Steps \ {"submit"} : \E j, s : Begin(q, step, j, s)
    PROVE  SubmitsMove
<1>1. \A r \in Requests : Submits(r)' => StillSubmits(r)
  <2>1. CASE UNCHANGED req
    BY <2>1 DEF Submits, StillSubmits
  <2>2. ASSUME NEW q \in Requests, NEW step \in Steps \ {"submit"}, Goto(q, step)
        PROVE  \A r \in Requests : Submits(r)' => StillSubmits(r)
    BY <2>2 DEF Goto, Submits, StillSubmits, RequestInv, RequestTypeOK
  <2>3. ASSUME NEW q \in Requests, Done(q)
        PROVE  \A r \in Requests : Submits(r)' => StillSubmits(r)
    BY <2>3 DEF Done, Idle, Submits, StillSubmits, RequestInv, RequestTypeOK
  <2>4. ASSUME NEW q \in Requests, NEW step \in Steps \ {"submit"}, NEW j, NEW s, Begin(q, step, j, s)
        PROVE  \A r \in Requests : Submits(r)' => StillSubmits(r)
    BY <2>4 DEF Begin, Submits, StillSubmits, RequestInv, RequestTypeOK
  <2> QED
    BY <2>1, <2>2, <2>3, <2>4
<1> QED
  BY <1>1, UnchangedTyped DEF SubmitsMove

\* None of the handlers' steps that queue nothing submits anything.
LEMMA HandlerSubmitsNothing ==
    ASSUME RequestInv, NEW q \in Requests, NEW ok \in BOOLEAN, HandlerStep(q, ok)
    PROVE  SubmitsMove
<1>1. lastRun' = lastRun
  BY DEF HandlerStep, StartTrim, StartReserve, StartMark, StartUndo, StartUnreserve, StartUnmark,
     Patch, CancelUnlink, CancelForget, CancelRelease, CancelWipe, SweepFiles, SweepRelease,
     SweepUnlink, SweepForget, DeleteFiles, ListRemember, Unlink
<1>2. (\E step \in Steps \ {"submit"} : Goto(q, step)) \/ Done(q)
  BY DEF HandlerStep, StartTrim, StartReserve, StartMark, StartUndo, StartUnreserve, StartUnmark,
     Patch, CancelUnlink, CancelForget, CancelRelease, CancelWipe, SweepFiles, SweepRelease,
     SweepUnlink, SweepForget, DeleteFiles, ListRemember, Unlink, AfterTrim, Steps, SweepSteps
<1> QED
  BY <1>1, <1>2, NothingSubmitted

\* Nor does a request that arrives, a page, the clock or an upload.
LEMMA WebSubmitsNothing ==
    ASSUME RequestInv, WebStep
    PROVE  SubmitsMove
<1>1. ASSUME NEW q \in Requests, NEW j \in Jobs, Arrival(q, j) PROVE SubmitsMove
  <2>1. lastRun' = lastRun
    BY <1>1 DEF Arrival, StartRead, RestartRead, CancelRead, SweepRead, ListRead, EditRead, DeleteRead
  <2>2. \E step \in Steps \ {"submit"} : \E s : Begin(q, step, j, s)
    BY <1>1 DEF Arrival, StartRead, RestartRead, CancelRead, SweepRead, ListRead, EditRead,
       DeleteRead, AfterTrim, Steps, SweepSteps
  <2> QED
    BY <2>1, <2>2, NothingSubmitted
<1>2. ASSUME NEW j \in Jobs, PageRead(j) \/ (LeaseExpires(j) /\ UNCHANGED requestVars)
      PROVE  SubmitsMove
  BY <1>2, NothingSubmitted DEF PageRead, Poll, ViewResult, LeaseExpires, requestVars
<1>3. ASSUME NEW j \in Jobs, NEW ok \in BOOLEAN, CreateJob(j, ok) PROVE SubmitsMove
  BY <1>3, NothingSubmitted DEF CreateJob
<1> QED
  BY <1>1, <1>2, <1>3, HandlerSubmitsNothing DEF WebStep

\* A handler that queues a run submits the generation it has drawn, and nothing
\* else is new.
LEMMA QueueSubmitsTheNewRun ==
    ASSUME InProcessInv, NEW q \in Requests, NEW ok \in BOOLEAN, QueueStep(q, ok)
    PROVE  SubmitsMove
<1> DEFINE new == Queued(Base(Web, req[q].job), lastRun + 1)
<1>1. RequestInv /\ lastRun \in Nat
  BY UnchangedTyped DEF InProcessInv
<1>2. \/ lastRun' = lastRun \/ lastRun' = lastRun + 1
  BY DEF QueueStep, StartQueue, RestartQueue, QueueRun
<1>3. \/ \E step \in Steps \ {"submit"} : Goto(q, step)
      \/ Done(q)
      \/ lastRun' = lastRun + 1 /\ Begin(q, "submit", req[q].job, new)
  BY DEF QueueStep, StartQueue, RestartQueue, QueueRun, Leave, Steps
<1>4. CASE (\E step \in Steps \ {"submit"} : Goto(q, step)) \/ Done(q)
  <2>1. \A r \in Requests : Submits(r)' => StillSubmits(r)
    BY <1>1, <1>4 DEF Goto, Done, Idle, Submits, StillSubmits, RequestInv, RequestTypeOK
  <2> QED
    BY <1>1, <1>2, <2>1 DEF SubmitsMove
<1>5. CASE lastRun' = lastRun + 1 /\ Begin(q, "submit", req[q].job, new)
  <2>1. new.run = lastRun + 1
    <3>1. GoodFor(req[q].job, Base(Web, req[q].job))
      BY TheTask, UnchangedTyped, ReadsAreGood DEF InProcessInv
    <3> QED
      BY <1>1, <3>1, QueuedIsGood, UnchangedTyped
  <2> HIDE DEF new
  <2>2. /\ req'[q].seen.run = lastRun + 1
        /\ \A r \in Requests \ {q} : req'[r] = req[r]
    BY <1>1, <1>5, <2>1 DEF Begin, RequestInv, RequestTypeOK
  <2> QED
    BY <1>1, <1>5, <2>2 DEF SubmitsMove, StillSubmits, Submits
<1> QED
  BY <1>3, <1>4, <1>5

-----------------------------------------------------------------------------

\* The handler's generation moves to the end of the queue.
LEMMA SubmitOnce ==
    ASSUME OnceInv, NEW q \in Requests, Submit(q)
    PROVE  OnceInv'
<1> DEFINE new == <<req[q].job, req[q].seen.run>>
<1>1. InProcessInv /\ InProcessInv' /\ Submits(q) /\ lastRun' = lastRun
  BY SubmitKeeps DEF OnceInv, Submit, Submits, storeVars
<1>2. /\ tasks \in Seq(Jobs \X Run) /\ new \in Jobs \X Run /\ tasks' = Append(tasks, new)
      /\ task' = task
  BY <1>1, TaskShape, UnchangedTyped DEF Submit, Submits, InProcessInv, RequestInv, SubmitsGood, Run
<1>3. /\ Len(tasks') = Len(tasks) + 1
      /\ \A n \in 1..Len(tasks') : tasks'[n] = IF n <= Len(tasks) THEN tasks[n] ELSE new
  BY <1>2
<1>4. \A n \in 1..Len(tasks') : \/ n \in 1..Len(tasks) /\ tasks'[n] = tasks[n]
                                \/ n = Len(tasks) + 1 /\ tasks'[n][2] = req[q].seen.run
  BY <1>1, <1>2, <1>3, TaskShape
<1>5. \A r \in Requests : Submits(r)' => r # q /\ Submits(r) /\ req'[r] = req[r]
  BY <1>1 DEF Submit, Done, Idle, Submits, InProcessInv, RequestInv, RequestTypeOK
<1>6. /\ \A n \in 1..Len(tasks) : tasks[n][2] # req[q].seen.run /\ tasks[n][2] <= lastRun
      /\ req[q].seen.run <= lastRun
      /\ \A m, n \in 1..Len(tasks) : m # n => tasks[m][2] # tasks[n][2]
  BY <1>1, SubmittedRun DEF OnceInv, SubmitsOnce, WaitingOnce
<1> HIDE DEF new
<1>7. WaitingOnce'
  BY <1>1, <1>4, <1>6 DEF WaitingOnce
<1>8. ThreadOnce'
  BY <1>1, <1>2, <1>4 DEF OnceInv, ThreadOnce, SubmitsOnce
<1>9. SubmitsOnce'
  <2> SUFFICES ASSUME NEW r \in Requests, Submits(r)'
               PROVE  /\ \A n \in 1..Len(tasks') : tasks'[n][2] # req'[r].seen.run
                      /\ task'.at # "idle" => task'.run # req'[r].seen.run
                      /\ \A s \in Requests \ {r} : Submits(s)' => req'[s].seen.run # req'[r].seen.run
    BY DEF SubmitsOnce, Submits
  <2>1. r # q /\ Submits(r) /\ req'[r].seen.run = req[r].seen.run
    BY <1>5
  <2>2. \A n \in 1..Len(tasks') : tasks'[n][2] # req'[r].seen.run
    BY <1>1, <1>4, <2>1 DEF OnceInv, SubmitsOnce
  <2>3. task'.at # "idle" => task'.run # req'[r].seen.run
    BY <1>2, <2>1 DEF OnceInv, SubmitsOnce
  <2>4. \A s \in Requests \ {r} : Submits(s)' => req'[s].seen.run # req'[r].seen.run
    BY <1>5, <2>1 DEF OnceInv, SubmitsOnce
  <2> QED
    BY <2>2, <2>3, <2>4
<1> QED
  BY <1>1, <1>7, <1>8, <1>9 DEF OnceInv

\* The oldest generation moves from the queue to the thread.
LEMMA TakeTaskOnce ==
    ASSUME OnceInv, TakeTask
    PROVE  OnceInv'
<1>1. InProcessInv /\ InProcessInv' /\ lastRun' = lastRun /\ req' = req
  BY TakeTaskKeeps DEF OnceInv, TakeTask, vars
<1>2. tasks \in Seq(Jobs \X Run) /\ tasks # <<>> /\ tasks' = Tail(tasks) /\ task'.run = tasks[1][2]
  BY <1>1, TaskShape DEF TakeTask
<1>3. /\ 1 \in 1..Len(tasks)
      /\ \A n \in 1..Len(tasks') : /\ n + 1 \in 1..Len(tasks) /\ n + 1 # 1
                                   /\ tasks'[n] = tasks[n + 1]
  BY <1>2
<1>4. WaitingOnce' /\ ThreadOnce'
  <2>1. \A m, n \in 1..Len(tasks') : m # n => m + 1 # n + 1
    OBVIOUS
  <2> QED
    BY <1>1, <1>2, <1>3, <2>1 DEF OnceInv, WaitingOnce, ThreadOnce
<1>5. SubmitsOnce'
  BY <1>1, <1>2, <1>3 DEF OnceInv, SubmitsOnce, Submits
<1> QED
  BY <1>1, <1>4, <1>5 DEF OnceInv

\* The executor, its tasks and the handlers are gone.
LEMMA RestartOnce ==
    ASSUME OnceInv, Restart
    PROVE  OnceInv'
<1>1. InProcessInv'
  BY RestartKeeps DEF OnceInv
<1>2. tasks' = <<>> /\ task'.at = "idle" /\ \A q \in Requests : req'[q].at = "idle"
  BY DEF Restart, WebRestarts, NoTask, Idle
<1>3. 1..Len(tasks') = {}
  BY <1>2
<1> QED
  BY <1>1, <1>2, <1>3 DEF OnceInv, WaitingOnce, ThreadOnce, SubmitsOnce, Submits

\* The other steps of the thread keep its task, or drop it.
LEMMA ThreadGoesOn ==
    ASSUME InProcessInv,
           \/ ReadBack \/ FailRead \/ FailRelease \/ AnalysisFails
           \/ \E ok \in BOOLEAN : StartRun(ok) \/ FailUnmark(ok) \/ FailError(ok)
                                  \/ Finish(ok) \/ Progress(ok)
           \/ \E saves, writes \in BOOLEAN : Save(saves, writes)
    PROVE  /\ UNCHANGED <<req, lastRun, tasks>>
           /\ task'.at = "idle" \/ (task.at # "idle" /\ task'.run = task.run)
<1>1. \A step \in TaskSteps : task.at # "idle" /\ TaskGoto(step)
                              => task'.at = "idle" \/ (task.at # "idle" /\ task'.run = task.run)
  BY DEF InProcessInv, TasksTyped, TaskGoto, NoTask
<1>2. UNCHANGED <<req, lastRun, tasks>>
  BY DEF ReadBack, FailRead, FailRelease, AnalysisFails, StartRun, FailUnmark, FailError,
     Finish, Progress, Save, Handlers, vars
<1>3. CASE ReadBack
  BY <1>2, <1>3 DEF ReadBack, InProcessInv, TasksTyped
<1>4. CASE \/ FailRead \/ FailRelease \/ AnalysisFails
           \/ \E ok \in BOOLEAN : StartRun(ok) \/ FailUnmark(ok) \/ FailError(ok)
                                  \/ Finish(ok) \/ Progress(ok)
           \/ \E saves, writes \in BOOLEAN : Save(saves, writes)
  <2>1. task.at # "idle" /\ \E step \in TaskSteps : TaskGoto(step)
    BY <1>4 DEF FailRead, FailRelease, AnalysisFails, StartRun, FailUnmark, FailError,
       Finish, Progress, Save, TaskSteps
  <2> QED
    BY <1>1, <1>2, <2>1
<1> QED
  BY <1>3, <1>4

\* The induction step.
LEMMA OnceStep ==
    ASSUME OnceInv, [Next]_inpVars
    PROVE  OnceInv'
<1>1. InProcessInv /\ RequestInv /\ InProcessInv'
  BY InProcessStep DEF OnceInv, InProcessInv
<1>2. task'.at = "idle" \/ (task.at # "idle" /\ task'.run = task.run) \/ task' # task
  BY <1>1 DEF InProcessInv, TasksTyped
<1>3. CASE UNCHANGED <<tasks, task>> /\ WebStep
  BY <1>1, <1>2, <1>3, WebSubmitsNothing, OnceKept
<1>4. ASSUME NEW q \in Requests, HandlerTurn(q) PROVE OnceInv'
  <2>1. ASSUME NEW ok \in BOOLEAN, HandlerStep(q, ok) \/ QueueStep(q, ok), UNCHANGED <<tasks, task>>
        PROVE  OnceInv'
    BY <1>1, <1>2, <2>1, HandlerSubmitsNothing, QueueSubmitsTheNewRun, OnceKept
  <2> QED
    BY <1>4, <2>1, SubmitOnce DEF HandlerTurn
<1>5. CASE \/ ReadBack \/ FailRead \/ FailRelease \/ AnalysisFails
           \/ \E ok \in BOOLEAN : StartRun(ok) \/ FailUnmark(ok) \/ FailError(ok)
                                  \/ Finish(ok) \/ Progress(ok)
           \/ \E saves, writes \in BOOLEAN : Save(saves, writes)
  <2>1. /\ UNCHANGED <<req, lastRun, tasks>>
        /\ task'.at = "idle" \/ (task.at # "idle" /\ task'.run = task.run)
    BY <1>1, <1>5, ThreadGoesOn
  <2> QED
    BY <1>1, <2>1, NothingSubmitted, OnceKept
<1>6. CASE TakeTask \/ Restart
  BY <1>6, TakeTaskOnce, RestartOnce
<1>7. CASE UNCHANGED inpVars
  <2>1. UNCHANGED <<req, lastRun, tasks, task>>
    BY <1>7 DEF inpVars, vars
  <2> QED
    BY <1>1, <1>2, <2>1, NothingSubmitted, OnceKept
<1> QED
  BY <1>3, <1>4, <1>5, <1>6, <1>7 DEF Next, OtherTurn, ExecutorTurn, AnalysisEnds

\* The executor never holds two tasks for one generation, nor one for the
\* generation it is at: a queued run is handed over by the handler that queued
\* it and by nobody else (start, restart_interrupted_analysis, _run_job).
THEOREM InProcessSubmitsOnce == Spec => []EachRunSubmittedOnce
<1>1. Init => OnceInv
  <2> SUFFICES ASSUME Init PROVE OnceInv
    OBVIOUS
  <2>1. InProcessInv /\ tasks = <<>> /\ task.at = "idle" /\ \A q \in Requests : req[q].at = "idle"
    BY InProcessInitGood DEF Init, RequestInit, NoTask, Idle
  <2>2. 1..Len(tasks) = {}
    BY <2>1
  <2> QED
    BY <2>1, <2>2 DEF OnceInv, WaitingOnce, ThreadOnce, SubmitsOnce, Submits
<1>2. OnceInv /\ [Next]_inpVars => OnceInv'
  BY OnceStep
<1>3. OnceInv => EachRunSubmittedOnce
  BY DEF OnceInv, WaitingOnce, ThreadOnce, EachRunSubmittedOnce
<1> QED
  BY <1>1, <1>2, <1>3, PTL DEF Spec

-----------------------------------------------------------------------------
(* A queued run has a task, while the process lives and can write.  The    *)
(* property is about the files; it is inductive together with the web      *)
(* process's copies, which a later write may bring back.  A listing under  *)
(* way holds a copy that may be older than both: see the theorem.          *)

\* Somebody holds generation run of job j for the executor.
HasTask(j, run) ==
    \/ \E n \in 1..Len(tasks) : tasks[n] = <<j, run>>
    \/ task.at = "begin" /\ task.job = j /\ task.run = run
    \/ \E q \in Requests : Submits(q) /\ req[q].job = j /\ req[q].seen.run = run

\* The file, or the process's copy, of job j says that generation run is queued.
Waits(j, run) == QueuedAs(file[j], run) \/ QueuedAs(mirror[Web][j], run)

\* A copy that says queued is no older than the file.
FileAgrees ==
    \A j \in Jobs : file[j] # Absent /\ mirror[Web][j].status = "queued"
                    => QueuedAs(file[j], mirror[Web][j].run)

NoListing == \A q \in Requests : req[q].at # "remember"

Unharmed == crashes = 0 /\ faults = 0

WaitsInv ==
    /\ InProcessInv /\ NoListing
    /\ Unharmed => FileAgrees /\ \A j \in Jobs, run \in Nat : Waits(j, run) => HasTask(j, run)

\* A step of file s and copy m of a job to t and n by which nothing is queued
\* that was not.
QueuesNothing(s, m, t, n) ==
    /\ t # Absent /\ n.status = "queued" => QueuedAs(t, n.run)
    /\ \A run : QueuedAs(t, run) \/ QueuedAs(n, run) => QueuedAs(s, run) \/ QueuedAs(m, run)

NothingQueued == \A j \in Jobs : QueuesNothing(file[j], mirror[Web][j], file'[j], mirror'[Web][j])

\* A step of one job.
LEMMA OneJobQueuesNothing ==
    ASSUME StoreInv, FileAgrees, NEW j \in Jobs, NEW t, NEW n,
           file' = [file EXCEPT ![j] = t], mirror' = [mirror EXCEPT ![Web][j] = n],
           QueuesNothing(file[j], mirror[Web][j], t, n)
    PROVE  NothingQueued
<1>1. /\ file \in [Jobs -> Session] /\ mirror \in [Processes -> [Jobs -> Session]]
      /\ Web \in Processes
  BY StoreAssumption DEF StoreInv, StoreTypeOK
<1>2. \A i \in Jobs : QueuesNothing(file[i], mirror[Web][i], file[i], mirror[Web][i])
  BY DEF FileAgrees, QueuesNothing
<1>3. /\ \A i \in Jobs \ {j} : file'[i] = file[i] /\ mirror'[Web][i] = mirror[Web][i]
      /\ file'[j] = t /\ mirror'[Web][j] = n
  BY <1>1
<1> QED
  BY <1>2, <1>3 DEF NothingQueued

\* The maps written out for a job that stays.
LEMMA Stays ==
    ASSUME StoreInv, NEW j \in Jobs
    PROVE  /\ file = [file EXCEPT ![j] = file[j]]
           /\ mirror = [mirror EXCEPT ![Web][j] = mirror[Web][j]]
BY StoreAssumption DEF StoreInv, StoreTypeOK

\* A step that leaves files and copies alone.
LEMMA UnchangedQueuesNothing ==
    ASSUME FileAgrees, UNCHANGED <<file, mirror>>
    PROVE  NothingQueued
BY DEF FileAgrees, NothingQueued, QueuesNothing

-----------------------------------------------------------------------------
(* The calls of the store, made by the web process and not failing.        *)

\* get_job.
LEMMA GetJobQueuesNothing ==
    ASSUME StoreInv, FileAgrees, NEW j \in Jobs, GetJob(Web, j)
    PROVE  faults' = faults /\ NothingQueued
<1> DEFINE s == Seen(Web, j)
           t == IF file[j] # Absent THEN s ELSE file[j]
<1>1. file' = [file EXCEPT ![j] = t] /\ mirror' = [mirror EXCEPT ![Web][j] = s] /\ faults' = faults
  BY Stays DEF GetJob, Refresh, Remember
<1>2. QueuesNothing(file[j], mirror[Web][j], t, s)
  <2>1. CASE file[j] # Absent
    <3>1. t = s /\ (s = file[j] \/ s.status = "interrupted")
      BY <2>1, ReadIsNoYounger DEF Seen
    <3> HIDE DEF s, t
    <3> QED
      BY <3>1 DEF QueuesNothing, QueuedAs
  <2>2. CASE file[j] = Absent
    <3>1. t = Absent /\ s = mirror[Web][j]
      BY <2>2 DEF Seen
    <3> HIDE DEF s, t
    <3> QED
      BY <2>2, <3>1 DEF QueuesNothing, QueuedAs, Absent
  <2> QED
    BY <2>1, <2>2
<1> HIDE DEF s, t
<1> QED
  BY <1>1, <1>2, OneJobQueuesNothing

\* A read of the file alone.
LEMMA ReadQueuesNothing ==
    ASSUME StoreInv, FileAgrees, NEW j \in Jobs, Refresh(j, OnDisk(j)), UNCHANGED mirror
    PROVE  faults' = faults /\ NothingQueued
<1> DEFINE s == OnDisk(j)
           t == IF file[j] # Absent THEN s ELSE file[j]
<1>1. /\ file' = [file EXCEPT ![j] = t] /\ mirror' = [mirror EXCEPT ![Web][j] = mirror[Web][j]]
      /\ faults' = faults
  BY Stays DEF Refresh
<1>2. /\ s = file[j] \/ s.status = "interrupted"
      /\ file[j].status = "queued" => s = file[j]
  BY ReadIsNoYounger DEF OnDisk
<1> HIDE DEF s
<1>3. QueuesNothing(file[j], mirror[Web][j], t, mirror[Web][j])
  BY <1>2 DEF FileAgrees, QueuesNothing, QueuedAs, Absent
<1> HIDE DEF t
<1> QED
  BY <1>1, <1>3, OneJobQueuesNothing

\* A session written to the file and to the copy.
LEMMA UpdateQueuesNothing ==
    ASSUME StoreInv, FileAgrees, NEW j \in Jobs, NEW s, NEW ok \in BOOLEAN,
           UpdateJob(Web, j, s, ok), faults' = 0,
           s.status = "queued" => Waits(j, s.run)
    PROVE  NothingQueued
<1>1. ok /\ file' = [file EXCEPT ![j] = s] /\ mirror' = [mirror EXCEPT ![Web][j] = s]
  BY DEF UpdateJob, WriteFile, Remember, StoreInv, StoreTypeOK
<1>2. QueuesNothing(file[j], mirror[Web][j], s, s)
  BY DEF QueuesNothing, QueuedAs, Waits
<1> QED
  BY <1>1, <1>2, OneJobQueuesNothing

\* What update_job patches is queued only if the file or the copy is.
LEMMA BaseWaits ==
    ASSUME NEW j \in Jobs
    PROVE  Base(Web, j).status = "queued" => Waits(j, Base(Web, j).run)
<1>1. CASE file[j] # Absent
  <2>1. Base(Web, j) = file[j] \/ Base(Web, j).status = "interrupted"
    BY <1>1, ReadIsNoYounger DEF Base, OnDisk
  <2> QED
    BY <2>1 DEF Waits, QueuedAs
<1>2. CASE file[j] = Absent
  BY <1>2 DEF Base, Waits, QueuedAs
<1> QED
  BY <1>1, <1>2

\* update_job with a patch that keeps the status, or is no queueing.
LEMMA PatchQueuesNothing ==
    ASSUME StoreInv, FileAgrees, NEW j \in Jobs, NEW s, NEW ok \in BOOLEAN,
           PatchJob(Web, j, s, ok), faults' = 0,
           s.status = "queued" => Base(Web, j).status = "queued" /\ s.run = Base(Web, j).run
    PROVE  NothingQueued
BY UpdateQueuesNothing, UnchangedQueuesNothing, BaseWaits DEF PatchJob

\* The patches of this module.
LEMMA PatchesQueueNothing ==
    ASSUME StoreInv, FileAgrees, NEW j \in Jobs, NEW ok \in BOOLEAN, faults' = 0,
           \/ PatchJob(Web, j, Base(Web, j), ok)
           \/ \E b \in BOOLEAN : PatchJob(Web, j, [Base(Web, j) EXCEPT !.reserved = b], ok)
           \/ PatchJob(Web, j, Failed(Base(Web, j)), ok)
    PROVE  NothingQueued
<1> DEFINE s == Base(Web, j)
<1>1. s \in Session
  BY StoreAssumption, ReadsAreGood DEF GoodFor
<1>2. \A b \in BOOLEAN : [s EXCEPT !.reserved = b].status = s.status
                         /\ [s EXCEPT !.reserved = b].run = s.run
  BY <1>1 DEF Session
<1>3. Failed(s).status = "error"
  BY <1>1 DEF Failed, Session
<1> QED
  BY <1>2, <1>3, PatchQueuesNothing

\* The file, or the copy, goes.
LEMMA GoneQueuesNothing ==
    ASSUME StoreInv, FileAgrees, NEW j \in Jobs,
           \/ file' = [file EXCEPT ![j] = Absent] /\ UNCHANGED mirror
           \/ Remember(Web, j, Absent) /\ UNCHANGED file
    PROVE  NothingQueued
<1>1. CASE file' = [file EXCEPT ![j] = Absent] /\ UNCHANGED mirror
  <2>1. QueuesNothing(file[j], mirror[Web][j], Absent, mirror[Web][j])
    BY DEF QueuesNothing, QueuedAs, Absent
  <2>2. mirror' = [mirror EXCEPT ![Web][j] = mirror[Web][j]]
    BY <1>1, Stays
  <2> QED
    BY <1>1, <2>1, <2>2, OneJobQueuesNothing
<1>2. CASE Remember(Web, j, Absent) /\ UNCHANGED file
  <2>1. QueuesNothing(file[j], mirror[Web][j], file[j], Absent)
    BY DEF QueuesNothing, QueuedAs, Absent
  <2>2. file' = [file EXCEPT ![j] = file[j]] /\ mirror' = [mirror EXCEPT ![Web][j] = Absent]
    BY <1>2, Stays DEF Remember
  <2> QED
    BY <2>1, <2>2, OneJobQueuesNothing
<1> QED
  BY <1>1, <1>2

\* The fenced calls: a progress report, and the result.
LEMMA FencedQueuesNothing ==
    ASSUME StoreInv, FileAgrees, NEW j \in Jobs, NEW w \in WorkerIds, NEW run, NEW ok \in BOOLEAN,
           faults' = 0, RenewRun(Web, j, w, run, ok) \/ FinalizeRun(Web, j, w, run, ok)
    PROVE  NothingQueued
<1>1. CASE ~OwnsRun(OnDisk(j), w, run)
  BY <1>1, ReadQueuesNothing DEF RenewRun, FinalizeRun
<1>2. CASE OwnsRun(OnDisk(j), w, run)
  <2>1. OnDisk(j) \in Session /\ OnDisk(j).status = "running"
    BY <1>2, StoreAssumption, ReadsAreGood DEF GoodFor, OwnsRun
  <2>2. Renewed(OnDisk(j)).status = "running" /\ Completed(j, OnDisk(j)).status = "complete"
    BY <2>1 DEF Renewed, Completed, Session
  <2>3. CASE RenewRun(Web, j, w, run, ok)
    BY <1>2, <2>2, <2>3, UpdateQueuesNothing DEF RenewRun
  <2>4. CASE FinalizeRun(Web, j, w, run, ok)
    <3>1. ok
      BY <1>2, <2>4 DEF FinalizeRun, WriteFile, StoreInv, StoreTypeOK
    <3>2. UpdateJob(Web, j, Completed(j, OnDisk(j)), ok)
      BY <1>2, <2>4, <3>1 DEF FinalizeRun, UpdateJob
    <3> QED
      BY <2>2, <3>2, UpdateQueuesNothing
  <2> QED
    BY <2>3, <2>4
<1> QED
  BY <1>1, <1>2

\* persist_completed_job.
LEMMA PersistQueuesNothing ==
    ASSUME StoreInv, FileAgrees, NEW j \in Jobs, NEW run, NEW saves \in BOOLEAN,
           NEW writes \in BOOLEAN, faults' = 0, PersistRun(Web, j, run, saves, writes)
    PROVE  NothingQueued
<1> DEFINE s == OnDisk(j)
           due == /\ s.status = "complete" /\ s.artifacts = run
                  /\ HasAccount(j) /\ s.saved # "yes"
           new == [s EXCEPT !.saved = IF saves THEN "yes" ELSE "no"]
<1>1. CASE ~due
  <2>1. Refresh(j, OnDisk(j)) /\ UNCHANGED mirror
    BY <1>1 DEF PersistRun
  <2> QED
    BY <2>1, ReadQueuesNothing
<1>2. CASE due
  <2>1. s \in Session
    BY StoreAssumption, ReadsAreGood DEF GoodFor
  <2>2. new.status = "complete"
    BY <1>2, <2>1 DEF Session
  <2>3. writes \/ faults' = faults + 1
    BY <1>2 DEF PersistRun
  <2>4. file' = [file EXCEPT ![j] = new] /\ Remember(Web, j, new)
    BY <1>2, <2>3 DEF PersistRun, StoreInv, StoreTypeOK
  <2> HIDE DEF new, due, s
  <2>5. QueuesNothing(file[j], mirror[Web][j], new, new)
    BY <2>2 DEF QueuesNothing, QueuedAs
  <2> QED
    BY <2>4, <2>5, OneJobQueuesNothing DEF Remember
<1> QED
  BY <1>1, <1>2

-----------------------------------------------------------------------------
(* The handlers, the pages and the clock.                                  *)

\* A failed write or a crash is never forgotten.
LEMMA HarmStays ==
    ASSUME RequestInv,
           \/ faults' = faults
           \/ \E ok \in BOOLEAN : MayFail(ok) /\ faults' = IF ok THEN faults ELSE faults + 1,
           faults' = 0
    PROVE  faults = 0
BY UnchangedTyped

SubmitsStay == \A q \in Requests : Submits(q) => req'[q] = req[q]

\* A handler that is not about to submit moves, and nobody else.
LEMMA OtherMoves ==
    ASSUME RequestInv, NEW q \in Requests, ~Submits(q),
           \/ \E step : Goto(q, step)
           \/ Done(q)
           \/ \E step, j, s : Begin(q, step, j, s)
    PROVE  SubmitsStay
<1>1. \A r \in Requests \ {q} : req'[r] = req[r]
  BY DEF Goto, Done, Begin, RequestInv, RequestTypeOK
<1> QED
  BY <1>1 DEF SubmitsStay

\* No step of a handler that queues nothing makes anything queued.
LEMMA HandlerQueuesNothing ==
    ASSUME WaitsInv, NEW q \in Requests, NEW ok \in BOOLEAN, HandlerStep(q, ok), Unharmed'
    PROVE  Unharmed /\ NothingQueued /\ SubmitsStay
<1> DEFINE j == req[q].job
<1>1. /\ RequestInv /\ StoreInv /\ j \in Jobs /\ faults \in Nat /\ faults' = 0
      /\ req[q].at # "remember"
  BY UnchangedTyped DEF WaitsInv, InProcessInv, NoListing, Unharmed
<1>2. SubmitsStay
  <2>1. ~Submits(q)
    BY DEF Submits, HandlerStep, StartTrim, StartReserve, StartMark, StartUndo, StartUnreserve,
       StartUnmark, Patch, CancelUnlink, CancelForget, CancelRelease, CancelWipe, SweepFiles,
       SweepRelease, SweepUnlink, SweepForget, DeleteFiles, ListRemember, Unlink
  <2>2. (\E step : Goto(q, step)) \/ Done(q)
    BY DEF HandlerStep, StartTrim, StartReserve, StartMark, StartUndo, StartUnreserve,
       StartUnmark, Patch, CancelUnlink, CancelForget, CancelRelease, CancelWipe, SweepFiles,
       SweepRelease, SweepUnlink, SweepForget, DeleteFiles, ListRemember, Unlink
  <2> QED
    BY <1>1, <2>1, <2>2, OtherMoves
<1>3. CASE StartTrim(q, ok) \/ StartMark(q, ok) \/ StartUnmark(q, ok) \/ Patch(q, ok)
  <2>1. /\ \/ PatchJob(Web, j, Base(Web, j), ok)
           \/ \E b \in BOOLEAN : PatchJob(Web, j, [Base(Web, j) EXCEPT !.reserved = b], ok)
        /\ crashes' = crashes
    BY <1>3 DEF StartTrim, StartMark, StartUnmark, Patch
  <2>2. faults' = faults \/ (MayFail(ok) /\ faults' = IF ok THEN faults ELSE faults + 1)
    BY <2>1 DEF PatchJob, UpdateJob, WriteFile
  <2>3. Unharmed
    BY <1>1, <2>1, <2>2, HarmStays DEF Unharmed
  <2> QED
    BY <1>1, <1>2, <2>1, <2>3, PatchesQueueNothing DEF WaitsInv
<1>4. CASE StartUndo(q)
  <2>1. GetJob(Web, j) /\ faults' = faults /\ crashes' = crashes
    BY <1>4 DEF StartUndo, GetJob, Refresh
  <2>2. Unharmed
    BY <1>1, <2>1 DEF Unharmed
  <2> QED
    BY <1>1, <1>2, <2>1, <2>2, GetJobQueuesNothing DEF WaitsInv
<1>5. CASE StartReserve(q) \/ StartUnreserve(q) \/ CancelRelease(q) \/ SweepRelease(q)
  <2>1. UNCHANGED <<file, mirror, faults, crashes>>
    BY <1>5 DEF StartReserve, StartUnreserve, CancelRelease, SweepRelease
  <2> QED
    BY <1>2, <2>1, UnchangedQueuesNothing DEF WaitsInv, Unharmed
<1>6. CASE \/ CancelUnlink(q) \/ SweepUnlink(q) \/ CancelWipe(q) \/ DeleteFiles(q)
           \/ SweepFiles(q) \/ CancelForget(q) \/ SweepForget(q)
  <2>1. /\ UNCHANGED <<faults, crashes>>
        /\ \/ file' = [file EXCEPT ![j] = Absent] /\ UNCHANGED mirror
           \/ Remember(Web, j, Absent) /\ UNCHANGED file
           \/ UNCHANGED <<file, mirror>>
    BY <1>6 DEF CancelUnlink, SweepUnlink, Unlink, CancelWipe, DeleteFiles, SweepFiles, WipeFolder,
       CancelForget, SweepForget, Forget
  <2>2. Unharmed
    BY <2>1 DEF Unharmed
  <2> QED
    BY <1>1, <1>2, <2>1, <2>2, GoneQueuesNothing, UnchangedQueuesNothing DEF WaitsInv
<1>7. ~ListRemember(q)
  BY <1>1 DEF ListRemember
<1> QED
  BY <1>3, <1>4, <1>5, <1>6, <1>7 DEF HandlerStep

\* Nor does a request that arrives, a page, the clock or an upload.
LEMMA WebQueuesNothing ==
    ASSUME WaitsInv, WebStep, Unharmed', "list" \notin RequestKinds
    PROVE  Unharmed /\ NothingQueued /\ SubmitsStay
<1>1. RequestInv /\ StoreInv /\ faults \in Nat /\ faults' = 0
  BY UnchangedTyped DEF WaitsInv, InProcessInv, Unharmed
<1>2. ASSUME NEW q \in Requests, NEW j \in Jobs, Arrival(q, j)
      PROVE  Unharmed /\ NothingQueued /\ SubmitsStay
  <2>1. ~ListRead(q, j)
    BY DEF ListRead, Free
  <2>2. /\ ~Submits(q) /\ \E step, s : Begin(q, step, j, s)
        /\ GetJob(Web, j) \/ UNCHANGED <<file, mirror, faults>>
        /\ crashes' = crashes
    BY <1>2, <2>1 DEF Arrival, StartRead, RestartRead, CancelRead, SweepRead, EditRead, DeleteRead,
       Free, Submits
  <2>3. SubmitsStay
    BY <1>1, <2>2, OtherMoves
  <2>4. faults' = faults
    BY <2>2 DEF GetJob, Refresh
  <2>5. Unharmed
    BY <1>1, <2>2, <2>4 DEF Unharmed
  <2> QED
    BY <1>1, <2>2, <2>3, <2>5, GetJobQueuesNothing, UnchangedQueuesNothing DEF WaitsInv
<1>3. ASSUME NEW j \in Jobs, Poll(j)
      PROVE  Unharmed /\ NothingQueued /\ SubmitsStay
  <2>1. GetJob(Web, j) /\ faults' = faults /\ crashes' = crashes /\ req' = req
    BY <1>3 DEF Poll, GetJob, Refresh, requestVars
  <2>2. Unharmed
    BY <1>1, <2>1 DEF Unharmed
  <2> QED
    BY <1>1, <2>1, <2>2, GetJobQueuesNothing DEF WaitsInv, SubmitsStay
<1>4. ASSUME NEW j \in Jobs, NEW saves \in BOOLEAN, NEW writes \in BOOLEAN,
             ViewResult(j, saves, writes)
      PROVE  Unharmed /\ NothingQueued /\ SubmitsStay
  <2>1. /\ PersistRun(Web, j, Seen(Web, j).run, saves, writes)
        /\ crashes' = crashes /\ req' = req
    BY <1>4 DEF ViewResult, requestVars
  <2>2. faults' = faults \/ faults' = faults + 1
    BY <2>1 DEF PersistRun, Refresh
  <2>3. Unharmed
    BY <1>1, <2>1, <2>2 DEF Unharmed
  <2> QED
    BY <1>1, <2>1, <2>3, PersistQueuesNothing DEF WaitsInv, SubmitsStay
<1>5. ASSUME NEW j \in Jobs, LeaseExpires(j), UNCHANGED requestVars
      PROVE  Unharmed /\ NothingQueued /\ SubmitsStay
  <2> DEFINE t == [file[j] EXCEPT !.lease = "expired"]
  <2>1. /\ file' = [file EXCEPT ![j] = t] /\ UNCHANGED mirror
        /\ file[j].status = "running" /\ faults' = faults /\ crashes' = crashes /\ req' = req
    BY <1>5 DEF LeaseExpires, requestVars
  <2>2. t.status = "running"
    BY <1>1, <2>1 DEF StoreInv, StoreTypeOK, Session
  <2>3. mirror' = [mirror EXCEPT ![Web][j] = mirror[Web][j]]
    BY <1>1, <2>1, Stays
  <2>4. Unharmed /\ FileAgrees
    BY <1>1, <2>1 DEF Unharmed, WaitsInv
  <2>5. mirror[Web][j].status # "queued"
    BY <2>1, <2>4 DEF FileAgrees, QueuedAs, Absent
  <2> HIDE DEF t
  <2>6. QueuesNothing(file[j], mirror[Web][j], t, mirror[Web][j])
    BY <2>2, <2>5 DEF QueuesNothing, QueuedAs
  <2> QED
    BY <1>1, <2>1, <2>3, <2>4, <2>6, OneJobQueuesNothing DEF SubmitsStay
<1>6. ASSUME NEW j \in Jobs, NEW ok \in BOOLEAN, CreateJob(j, ok)
      PROVE  Unharmed /\ NothingQueued /\ SubmitsStay
  <2>1. /\ MayFail(ok) /\ faults' = IF ok THEN faults ELSE faults + 1
        /\ file' = IF ok THEN [file EXCEPT ![j] = NewSession] ELSE file
        /\ mirror' = [mirror EXCEPT ![Web][j] = NewSession]
        /\ crashes' = crashes /\ req' = req
    BY <1>6 DEF CreateJob, Remember
  <2>2. ok /\ Unharmed
    BY <1>1, <2>1 DEF Unharmed
  <2>3. NewSession.status = "selecting"
    BY DEF NewSession, Absent
  <2>4. QueuesNothing(file[j], mirror[Web][j], NewSession, NewSession)
    BY <2>3 DEF QueuesNothing, QueuedAs
  <2> QED
    BY <1>1, <2>1, <2>2, <2>4, OneJobQueuesNothing DEF WaitsInv, SubmitsStay
<1> QED
  BY <1>2, <1>3, <1>4, <1>5, <1>6, HandlerQueuesNothing DEF WebStep, PageRead

-----------------------------------------------------------------------------
(* The executor.                                                           *)

\* Tasks that are only added to, and handlers that stay, keep what they hold.
LEMMA TasksStay ==
    ASSUME UNCHANGED <<tasks, task>> \/ (UNCHANGED tasks /\ task.at # "begin"), SubmitsStay,
           NEW j, NEW run, HasTask(j, run)
    PROVE  HasTask(j, run)'
BY DEF HasTask, SubmitsStay, Submits

\* No handler begins to remember a listing.
LEMMA NobodyLists ==
    ASSUME WaitsInv, "list" \notin RequestKinds, [Next]_inpVars
    PROVE  NoListing'
<1>1. RequestInv /\ \A q \in Requests : req[q].at # "remember"
  BY DEF WaitsInv, InProcessInv, NoListing
<1>2. ASSUME NEW q \in Requests,
             \/ \E step \in Steps \ {"remember"} : Goto(q, step)
             \/ Done(q)
             \/ \E step \in Steps \ {"remember"} : \E j, s : Begin(q, step, j, s)
      PROVE  NoListing'
  <2>1. \A r \in Requests \ {q} : req'[r] = req[r]
    BY <1>1, <1>2 DEF Goto, Done, Begin, RequestInv, RequestTypeOK
  <2>2. req'[q].at # "remember"
    BY <1>1, <1>2 DEF Goto, Done, Begin, Idle, RequestInv, RequestTypeOK
  <2> QED
    BY <1>1, <2>1, <2>2 DEF NoListing
<1>3. ASSUME UNCHANGED req PROVE NoListing'
  BY <1>1, <1>3 DEF NoListing
<1>4. ASSUME NEW q \in Requests, NEW ok \in BOOLEAN, HandlerStep(q, ok) PROVE NoListing'
  <2>1. (\E step \in Steps \ {"remember"} : Goto(q, step)) \/ Done(q)
    BY <1>4 DEF HandlerStep, StartTrim, StartReserve, StartMark, StartUndo, StartUnreserve,
       StartUnmark, Patch, CancelUnlink, CancelForget, CancelRelease, CancelWipe, SweepFiles,
       SweepRelease, SweepUnlink, SweepForget, DeleteFiles, ListRemember, Unlink, AfterTrim,
       Steps, SweepSteps
  <2> QED
    BY <1>2, <2>1
<1>5. ASSUME NEW q \in Requests, NEW ok \in BOOLEAN, QueueStep(q, ok) PROVE NoListing'
  <2>1. \/ \E step \in Steps \ {"remember"} : Goto(q, step)
        \/ Done(q)
        \/ \E step \in Steps \ {"remember"} : \E j, s : Begin(q, step, j, s)
    BY <1>5 DEF QueueStep, StartQueue, RestartQueue, QueueRun, Leave, Steps
  <2> QED
    BY <1>2, <2>1
<1>6. ASSUME NEW q \in Requests, NEW j \in Jobs, Arrival(q, j) PROVE NoListing'
  <2>1. \E step \in Steps \ {"remember"} : \E s : Begin(q, step, j, s)
    BY <1>6 DEF Arrival, StartRead, RestartRead, CancelRead, SweepRead, ListRead, EditRead,
       DeleteRead, AfterTrim, Steps, SweepSteps, Free
  <2> QED
    BY <1>2, <2>1
<1>7. CASE WebStep
  <2>1. ASSUME NEW j \in Jobs, PageRead(j) \/ (LeaseExpires(j) /\ UNCHANGED requestVars)
               \/ \E ok \in BOOLEAN : CreateJob(j, ok)
        PROVE  UNCHANGED req
    BY <2>1 DEF PageRead, Poll, ViewResult, CreateJob, requestVars
  <2> QED
    BY <1>3, <1>4, <1>6, <1>7, <2>1 DEF WebStep
<1>8. ASSUME NEW q \in Requests, Submit(q) PROVE NoListing'
  BY <1>2, <1>8 DEF Submit
<1>9. CASE \/ ReadBack \/ FailRead \/ FailRelease \/ AnalysisFails \/ TakeTask
           \/ \E ok \in BOOLEAN : StartRun(ok) \/ FailUnmark(ok) \/ FailError(ok)
                                  \/ Finish(ok) \/ Progress(ok)
           \/ \E saves, writes \in BOOLEAN : Save(saves, writes)
           \/ UNCHANGED inpVars
  <2>1. UNCHANGED req
    BY <1>9 DEF ReadBack, FailRead, FailRelease, AnalysisFails, StartRun, FailUnmark, FailError,
       Finish, Progress, Save, Handlers, vars, TakeTask, inpVars
  <2> QED
    BY <1>3, <2>1
<1>10. CASE Restart
  BY <1>10 DEF Restart, WebRestarts, NoListing, Idle
<1> QED
  BY <1>4, <1>5, <1>7, <1>8, <1>9, <1>10 DEF Next, OtherTurn, HandlerTurn, ExecutorTurn,
     AnalysisEnds

\* The handler that queues a run holds it.
LEMMA QueueHasTask ==
    ASSUME WaitsInv, NEW q \in Requests, NEW ok \in BOOLEAN, QueueStep(q, ok), Unharmed',
           UNCHANGED <<tasks, task>>
    PROVE  /\ Unharmed /\ FileAgrees'
           /\ \A j \in Jobs, run \in Nat : Waits(j, run)' => HasTask(j, run)'
<1> DEFINE j == req[q].job
           new == Queued(Base(Web, j), lastRun + 1)
<1>1. /\ InProcessInv /\ RequestInv /\ StoreInv /\ j \in Jobs /\ faults \in Nat /\ faults' = 0
      /\ lastRun \in Nat
  BY UnchangedTyped DEF WaitsInv, InProcessInv, Unharmed
<1>2. ~Submits(q) /\ crashes' = crashes
  BY DEF QueueStep, StartQueue, RestartQueue, Submits
<1>3. CASE UNCHANGED <<file, mirror, faults>> /\ ((\E step : Goto(q, step)) \/ Done(q))
  <2>1. SubmitsStay /\ Unharmed
    BY <1>1, <1>2, <1>3, OtherMoves DEF Unharmed
  <2>2. \A i \in Jobs, run \in Nat : Waits(i, run)' => HasTask(i, run)
    BY <1>3, <2>1 DEF WaitsInv, Waits
  <2> QED
    BY <1>3, <2>1, <2>2, TasksStay DEF WaitsInv, FileAgrees
<1>4. CASE /\ UpdateJob(Web, j, new, ok)
           /\ ok /\ ~Detached => Begin(q, "submit", j, new)
  <2>1. ok /\ faults = 0
    BY <1>1, <1>4 DEF UpdateJob, WriteFile
  <2>2. /\ file' = [file EXCEPT ![j] = new] /\ mirror' = [mirror EXCEPT ![Web][j] = new]
        /\ Begin(q, "submit", j, new)
    BY <1>4, <2>1, InProcessAssumption DEF UpdateJob, WriteFile, Remember
  <2>3. Unharmed /\ SubmitsStay
    BY <1>1, <1>2, <2>1, <2>2, OtherMoves DEF Unharmed
  <2>4. /\ req'[q].at = "submit" /\ req'[q].job = j /\ req'[q].seen = new
    BY <1>1, <2>2 DEF Begin, RequestInv, RequestTypeOK
  <2>5. /\ file'[j] = new /\ mirror'[Web][j] = new
        /\ \A i \in Jobs \ {j} : file'[i] = file[i] /\ mirror'[Web][i] = mirror[Web][i]
    BY <1>1, <2>2, StoreAssumption DEF StoreInv, StoreTypeOK
  <2> HIDE DEF new, j
  <2>6. \A i, run : i = j /\ run = new.run => HasTask(i, run)'
    BY <2>4 DEF HasTask, Submits
  <2>7. FileAgrees'
    BY <2>3, <2>5 DEF WaitsInv, FileAgrees, QueuedAs
  <2>8. ASSUME NEW i \in Jobs, NEW run \in Nat, Waits(i, run)' PROVE HasTask(i, run)'
    <3>1. CASE i = j
      <4>1. run = new.run
        BY <2>5, <2>8, <3>1 DEF Waits, QueuedAs
      <4> QED
        BY <2>6, <3>1, <4>1
    <3>2. CASE i # j
      <4>1. Waits(i, run)
        BY <2>5, <2>8, <3>2 DEF Waits, QueuedAs
      <4> QED
        BY <2>3, <4>1, TasksStay DEF WaitsInv
    <3> QED
      BY <3>1, <3>2
  <2> QED
    BY <2>3, <2>7, <2>8
<1>5. \/ UNCHANGED <<file, mirror, faults>> /\ ((\E step : Goto(q, step)) \/ Done(q))
      \/ UpdateJob(Web, j, new, ok) /\ (ok /\ ~Detached => Begin(q, "submit", j, new))
  <2>1. \E after : QueueRun(q, ok, after)
    BY DEF QueueStep, StartQueue, RestartQueue
  <2>2. PICK after : QueueRun(q, ok, after)
    BY <2>1
  <2> QED
    BY <2>2 DEF QueueRun, Leave
<1> QED
  BY <1>3, <1>4, <1>5

\* A submitted run waits at the end of the queue.
LEMMA SubmitHasTask ==
    ASSUME WaitsInv, NEW q \in Requests, Submit(q), NEW j, NEW run, HasTask(j, run)
    PROVE  HasTask(j, run)'
<1> DEFINE new == <<req[q].job, req[q].seen.run>>
<1>1. InProcessInv /\ RequestInv /\ task' = task /\ tasks' = Append(tasks, new)
  BY DEF Submit, WaitsInv, InProcessInv
<1>2. /\ Len(tasks) \in Nat /\ Len(tasks') = Len(tasks) + 1
      /\ \A n \in 1..Len(tasks) : tasks'[n] = tasks[n]
      /\ tasks'[Len(tasks) + 1] = new
  BY <1>1, TaskShape
<1>3. \A r \in Requests \ {q} : req'[r] = req[r]
  BY <1>1 DEF Submit, Done, RequestInv, RequestTypeOK
<1>4. CASE \E n \in 1..Len(tasks) : tasks[n] = <<j, run>>
  <2>1. PICK n \in 1..Len(tasks) : tasks[n] = <<j, run>>
    BY <1>4
  <2>2. n \in 1..Len(tasks') /\ tasks'[n] = <<j, run>>
    BY <1>2, <2>1
  <2> QED
    BY <2>2 DEF HasTask
<1>5. CASE task.at = "begin" /\ task.job = j /\ task.run = run
  BY <1>1, <1>5 DEF HasTask
<1>6. CASE \E r \in Requests : Submits(r) /\ req[r].job = j /\ req[r].seen.run = run
  <2>1. PICK r \in Requests : Submits(r) /\ req[r].job = j /\ req[r].seen.run = run
    BY <1>6
  <2>2. CASE r = q
    <3>1. Len(tasks) + 1 \in 1..Len(tasks') /\ tasks'[Len(tasks) + 1] = <<j, run>>
      BY <1>2, <2>1, <2>2
    <3> QED
      BY <3>1 DEF HasTask
  <2>3. CASE r # q
    BY <1>3, <2>1, <2>3 DEF HasTask, Submits
  <2> QED
    BY <2>2, <2>3
<1> QED
  BY <1>4, <1>5, <1>6 DEF HasTask

\* The oldest task is the thread's.
LEMMA TakeTaskHasTask ==
    ASSUME WaitsInv, TakeTask, NEW j, NEW run, HasTask(j, run)
    PROVE  HasTask(j, run)'
<1>1. InProcessInv /\ req' = req /\ task.at = "idle"
  BY DEF TakeTask, WaitsInv, vars
<1>2. /\ tasks \in Seq(Jobs \X Run) /\ tasks # <<>> /\ tasks' = Tail(tasks)
      /\ task'.at = "begin" /\ task'.job = tasks[1][1] /\ task'.run = tasks[1][2]
  BY <1>1, TaskShape DEF TakeTask
<1>3. \A n \in 1..Len(tasks) : n = 1 \/ (n - 1 \in 1..Len(tasks') /\ tasks'[n - 1] = tasks[n])
  BY <1>2
<1>4. CASE \E n \in 1..Len(tasks) : tasks[n] = <<j, run>>
  <2>1. PICK n \in 1..Len(tasks) : tasks[n] = <<j, run>>
    BY <1>4
  <2>2. CASE n = 1
    BY <1>2, <2>1, <2>2 DEF HasTask
  <2>3. CASE n # 1
    <3>1. n - 1 \in 1..Len(tasks') /\ tasks'[n - 1] = <<j, run>>
      BY <1>3, <2>1, <2>3
    <3> QED
      BY <3>1 DEF HasTask
  <2> QED
    BY <2>2, <2>3
<1>5. CASE \E r \in Requests : Submits(r) /\ req[r].job = j /\ req[r].seen.run = run
  BY <1>1, <1>5 DEF HasTask, Submits
<1> QED
  BY <1>1, <1>4, <1>5 DEF HasTask

\* The thread begins: the generation it holds is not queued any more.
LEMMA StartRunHasTask ==
    ASSUME WaitsInv, NEW ok \in BOOLEAN, StartRun(ok), Unharmed'
    PROVE  /\ Unharmed /\ NothingQueued
           /\ \A j \in Jobs, run \in Nat : HasTask(j, run) /\ Waits(j, run)' => HasTask(j, run)'
<1> DEFINE s == Base(Web, task.job)
           mine == s.status = "queued" /\ s.run = task.run
           started == Started(s, task.run)
<1>1. /\ InProcessInv /\ RequestInv /\ StoreInv /\ task.job \in Jobs /\ faults \in Nat
      /\ faults' = 0 /\ task.at = "begin" /\ task.run \in Nat
      /\ UNCHANGED <<req, tasks, crashes>>
  BY TheTask, UnchangedTyped DEF WaitsInv, InProcessInv, Unharmed, StartRun, Handlers
<1>2. CASE mine
  <2>1. UpdateJob(Web, task.job, started, ok) /\ ok /\ faults = 0
    BY <1>1, <1>2 DEF StartRun, UpdateJob, WriteFile
  <2>2. started.status = "running"
    <3>1. s \in Session
      BY <1>1, StoreAssumption, ReadsAreGood DEF GoodFor
    <3> QED
      BY <3>1 DEF Started, Session
  <2>3. Unharmed
    BY <1>1, <2>1 DEF Unharmed
  <2>4. NothingQueued
    BY <1>1, <2>1, <2>2, <2>3, UpdateQueuesNothing DEF WaitsInv
  <2>5. file'[task.job] = started /\ mirror'[Web][task.job] = started
    BY <1>1, <2>1, StoreAssumption DEF UpdateJob, WriteFile, Remember, StoreInv, StoreTypeOK
  <2> HIDE DEF started
  <2>6. \A j \in Jobs : \A run : Waits(j, run)' => j # task.job
    BY <2>2, <2>5 DEF Waits, QueuedAs
  <2>7. \A j \in Jobs, run \in Nat : HasTask(j, run) /\ j # task.job => HasTask(j, run)'
    BY <1>1 DEF HasTask, Submits
  <2> QED
    BY <2>3, <2>4, <2>6, <2>7
<1>3. CASE ~mine
  <2>1. Refresh(task.job, OnDisk(task.job)) /\ UNCHANGED mirror /\ faults' = faults
    BY <1>3 DEF StartRun, Refresh
  <2>2. Unharmed /\ FileAgrees
    BY <1>1, <2>1 DEF Unharmed, WaitsInv
  <2>3. NothingQueued
    BY <1>1, <2>1, <2>2, ReadQueuesNothing
  <2>4. ~Waits(task.job, task.run)
    <3>1. CASE file[task.job] # Absent
      <4>1. ~QueuedAs(file[task.job], task.run)
        BY <1>3, <3>1, ReadIsNoYounger DEF Base, OnDisk, QueuedAs
      <4> QED
        BY <1>1, <2>2, <3>1, <4>1 DEF FileAgrees, Waits, QueuedAs
    <3>2. CASE file[task.job] = Absent
      BY <1>3, <3>2 DEF Base, Waits, QueuedAs, Absent
    <3> QED
      BY <3>1, <3>2
  <2>5. \A j \in Jobs : \A run : Waits(j, run)' => Waits(j, run)
    BY <2>3 DEF NothingQueued, QueuesNothing, Waits
  <2>6. \A j \in Jobs : \A run : HasTask(j, run) /\ ~(j = task.job /\ run = task.run) => HasTask(j, run)'
    BY <1>1 DEF HasTask, Submits
  <2> QED
    BY <2>2, <2>3, <2>4, <2>5, <2>6
<1> QED
  BY <1>2, <1>3

-----------------------------------------------------------------------------

\* The thread's steps after it has begun.
LEMMA ThreadQueuesNothing ==
    ASSUME WaitsInv, Unharmed',
           \/ ReadBack \/ FailRead \/ FailRelease \/ AnalysisFails
           \/ \E ok \in BOOLEAN : FailUnmark(ok) \/ FailError(ok) \/ Finish(ok) \/ Progress(ok)
           \/ \E saves, writes \in BOOLEAN : Save(saves, writes)
    PROVE  /\ Unharmed /\ NothingQueued
           /\ \A j \in Jobs, run \in Nat : HasTask(j, run) => HasTask(j, run)'
<1>1. /\ InProcessInv /\ RequestInv /\ StoreInv /\ task.job \in Jobs /\ faults \in Nat
      /\ faults' = 0 /\ (task.at # "idle" => task.run \in WorkerIds)
  BY TheTask, UnchangedTyped DEF WaitsInv, InProcessInv, Unharmed
<1>2. task.at \notin {"idle", "begin"} /\ UNCHANGED <<req, tasks, crashes>>
  BY DEF ReadBack, FailRead, FailRelease, AnalysisFails, FailUnmark, FailError, Finish, Progress,
     Save, Handlers, vars, requestVars
<1>3. \A j \in Jobs, run \in Nat : HasTask(j, run) => HasTask(j, run)'
  BY <1>2 DEF HasTask, Submits
<1>4. faults = 0 => Unharmed /\ FileAgrees
  BY <1>1, <1>2 DEF Unharmed, WaitsInv
<1>5. CASE ReadBack \/ FailRead
  <2>1. GetJob(Web, task.job) /\ faults' = faults
    BY <1>5 DEF ReadBack, FailRead, GetJob, Refresh
  <2> QED
    BY <1>1, <1>3, <1>4, <2>1, GetJobQueuesNothing
<1>6. CASE FailRelease \/ AnalysisFails
  <2>1. UNCHANGED <<file, mirror, faults>>
    BY <1>6 DEF FailRelease, AnalysisFails, vars
  <2> QED
    BY <1>1, <1>3, <1>4, <2>1, UnchangedQueuesNothing
<1>7. ASSUME NEW ok \in BOOLEAN, FailUnmark(ok) \/ FailError(ok)
      PROVE  Unharmed /\ NothingQueued
  <2>1. \/ \E b \in BOOLEAN : PatchJob(Web, task.job, [Base(Web, task.job) EXCEPT !.reserved = b], ok)
        \/ PatchJob(Web, task.job, Failed(Base(Web, task.job)), ok)
    BY <1>7 DEF FailUnmark, FailError
  <2>2. faults' = faults \/ (MayFail(ok) /\ faults' = IF ok THEN faults ELSE faults + 1)
    BY <2>1 DEF PatchJob, UpdateJob, WriteFile
  <2>3. faults = 0
    BY <1>1, <2>2, HarmStays
  <2> QED
    BY <1>1, <1>4, <2>1, <2>3, PatchesQueueNothing
<1>8. ASSUME NEW ok \in BOOLEAN, Finish(ok) \/ Progress(ok)
      PROVE  Unharmed /\ NothingQueued
  <2>1. RenewRun(Web, task.job, task.run, task.run, ok) \/ FinalizeRun(Web, task.job, task.run, task.run, ok)
    BY <1>8 DEF Finish, Progress
  <2>2. faults = 0
    BY <1>1, <2>1 DEF RenewRun, FinalizeRun, UpdateJob, WriteFile, Refresh
  <2>3. task.run \in WorkerIds
    BY <1>1, <1>2
  <2> QED
    BY <1>1, <1>4, <2>1, <2>2, <2>3, FencedQueuesNothing
<1>9. ASSUME NEW saves \in BOOLEAN, NEW writes \in BOOLEAN, Save(saves, writes)
      PROVE  Unharmed /\ NothingQueued
  <2>1. PersistRun(Web, task.job, task.saved, saves, writes)
    BY <1>9 DEF Save
  <2>2. faults' = faults \/ faults' = faults + 1
    BY <2>1 DEF PersistRun, Refresh
  <2> QED
    BY <1>1, <1>4, <2>1, <2>2, PersistQueuesNothing
<1> QED
  BY <1>3, <1>5, <1>6, <1>7, <1>8, <1>9

\* A step that queues nothing, and keeps the tasks of what is queued.
LEMMA WaitsKept ==
    ASSUME WaitsInv, InProcessInv', NoListing',
           Unharmed' => /\ Unharmed /\ NothingQueued
                        /\ \A j \in Jobs, run \in Nat :
                              HasTask(j, run) /\ Waits(j, run)' => HasTask(j, run)'
    PROVE  WaitsInv'
<1>1. NothingQueued => FileAgrees'
  BY DEF NothingQueued, QueuesNothing, FileAgrees
<1>2. NothingQueued => \A j \in Jobs : \A run : Waits(j, run)' => Waits(j, run)
  BY DEF NothingQueued, QueuesNothing, Waits
<1> QED
  BY <1>1, <1>2 DEF WaitsInv

\* The induction step.
LEMMA WaitsStep ==
    ASSUME WaitsInv, [Next]_inpVars, "list" \notin RequestKinds
    PROVE  WaitsInv'
<1>1. InProcessInv /\ InProcessInv' /\ NoListing'
  BY InProcessStep, NobodyLists DEF WaitsInv
<1>2. CASE UNCHANGED <<tasks, task>> /\ WebStep
  BY <1>1, <1>2, WebQueuesNothing, TasksStay, WaitsKept
<1>3. ASSUME NEW q \in Requests, HandlerTurn(q) PROVE WaitsInv'
  <2>1. ASSUME NEW ok \in BOOLEAN, HandlerStep(q, ok), UNCHANGED <<tasks, task>>
        PROVE  WaitsInv'
    BY <1>1, <2>1, HandlerQueuesNothing, TasksStay, WaitsKept
  <2>2. ASSUME NEW ok \in BOOLEAN, QueueStep(q, ok), UNCHANGED <<tasks, task>>
        PROVE  WaitsInv'
    BY <1>1, <2>2, QueueHasTask DEF WaitsInv
  <2>3. CASE Submit(q)
    <3>1. UNCHANGED <<file, mirror, faults, crashes>>
      BY <2>3 DEF Submit, storeVars
    <3>2. Unharmed' => Unharmed /\ NothingQueued
      BY <3>1, UnchangedQueuesNothing DEF Unharmed, WaitsInv
    <3> QED
      BY <1>1, <2>3, <3>2, SubmitHasTask, WaitsKept
  <2> QED
    BY <1>3, <2>1, <2>2, <2>3 DEF HandlerTurn
<1>4. CASE TakeTask
  <2>1. Unharmed' => Unharmed /\ NothingQueued
    BY <1>4, UnchangedQueuesNothing DEF TakeTask, vars, Unharmed, WaitsInv
  <2> QED
    BY <1>1, <1>4, <2>1, TakeTaskHasTask, WaitsKept
<1>5. ASSUME NEW ok \in BOOLEAN, StartRun(ok) PROVE WaitsInv'
  BY <1>1, <1>5, StartRunHasTask, WaitsKept
<1>6. CASE \/ ReadBack \/ FailRead \/ FailRelease \/ AnalysisFails
           \/ \E ok \in BOOLEAN : FailUnmark(ok) \/ FailError(ok) \/ Finish(ok) \/ Progress(ok)
           \/ \E saves, writes \in BOOLEAN : Save(saves, writes)
  BY <1>1, <1>6, ThreadQueuesNothing, WaitsKept
<1>7. CASE Restart
  <2>1. crashes \in Nat /\ crashes' = crashes + 1
    BY <1>1, <1>7, UnchangedTyped DEF Restart, WebRestarts, InProcessInv
  <2>2. ~Unharmed'
    BY <2>1 DEF Unharmed
  <2> QED
    BY <1>1, <2>2 DEF WaitsInv
<1>8. CASE UNCHANGED inpVars
  <2>1. UNCHANGED <<tasks, task, req, file, mirror, faults, crashes>>
    BY <1>8 DEF inpVars, vars
  <2>2. Unharmed' => Unharmed /\ NothingQueued /\ SubmitsStay
    BY <2>1, UnchangedQueuesNothing DEF Unharmed, WaitsInv, SubmitsStay
  <2> QED
    BY <1>1, <2>1, <2>2, TasksStay, WaitsKept
<1> QED
  BY <1>2, <1>3, <1>4, <1>5, <1>6, <1>7, <1>8 DEF Next, OtherTurn, ExecutorTurn, AnalysisEnds

\* While the process lives and can write, a queued run has somebody who will
\* start it, for any number of handlers under way - unless one of them is a
\* listing: what list_jobs read under the lock it puts into _jobs after it, and
\* by then it may be older than what the others know.
THEOREM InProcessQueuedHasATask ==
    ASSUME "list" \notin RequestKinds
    PROVE  Spec => []QueuedHasATask
<1>1. Init => WaitsInv
  <2> SUFFICES ASSUME Init PROVE WaitsInv
    OBVIOUS
  <2>1. /\ InProcessInv /\ \A q \in Requests : req[q].at = "idle"
        /\ \A j \in Jobs : file[j] = Absent /\ mirror[Web][j] = Absent
    BY InProcessInitGood, StoreAssumption DEF Init, RequestInit, StoreInit, Idle
  <2> QED
    BY <2>1 DEF WaitsInv, NoListing, FileAgrees, Waits, QueuedAs, Absent
<1>2. WaitsInv /\ [Next]_inpVars => WaitsInv'
  BY WaitsStep
<1>3. WaitsInv => QueuedHasATask
  <2> SUFFICES ASSUME WaitsInv, Unharmed, NEW j \in Jobs, file[j].status = "queued"
               PROVE  HasTask(j, file[j].run)
    BY DEF QueuedHasATask, HasTask, Unharmed, Submits
  <2>1. file[j].run \in Nat
    BY DEF WaitsInv, InProcessInv, RequestInv, StoreInv, StoreTypeOK, Session
  <2>2. Waits(j, file[j].run)
    BY DEF Waits, QueuedAs
  <2> QED
    BY <2>1, <2>2 DEF WaitsInv
<1> QED
  BY <1>1, <1>2, <1>3, PTL DEF Spec
-----------------------------------------------------------------------------
(* Saved fights and their reports.                                         *)

\* The executor adds reports, and saves only a fight whose report is there.
LEMMA ExecutorMovesHistory ==
    ASSUME InProcessInv, ExecutorTurn \/ AnalysisEnds \/ \E ok \in BOOLEAN : Progress(ok)
    PROVE  HistoryMoves
<1>1. NoSnapshot
  <2>1. UNCHANGED req
    BY DEF ExecutorTurn, AnalysisEnds, TakeTask, StartRun, Progress, Finish, ReadBack, Save,
       AnalysisFails, FailRead, FailRelease, FailUnmark, FailError, Handlers, vars
  <2> QED
    BY <2>1 DEF NoSnapshot
<1>2. ASSUME NEW saves \in BOOLEAN, NEW writes \in BOOLEAN, Save(saves, writes)
      PROVE  HistoryMoves
  BY <1>1, <1>2, TheTask, UnchangedTyped, PersistMoves DEF Save, Handlers
<1>3. ASSUME NEW ok \in BOOLEAN, Finish(ok) PROVE NothingForgotten
  BY <1>3 DEF Finish, FinalizeRun, Handlers, NothingForgotten
<1>4. CASE \/ TakeTask \/ ReadBack \/ FailRead \/ FailRelease \/ AnalysisFails
           \/ \E ok \in BOOLEAN : StartRun(ok) \/ FailUnmark(ok) \/ FailError(ok) \/ Progress(ok)
  <2>1. NothingForgotten
    BY <1>4 DEF TakeTask, ReadBack, FailRead, FailRelease, AnalysisFails, StartRun, FailUnmark,
       FailError, Progress, Handlers, vars, NothingForgotten
  <2> QED
    BY <1>1, <2>1, NothingForgottenMoves
<1> QED
  BY <1>1, <1>2, <1>3, <1>4, NothingForgottenMoves DEF ExecutorTurn, AnalysisEnds

\* A handler of the web process goes on, or hands its run to the executor.
LEMMA HandlersMoveHistory ==
    ASSUME InProcessInv, NEW q \in Requests, HandlerTurn(q)
    PROVE  HistoryMoves
<1>1. RequestInv
  BY DEF InProcessInv
<1>2. CASE Submit(q)
  <2>1. NothingForgotten /\ NoSnapshot
    BY <1>1, <1>2, OneHandlerLooks DEF Submit, storeVars, NothingForgotten
  <2> QED
    BY <2>1, NothingForgottenMoves
<1> QED
  BY <1>1, <1>2, HandlerStepMoves, WebMovesHistory DEF HandlerTurn

\* The report a saved fight points at is there until the fight's deletion, whatever
\* the executor, failed writes, retries of the save and sweeps do
\* (persist_completed_job, cleanup_abandoned_processing_files).
THEOREM InProcessReportsStay == Spec => []ReportMissingOnlyAfterDeletion
<1>1. Init => InProcessInv /\ HistoryInv
  BY InProcessInitGood, HistoryInitGood DEF Init
<1>2. InProcessInv /\ HistoryInv /\ [Next]_inpVars => InProcessInv' /\ HistoryInv'
  <2> SUFFICES ASSUME InProcessInv, HistoryInv, [Next]_inpVars PROVE InProcessInv' /\ HistoryInv'
    OBVIOUS
  <2>1. InProcessInv' /\ RequestInv
    BY InProcessStep DEF InProcessInv
  <2>2. CASE OtherTurn
    BY <2>1, <2>2, WebMovesHistory, ExecutorMovesHistory, MovesKeepHistory DEF OtherTurn, Restart
  <2>3. CASE ExecutorTurn \/ AnalysisEnds
    BY <2>1, <2>3, ExecutorMovesHistory, MovesKeepHistory DEF ExecutorTurn, AnalysisEnds
  <2>4. ASSUME NEW q \in Requests, HandlerTurn(q) PROVE HistoryInv'
    BY <2>1, <2>4, HandlersMoveHistory, MovesKeepHistory DEF HandlerTurn
  <2>5. CASE UNCHANGED inpVars
    <3>1. UNCHANGED <<vars, untouched>>
      BY <2>5 DEF inpVars
    <3> QED
      BY <2>1, <3>1, StutterKeepsHistory
  <2> QED
    BY <2>1, <2>2, <2>3, <2>4, <2>5 DEF Next
<1>3. HistoryInv => ReportMissingOnlyAfterDeletion
  BY DEF HistoryInv
<1> QED
  BY <1>1, <1>2, <1>3, PTL DEF Spec
=============================================================================
