-------------------------- MODULE ExternalWorkersProofs --------------------------
(***************************************************************************)
(* External workers keep the types, the result, the lease fence and the    *)
(* promise of app/state.py, for any number of jobs, workers and handlers.  *)
(* The inductive invariant is RequestInv with the workers' own types; each *)
(* step is shown to keep it and to be one of the FileMoves, from which the *)
(* theorems follow.                                                        *)
(*                                                                         *)
(* Then: no two workers analyse one generation.  HeldInv says of every     *)
(* copy that may still be written over a session - the file, a worker's,   *)
(* and the web process's while a start is under way - that it does not     *)
(* call queued again what a worker has taken.                              *)
(***************************************************************************)
EXTENDS ExternalWorkers, JobRequestsProofs

WorkersTyped == worker \in [WorkerIds -> [at : WorkerSteps, job : Jobs, copy : Session]]

ExternalInv == RequestInv /\ WorkersTyped

\* What the invariant says of one worker.
LEMMA OneWorker ==
    ASSUME ExternalInv, NEW w \in WorkerIds
    PROVE  /\ RequestInv /\ StoreInv /\ w \in Processes
           /\ Job(w) \in Jobs /\ Run(w) \in Nat /\ worker[w].copy \in Session
BY UnchangedTyped, ExternalAssumption DEF ExternalInv, WorkersTyped, Job, Run, Session

\* A worker that only goes on stays well typed.
LEMMA GoesOn ==
    ASSUME ExternalInv, NEW w \in WorkerIds, NEW step \in WorkerSteps, WorkerGoto(w, step)
    PROVE  WorkersTyped'
BY SessionTypes DEF ExternalInv, WorkersTyped, WorkerGoto, AtRest, WorkerSteps

\* A worker's call about its job, with nothing of the web process's handlers.
LEMMA WorkerCallKeeps ==
    ASSUME ExternalInv, NEW w \in WorkerIds, Effect(w, Job(w)), OthersTyped,
           UNCHANGED <<lastRun, requestVars>>
    PROVE  RequestInv' /\ FileMoves
BY OneWorker, UnchangedTyped, CallKeeps DEF requestVars

\* The list of candidates.
LEMMA ClaimScanKeeps ==
    ASSUME ExternalInv, NEW w \in WorkerIds, NEW j \in Jobs, ClaimScan(w, j)
    PROVE  ExternalInv' /\ FileMoves
<1>1. WorkersTyped'
  BY SessionTypes DEF ExternalInv, WorkersTyped, ClaimScan, AtRest, WorkerSteps
<1>2. RequestInv' /\ FileMoves
  BY StutterKeeps DEF ClaimScan, ExternalInv
<1> QED
  BY <1>1, <1>2 DEF ExternalInv

\* The claim directory is made, met, or cannot be made.
LEMMA ClaimMakeKeeps ==
    ASSUME ExternalInv, NEW w \in WorkerIds, ClaimMake(w)
    PROVE  ExternalInv' /\ FileMoves
<1>1. WorkersTyped'
  BY GoesOn DEF ClaimMake, WorkerSteps
<1>2. RequestInv' /\ FileMoves
  <2>1. claims' \subseteq Jobs
    BY OneWorker, UnchangedTyped DEF ClaimMake
  <2>2. CASE UNCHANGED mirror
    <3>1. Effect(w, Job(w)) /\ OthersTyped
      BY <2>1, <2>2, OneWorker, NoEffect, UnchangedTyped DEF ClaimMake, OthersTyped
    <3> QED
      BY <3>1, WorkerCallKeeps DEF ClaimMake
  <2>3. CASE mirror' = [mirror EXCEPT ![w] = [j \in Jobs |-> Absent]] /\ UNCHANGED claims
    <3>1. StoreInv' /\ FileMoves
      BY <2>3, OneWorker, CopiesLost DEF ClaimMake, requestVars
    <3> QED
      BY <3>1, OneWorker, UnchangedTyped, RequestKept DEF ClaimMake, requestVars
  <2> QED
    BY <2>2, <2>3 DEF ClaimMake
<1> QED
  BY <1>1, <1>2 DEF ExternalInv

\* The claim itself.
LEMMA ClaimTakeKeeps ==
    ASSUME ExternalInv, NEW w \in WorkerIds, NEW ok \in BOOLEAN, ClaimTake(w, ok)
    PROVE  ExternalInv' /\ FileMoves
<1> DEFINE s == OnDisk(Job(w))
<1>0. /\ GoodFor(Job(w), s) /\ SessionMoves(file[Job(w)], s)
      /\ Claimable(s) => /\ GoodFor(Job(w), Started(s, w)) /\ Started(s, w) \in Session
                         /\ SessionMoves(file[Job(w)], Started(s, w))
  <2>1. /\ GoodFor(Job(w), s) /\ SessionMoves(file[Job(w)], s)
        /\ s = file[Job(w)] \/ PhaseOf(s) = "closed"
    BY OneWorker, ReadsAreGood
  <2>2. ASSUME Claimable(s)
        PROVE  /\ GoodFor(Job(w), Started(s, w))
               /\ SessionMoves(file[Job(w)], Started(s, w))
    BY <2>1, <2>2, StartedIsGood, MoveAfterRead
  <2> QED
    BY <2>1, <2>2 DEF GoodFor
<1>1. WorkersTyped'
  BY <1>0, SessionTypes DEF ClaimTake, ExternalInv, WorkersTyped, WorkerSteps
<1>2. RequestInv' /\ FileMoves
  <2>1. Effect(w, Job(w))
    <3>1. CASE Claimable(s)
      <4>1. \E t : GoodFor(Job(w), t) /\ mirror' = [mirror EXCEPT ![w][Job(w)] = t]
        <5>1. /\ GoodFor(Job(w), mirror[w][Job(w)])
              /\ mirror = [mirror EXCEPT ![w][Job(w)] = mirror[w][Job(w)]]
          BY OneWorker DEF StoreInv, CopiesGood, StoreTypeOK
        <5> QED
          BY <1>0, <3>1, <5>1 DEF ClaimTake, Remember
      <4>2. WriteFile(Job(w), Started(s, w), ok)
        BY <3>1 DEF ClaimTake
      <4> QED
        BY <1>0, <3>1, <4>1, <4>2, OneWorker, WriteEffect
    <3>2. CASE ~Claimable(s)
      BY <3>2, OneWorker, ReadEffect DEF ClaimTake
    <3> QED
      BY <3>1, <3>2
  <2>2. OthersTyped
    BY OneWorker, UnchangedTyped DEF ClaimTake, OthersTyped
  <2> QED
    BY <2>1, <2>2, WorkerCallKeeps DEF ClaimTake
<1> QED
  BY <1>1, <1>2 DEF ExternalInv

\* The claim directory is removed.
LEMMA DropKeeps ==
    ASSUME ExternalInv, NEW w \in WorkerIds, ClaimDrop(w)
    PROVE  ExternalInv' /\ FileMoves
<1>1. WorkersTyped'
  BY GoesOn DEF ClaimDrop, WorkerSteps
<1>2. RequestInv' /\ FileMoves
  <2>1. Effect(w, Job(w))
    BY OneWorker, NoEffect DEF ClaimDrop
  <2>2. OthersTyped
    BY OneWorker, UnchangedTyped DEF ClaimDrop, OthersTyped
  <2> QED
    BY <2>1, <2>2, WorkerCallKeeps DEF ClaimDrop
<1> QED
  BY <1>1, <1>2 DEF ExternalInv

\* A progress report.
LEMMA ProgressKeeps ==
    ASSUME ExternalInv, NEW w \in WorkerIds, NEW ok \in BOOLEAN, Progress(w, ok)
    PROVE  ExternalInv' /\ FileMoves
<1>1. WorkersTyped'
  BY GoesOn DEF Progress, WorkerSteps
<1>2. RequestInv' /\ FileMoves
  <2>1. Effect(w, Job(w))
    BY OneWorker, RenewEffect DEF Progress
  <2>2. OthersTyped
    BY OneWorker, UnchangedTyped DEF Progress, OthersTyped
  <2> QED
    BY <2>1, <2>2, WorkerCallKeeps DEF Progress
<1> QED
  BY <1>1, <1>2 DEF ExternalInv

\* The result is committed, or refused.
LEMMA FinishKeeps ==
    ASSUME ExternalInv, NEW w \in WorkerIds, NEW ok \in BOOLEAN, Finish(w, ok)
    PROVE  ExternalInv' /\ FileMoves
<1>1. WorkersTyped'
  BY GoesOn DEF Finish, WorkerSteps
<1>2. RequestInv' /\ FileMoves
  <2>1. Effect(w, Job(w)) /\ reports' \subseteq Jobs \X Nat
    BY OneWorker, FinalizeEffect DEF Finish
  <2>2. OthersTyped
    BY <2>1, OneWorker, UnchangedTyped DEF Finish, OthersTyped
  <2> QED
    BY <2>1, <2>2, WorkerCallKeeps DEF Finish
<1> QED
  BY <1>1, <1>2 DEF ExternalInv

\* The result is saved in the account's history.
LEMMA SaveKeeps ==
    ASSUME ExternalInv, NEW w \in WorkerIds, NEW saves \in BOOLEAN, NEW writes \in BOOLEAN,
           Save(w, saves, writes)
    PROVE  ExternalInv' /\ FileMoves
<1>1. WorkersTyped'
  BY GoesOn DEF Save, WorkerSteps
<1>2. RequestInv' /\ FileMoves
  <2>1. Effect(w, Job(w)) /\ history' \in [Jobs -> Nat]
    BY OneWorker, PersistEffect DEF Save
  <2>2. OthersTyped
    BY <2>1, OneWorker, UnchangedTyped DEF Save, OthersTyped
  <2> QED
    BY <2>1, <2>2, WorkerCallKeeps DEF Save
<1> QED
  BY <1>1, <1>2 DEF ExternalInv

\* The analysis raises.
LEMMA AnalysisFailsKeeps ==
    ASSUME ExternalInv, NEW w \in WorkerIds, AnalysisFails(w)
    PROVE  ExternalInv' /\ FileMoves
<1>1. WorkersTyped'
  BY GoesOn DEF AnalysisFails, WorkerSteps
<1>2. RequestInv' /\ FileMoves
  BY OneWorker, StutterKeeps DEF AnalysisFails
<1> QED
  BY <1>1, <1>2 DEF ExternalInv

\* The failure branch reads the session.
LEMMA FailReadKeeps ==
    ASSUME ExternalInv, NEW w \in WorkerIds, FailRead(w)
    PROVE  ExternalInv' /\ FileMoves
<1>1. WorkersTyped'
  BY GoesOn DEF FailRead, WorkerSteps
<1>2. RequestInv' /\ FileMoves
  <2>1. Effect(w, Job(w))
    BY OneWorker, GetJobEffect DEF FailRead
  <2>2. OthersTyped
    BY OneWorker, UnchangedTyped DEF FailRead, OthersTyped
  <2> QED
    BY <2>1, <2>2, WorkerCallKeeps DEF FailRead
<1> QED
  BY <1>1, <1>2 DEF ExternalInv

\* The failure branch gives the analysis back.
LEMMA FailReleaseKeeps ==
    ASSUME ExternalInv, NEW w \in WorkerIds, FailRelease(w)
    PROVE  ExternalInv' /\ FileMoves
<1>1. WorkersTyped'
  BY GoesOn DEF FailRelease, WorkerSteps
<1>2. RequestInv' /\ FileMoves
  <2>1. Effect(w, Job(w))
    BY OneWorker, NoEffect DEF FailRelease
  <2>2. OthersTyped
    BY OneWorker, UnchangedTyped DEF FailRelease, OthersTyped
  <2> QED
    BY <2>1, <2>2, WorkerCallKeeps DEF FailRelease
<1> QED
  BY <1>1, <1>2 DEF ExternalInv

\* The failure branch clears the mark.
LEMMA FailUnmarkKeeps ==
    ASSUME ExternalInv, NEW w \in WorkerIds, NEW ok \in BOOLEAN, FailUnmark(w, ok)
    PROVE  ExternalInv' /\ FileMoves
<1>1. WorkersTyped'
  BY GoesOn DEF FailUnmark, WorkerSteps
<1>2. RequestInv' /\ FileMoves
  <2>1. Effect(w, Job(w))
    BY OneWorker, MarkEffect DEF FailUnmark
  <2>2. OthersTyped
    BY OneWorker, UnchangedTyped DEF FailUnmark, OthersTyped
  <2> QED
    BY <2>1, <2>2, WorkerCallKeeps DEF FailUnmark
<1> QED
  BY <1>1, <1>2 DEF ExternalInv

\* The failure branch marks the job as failed.
LEMMA FailErrorKeeps ==
    ASSUME ExternalInv, NEW w \in WorkerIds, NEW ok \in BOOLEAN, FailError(w, ok)
    PROVE  ExternalInv' /\ FileMoves
<1>1. WorkersTyped'
  BY GoesOn DEF FailError, WorkerSteps
<1>2. RequestInv' /\ FileMoves
  <2>1. Effect(w, Job(w))
    BY OneWorker, FailEffect DEF FailError
  <2>2. OthersTyped
    BY OneWorker, UnchangedTyped DEF FailError, OthersTyped
  <2> QED
    BY <2>1, <2>2, WorkerCallKeeps DEF FailError
<1> QED
  BY <1>1, <1>2 DEF ExternalInv

\* A worker dies.
LEMMA WorkerDiesKeeps ==
    ASSUME ExternalInv, NEW w \in WorkerIds, WorkerDies(w)
    PROVE  ExternalInv' /\ FileMoves
<1>1. WorkersTyped'
  BY GoesOn DEF WorkerDies, WorkerSteps
<1>2. RequestInv' /\ FileMoves
  <2>1. StoreInv' /\ FileMoves
    BY OneWorker, CopiesLost DEF WorkerDies
  <2> QED
    BY <2>1, OneWorker, UnchangedTyped, RequestKept DEF WorkerDies
<1> QED
  BY <1>1, <1>2 DEF ExternalInv

-----------------------------------------------------------------------------

\* The invariant holds before any worker has claimed.
LEMMA ExternalInitGood == Init => ExternalInv
<1>1. PICK first \in Jobs : first = CHOOSE j \in Jobs : TRUE
  BY StoreAssumption
<1>2. AtRest("idle", first) \in [at : WorkerSteps, job : Jobs, copy : Session]
  BY SessionTypes DEF AtRest, WorkerSteps
<1>3. Init => WorkersTyped
  BY <1>1, <1>2 DEF Init, WorkersTyped
<1> QED
  BY <1>3, RequestInitGood DEF Init, ExternalInv

\* The induction step: every action keeps the invariant and moves the session
\* files as it may.
LEMMA ExternalStep ==
    ASSUME ExternalInv, [Next]_extVars
    PROVE  ExternalInv' /\ FileMoves
<1>1. CASE UNCHANGED worker /\ (WebStep \/ WebRestarts)
  BY <1>1, WebStepKeeps, WebRestartsKeeps DEF ExternalInv, WorkersTyped
<1>2. ASSUME UNCHANGED worker, NEW q \in Requests, NEW ok \in BOOLEAN, QueueStep(q, ok)
      PROVE  ExternalInv' /\ FileMoves
  BY <1>2, QueueStepKeeps DEF ExternalInv, WorkersTyped
<1>3. ASSUME NEW w \in WorkerIds, WorkerTurn(w)
      PROVE  ExternalInv' /\ FileMoves
  BY <1>3, ClaimScanKeeps, ClaimMakeKeeps, DropKeeps, FailReadKeeps, FailReleaseKeeps,
     ClaimTakeKeeps, FailUnmarkKeeps, FailErrorKeeps, SaveKeeps DEF WorkerTurn
<1>4. ASSUME NEW w \in WorkerIds, AnalysisEnds(w) \/ WorkerDies(w)
      PROVE  ExternalInv' /\ FileMoves
  BY <1>4, AnalysisFailsKeeps, FinishKeeps, WorkerDiesKeeps DEF AnalysisEnds
<1>5. ASSUME NEW w \in WorkerIds, NEW ok \in BOOLEAN, Progress(w, ok)
      PROVE  ExternalInv' /\ FileMoves
  BY <1>5, ProgressKeeps
<1>6. CASE UNCHANGED extVars
  BY <1>6, StutterKeeps DEF extVars, ExternalInv, WorkersTyped
<1> QED
  BY <1>1, <1>2, <1>3, <1>4, <1>5, <1>6 DEF Next, WebTurn, Mishap

\* No step leaves out what time does to a directory.
LEMMA ExternalAges ==
    ASSUME [Next]_extVars
    PROVE  Ages \/ UNCHANGED extVars
BY DEF Next, WebTurn, WorkerTurn, AnalysisEnds, Mishap

\* The invariant holds in every reachable state.
THEOREM ExternalInvariant == Spec => []ExternalInv
<1>1. Init => ExternalInv
  BY ExternalInitGood
<1>2. ExternalInv /\ [Next]_extVars => ExternalInv'
  BY ExternalStep
<1> QED
  BY <1>1, <1>2, PTL DEF Spec

\* Type correctness of the external deployment.
THEOREM ExternalTypes == Spec => []TypeOK
<1>1. Init => ExternalInv /\ untouched \subseteq Jobs
  BY ExternalInitGood DEF Init, RequestInit
<1>2. ExternalInv /\ untouched \subseteq Jobs /\ [Next]_extVars
      => ExternalInv' /\ (untouched \subseteq Jobs)'
  BY ExternalStep, ExternalAges DEF Ages, extVars
<1>3. ExternalInv /\ untouched \subseteq Jobs => TypeOK
  BY DEF ExternalInv, RequestInv, WorkersTyped, TypeOK
<1> QED
  BY <1>1, <1>2, <1>3, PTL DEF Spec

\* A finished session names the artifacts of its own current generation.
THEOREM ExternalResults == Spec => []ResultIsCurrent
<1>1. ExternalInv => ResultIsCurrent
  BY RequestInvResult DEF ExternalInv
<1> QED
  BY <1>1, ExternalInvariant, PTL

\* Results are committed only under a live lease of their own generation
\* (finalize_job_from_worker).
THEOREM ExternalCommits == Spec => CommitsOnlyUnderALiveLease
<1> DEFINE Commit == \A j \in Jobs :
          file'[j].status = "complete" /\ file[j].status \notin {"complete", "absent"}
          => /\ file[j].status = "running" /\ file[j].lease = "live"
             /\ file'[j].run = file[j].run
<1>1. ExternalInv /\ [Next]_extVars => [Commit]_vars
  <2> SUFFICES ASSUME ExternalInv, [Next]_extVars PROVE Commit
    OBVIOUS
  <2> QED
    BY ExternalStep, MovesCommitUnderALease DEF ExternalInv
<1>2. CommitsOnlyUnderALiveLease <=> [][Commit]_vars
  BY DEF CommitsOnlyUnderALiveLease
<1> HIDE DEF Commit
<1> QED
  BY <1>1, <1>2, ExternalInvariant, PTL DEF Spec

\* External workers implement ResultPromise under the mapping of JobRequests.
THEOREM ExternalKeepsPromise == Spec => KeepsPromise
<1>1. Init => Promise!Init
  <2> SUFFICES ASSUME Init PROVE Promise!Init
    OBVIOUS
  <2>1. \A j \in Jobs : PhaseOf(file[j]) = "none" /\ file[j].run = 0
    BY DEF Init, RequestInit, StoreInit, PhaseOf, Absent, NoRun
  <2> QED
    BY <2>1 DEF Promise!Init, Init, RequestInit, StoreInit, NoRun
<1>2. ExternalInv /\ ExternalInv' /\ [Next]_extVars => [Promise!Next]_(Promise!vars)
  BY ExternalStep, MovesKeepPromise DEF ExternalInv
<1> QED
  BY <1>1, <1>2, ExternalInvariant, PTL DEF Spec, KeepsPromise, Promise!Spec

-----------------------------------------------------------------------------
(* No two workers analyse the same generation, while handlers come one at  *)
(* a time.  A generation is queued once: no copy that could still be       *)
(* written - the file, the web process's copy while a start is under way,  *)
(* a worker's copy of the job it works on - says again that a generation   *)
(* is queued which a worker has taken.                                     *)

Holds(w) == worker[w].at \in Working /\ worker[w].copy # Absent

\* Generation run of job j is not to be queued again.
Taken(j, run) == run = NoRun \/ \E w \in WorkerIds : Holds(w) /\ Job(w) = j /\ Run(w) = run

Queueable(j, s) == s.status = "queued" => ~Taken(j, s.run)

FilesQueueable == \A j \in Jobs : Queueable(j, file[j])

\* What a worker holds was handed out, is held by nobody else, and is not queued
\* in the worker's own copy before its failure is written over it.
HeldOnce ==
    \A w \in WorkerIds :
       /\ worker[w].at \in Working \ {"claimed"} => Holds(w)
       /\ Holds(w) => /\ Run(w) # NoRun /\ Run(w) <= lastRun
                      /\ worker[w].at # "error" => mirror[w][Job(w)].status # "queued"
                      /\ \A v \in WorkerIds \ {w} : Holds(v) /\ Job(v) = Job(w) => Run(v) # Run(w)

Marks == {"trim", "reserve", "mark"}
Undoes == {"queue", "undo", "unreserve", "unmark"}

\* What the handler under way may write: until it queues the run the job is not
\* queued, and what a start leaves queued in the process's copy alone was never
\* handed out.
WritesSafely ==
    \A q \in Requests : LET j == req[q].job IN
       /\ req[q].at \in Marks \cup Undoes => file[j].status # "queued"
       /\ req[q].at \in Marks => mirror[Web][j].status # "queued"
       /\ req[q].at \in Undoes => Queueable(j, mirror[Web][j])
       /\ req[q].at = "patch" => file[j] # Absent

HeldInv == ExternalInv /\ FilesQueueable /\ HeldOnce /\ WritesSafely

\* A step by which nothing becomes queued, and no file goes.
NoNewQueue ==
    \A j \in Jobs : /\ file'[j].status = "queued" => QueuedAs(file[j], file'[j].run)
                    /\ file[j] # Absent => file'[j] # Absent

-----------------------------------------------------------------------------
(* The calls of the store.                                                 *)

\* A session written to the file, or not.
LEMMA WriteQueuesNothing ==
    ASSUME StoreInv, NEW j \in Jobs, NEW s, s # Absent,
           s.status = "queued" => QueuedAs(file[j], s.run),
           file' = [file EXCEPT ![j] = s] \/ file' = file
    PROVE  NoNewQueue
<1>1. file \in [Jobs -> Session]
  BY DEF StoreInv, StoreTypeOK
<1>2. \A i \in Jobs : file'[i] = file[i] \/ (i = j /\ file'[i] = s)
  BY <1>1
<1> QED
  BY <1>2 DEF NoNewQueue, QueuedAs

\* A read that found s.
LEMMA RefreshQueuesNothing ==
    ASSUME StoreInv, NEW j \in Jobs, NEW s, NEW b \in BOOLEAN, Refresh(j, s),
           file[j] # Absent => s = Recovered(file[j], b)
    PROVE  NoNewQueue
<1>1. CASE file[j] # Absent
  <2>1. s # Absent
    <3>1. GoodFor(j, file[j])
      BY DEF StoreInv, SessionsGood
    <3> QED
      BY <1>1, <3>1, RecoveredIsGood
  <2>2. s.status = "queued" => QueuedAs(file[j], s.run)
    BY <1>1, ReadIsNoYounger DEF QueuedAs
  <2> QED
    BY <1>1, <2>1, <2>2, WriteQueuesNothing DEF Refresh
<1>2. CASE file[j] = Absent
  BY <1>2 DEF Refresh, NoNewQueue, QueuedAs
<1> QED
  BY <1>1, <1>2

\* get_job, and what it remembers.
LEMMA GetQueuesNothing ==
    ASSUME StoreInv, NEW p \in Processes, NEW j \in Jobs, GetJob(p, j)
    PROVE  /\ NoNewQueue /\ mirror' = [mirror EXCEPT ![p][j] = Seen(p, j)]
           /\ mirror'[p][j] = Seen(p, j)
           /\ \/ file[j] # Absent /\ file'[j] = Seen(p, j)
              \/ file[j] = Absent /\ file'[j] = Absent /\ Seen(p, j) = mirror[p][j]
<1>1. NoNewQueue
  <2>1. file[j] # Absent => Seen(p, j) = Recovered(file[j], mirror[p][j] = Absent)
    BY DEF Seen
  <2>2. Refresh(j, Seen(p, j)) /\ (mirror[p][j] = Absent) \in BOOLEAN
    BY DEF GetJob
  <2> QED
    BY <2>1, <2>2, RefreshQueuesNothing
<1>2. file \in [Jobs -> Session] /\ mirror \in [Processes -> [Jobs -> Session]]
  BY DEF StoreInv, StoreTypeOK
<1>3. mirror' = [mirror EXCEPT ![p][j] = Seen(p, j)] /\ mirror'[p][j] = Seen(p, j)
  BY <1>2 DEF GetJob, Remember
<1>4. \/ file[j] # Absent /\ file'[j] = Seen(p, j)
      \/ file[j] = Absent /\ file'[j] = Absent /\ Seen(p, j) = mirror[p][j]
  BY <1>2 DEF GetJob, Refresh, Seen
<1> QED
  BY <1>1, <1>3, <1>4

\* A read of the file alone.
LEMMA DiskReadQueuesNothing ==
    ASSUME StoreInv, NEW j \in Jobs, Refresh(j, OnDisk(j))
    PROVE  NoNewQueue
BY RefreshQueuesNothing DEF OnDisk

\* What update_job patches.
LEMMA BaseIs ==
    ASSUME StoreInv, NEW p \in Processes, NEW j \in Jobs
    PROVE  /\ Base(p, j) \in Session
           /\ \/ file[j] # Absent /\ Base(p, j) # Absent
                 /\ (Base(p, j).status = "queued" => QueuedAs(file[j], Base(p, j).run))
              \/ file[j] = Absent /\ Base(p, j) = mirror[p][j]
<1>1. Base(p, j) \in Session /\ (OnDisk(j) = Absent <=> file[j] = Absent)
  BY ReadsAreGood DEF GoodFor
<1>2. CASE file[j] # Absent
  <2>1. Base(p, j) = file[j] \/ Base(p, j).status = "interrupted"
    BY <1>2, ReadIsNoYounger DEF Base, OnDisk
  <2>2. Base(p, j) # Absent
    BY <1>1, <1>2 DEF Base
  <2> QED
    BY <1>1, <1>2, <2>1, <2>2 DEF QueuedAs
<1>3. CASE file[j] = Absent
  BY <1>1, <1>3 DEF Base
<1> QED
  BY <1>2, <1>3

\* What a patch keeps of the session it patches.
LEMMA PatchesKeep ==
    ASSUME NEW s \in Session
    PROVE  /\ \A b \in BOOLEAN : LET t == [s EXCEPT !.reserved = b] IN
                t \in Session /\ t.status = s.status /\ t.run = s.run
           /\ Failed(s) \in Session /\ Failed(s).status = "error"
BY DEF Session, Failed, Statuses

\* update_job, with a patch that keeps status and run or is no queueing.
LEMMA PatchCall ==
    ASSUME StoreInv, NEW p \in Processes, NEW j \in Jobs, NEW s \in Session, NEW ok \in BOOLEAN,
           PatchJob(p, j, s, ok),
           Base(p, j) # Absent => s.status # "absent",
           s.status = "queued" => s.status = Base(p, j).status /\ s.run = Base(p, j).run
    PROVE  /\ \A i \in Jobs \ {j} : file'[i] = file[i]
           /\ file[j] # Absent => file'[j] # Absent
           /\ file'[j] = file[j] \/ (Base(p, j) # Absent /\ file'[j] = s)
           /\ mirror' = mirror \/ (Base(p, j) # Absent /\ mirror' = [mirror EXCEPT ![p][j] = s])
           /\ \A v \in Processes \ {p} : mirror'[v] = mirror[v]
           /\ \A i \in Jobs \ {j} : mirror'[p][i] = mirror[p][i]
           /\ mirror'[p][j] = mirror[p][j] \/ (Base(p, j) # Absent /\ mirror'[p][j] = s)
           /\ file[j] # Absent \/ mirror[p][j].status # "queued" \/ s.status # "queued" => NoNewQueue
<1>1. file \in [Jobs -> Session] /\ mirror \in [Processes -> [Jobs -> Session]]
  BY DEF StoreInv, StoreTypeOK
<1>2. \/ file' = file /\ mirror' = mirror
      \/ /\ file' = file \/ file' = [file EXCEPT ![j] = s]
         /\ mirror' = [mirror EXCEPT ![p][j] = s] /\ Base(p, j) # Absent
  BY DEF PatchJob, UpdateJob, WriteFile, Remember
<1>3. Base(p, j) # Absent => s # Absent
  BY DEF Absent
<1>4. file[j] # Absent \/ mirror[p][j].status # "queued" \/ s.status # "queued" => NoNewQueue
  <2> SUFFICES ASSUME file[j] # Absent \/ mirror[p][j].status # "queued" \/ s.status # "queued"
               PROVE  NoNewQueue
    OBVIOUS
  <2>1. s.status = "queued" => QueuedAs(file[j], s.run)
    BY BaseIs DEF QueuedAs
  <2>2. CASE file' = file
    BY <2>2 DEF NoNewQueue, QueuedAs
  <2>3. CASE file' = [file EXCEPT ![j] = s] /\ Base(p, j) # Absent
    BY <1>3, <2>1, <2>3, WriteQueuesNothing
  <2> QED
    BY <1>2, <2>2, <2>3
<1> QED
  BY <1>1, <1>2, <1>3, <1>4

-----------------------------------------------------------------------------
(* The workers.                                                            *)

\* Worker w holds nothing new: it lets go, or goes on with what it holds.
LetsGo(w) == ~Holds(w)' /\ worker'[w].at \notin Working \ {"claimed"}

KeepsHold(w) ==
    /\ Holds(w) /\ worker'[w].at \in Working
    /\ worker'[w].job = worker[w].job /\ worker'[w].copy = worker[w].copy
    /\ worker'[w].at # "error" => mirror'[w][worker[w].job].status # "queued"

LEMMA WorkerStepKeepsHeld ==
    ASSUME HeldInv, ExternalInv', NEW w \in WorkerIds, NoNewQueue,
           UNCHANGED <<lastRun, req>>,
           \A v \in Processes \ {w} : mirror'[v] = mirror[v],
           \A v \in WorkerIds \ {w} : worker'[v] = worker[v],
           LetsGo(w) \/ KeepsHold(w)
    PROVE  HeldInv'
<1>1. Web \in Processes \ {w} /\ WorkerIds \subseteq Processes
  BY StoreAssumption, ExternalAssumption
<1>2. \A v \in WorkerIds : Holds(v)' => Holds(v) /\ worker'[v].job = worker[v].job
                                       /\ worker'[v].copy = worker[v].copy
  BY DEF LetsGo, KeepsHold, Holds
<1>3. \A j, run : Taken(j, run)' => Taken(j, run)
  BY <1>2 DEF Taken, Job, Run
<1>4. FilesQueueable'
  BY <1>3 DEF HeldInv, FilesQueueable, Queueable, NoNewQueue, QueuedAs
<1>5. HeldOnce'
  <2> SUFFICES ASSUME NEW v \in WorkerIds
        PROVE  /\ worker'[v].at \in Working \ {"claimed"} => Holds(v)'
               /\ Holds(v)' =>
                    /\ Run(v)' # NoRun /\ Run(v)' <= lastRun'
                    /\ worker'[v].at # "error" => mirror'[v][Job(v)'].status # "queued"
                    /\ \A u \in WorkerIds \ {v} : Holds(u)' /\ Job(u)' = Job(v)' => Run(u)' # Run(v)'
    BY DEF HeldOnce
  <2>1. worker'[v].at \in Working \ {"claimed"} => Holds(v)'
    BY DEF LetsGo, KeepsHold, Holds, HeldInv, HeldOnce
  <2>2. ASSUME Holds(v)'
        PROVE  /\ Run(v)' # NoRun /\ Run(v)' <= lastRun'
               /\ worker'[v].at # "error" => mirror'[v][Job(v)'].status # "queued"
               /\ \A u \in WorkerIds \ {v} : Holds(u)' /\ Job(u)' = Job(v)' => Run(u)' # Run(v)'
    <3>1. Run(v)' = Run(v) /\ Job(v)' = Job(v) /\ Holds(v)
      BY <1>2, <2>2 DEF Run, Job
    <3>2. worker'[v].at # "error" => mirror'[v][Job(v)].status # "queued"
      BY <1>1, <2>2, <3>1 DEF LetsGo, KeepsHold, HeldInv, HeldOnce, Job
    <3>3. \A u \in WorkerIds \ {v} : Holds(u)' /\ Job(u)' = Job(v)' => Run(u)' # Run(v)'
      BY <1>2, <3>1 DEF HeldInv, HeldOnce, Run, Job
    <3> QED
      BY <3>1, <3>2, <3>3 DEF HeldInv, HeldOnce
  <2> QED
    BY <2>1, <2>2
<1>6. WritesSafely'
  <2>1. \A q \in Requests : req[q].job \in Jobs
    BY UnchangedTyped DEF HeldInv, ExternalInv
  <2> QED
    BY <1>1, <1>3, <2>1 DEF HeldInv, WritesSafely, Queueable, NoNewQueue, QueuedAs
<1> QED
  BY <1>4, <1>5, <1>6 DEF HeldInv

\* Where a worker goes.
LEMMA GoingIs ==
    ASSUME ExternalInv, NEW w \in WorkerIds, NEW step, WorkerGoto(w, step)
    PROVE  /\ \A v \in WorkerIds \ {w} : worker'[v] = worker[v]
           /\ worker'[w].at = step
           /\ worker'[w].job = worker[w].job
           /\ step \notin {"idle", "dead"} => worker'[w].copy = worker[w].copy
BY DEF ExternalInv, WorkersTyped, WorkerGoto, AtRest

\* What is known of a worker at its analysis, or at a failure of it.
LEMMA AtWork ==
    ASSUME HeldInv, NEW w \in WorkerIds
    PROVE  /\ ExternalInv /\ StoreInv /\ w \in Processes /\ Job(w) \in Jobs /\ w # Web
           /\ worker[w].at \in Working \ {"claimed"} => Holds(w)
           /\ Holds(w) => Run(w) # NoRun
           /\ Holds(w) /\ worker[w].at # "error" => mirror[w][Job(w)].status # "queued"
           /\ Holds(w) => ~QueuedAs(file[Job(w)], Run(w))
<1>1. ExternalInv /\ StoreInv /\ w \in Processes /\ Job(w) \in Jobs /\ w # Web
  BY OneWorker, ExternalAssumption DEF HeldInv
<1>2. Holds(w) => Taken(Job(w), Run(w))
  BY DEF Taken
<1> QED
  BY <1>1, <1>2 DEF HeldInv, HeldOnce, FilesQueueable, Queueable, QueuedAs

\* Steps that change neither files nor copies of the store, but for a worker
\* that dies.
LEMMA QuietKeepsHeld ==
    ASSUME HeldInv, ExternalInv', NEW w \in WorkerIds,
           UNCHANGED <<file, lastRun, req>>,
           UNCHANGED mirror \/ mirror' = [mirror EXCEPT ![w] = [j \in Jobs |-> Absent]],
           \A v \in WorkerIds \ {w} : worker'[v] = worker[v],
           \/ LetsGo(w)
           \/ /\ UNCHANGED mirror /\ Holds(w) /\ worker'[w].at \in Working \ {"error"}
              /\ worker[w].at # "error"
              /\ worker'[w].job = worker[w].job /\ worker'[w].copy = worker[w].copy
    PROVE  HeldInv'
<1>1. NoNewQueue
  BY DEF NoNewQueue, QueuedAs
<1>2. \A v \in Processes \ {w} : mirror'[v] = mirror[v]
  BY AtWork DEF StoreInv, StoreTypeOK
<1>3. LetsGo(w) \/ KeepsHold(w)
  BY AtWork DEF KeepsHold, Job
<1> QED
  BY <1>1, <1>2, <1>3, WorkerStepKeepsHeld

\* The steps of a claim but the one that takes the job, and the end of a worker.
LEMMA ClaimStepsKeepHeld ==
    ASSUME HeldInv, ExternalInv', NEW w \in WorkerIds,
           \/ \E j \in Jobs : ClaimScan(w, j)
           \/ ClaimMake(w) \/ ClaimDrop(w) \/ AnalysisFails(w) \/ FailRelease(w) \/ WorkerDies(w)
    PROVE  HeldInv'
<1>1. UNCHANGED <<file, lastRun, req>>
  BY DEF ClaimScan, ClaimMake, ClaimDrop, AnalysisFails, FailRelease, WorkerDies, vars, requestVars
<1>2. ExternalInv
  BY DEF HeldInv
<1>3. ASSUME NEW j \in Jobs, ClaimScan(w, j) PROVE HeldInv'
  <2>1. UNCHANGED mirror /\ worker' = [worker EXCEPT ![w] = AtRest("scanned", j)]
    BY <1>3 DEF ClaimScan, vars
  <2>2. worker'[w].at = "scanned" /\ \A v \in WorkerIds \ {w} : worker'[v] = worker[v]
    BY <1>2, <2>1 DEF ExternalInv, WorkersTyped, AtRest
  <2>3. LetsGo(w)
    BY <2>2 DEF LetsGo, Holds, Working
  <2> QED
    BY <1>1, <2>1, <2>2, <2>3, QuietKeepsHeld
<1>4. CASE ClaimMake(w)
  <2>1. \E step \in {"claiming", "idle", "dead"} : WorkerGoto(w, step)
    BY <1>4 DEF ClaimMake
  <2>2. UNCHANGED mirror \/ mirror' = [mirror EXCEPT ![w] = [j \in Jobs |-> Absent]]
    BY <1>4 DEF ClaimMake
  <2>3. /\ \A v \in WorkerIds \ {w} : worker'[v] = worker[v]
        /\ worker'[w].at \in {"claiming", "idle", "dead"}
    BY <1>2, <2>1, GoingIs
  <2>4. LetsGo(w)
    BY <2>3 DEF LetsGo, Holds, Working
  <2> QED
    BY <1>1, <2>2, <2>3, <2>4, QuietKeepsHeld
<1>5. CASE ClaimDrop(w)
  <2>1. UNCHANGED mirror /\ At(w, "claimed")
        /\ WorkerGoto(w, IF worker[w].copy = Absent THEN "idle" ELSE "analysing")
    BY <1>5 DEF ClaimDrop
  <2>2. /\ \A v \in WorkerIds \ {w} : worker'[v] = worker[v]
        /\ worker'[w].at = IF worker[w].copy = Absent THEN "idle" ELSE "analysing"
        /\ worker'[w].job = worker[w].job
        /\ worker[w].copy # Absent => worker'[w].copy = worker[w].copy
    BY <1>2, <2>1, GoingIs
  <2>3. CASE worker[w].copy = Absent
    <3>1. LetsGo(w)
      BY <2>2, <2>3 DEF LetsGo, Holds, Working
    <3> QED
      BY <1>1, <2>1, <2>2, <3>1, QuietKeepsHeld
  <2>4. CASE worker[w].copy # Absent
    <3>1. Holds(w) /\ worker'[w].at \in Working \ {"error"} /\ worker[w].at # "error"
      BY <2>1, <2>2, <2>4 DEF Holds, Working, At
    <3> QED
      BY <1>1, <2>1, <2>2, <2>4, <3>1, QuietKeepsHeld
  <2> QED
    BY <2>3, <2>4
<1>6. CASE AnalysisFails(w) \/ FailRelease(w)
  <2>1. /\ UNCHANGED mirror /\ worker[w].at \in {"analysing", "release"}
        /\ WorkerGoto(w, "failing") \/ WorkerGoto(w, "unmark")
    BY <1>6 DEF AnalysisFails, FailRelease, At, vars
  <2>2. /\ \A v \in WorkerIds \ {w} : worker'[v] = worker[v]
        /\ worker'[w].at \in {"failing", "unmark"}
        /\ worker'[w].job = worker[w].job /\ worker'[w].copy = worker[w].copy
    BY <1>2, <2>1, GoingIs
  <2>3. Holds(w)
    BY <2>1, AtWork DEF Working
  <2> QED
    BY <1>1, <2>1, <2>2, <2>3, QuietKeepsHeld DEF Working
<1>7. CASE WorkerDies(w)
  <2>1. WorkerGoto(w, "dead") /\ mirror' = [mirror EXCEPT ![w] = [j \in Jobs |-> Absent]]
    BY <1>7 DEF WorkerDies
  <2>2. worker'[w].at = "dead" /\ \A v \in WorkerIds \ {w} : worker'[v] = worker[v]
    BY <1>2, <2>1, GoingIs
  <2>3. LetsGo(w)
    BY <2>2 DEF LetsGo, Holds, Working
  <2> QED
    BY <1>1, <2>1, <2>2, <2>3, QuietKeepsHeld
<1> QED
  BY <1>3, <1>4, <1>5, <1>6, <1>7

-----------------------------------------------------------------------------

\* A call of worker w about the job it holds, after which it goes to step.
LEMMA CallKeepsHeld ==
    ASSUME HeldInv, ExternalInv', NEW w \in WorkerIds, NEW step, WorkerGoto(w, step),
           worker[w].at \in Working \ {"claimed"}, NoNewQueue,
           UNCHANGED <<lastRun, req>>,
           \A v \in Processes \ {w} : mirror'[v] = mirror[v],
           \/ step = "idle"
           \/ step \in Working /\ (step # "error" => mirror'[w][Job(w)].status # "queued")
    PROVE  HeldInv'
<1>1. ExternalInv /\ Holds(w)
  BY AtWork
<1>2. /\ \A v \in WorkerIds \ {w} : worker'[v] = worker[v]
      /\ worker'[w].at = step
      /\ worker'[w].job = worker[w].job
      /\ step \notin {"idle", "dead"} => worker'[w].copy = worker[w].copy
  BY <1>1, GoingIs
<1>3. LetsGo(w) \/ KeepsHold(w)
  <2>1. CASE step = "idle"
    BY <1>2, <2>1 DEF LetsGo, Holds, Working
  <2>2. CASE step \in Working /\ (step # "error" => mirror'[w][Job(w)].status # "queued")
    BY <1>1, <1>2, <2>2 DEF KeepsHold, Working, Job
  <2> QED
    BY <2>1, <2>2
<1> QED
  BY <1>2, <1>3, WorkerStepKeepsHeld

\* The claim itself: the job was queued, so nobody holds its generation and no
\* start of it is under way.
LEMMA ClaimTakeKeepsHeld ==
    ASSUME HeldInv, ExternalInv', NEW w \in WorkerIds, NEW ok \in BOOLEAN, ClaimTake(w, ok)
    PROVE  HeldInv'
<1> DEFINE i == Job(w)
           s == OnDisk(i)
           mine == Claimable(s) /\ ok
           started == Started(s, w)
<1>1. /\ ExternalInv /\ RequestInv /\ StoreInv /\ w \in Processes /\ i \in Jobs /\ w # Web
      /\ Web \in Processes /\ WorkerIds \subseteq Processes
      /\ s \in Session /\ (s.status = "queued" => s = file[i]) /\ s.run <= lastRun
      /\ worker[w].at = "claiming" /\ ~Holds(w)
      /\ UNCHANGED <<lastRun, req>>
  <2>1. GoodFor(i, s) /\ (s = file[i] \/ s.status = "interrupted")
    BY AtWork, ReadsAreGood, ReadIsNoYounger DEF OnDisk
  <2> QED
    BY <2>1, AtWork, StoreAssumption, ExternalAssumption
       DEF GoodFor, ClaimTake, At, Holds, Working, requestVars, ExternalInv
<1>2. /\ \A v \in WorkerIds \ {w} : worker'[v] = worker[v]
      /\ worker'[w].at = "claimed" /\ worker'[w].job = i
      /\ worker'[w].copy = IF mine THEN started ELSE Absent
  BY <1>1 DEF ClaimTake, ExternalInv, WorkersTyped, Job
<1>3. CASE ~mine
  <2>1. UNCHANGED mirror /\ LetsGo(w)
    BY <1>2, <1>3 DEF ClaimTake, LetsGo, Holds
  <2>2. NoNewQueue
    <3>1. CASE Claimable(s)
      <4>1. file' = file
        BY <1>3, <3>1 DEF ClaimTake, WriteFile
      <4> QED
        BY <4>1 DEF NoNewQueue, QueuedAs
    <3>2. CASE ~Claimable(s)
      BY <1>1, <3>2, DiskReadQueuesNothing DEF ClaimTake
    <3> QED
      BY <3>1, <3>2
  <2> QED
    BY <1>1, <1>2, <2>1, <2>2, WorkerStepKeepsHeld
<1>4. CASE mine
  <2>1. /\ started.status = "running" /\ started.run = s.run /\ started # Absent
        /\ file[i].status = "queued" /\ file[i].run = s.run /\ s.run # NoRun
        /\ ~Taken(i, s.run)
    BY <1>1, <1>4 DEF Started, Session, Absent, Claimable, HeldInv, FilesQueueable, Queueable, Taken
  <2>2. /\ file' = [file EXCEPT ![i] = started] /\ mirror' = [mirror EXCEPT ![w][i] = started]
    BY <1>4 DEF ClaimTake, WriteFile, Remember
  <2>3. /\ file'[i] = started /\ \A j \in Jobs \ {i} : file'[j] = file[j]
        /\ mirror'[w][i] = started /\ \A v \in Processes \ {w} : mirror'[v] = mirror[v]
    BY <1>1, <2>2 DEF StoreInv, StoreTypeOK
  <2>4. Job(w)' = i /\ Run(w)' = s.run /\ Holds(w)' /\ worker'[w].at = "claimed"
    BY <1>2, <1>4, <2>1 DEF Job, Run, Holds, Working
  <2> HIDE DEF started, s, mine, i
  <2>5. \A v \in WorkerIds \ {w} : Job(v)' = Job(v) /\ Run(v)' = Run(v) /\ (Holds(v)' <=> Holds(v))
    BY <1>2 DEF Job, Run, Holds
  <2>6. \A j, run : Taken(j, run)' => Taken(j, run) \/ (j = i /\ run = s.run)
    BY <2>4, <2>5 DEF Taken
  <2>7. FilesQueueable'
    <3> SUFFICES ASSUME NEW j \in Jobs, NEW run, file'[j].status = "queued", file'[j].run = run
                 PROVE  ~Taken(j, run)'
      BY DEF FilesQueueable, Queueable, Taken
    <3>1. j # i /\ file'[j] = file[j]
      BY <2>1, <2>3
    <3>2. ~Taken(j, run)
      BY <3>1 DEF HeldInv, FilesQueueable, Queueable
    <3> QED
      BY <2>6, <3>1, <3>2
  <2>8. HeldOnce'
    <3>1. \A v \in WorkerIds \ {w} : Holds(v) /\ Job(v) = i => Run(v) # s.run
      BY <2>1 DEF Taken
    <3>2. ASSUME NEW v \in WorkerIds
          PROVE  /\ worker'[v].at \in Working \ {"claimed"} => Holds(v)'
                 /\ Holds(v)' =>
                      /\ Run(v)' # NoRun /\ Run(v)' <= lastRun'
                      /\ worker'[v].at # "error" => mirror'[v][Job(v)'].status # "queued"
                      /\ \A u \in WorkerIds \ {v} : Holds(u)' /\ Job(u)' = Job(v)' => Run(u)' # Run(v)'
      <4>1. CASE v = w
        BY <1>1, <2>1, <2>3, <2>4, <2>5, <3>1, <4>1
      <4>2. CASE v # w
        <5>1. worker'[v] = worker[v] /\ mirror'[v] = mirror[v]
          BY <1>1, <1>2, <2>3, <4>2
        <5> QED
          BY <1>1, <2>1, <2>4, <2>5, <3>1, <4>2, <5>1 DEF HeldInv, HeldOnce
      <4> QED
        BY <4>1, <4>2
    <3> QED
      BY <3>2 DEF HeldOnce
  <2>9. WritesSafely'
    <3> SUFFICES ASSUME NEW q \in Requests
                 PROVE  /\ req'[q].at \in Marks \cup Undoes => file'[req'[q].job].status # "queued"
                        /\ req'[q].at \in Marks => mirror'[Web][req'[q].job].status # "queued"
                        /\ \A j, run : /\ req'[q].at \in Undoes /\ j = req'[q].job
                                        /\ mirror'[Web][j].status = "queued" /\ mirror'[Web][j].run = run
                                        => ~Taken(j, run)'
                        /\ req'[q].at = "patch" => file'[req'[q].job] # Absent
      BY DEF WritesSafely, Queueable, Taken
    <3>1. req'[q] = req[q] /\ req[q].job \in Jobs /\ mirror'[Web] = mirror[Web]
      BY <1>1, <2>3, UnchangedTyped
    <3>2. req[q].at \in Marks \cup Undoes => req[q].job # i
      BY <2>1 DEF HeldInv, WritesSafely
    <3>3. req[q].at = "patch" => file'[req[q].job] # Absent
      BY <2>1, <2>3, <3>1 DEF HeldInv, WritesSafely
    <3>4. ASSUME NEW j, NEW run, req[q].at \in Undoes, j = req[q].job,
                 mirror[Web][j].status = "queued", mirror[Web][j].run = run
          PROVE  ~Taken(j, run)'
      <4>1. ~Taken(j, run)
        BY <3>4 DEF HeldInv, WritesSafely, Queueable
      <4> QED
        BY <2>6, <3>2, <3>4, <4>1
    <3> QED
      BY <2>3, <3>1, <3>2, <3>3, <3>4 DEF HeldInv, WritesSafely
  <2> QED
    BY <2>7, <2>8, <2>9 DEF HeldInv
<1> QED
  BY <1>3, <1>4

-----------------------------------------------------------------------------

\* A progress report writes a running session, or loses the run.
LEMMA ProgressKeepsHeld ==
    ASSUME HeldInv, ExternalInv', NEW w \in WorkerIds, NEW ok \in BOOLEAN, Progress(w, ok)
    PROVE  HeldInv'
<1> DEFINE j == Job(w)
           s == OnDisk(j)
           kept == OwnsRun(s, w, Run(w)) /\ ok
<1>1. /\ StoreInv /\ w \in Processes /\ j \in Jobs
      /\ UNCHANGED <<lastRun, req>> /\ worker[w].at \in Working \ {"claimed"}
      /\ WorkerGoto(w, IF kept THEN "analysing" ELSE "idle")
  BY AtWork DEF Progress, requestVars, At, Working
<1>2. CASE OwnsRun(s, w, Run(w))
  <2>1. s \in Session /\ s.status = "running"
    BY <1>1, <1>2, ReadsAreGood DEF GoodFor, OwnsRun
  <2>2. Renewed(s).status = "running" /\ Renewed(s) # Absent
    BY <2>1 DEF Renewed, Session, Absent
  <2>3. /\ file' = file \/ file' = [file EXCEPT ![j] = Renewed(s)]
        /\ mirror' = [mirror EXCEPT ![w][j] = Renewed(s)]
    BY <1>2 DEF Progress, RenewRun, UpdateJob, WriteFile, Remember
  <2> HIDE DEF s, j
  <2>4. NoNewQueue
    BY <1>1, <2>2, <2>3, WriteQueuesNothing
  <2>5. mirror'[w][j].status # "queued" /\ \A v \in Processes \ {w} : mirror'[v] = mirror[v]
    BY <1>1, <2>2, <2>3 DEF StoreInv, StoreTypeOK
  <2> QED
    BY <1>1, <2>4, <2>5, CallKeepsHeld DEF Working, j
<1>3. CASE ~OwnsRun(s, w, Run(w))
  <2>1. Refresh(j, s) /\ UNCHANGED mirror
    BY <1>3 DEF Progress, RenewRun
  <2>2. NoNewQueue
    BY <1>1, <2>1, DiskReadQueuesNothing
  <2> QED
    BY <1>1, <1>3, <2>1, <2>2, CallKeepsHeld
<1> QED
  BY <1>2, <1>3

\* So does the commit.
LEMMA FinishKeepsHeld ==
    ASSUME HeldInv, ExternalInv', NEW w \in WorkerIds, NEW ok \in BOOLEAN, Finish(w, ok)
    PROVE  HeldInv'
<1> DEFINE j == Job(w)
           s == OnDisk(j)
           kept == OwnsRun(s, w, Run(w)) /\ ok
<1>1. /\ StoreInv /\ w \in Processes /\ j \in Jobs /\ Holds(w)
      /\ UNCHANGED <<lastRun, req>> /\ worker[w].at \in Working \ {"claimed"}
      /\ worker[w].at # "error"
      /\ WorkerGoto(w, IF kept THEN "saving" ELSE "idle")
  BY AtWork DEF Finish, requestVars, At, Working
<1>2. CASE OwnsRun(s, w, Run(w))
  <2>1. s \in Session /\ s.status = "running"
    BY <1>1, <1>2, ReadsAreGood DEF GoodFor, OwnsRun
  <2>2. Completed(j, s).status = "complete" /\ Completed(j, s) # Absent
    BY <2>1 DEF Completed, Session, Absent
  <2>3. /\ file' = file \/ file' = [file EXCEPT ![j] = Completed(j, s)]
        /\ ok => mirror' = [mirror EXCEPT ![w][j] = Completed(j, s)]
        /\ ~ok => UNCHANGED mirror
    BY <1>2 DEF Finish, FinalizeRun, WriteFile, Remember
  <2> DEFINE done == Completed(j, s)
  <2> HIDE DEF s, j, done
  <2>4. NoNewQueue
    BY <1>1, <2>2, <2>3, WriteQueuesNothing DEF done
  <2>5. /\ ok => mirror'[w][j].status # "queued"
        /\ \A v \in Processes \ {w} : mirror'[v] = mirror[v]
    BY <1>1, <2>2, <2>3 DEF StoreInv, StoreTypeOK
  <2> QED
    BY <1>1, <2>4, <2>5, CallKeepsHeld DEF Working, j
<1>3. CASE ~OwnsRun(s, w, Run(w))
  <2>1. Refresh(j, s) /\ UNCHANGED mirror
    BY <1>3 DEF Finish, FinalizeRun
  <2>2. NoNewQueue
    BY <1>1, <2>1, DiskReadQueuesNothing
  <2> QED
    BY <1>1, <1>3, <2>1, <2>2, CallKeepsHeld
<1> QED
  BY <1>2, <1>3

\* persist_completed_job writes a completed session, or reads.
LEMMA PersistQueuesNothing ==
    ASSUME StoreInv, NEW p \in Processes, NEW j \in Jobs, NEW run, NEW saves \in BOOLEAN,
           NEW writes \in BOOLEAN, PersistRun(p, j, run, saves, writes)
    PROVE  /\ NoNewQueue
           /\ \A v \in Processes \ {p} : mirror'[v] = mirror[v]
           /\ \A i \in Jobs : mirror'[p][i] = mirror[p][i] \/ mirror'[p][i].status = "complete"
           /\ \A i \in Jobs : file[i].status # "queued" => file'[i].status # "queued"
<1> DEFINE s == OnDisk(j)
           due == /\ s.status = "complete" /\ s.artifacts = run
                  /\ HasAccount(j) /\ s.saved # "yes"
           new == [s EXCEPT !.saved = IF saves THEN "yes" ELSE "no"]
<1>1. file \in [Jobs -> Session] /\ mirror \in [Processes -> [Jobs -> Session]]
  BY DEF StoreInv, StoreTypeOK
<1>2. CASE due
  <2>1. s \in Session
    BY ReadsAreGood DEF GoodFor
  <2>2. new.status = "complete" /\ new # Absent
    BY <1>2, <2>1 DEF Session, Absent
  <2>3. \/ file' = file /\ mirror' = mirror
        \/ file' = [file EXCEPT ![j] = new] /\ mirror' = [mirror EXCEPT ![p][j] = new]
    BY <1>2 DEF PersistRun, Remember
  <2> HIDE DEF new
  <2>4. NoNewQueue
    BY <2>2, <2>3, WriteQueuesNothing
  <2> QED
    BY <1>1, <2>2, <2>3, <2>4
<1>3. CASE ~due
  <2>1. Refresh(j, s) /\ UNCHANGED mirror
    BY <1>3 DEF PersistRun
  <2>2. NoNewQueue
    BY <2>1, DiskReadQueuesNothing
  <2> QED
    BY <2>1, <2>2 DEF NoNewQueue, QueuedAs
<1> QED
  BY <1>2, <1>3

LEMMA SaveKeepsHeld ==
    ASSUME HeldInv, ExternalInv', NEW w \in WorkerIds, NEW saves \in BOOLEAN, NEW writes \in BOOLEAN,
           Save(w, saves, writes)
    PROVE  HeldInv'
<1>1. /\ StoreInv /\ w \in Processes /\ Job(w) \in Jobs
      /\ UNCHANGED <<lastRun, req>> /\ worker[w].at \in Working \ {"claimed"}
      /\ PersistRun(w, Job(w), Run(w), saves, writes) /\ WorkerGoto(w, "idle")
  BY AtWork DEF Save, requestVars, At, Working
<1>2. NoNewQueue /\ \A v \in Processes \ {w} : mirror'[v] = mirror[v]
  BY <1>1, PersistQueuesNothing
<1> QED
  BY <1>1, <1>2, CallKeepsHeld

\* The failure branch: the session of a run that is still the worker's is not
\* queued, so neither is the copy the worker may later write.
LEMMA FailReadKeepsHeld ==
    ASSUME HeldInv, ExternalInv', NEW w \in WorkerIds, FailRead(w)
    PROVE  HeldInv'
<1> DEFINE j == Job(w)
           s == Seen(w, j)
           current == IF s = Absent THEN worker[w].copy ELSE s
           step == IF current.run # Run(w) THEN "idle"
                   ELSE IF current.reserved /\ HasAccount(j) THEN "release" ELSE "error"
<1>1. /\ StoreInv /\ w \in Processes /\ j \in Jobs /\ Holds(w)
      /\ UNCHANGED <<lastRun, req>> /\ worker[w].at \in Working \ {"claimed"}
      /\ worker[w].at # "error"
      /\ GetJob(w, j) /\ WorkerGoto(w, step)
  BY AtWork DEF FailRead, requestVars, At, Working
<1>2. /\ NoNewQueue /\ mirror' = [mirror EXCEPT ![w][j] = s] /\ mirror'[w][j] = s
  BY <1>1, GetQueuesNothing
<1>3. \A v \in Processes \ {w} : mirror'[v] = mirror[v]
  BY <1>1, <1>2 DEF StoreInv, StoreTypeOK
<1>4. step = "idle" \/ (step \in Working /\ (step # "error" => s.status # "queued"))
  <2>1. CASE s.status = "queued" /\ s.run = Run(w)
    <3>1. file[j] # Absent => QueuedAs(file[j], Run(w))
      BY <2>1, ReadIsNoYounger DEF Seen, QueuedAs
    <3>2. file[j] = Absent => s = mirror[w][j]
      BY DEF Seen
    <3> QED
      BY <1>1, <2>1, <3>1, <3>2, AtWork
  <2>2. CASE ~(s.status = "queued" /\ s.run = Run(w))
    BY <2>2 DEF Working, Absent
  <2> QED
    BY <2>1, <2>2
<1> HIDE DEF s, step
<1>5. mirror'[w][Job(w)] = s
  BY <1>2
<1> QED
  BY <1>1, <1>2, <1>3, <1>4, <1>5, CallKeepsHeld

LEMMA FailWritesKeepHeld ==
    ASSUME HeldInv, ExternalInv', NEW w \in WorkerIds, NEW ok \in BOOLEAN,
           FailUnmark(w, ok) \/ FailError(w, ok)
    PROVE  HeldInv'
<1> DEFINE j == Job(w)
           b == Base(w, j)
<1>1. /\ StoreInv /\ w \in Processes /\ j \in Jobs /\ Holds(w)
      /\ UNCHANGED <<lastRun, req>> /\ worker[w].at \in Working \ {"claimed"}
      /\ b \in Session
      /\ worker[w].at # "error" => mirror[w][j].status # "queued"
  BY AtWork, BaseIs DEF FailUnmark, FailError, requestVars, At, Working
<1> HIDE DEF b
<1>2. b # Absent => b.status # "absent"
  <2>1. GoodFor(j, b)
    BY <1>1, ReadsAreGood DEF b
  <2> QED
    BY <2>1, AbsentIsGood DEF GoodFor
<1>3. CASE FailUnmark(w, ok)
  <2>1. worker[w].at = "unmark" /\ WorkerGoto(w, "error")
        /\ PatchJob(w, j, [b EXCEPT !.reserved = FALSE], ok)
    BY <1>3 DEF FailUnmark, At, b
  <2>2. [b EXCEPT !.reserved = FALSE] \in Session /\ [b EXCEPT !.reserved = FALSE].status = b.status
        /\ [b EXCEPT !.reserved = FALSE].run = b.run
    BY <1>1, PatchesKeep
  <2> DEFINE t == [b EXCEPT !.reserved = FALSE]
  <2> HIDE DEF t
  <2>3. mirror[w][j].status # "queued" /\ PatchJob(w, j, t, ok) /\ t \in Session
        /\ t.status = b.status /\ t.run = b.run
    BY <1>1, <2>1, <2>2 DEF t
  <2>4. NoNewQueue /\ \A v \in Processes \ {w} : mirror'[v] = mirror[v]
    BY <1>1, <1>2, <2>3, PatchCall DEF b
  <2> QED
    BY <1>1, <2>1, <2>4, CallKeepsHeld DEF Working
<1>4. CASE FailError(w, ok)
  <2>1. WorkerGoto(w, "idle") /\ PatchJob(w, j, Failed(b), ok)
    BY <1>4 DEF FailError, b
  <2>2. Failed(b) \in Session /\ Failed(b).status = "error"
    BY <1>1, PatchesKeep
  <2>3. NoNewQueue /\ \A v \in Processes \ {w} : mirror'[v] = mirror[v]
    BY <1>1, <2>1, <2>2, PatchCall DEF b
  <2> QED
    BY <1>1, <2>1, <2>3, CallKeepsHeld
<1> QED
  BY <1>3, <1>4

\* Every step of a worker.
LEMMA WorkersKeepHeld ==
    ASSUME HeldInv, ExternalInv', NEW w \in WorkerIds,
           \/ WorkerTurn(w) \/ AnalysisEnds(w) \/ WorkerDies(w)
           \/ \E ok \in BOOLEAN : Progress(w, ok)
    PROVE  HeldInv'
<1>1. CASE WorkerTurn(w)
  BY <1>1, ClaimStepsKeepHeld, ClaimTakeKeepsHeld, FailReadKeepsHeld, FailWritesKeepHeld,
     SaveKeepsHeld DEF WorkerTurn
<1>2. CASE AnalysisEnds(w) \/ WorkerDies(w)
  BY <1>2, ClaimStepsKeepHeld, FinishKeepsHeld DEF AnalysisEnds
<1>3. CASE \E ok \in BOOLEAN : Progress(w, ok)
  BY <1>3, ProgressKeepsHeld
<1> QED
  BY <1>1, <1>2, <1>3

-----------------------------------------------------------------------------
(* The web process, one handler at a time.                                 *)

OneHandler == \A q, r \in Requests : q = r
NoEdits == OneHandler /\ "edit" \notin RequestKinds

WorkersAside == UNCHANGED worker /\ \A w \in WorkerIds : mirror'[w] = mirror[w]

\* A step of the web process: what it writes queued is not taken, and its
\* handler goes on as it may.
LEMMA WebStepKeepsHeld ==
    ASSUME HeldInv, ExternalInv', WorkersAside, lastRun <= lastRun',
           \A j \in Jobs : Queueable(j, file'[j]),
           \A q \in Requests :
              /\ req'[q].at \in Marks \cup Undoes => file'[req'[q].job].status # "queued"
              /\ req'[q].at \in Marks => mirror'[Web][req'[q].job].status # "queued"
              /\ req'[q].at \in Undoes => Queueable(req'[q].job, mirror'[Web][req'[q].job])
              /\ req'[q].at = "patch" => file'[req'[q].job] # Absent
    PROVE  HeldInv'
<1>1. FilesQueueable'
  BY DEF WorkersAside, FilesQueueable, Queueable, Taken, Holds, Job, Run
<1>2. WritesSafely'
  BY DEF WorkersAside, WritesSafely, Queueable, Taken, Holds, Job, Run
<1>3. HeldOnce'
  <2>1. \A w \in WorkerIds : Run(w) \in Nat
    BY OneWorker DEF HeldInv
  <2>2. lastRun \in Nat /\ lastRun' \in Nat
    BY UnchangedTyped DEF HeldInv, ExternalInv, RequestInv, RequestTypeOK, StoreTypeOK
  <2> QED
    BY <2>1, <2>2 DEF HeldInv, HeldOnce, WorkersAside, Holds, Job, Run
<1> QED
  BY <1>1, <1>2, <1>3 DEF HeldInv

\* A file that is queued only if it was, or not at all, is not taken.
LEMMA QueuedBeforeIsFree ==
    ASSUME HeldInv,
           \A j \in Jobs : file'[j].status = "queued" => QueuedAs(file[j], file'[j].run)
    PROVE  \A j \in Jobs : Queueable(j, file'[j])
BY DEF HeldInv, FilesQueueable, Queueable, QueuedAs

\* A newer generation is nobody's yet.
LEMMA NewRunIsFree ==
    ASSUME HeldInv, NEW j \in Jobs
    PROVE  lastRun \in Nat /\ ~Taken(j, lastRun + 1)
<1>1. lastRun \in Nat /\ \A w \in WorkerIds : Run(w) \in Nat
  BY OneWorker, UnchangedTyped DEF HeldInv, ExternalInv
<1> QED
  BY <1>1 DEF HeldInv, HeldOnce, Taken, NoRun

\* Between the steps of handlers: reads of pages, the clock, an upload.
LEMMA BetweenStepsKeepsHeld ==
    ASSUME HeldInv, ExternalInv', WorkersAside, UNCHANGED <<lastRun, req>>, NoNewQueue,
           \A j \in Jobs : \/ mirror'[Web][j] = mirror[Web][j]
                           \/ mirror'[Web][j].status = "queued" => file[j].status = "queued"
    PROVE  HeldInv'
<1>1. \A j \in Jobs : Queueable(j, file'[j])
  BY QueuedBeforeIsFree DEF NoNewQueue
<1>2. lastRun <= lastRun' /\ \A q \in Requests : req[q].job \in Jobs
  BY UnchangedTyped DEF HeldInv, ExternalInv
<1>3. \A q \in Requests :
              /\ req'[q].at \in Marks \cup Undoes => file'[req'[q].job].status # "queued"
              /\ req'[q].at \in Marks => mirror'[Web][req'[q].job].status # "queued"
              /\ req'[q].at \in Undoes => Queueable(req'[q].job, mirror'[Web][req'[q].job])
              /\ req'[q].at = "patch" => file'[req'[q].job] # Absent
  BY <1>2 DEF HeldInv, WritesSafely, NoNewQueue, QueuedAs, Queueable
<1> QED
  BY <1>1, <1>2, <1>3, WebStepKeepsHeld

LEMMA BetweenKeepsHeld ==
    ASSUME HeldInv, ExternalInv', UNCHANGED worker, NEW j \in Jobs,
           \/ PageRead(j)
           \/ LeaseExpires(j) /\ UNCHANGED requestVars
           \/ \E ok \in BOOLEAN : CreateJob(j, ok)
    PROVE  HeldInv'
<1>1. /\ StoreInv /\ Web \in Processes /\ WorkerIds \subseteq Processes \ {Web}
      /\ file \in [Jobs -> Session] /\ mirror \in [Processes -> [Jobs -> Session]]
      /\ UNCHANGED <<lastRun, req>>
  BY StoreAssumption, ExternalAssumption DEF HeldInv, ExternalInv, RequestInv, StoreInv, StoreTypeOK,
     PageRead, Poll, ViewResult, LeaseExpires, CreateJob, requestVars
<1>2. CASE Poll(j)
  <2>1. /\ NoNewQueue /\ mirror' = [mirror EXCEPT ![Web][j] = Seen(Web, j)]
        /\ mirror'[Web][j] = Seen(Web, j)
    BY <1>1, <1>2, GetQueuesNothing DEF Poll
  <2>2. Seen(Web, j) = mirror[Web][j] \/ (Seen(Web, j).status = "queued" => file[j].status = "queued")
    <3>1. CASE file[j] = Absent
      BY <3>1 DEF Seen
    <3>2. CASE file[j] # Absent
      <4>1. Seen(Web, j) = Recovered(file[j], mirror[Web][j] = Absent)
        BY <3>2 DEF Seen
      <4>2. (mirror[Web][j] = Absent) \in BOOLEAN
        OBVIOUS
      <4> QED
        BY <4>1, <4>2, ReadIsNoYounger
    <3> QED
      BY <3>1, <3>2
  <2>3. WorkersAside
    BY <1>1, <2>1 DEF WorkersAside
  <2>4. \A i \in Jobs : \/ mirror'[Web][i] = mirror[Web][i]
                        \/ mirror'[Web][i].status = "queued" => file[i].status = "queued"
    BY <1>1, <2>1, <2>2
  <2> QED
    BY <1>1, <2>1, <2>3, <2>4, BetweenStepsKeepsHeld
<1>3. ASSUME NEW saves \in BOOLEAN, NEW writes \in BOOLEAN, ViewResult(j, saves, writes)
      PROVE  HeldInv'
  <2> DEFINE run == Seen(Web, j).run
  <2>1. PersistRun(Web, j, run, saves, writes)
    BY <1>3 DEF ViewResult
  <2> HIDE DEF run
  <2>2. /\ NoNewQueue
        /\ \A v \in Processes \ {Web} : mirror'[v] = mirror[v]
        /\ \A i \in Jobs : mirror'[Web][i] = mirror[Web][i] \/ mirror'[Web][i].status = "complete"
    BY <1>1, <2>1, PersistQueuesNothing
  <2>3. WorkersAside
    BY <1>1, <2>2 DEF WorkersAside
  <2> QED
    BY <1>1, <2>2, <2>3, BetweenStepsKeepsHeld
<1>4. CASE LeaseExpires(j)
  <2>1. /\ UNCHANGED mirror /\ file[j].status = "running"
        /\ file' = [file EXCEPT ![j].lease = "expired"]
    BY <1>4 DEF LeaseExpires
  <2>2. /\ \A i \in Jobs \ {j} : file'[i] = file[i]
        /\ file'[j].status = "running"
    BY <1>1, <2>1 DEF Session
  <2>3. NoNewQueue /\ WorkersAside
    BY <2>1, <2>2 DEF NoNewQueue, QueuedAs, WorkersAside, Absent
  <2> QED
    BY <1>1, <2>1, <2>3, BetweenStepsKeepsHeld
<1>5. ASSUME NEW ok \in BOOLEAN, CreateJob(j, ok) PROVE HeldInv'
  <2>1. /\ file' = [file EXCEPT ![j] = NewSession] \/ file' = file
        /\ mirror' = [mirror EXCEPT ![Web][j] = NewSession]
        /\ NewSession.status = "selecting" /\ NewSession # Absent
    BY <1>5 DEF CreateJob, Remember, NewSession, Absent
  <2>2. NoNewQueue
    BY <1>1, <2>1, WriteQueuesNothing
  <2>3. WorkersAside
    BY <1>1, <2>1 DEF WorkersAside
  <2>4. \A i \in Jobs : mirror'[Web][i] = mirror[Web][i] \/ mirror'[Web][i].status # "queued"
    BY <1>1, <2>1
  <2> QED
    BY <1>1, <2>2, <2>3, <2>4, BetweenStepsKeepsHeld
<1> QED
  BY <1>2, <1>3, <1>4, <1>5 DEF PageRead

-----------------------------------------------------------------------------

\* The only handler, q, takes a step.
LEMMA OnlyHandlerKeepsHeld ==
    ASSUME HeldInv, ExternalInv', OneHandler, NEW q \in Requests, NEW j \in Jobs,
           UNCHANGED worker, lastRun <= lastRun',
           req'[q].job = j,
           \A p \in Processes \ {Web} : mirror'[p] = mirror[p],
           \A i \in Jobs : Queueable(i, file'[i]),
           req'[q].at \in Marks \cup Undoes => file'[j].status # "queued",
           req'[q].at \in Marks => mirror'[Web][j].status # "queued",
           req'[q].at \in Undoes => Queueable(j, mirror'[Web][j]),
           req'[q].at = "patch" => file'[j] # Absent
    PROVE  HeldInv'
<1>1. WorkersAside
  BY ExternalAssumption, StoreAssumption
     DEF WorkersAside, HeldInv, ExternalInv, RequestInv, StoreInv, StoreTypeOK
<1>2. \A r \in Requests : r = q
  BY DEF OneHandler
<1> QED
  BY <1>1, <1>2, WebStepKeepsHeld

\* What is known of the web process and its handler.
LEMMA AtHandler ==
    ASSUME HeldInv, NEW q \in Requests
    PROVE  /\ StoreInv /\ Web \in Processes /\ req[q].job \in Jobs /\ lastRun \in Nat
           /\ req \in [Requests -> [at : Steps, job : Jobs, seen : Session]]
           /\ file \in [Jobs -> Session] /\ mirror \in [Processes -> [Jobs -> Session]]
           /\ req[q].at \in Marks \cup Undoes => file[req[q].job].status # "queued"
           /\ req[q].at \in Marks => mirror[Web][req[q].job].status # "queued"
           /\ req[q].at \in Undoes => Queueable(req[q].job, mirror[Web][req[q].job])
           /\ req[q].at = "patch" => file[req[q].job] # Absent
           /\ \A i \in Jobs : Queueable(i, file[i])
BY UnchangedTyped
   DEF HeldInv, ExternalInv, RequestInv, RequestTypeOK, StoreInv, StoreTypeOK, WritesSafely, FilesQueueable

\* A request arrives.
LEMMA ArrivalKeepsHeld ==
    ASSUME HeldInv, ExternalInv', UNCHANGED worker, NoEdits, NEW q \in Requests, NEW j \in Jobs,
           Arrival(q, j)
    PROVE  HeldInv'
<1> DEFINE s == Seen(Web, j)
<1>1. /\ StoreInv /\ Web \in Processes /\ lastRun \in Nat /\ lastRun' = lastRun /\ OneHandler
      /\ req \in [Requests -> [at : Steps, job : Jobs, seen : Session]] /\ ~EditRead(q, j)
  BY AtHandler DEF NoEdits, Arrival, StartRead, RestartRead, CancelRead, SweepRead, ListRead,
     EditRead, DeleteRead, Free
<1>2. \A step, t : Begin(q, step, j, t) => req'[q].at = step /\ req'[q].job = j
  BY <1>1 DEF Begin
<1>3. CASE StartRead(q, j)
  <2>1. /\ GetJob(Web, j) /\ s.status # "queued"
        /\ req'[q].at \in {"trim", "reserve", "queue"} /\ req'[q].job = j
    BY <1>2, <1>3 DEF StartRead, AfterTrim
  <2>2. /\ NoNewQueue /\ mirror' = [mirror EXCEPT ![Web][j] = s] /\ mirror'[Web][j] = s
        /\ \A p \in Processes \ {Web} : mirror'[p] = mirror[p]
        /\ file'[j] = s \/ file'[j] = Absent
    BY <1>1, <2>1, GetQueuesNothing DEF StoreInv, StoreTypeOK
  <2>3. \A i \in Jobs : Queueable(i, file'[i])
    BY <2>2, QueuedBeforeIsFree DEF NoNewQueue
  <2>4. file'[j].status # "queued" /\ mirror'[Web][j].status # "queued" /\ req'[q].at # "patch"
        /\ Queueable(j, mirror'[Web][j])
    BY <2>1, <2>2 DEF Absent, Queueable
  <2> QED
    BY <1>1, <2>1, <2>2, <2>3, <2>4, OnlyHandlerKeepsHeld
<1>4. CASE RestartRead(q, j) \/ CancelRead(q, j) \/ SweepRead(q, j)
  <2>1. GetJob(Web, j) /\ req'[q].at \in {"requeue", "unlink", "sweep_files"} /\ req'[q].job = j
    BY <1>2, <1>4 DEF RestartRead, CancelRead, SweepRead
  <2>2. NoNewQueue /\ \A p \in Processes \ {Web} : mirror'[p] = mirror[p]
    BY <1>1, <2>1, GetQueuesNothing DEF StoreInv, StoreTypeOK
  <2>3. \A i \in Jobs : Queueable(i, file'[i])
    BY <2>2, QueuedBeforeIsFree DEF NoNewQueue
  <2>4. req'[q].at \notin Marks \cup Undoes \cup {"patch"}
    BY <2>1 DEF Marks, Undoes
  <2> QED
    BY <1>1, <2>1, <2>2, <2>3, <2>4, OnlyHandlerKeepsHeld
<1>5. CASE ListRead(q, j)
  <2>1. Refresh(j, s) /\ UNCHANGED mirror /\ req'[q].at = "remember" /\ req'[q].job = j
    BY <1>2, <1>5 DEF ListRead
  <2>2. /\ (mirror[Web][j] = Absent) \in BOOLEAN
        /\ file[j] # Absent => s = Recovered(file[j], mirror[Web][j] = Absent)
    BY DEF Seen
  <2>3. NoNewQueue
    BY <1>1, <2>1, <2>2, RefreshQueuesNothing
  <2>4. \A i \in Jobs : Queueable(i, file'[i])
    BY <2>3, QueuedBeforeIsFree DEF NoNewQueue
  <2>5. req'[q].at \notin Marks \cup Undoes \cup {"patch"}
    BY <2>1 DEF Marks, Undoes
  <2> QED
    BY <1>1, <2>1, <2>4, <2>5, OnlyHandlerKeepsHeld
<1>6. CASE DeleteRead(q, j)
  <2>1. UNCHANGED <<file, mirror>> /\ req'[q].at = "files" /\ req'[q].job = j
    BY <1>2, <1>6 DEF DeleteRead
  <2>2. \A i \in Jobs : Queueable(i, file'[i])
    BY <2>1, AtHandler
  <2>3. req'[q].at \notin Marks \cup Undoes \cup {"patch"}
    BY <2>1 DEF Marks, Undoes
  <2> QED
    BY <1>1, <2>1, <2>2, <2>3, OnlyHandlerKeepsHeld
<1> QED
  BY <1>1, <1>3, <1>4, <1>5, <1>6 DEF Arrival

\* update_job of a session that is queued only as what it patches.
LEMMA PatchStepKeepsHeld ==
    ASSUME HeldInv, ExternalInv', UNCHANGED worker, OneHandler, lastRun' = lastRun,
           NEW q \in Requests, NEW step, NEW b \in BOOLEAN, NEW ok \in BOOLEAN,
           req'[q].at = step, req'[q].job = req[q].job,
           \/ PatchJob(Web, req[q].job, Base(Web, req[q].job), ok)
           \/ PatchJob(Web, req[q].job, [Base(Web, req[q].job) EXCEPT !.reserved = b], ok),
           \/ req[q].at \in Marks /\ step \in {"reserve", "queue"}
           \/ req[q].at \in {"unmark", "patch"} /\ step = "idle"
    PROVE  HeldInv'
<1> DEFINE j == req[q].job
           base == Base(Web, j)
           t == [base EXCEPT !.reserved = b]
<1>1. /\ StoreInv /\ Web \in Processes /\ j \in Jobs /\ lastRun \in Nat
      /\ mirror \in [Processes -> [Jobs -> Session]] /\ file \in [Jobs -> Session]
      /\ base \in Session
  BY AtHandler, BaseIs
<1>2. base # Absent => base.status # "absent"
  <2>1. GoodFor(j, base)
    BY <1>1, ReadsAreGood
  <2> QED
    BY <2>1 DEF GoodFor
<1>3. t \in Session /\ t.status = base.status /\ t.run = base.run
  BY <1>1, PatchesKeep
<1>4. PICK u \in Session : u.status = base.status /\ u.run = base.run /\ PatchJob(Web, j, u, ok)
  BY <1>1, <1>3
<1>5. /\ base.status = "queued" => Queueable(j, base)
      /\ req[q].at \in Marks => base.status # "queued"
  BY <1>1, AtHandler, BaseIs DEF Queueable, QueuedAs, Marks, Undoes
<1> HIDE DEF t, base
<1>6. /\ \A i \in Jobs \ {j} : file'[i] = file[i]
      /\ file'[j] = file[j] \/ file'[j] = u
      /\ mirror'[Web][j] = mirror[Web][j] \/ mirror'[Web][j] = u
      /\ \A p \in Processes \ {Web} : mirror'[p] = mirror[p]
  BY <1>1, <1>2, <1>4, PatchCall DEF base
<1>7. Queueable(j, u)
  BY <1>4, <1>5 DEF Queueable
<1>8. \A i \in Jobs : Queueable(i, file'[i])
  BY <1>6, <1>7, AtHandler
<1>9. CASE req[q].at \in Marks /\ step \in {"reserve", "queue"}
  <2>1. u.status # "queued" /\ file[j].status # "queued" /\ mirror[Web][j].status # "queued"
    BY <1>4, <1>5, <1>9, AtHandler
  <2>2. file'[j].status # "queued" /\ mirror'[Web][j].status # "queued"
    BY <1>1, <1>6, <2>1
  <2>3. Queueable(j, mirror'[Web][j]) /\ step # "patch"
    BY <2>2, <1>9 DEF Queueable
  <2> QED
    BY <1>1, <1>6, <1>8, <2>2, <2>3, OnlyHandlerKeepsHeld
<1>10. CASE step = "idle"
  <2>1. step \notin Marks \cup Undoes \cup {"patch"}
    BY <1>10 DEF Marks, Undoes
  <2> QED
    BY <1>1, <1>6, <1>8, <2>1, OnlyHandlerKeepsHeld
<1> QED
  BY <1>9, <1>10

-----------------------------------------------------------------------------

\* Where a handler goes.
LEMMA HandlerGoes ==
    ASSUME HeldInv, NEW q \in Requests
    PROVE  /\ \A step : Goto(q, step) => req'[q].at = step /\ req'[q].job = req[q].job
           /\ Done(q) => req'[q].at = "idle" /\ req'[q].job = req[q].job
BY AtHandler DEF Goto, Done, Idle

\* Steps that delete, or go on without touching what the store says.
LEMMA DeletingKeepsHeld ==
    ASSUME HeldInv, ExternalInv', UNCHANGED worker, OneHandler, NEW q \in Requests,
           \/ CancelUnlink(q) \/ CancelForget(q) \/ CancelRelease(q) \/ CancelWipe(q)
           \/ SweepFiles(q) \/ SweepRelease(q) \/ SweepUnlink(q) \/ SweepForget(q)
           \/ DeleteFiles(q) \/ ListRemember(q)
    PROVE  HeldInv'
<1> DEFINE j == req[q].job
           steps == {"idle", "forget", "release", "wipe", "sweep_release", "sweep_unlink", "sweep_forget"}
<1>1. lastRun' = lastRun
  BY DEF CancelUnlink, CancelForget, CancelRelease, CancelWipe, SweepFiles, SweepRelease,
     SweepUnlink, SweepForget, DeleteFiles, ListRemember, Unlink
<1>2. file' = file \/ file' = [file EXCEPT ![j] = Absent]
  BY DEF CancelUnlink, CancelForget, CancelRelease, CancelWipe, SweepFiles, SweepRelease,
     SweepUnlink, SweepForget, DeleteFiles, ListRemember, Unlink, WipeFolder
<1>3. \/ mirror' = mirror \/ mirror' = [mirror EXCEPT ![Web][j] = Absent]
      \/ mirror' = [mirror EXCEPT ![Web][j] = req[q].seen]
  BY DEF CancelUnlink, CancelForget, CancelRelease, CancelWipe, SweepFiles, SweepRelease,
     SweepUnlink, SweepForget, DeleteFiles, ListRemember, Unlink, Forget, Remember
<1>4. Done(q) \/ \E step \in steps : Goto(q, step)
  BY DEF CancelUnlink, CancelForget, CancelRelease, CancelWipe, SweepFiles, SweepRelease,
     SweepUnlink, SweepForget, DeleteFiles, ListRemember, Unlink
<1>5. /\ j \in Jobs /\ lastRun \in Nat /\ file \in [Jobs -> Session]
      /\ mirror \in [Processes -> [Jobs -> Session]]
      /\ \A i \in Jobs : Queueable(i, file[i])
  BY AtHandler
<1>6. /\ req'[q].job = j /\ req'[q].at \in steps
  BY <1>4, HandlerGoes
<1>7. req'[q].at \notin Marks \cup Undoes \cup {"patch"}
  BY <1>6 DEF Marks, Undoes
<1>8. \A i \in Jobs : Queueable(i, file'[i])
  BY <1>2, <1>5 DEF Queueable, Absent
<1>9. \A p \in Processes \ {Web} : mirror'[p] = mirror[p]
  BY <1>3, <1>5
<1> HIDE DEF j
<1>10. lastRun <= lastRun'
  BY <1>1, <1>5
<1> QED
  BY <1>5, <1>6, <1>7, <1>8, <1>9, <1>10, OnlyHandlerKeepsHeld

\* The steps of a start between its calls of update_job.
LEMMA StartStepsKeepHeld ==
    ASSUME HeldInv, ExternalInv', UNCHANGED worker, OneHandler, NEW q \in Requests,
           StartReserve(q) \/ StartUndo(q) \/ StartUnreserve(q)
    PROVE  HeldInv'
<1> DEFINE j == req[q].job
           s == Seen(Web, j)
<1>1. /\ StoreInv /\ Web \in Processes /\ j \in Jobs /\ lastRun \in Nat /\ file \in [Jobs -> Session]
      /\ mirror \in [Processes -> [Jobs -> Session]]
      /\ \A i \in Jobs : Queueable(i, file[i])
      /\ req[q].at \in Marks \cup Undoes
      /\ lastRun' = lastRun
  BY AtHandler DEF StartReserve, StartUndo, StartUnreserve, Marks, Undoes
<1>2. /\ file[j].status # "queued" /\ Queueable(j, mirror[Web][j])
      /\ req[q].at \in Marks => mirror[Web][j].status # "queued"
  BY <1>1, AtHandler DEF Queueable
<1>3. lastRun <= lastRun'
  BY <1>1
<1>4. CASE StartReserve(q) \/ StartUnreserve(q)
  <2>1. /\ UNCHANGED <<file, mirror>>
        /\ (req[q].at = "reserve" /\ Goto(q, "mark")) \/ Goto(q, "unmark") \/ Done(q)
    BY <1>4 DEF StartReserve, StartUnreserve
  <2>2. /\ req'[q].job = j
        /\ (req[q].at = "reserve" /\ req'[q].at = "mark") \/ req'[q].at \in {"unmark", "idle"}
    BY <2>1, HandlerGoes
  <2>3. /\ \A i \in Jobs : Queueable(i, file'[i])
        /\ \A p \in Processes \ {Web} : mirror'[p] = mirror[p]
        /\ file'[j].status # "queued" /\ Queueable(j, mirror'[Web][j])
        /\ req'[q].at \in Marks => mirror'[Web][j].status # "queued"
        /\ req'[q].at # "patch"
    BY <1>1, <1>2, <2>1, <2>2 DEF Marks
  <2> HIDE DEF j
  <2> QED
    BY <1>1, <1>3, <2>2, <2>3, OnlyHandlerKeepsHeld
<1>5. CASE StartUndo(q)
  <2>1. GetJob(Web, j) /\ (Goto(q, "unreserve") \/ Done(q))
    BY <1>5 DEF StartUndo
  <2>2. req'[q].job = j /\ req'[q].at \in {"unreserve", "idle"}
    BY <2>1, HandlerGoes
  <2>3. /\ NoNewQueue /\ mirror' = [mirror EXCEPT ![Web][j] = s] /\ mirror'[Web][j] = s
    BY <1>1, <2>1, GetQueuesNothing
  <2>4. \A i \in Jobs : Queueable(i, file'[i])
    BY <2>3, QueuedBeforeIsFree DEF NoNewQueue
  <2>5. s = mirror[Web][j] \/ s.status # "queued"
    BY <1>2, ReadIsNoYounger DEF Seen
  <2>6. /\ file'[j].status # "queued" /\ Queueable(j, mirror'[Web][j])
        /\ \A p \in Processes \ {Web} : mirror'[p] = mirror[p]
        /\ req'[q].at \notin Marks \cup {"patch"}
    BY <1>1, <1>2, <2>2, <2>3, <2>5 DEF NoNewQueue, QueuedAs, Queueable, Marks
  <2> HIDE DEF j
  <2> QED
    BY <1>1, <1>3, <2>2, <2>4, <2>6, OnlyHandlerKeepsHeld
<1> QED
  BY <1>4, <1>5

LEMMA HandlerStepKeepsHeld ==
    ASSUME HeldInv, ExternalInv', UNCHANGED worker, OneHandler, NEW q \in Requests,
           NEW ok \in BOOLEAN, HandlerStep(q, ok)
    PROVE  HeldInv'
<1>1. CASE StartTrim(q, ok)
  <2>1. PICK step \in {"reserve", "queue"} : Goto(q, step)
    BY <1>1 DEF StartTrim, AfterTrim
  <2>2. /\ req'[q].at = step /\ req'[q].job = req[q].job /\ lastRun' = lastRun
        /\ PatchJob(Web, req[q].job, Base(Web, req[q].job), ok) /\ req[q].at \in Marks
    BY <1>1, <2>1, HandlerGoes DEF StartTrim, Marks
  <2> QED
    BY <2>2, PatchStepKeepsHeld
<1>2. CASE StartMark(q, ok)
  <2>1. /\ req'[q].at = "queue" /\ req'[q].job = req[q].job /\ lastRun' = lastRun
        /\ PatchJob(Web, req[q].job, [Base(Web, req[q].job) EXCEPT !.reserved = TRUE], ok)
        /\ req[q].at \in Marks
    BY <1>2, HandlerGoes DEF StartMark, Marks
  <2> QED
    BY <2>1, PatchStepKeepsHeld
<1>3. CASE StartUnmark(q, ok)
  <2>1. /\ req'[q].at = "idle" /\ req'[q].job = req[q].job /\ lastRun' = lastRun
        /\ PatchJob(Web, req[q].job, [Base(Web, req[q].job) EXCEPT !.reserved = FALSE], ok)
        /\ req[q].at = "unmark"
    BY <1>3, HandlerGoes DEF StartUnmark
  <2> QED
    BY <2>1, PatchStepKeepsHeld
<1>4. CASE Patch(q, ok)
  <2>1. /\ req'[q].at = "idle" /\ req'[q].job = req[q].job /\ lastRun' = lastRun
        /\ PatchJob(Web, req[q].job, Base(Web, req[q].job), ok) /\ req[q].at = "patch"
    BY <1>4, HandlerGoes DEF Patch
  <2> QED
    BY <2>1, PatchStepKeepsHeld
<1> QED
  BY <1>1, <1>2, <1>3, <1>4, DeletingKeepsHeld, StartStepsKeepHeld DEF HandlerStep

\* A run is queued: a generation nobody has taken.
LEMMA QueueKeepsHeld ==
    ASSUME HeldInv, ExternalInv', UNCHANGED worker, OneHandler, NEW q \in Requests,
           NEW ok \in BOOLEAN, QueueStep(q, ok)
    PROVE  HeldInv'
<1> DEFINE j == req[q].job
           run == lastRun + 1
           s == Queued(Base(Web, j), run)
<1>1. PICK after \in {"idle", "undo"} :
         /\ QueueRun(q, ok, after)
         /\ after = "undo" => req[q].at = "queue"
  BY DEF QueueStep, StartQueue, RestartQueue
<1>2. /\ StoreInv /\ Web \in Processes /\ j \in Jobs /\ lastRun \in Nat /\ file \in [Jobs -> Session]
      /\ mirror \in [Processes -> [Jobs -> Session]]
      /\ \A i \in Jobs : Queueable(i, file[i])
      /\ req[q].at = "queue" => file[j].status # "queued" /\ Queueable(j, mirror[Web][j])
  BY AtHandler DEF Undoes
<1>3. Detached
  BY ExternalAssumption
<1>4. \A step : Leave(q, step) /\ step \in {"idle", "undo"} => req'[q].at = step /\ req'[q].job = j
  BY HandlerGoes DEF Leave
<1>5. CASE Base(Web, j) # Absent /\ lastRun' = run /\ UpdateJob(Web, j, s, ok)
  <2>1. s.status = "queued" /\ s.run = run /\ s # Absent
    <3>1. Base(Web, j) \in Session
      BY <1>2, BaseIs
    <3> QED
      BY <3>1 DEF Queued, Session, Absent
  <2>2. Queueable(j, s) /\ lastRun <= lastRun'
    BY <1>2, <1>5, <2>1, NewRunIsFree DEF Queueable
  <2>3. /\ file' = IF ok THEN [file EXCEPT ![j] = s] ELSE file
        /\ mirror' = [mirror EXCEPT ![Web][j] = s]
    BY <1>5 DEF UpdateJob, WriteFile, Remember
  <2>4. /\ req'[q].job = j
        /\ ok => req'[q].at \in {"patch", "idle"}
        /\ ~ok => req'[q].at = after
    <3>1. \/ ok /\ (Goto(q, "patch") \/ Done(q))
          \/ ~ok /\ Leave(q, after)
      <4>1. CASE ok
        BY <1>1, <1>3, <1>5, <4>1 DEF QueueRun
      <4>2. CASE ~ok
        BY <1>1, <1>3, <1>5, <4>2 DEF QueueRun
      <4> QED
        BY <4>1, <4>2
    <3> QED
      BY <1>4, <3>1, HandlerGoes
  <2> HIDE DEF s, run, j
  <2>5. /\ \A i \in Jobs : Queueable(i, file'[i])
        /\ \A p \in Processes \ {Web} : mirror'[p] = mirror[p]
        /\ mirror'[Web][j] = s
        /\ ok => file'[j] = s
    BY <1>2, <2>2, <2>3
  <2>6. /\ req'[q].at \notin Marks
        /\ req'[q].at \in Undoes => file'[j].status # "queued"
        /\ req'[q].at = "patch" => file'[j] # Absent
    BY <1>1, <1>2, <2>1, <2>3, <2>4, <2>5 DEF Marks, Undoes, j
  <2> QED
    BY <1>2, <2>2, <2>4, <2>5, <2>6, OnlyHandlerKeepsHeld
<1>6. CASE UNCHANGED <<file, mirror, lastRun>> /\ Leave(q, after)
  <2>1. /\ req'[q].job = j /\ req'[q].at = after /\ lastRun <= lastRun'
    BY <1>2, <1>4, <1>6
  <2>2. /\ req'[q].at \notin Marks \cup {"patch"}
        /\ req'[q].at \in Undoes => file'[j].status # "queued" /\ Queueable(j, mirror'[Web][j])
        /\ \A i \in Jobs : Queueable(i, file'[i])
        /\ \A p \in Processes \ {Web} : mirror'[p] = mirror[p]
    BY <1>1, <1>2, <1>6, <2>1 DEF Marks, Undoes
  <2> HIDE DEF j
  <2> QED
    BY <1>2, <2>1, <2>2, OnlyHandlerKeepsHeld
<1> QED
  BY <1>1, <1>5, <1>6 DEF QueueRun

LEMMA WebRestartsKeepHeld ==
    ASSUME HeldInv, ExternalInv', UNCHANGED worker, WebRestarts
    PROVE  HeldInv'
<1>1. /\ WorkersAside
      /\ \A i \in Jobs : Queueable(i, file'[i])
      /\ lastRun <= lastRun'
  <2>1. lastRun \in Nat /\ mirror \in [Processes -> [Jobs -> Session]]
    BY DEF HeldInv, ExternalInv, RequestInv, StoreInv, StoreTypeOK
  <2> QED
    BY <2>1, StoreAssumption, ExternalAssumption
       DEF WebRestarts, WorkersAside, HeldInv, FilesQueueable
<1>2. \A q \in Requests : req'[q].at \notin Marks \cup Undoes \cup {"patch"}
  BY DEF WebRestarts, Idle, Marks, Undoes
<1> QED
  BY <1>1, <1>2, WebStepKeepsHeld

-----------------------------------------------------------------------------

\* The induction step.
LEMMA HeldStep ==
    ASSUME HeldInv, [Next]_extVars, NoEdits
    PROVE  HeldInv'
<1>1. ExternalInv' /\ OneHandler
  BY ExternalStep DEF HeldInv, NoEdits
<1>2. CASE UNCHANGED worker /\ WebStep
  BY <1>1, <1>2, BetweenKeepsHeld, ArrivalKeepsHeld, HandlerStepKeepsHeld DEF WebStep
<1>3. CASE UNCHANGED worker /\ WebRestarts
  BY <1>1, <1>3, WebRestartsKeepHeld
<1>4. ASSUME UNCHANGED worker, NEW q \in Requests, NEW ok \in BOOLEAN, QueueStep(q, ok)
      PROVE  HeldInv'
  BY <1>1, <1>4, QueueKeepsHeld
<1>5. ASSUME NEW w \in WorkerIds,
             WorkerTurn(w) \/ AnalysisEnds(w) \/ WorkerDies(w) \/ \E ok \in BOOLEAN : Progress(w, ok)
      PROVE  HeldInv'
  BY <1>1, <1>5, WorkersKeepHeld
<1>6. CASE UNCHANGED extVars
  BY <1>1, <1>6
     DEF extVars, vars, HeldInv, FilesQueueable, Queueable, Taken, HeldOnce, Holds, Run, Job,
         WritesSafely
<1> QED
  BY <1>2, <1>3, <1>4, <1>5, <1>6 DEF Next, WebTurn, Mishap

\* Two workers never analyse the same generation of a job (claim_next_job), for
\* any number of workers, failed writes and deaths - with one handler of the web
\* process at a time, and without the handlers that patch a session they read
\* some time ago: after a fight was deleted behind its back, such a page writes
\* the queued session back.
THEOREM ExternalOneWorkerPerRun ==
    ASSUME \A q, r \in Requests : q = r, "edit" \notin RequestKinds
    PROVE  Spec => []OneWorkerPerRun
<1>1. Init => HeldInv
  <2> SUFFICES ASSUME Init PROVE HeldInv
    OBVIOUS
  <2>1. ExternalInv
    BY ExternalInitGood
  <2>2. \A w \in WorkerIds : worker[w].at = "idle"
    BY DEF Init, AtRest
  <2>3. \A q \in Requests : req[q].at = "idle"
    BY DEF Init, RequestInit, Idle
  <2>4. \A j \in Jobs : file[j].status = "absent"
    BY DEF Init, RequestInit, StoreInit, Absent
  <2> QED
    BY <2>1, <2>2, <2>3, <2>4
       DEF HeldInv, FilesQueueable, Queueable, HeldOnce, Holds, Working, WritesSafely, Marks, Undoes
<1>2. NoEdits
  BY DEF NoEdits, OneHandler
<1>3. HeldInv /\ [Next]_extVars => HeldInv'
  BY <1>2, HeldStep
<1>4. HeldInv => OneWorkerPerRun
  <2> SUFFICES ASSUME HeldInv, NEW v \in WorkerIds, NEW w \in WorkerIds, v # w,
                      worker[v].at \in Working, worker[w].at \in Working,
                      Job(v) = Job(w), worker[v].copy # Absent
               PROVE  Run(v) # Run(w)
    BY DEF OneWorkerPerRun
  <2>1. Holds(v) /\ Run(v) # NoRun
    BY DEF HeldInv, HeldOnce, Holds
  <2>2. CASE worker[w].copy = Absent
    BY <2>1, <2>2 DEF Run, Absent
  <2>3. CASE worker[w].copy # Absent
    BY <2>1, <2>3 DEF HeldInv, HeldOnce, Holds
  <2> QED
    BY <2>2, <2>3
<1> QED
  BY <1>1, <1>3, <1>4, PTL DEF Spec
-----------------------------------------------------------------------------
(* Saved fights and their reports.                                         *)

\* A worker adds reports, and saves only a fight whose report is there.
LEMMA WorkersMoveHistory ==
    ASSUME ExternalInv, NEW w \in WorkerIds, WorkerTurn(w) \/ AnalysisEnds(w) \/ Mishap(w)
    PROVE  HistoryMoves
<1>1. NoSnapshot
  <2>1. UNCHANGED req
    BY DEF WorkerTurn, AnalysisEnds, Mishap, ClaimScan, ClaimMake, ClaimTake, ClaimDrop, Progress,
       Finish, Save, AnalysisFails, FailRead, FailRelease, FailUnmark, FailError, WorkerDies,
       vars, requestVars
  <2> QED
    BY <2>1 DEF NoSnapshot
<1>2. ASSUME NEW saves \in BOOLEAN, NEW writes \in BOOLEAN, Save(w, saves, writes)
      PROVE  HistoryMoves
  BY <1>1, <1>2, OneWorker, PersistMoves DEF Save, requestVars
<1>3. ASSUME NEW ok \in BOOLEAN, Finish(w, ok) PROVE NothingForgotten
  BY <1>3 DEF Finish, FinalizeRun, requestVars, NothingForgotten
<1>4. CASE \/ \E j \in Jobs : ClaimScan(w, j)
           \/ ClaimMake(w) \/ ClaimDrop(w) \/ FailRead(w) \/ FailRelease(w)
           \/ AnalysisFails(w) \/ WorkerDies(w)
           \/ \E ok \in BOOLEAN : ClaimTake(w, ok) \/ FailUnmark(w, ok) \/ FailError(w, ok)
                                  \/ Progress(w, ok)
  <2>1. NothingForgotten
    BY <1>4 DEF ClaimScan, ClaimMake, ClaimTake, ClaimDrop, Progress, AnalysisFails, FailRead,
       FailRelease, FailUnmark, FailError, WorkerDies, vars, requestVars, NothingForgotten
  <2> QED
    BY <1>1, <2>1, NothingForgottenMoves
<1> QED
  BY <1>1, <1>2, <1>3, <1>4, NothingForgottenMoves DEF WorkerTurn, AnalysisEnds, Mishap

\* The report a saved fight points at is there until the fight's deletion, whatever
\* workers, failed writes, retries of the save and sweeps do (persist_completed_job,
\* cleanup_abandoned_processing_files).
THEOREM ExternalReportsStay == Spec => []ReportMissingOnlyAfterDeletion
<1>1. Init => ExternalInv /\ HistoryInv
  BY ExternalInitGood, HistoryInitGood DEF Init
<1>2. ExternalInv /\ HistoryInv /\ [Next]_extVars => ExternalInv' /\ HistoryInv'
  <2> SUFFICES ASSUME ExternalInv, HistoryInv, [Next]_extVars PROVE ExternalInv' /\ HistoryInv'
    OBVIOUS
  <2>1. ExternalInv' /\ RequestInv
    BY ExternalStep DEF ExternalInv
  <2>2. CASE WebTurn
    BY <2>1, <2>2, WebMovesHistory, MovesKeepHistory DEF WebTurn
  <2>3. ASSUME NEW w \in WorkerIds, WorkerTurn(w) \/ AnalysisEnds(w) \/ Mishap(w)
        PROVE  HistoryInv'
    BY <2>1, <2>3, WorkersMoveHistory, MovesKeepHistory DEF WorkerTurn, AnalysisEnds, Mishap
  <2>4. CASE UNCHANGED extVars
    <3>1. UNCHANGED <<vars, untouched>>
      BY <2>4 DEF extVars
    <3> QED
      BY <2>1, <3>1, StutterKeepsHistory
  <2> QED
    BY <2>1, <2>2, <2>3, <2>4 DEF Next
<1>3. HistoryInv => ReportMissingOnlyAfterDeletion
  BY DEF HistoryInv
<1> QED
  BY <1>1, <1>2, <1>3, PTL DEF Spec
=============================================================================
