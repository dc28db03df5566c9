---------------------------- MODULE RemoteWorkersProofs ----------------------------
(***************************************************************************)
(* Remote workers keep the types, the result, the lease fence and the      *)
(* promise of app/state.py, for any number of workers, calls and handlers, *)
(* whichever answers are lost, and give a failed analysis back.  As for    *)
(* the other deployments, every step is shown to keep RequestInv and to be *)
(* one of the FileMoves of JobRequestsProofs.                              *)
(***************************************************************************)
EXTENDS RemoteWorkers, JobRequestsProofs

WorkerRow == [at : WorkerSteps, job : Jobs, run : Nat, lost : BOOLEAN]
CallRow == [at : CallSteps, by : WorkerIds, job : Jobs, run : Nat, waits : BOOLEAN]

RemoteTyped == worker \in [WorkerIds -> WorkerRow] /\ call \in [Calls -> CallRow]

RemoteInv == RequestInv /\ RemoteTyped

\* What the invariant says of one call and its worker.
LEMMA OneCall ==
    ASSUME RemoteInv, NEW c \in Calls
    PROVE  /\ RequestInv /\ StoreInv /\ Web \in Processes
           /\ CJob(c) \in Jobs /\ CRun(c) \in Nat /\ By(c) \in WorkerIds
           /\ Here(c) \in WorkerRow
BY UnchangedTyped DEF RemoteInv, RemoteTyped, CallRow, CJob, CRun, By, Here

\* The answers a worker may read are worker rows.
LEMMA Answers ==
    ASSUME RemoteInv, NEW c \in Calls
    PROVE  /\ AtRest(By(c), "idle") \in WorkerRow /\ NoJob(c) \in WorkerRow
           /\ LosesRun(c) \in WorkerRow /\ Broken(c) \in WorkerRow
           /\ Accepted(c) \in WorkerRow /\ Refused(c) \in WorkerRow
<1>1. AtRest(By(c), "idle") \in WorkerRow
  BY OneCall DEF AtRest, RemoteInv, RemoteTyped, WorkerRow, WorkerSteps, NoRun
<1>2. LosesRun(c) \in WorkerRow /\ Broken(c) \in WorkerRow
  BY OneCall DEF LosesRun, Broken, WorkerRow, WorkerSteps
<1> QED
  BY <1>1, <1>2 DEF NoJob, Accepted, Refused

\* A handler that goes on or answers stays well typed, and so does its worker.
LEMMA CallGoesOn ==
    ASSUME RemoteInv, NEW c \in Calls,
           \/ \E step \in CallSteps : CallGoto(c, step)
           \/ \E w \in WorkerRow : Answer(c, w)
    PROVE  RemoteTyped'
<1>1. CASE \E step \in CallSteps : CallGoto(c, step)
  BY <1>1 DEF CallGoto, RemoteInv, RemoteTyped, CallRow
<1>2. ASSUME NEW w \in WorkerRow, Answer(c, w) PROVE RemoteTyped'
  <2>1. NoCall(c) \in CallRow
    BY DEF NoCall, RemoteInv, RemoteTyped, CallRow, CallSteps, NoRun
  <2>2. call' \in [Calls -> CallRow]
    BY <1>2, <2>1 DEF Answer, RemoteInv, RemoteTyped
  <2>3. worker' \in [WorkerIds -> WorkerRow]
    BY <1>2 DEF Answer, RemoteInv, RemoteTyped
  <2> QED
    BY <2>2, <2>3 DEF RemoteTyped
<1> QED
  BY <1>1, <1>2

\* A worker that only goes on, and the call it may send.
LEMMA WorkerGoesOn ==
    ASSUME RemoteInv, NEW w \in WorkerIds, NEW step \in WorkerSteps, WorkerGoto(w, step)
    PROVE  worker' \in [WorkerIds -> WorkerRow]
BY DEF WorkerGoto, AtRest, RemoteInv, RemoteTyped, WorkerRow, WorkerSteps, NoRun

LEMMA SendsCall ==
    ASSUME RemoteInv, NEW w \in WorkerIds, NEW c \in Calls, NEW j \in Jobs,
           NEW step \in CallSteps, Send(c, w, step, j)
    PROVE  call' \in [Calls -> CallRow]
<1>1. [at |-> step, by |-> w, job |-> j, run |-> worker[w].run, waits |-> TRUE] \in CallRow
  BY DEF RemoteInv, RemoteTyped, CallRow, WorkerRow
<1> QED
  BY <1>1 DEF Send, RemoteInv, RemoteTyped

\* A handler's call of app/state.py about its job.
LEMMA ServerCallKeeps ==
    ASSUME RemoteInv, NEW c \in Calls, Effect(Web, CJob(c)), OthersTyped,
           UNCHANGED <<lastRun, requestVars>>
    PROVE  RequestInv' /\ FileMoves
BY OneCall, UnchangedTyped, CallKeeps DEF requestVars

\* A worker asks for a job.
LEMMA AskForJobKeeps ==
    ASSUME RemoteInv, NEW w \in WorkerIds, NEW c \in Calls, NEW j \in Jobs,
           AskForJob(w, c, j)
    PROVE  RemoteInv' /\ FileMoves
<1>1. RemoteTyped'
  <2>1. call' \in [Calls -> CallRow]
    BY SendsCall DEF AskForJob, CallSteps, ClaimCall
  <2>2. worker' \in [WorkerIds -> WorkerRow]
    <3>1. [AtRest(w, "asking") EXCEPT !.job = j] \in WorkerRow
      BY DEF AtRest, RemoteInv, RemoteTyped, WorkerRow, WorkerSteps, NoRun
    <3> QED
      BY <3>1 DEF AskForJob, RemoteInv, RemoteTyped
  <2> QED
    BY <2>1, <2>2 DEF RemoteTyped
<1>2. RequestInv' /\ FileMoves
  BY StutterKeeps DEF AskForJob, RemoteInv
<1> QED
  BY <1>1, <1>2 DEF RemoteInv

\* The claim directory is made, or the candidate passed over.
LEMMA ClaimMakeKeeps ==
    ASSUME RemoteInv, NEW c \in Calls, ClaimMake(c)
    PROVE  RemoteInv' /\ FileMoves
<1>1. RemoteTyped'
  BY OneCall, Answers, CallGoesOn DEF ClaimMake, CallSteps, ClaimCall, ProgressCall, ResultCall, FailureCall
<1>2. RequestInv' /\ FileMoves
  <2>1. Effect(Web, CJob(c))
    BY OneCall, NoEffect DEF ClaimMake
  <2>2. OthersTyped
    BY <2>1, OneCall, UnchangedTyped DEF ClaimMake, OthersTyped
  <2> QED
    BY <2>1, <2>2, ServerCallKeeps DEF ClaimMake
<1> QED
  BY <1>1, <1>2 DEF RemoteInv

\* The claim itself.
LEMMA ClaimTakeKeeps ==
    ASSUME RemoteInv, NEW c \in Calls, NEW ok \in BOOLEAN, ClaimTake(c, ok)
    PROVE  RemoteInv' /\ FileMoves
<1> DEFINE s == OnDisk(CJob(c))
<1>0. /\ GoodFor(CJob(c), s) /\ SessionMoves(file[CJob(c)], s)
      /\ s.run \in Nat
      /\ Claimable(s) => /\ GoodFor(CJob(c), Started(s, By(c)))
                         /\ SessionMoves(file[CJob(c)], Started(s, By(c)))
  <2>1. /\ GoodFor(CJob(c), s) /\ SessionMoves(file[CJob(c)], s)
        /\ s = file[CJob(c)] \/ PhaseOf(s) = "closed"
    BY OneCall, ReadsAreGood
  <2>2. ASSUME Claimable(s)
        PROVE  /\ GoodFor(CJob(c), Started(s, By(c)))
               /\ SessionMoves(file[CJob(c)], Started(s, By(c)))
    BY <2>1, <2>2, OneCall, StartedIsGood, MoveAfterRead
  <2> QED
    BY <2>1, <2>2 DEF GoodFor, Session
<1>1. RemoteTyped'
  BY <1>0 DEF ClaimTake, RemoteInv, RemoteTyped, CallRow, CallSteps, ClaimCall, NoRun
<1>2. RequestInv' /\ FileMoves
  <2>1. Effect(Web, CJob(c))
    <3>1. CASE Claimable(s)
      <4>1. \E t : GoodFor(CJob(c), t) /\ mirror' = [mirror EXCEPT ![Web][CJob(c)] = t]
        <5>1. /\ GoodFor(CJob(c), mirror[Web][CJob(c)])
              /\ mirror = [mirror EXCEPT ![Web][CJob(c)] = mirror[Web][CJob(c)]]
          BY OneCall DEF StoreInv, CopiesGood, StoreTypeOK
        <5> QED
          BY <1>0, <3>1, <5>1 DEF ClaimTake, Remember
      <4>2. WriteFile(CJob(c), Started(s, By(c)), ok)
        BY <3>1 DEF ClaimTake
      <4> QED
        BY <1>0, <3>1, <4>1, <4>2, OneCall, WriteEffect
    <3>2. CASE ~Claimable(s)
      BY <3>2, OneCall, ReadEffect DEF ClaimTake
    <3> QED
      BY <3>1, <3>2
  <2>2. OthersTyped
    BY OneCall, UnchangedTyped DEF ClaimTake, OthersTyped
  <2> QED
    BY <2>1, <2>2, ServerCallKeeps DEF ClaimTake
<1> QED
  BY <1>1, <1>2 DEF RemoteInv

\* The claim directory is removed and the claim answered.
LEMMA ClaimDropKeeps ==
    ASSUME RemoteInv, NEW c \in Calls, ClaimDrop(c)
    PROVE  RemoteInv' /\ FileMoves
<1>1. RemoteTyped'
  <2>1. [at |-> "analysing", job |-> CJob(c), run |-> CRun(c), lost |-> FALSE] \in WorkerRow
    BY OneCall DEF WorkerRow, WorkerSteps
  <2> QED
    BY <2>1, Answers, CallGoesOn DEF ClaimDrop
<1>2. RequestInv' /\ FileMoves
  <2>1. Effect(Web, CJob(c))
    BY OneCall, NoEffect DEF ClaimDrop
  <2>2. OthersTyped
    BY <2>1, OneCall, UnchangedTyped DEF ClaimDrop, OthersTyped
  <2> QED
    BY <2>1, <2>2, ServerCallKeeps DEF ClaimDrop
<1> QED
  BY <1>1, <1>2 DEF RemoteInv

\* A worker reports progress.
LEMMA SendProgressKeeps ==
    ASSUME RemoteInv, NEW w \in WorkerIds, NEW c \in Calls, SendProgress(w, c)
    PROVE  RemoteInv' /\ FileMoves
<1>1. RemoteTyped'
  <2>1. worker[w].job \in Jobs
    BY DEF RemoteInv, RemoteTyped, WorkerRow
  <2>2. call' \in [Calls -> CallRow]
    BY <2>1, SendsCall DEF SendProgress, CallSteps, ProgressCall
  <2>3. worker' \in [WorkerIds -> WorkerRow]
    BY WorkerGoesOn DEF SendProgress, WorkerSteps, RemoteInv, RemoteTyped
  <2> QED
    BY <2>2, <2>3 DEF RemoteTyped
<1>2. RequestInv' /\ FileMoves
  BY StutterKeeps DEF SendProgress, RemoteInv
<1> QED
  BY <1>1, <1>2 DEF RemoteInv

\* The ownership test of a progress report.
LEMMA ProgressCheckKeeps ==
    ASSUME RemoteInv, NEW c \in Calls, ProgressCheck(c)
    PROVE  RemoteInv' /\ FileMoves
<1>1. RemoteTyped'
  BY OneCall, Answers, CallGoesOn DEF ProgressCheck, CallSteps, ClaimCall, ProgressCall, ResultCall, FailureCall
<1>2. RequestInv' /\ FileMoves
  <2>1. Effect(Web, CJob(c))
    BY OneCall, GetJobEffect DEF ProgressCheck
  <2>2. OthersTyped
    BY <2>1, OneCall, UnchangedTyped DEF ProgressCheck, OthersTyped
  <2> QED
    BY <2>1, <2>2, ServerCallKeeps DEF ProgressCheck
<1> QED
  BY <1>1, <1>2 DEF RemoteInv

\* The lease renewed, or the report refused.
LEMMA ProgressRenewKeeps ==
    ASSUME RemoteInv, NEW c \in Calls, NEW ok \in BOOLEAN, ProgressRenew(c, ok)
    PROVE  RemoteInv' /\ FileMoves
<1>1. RemoteTyped'
  BY OneCall, Answers, CallGoesOn DEF ProgressRenew, CallSteps, ClaimCall, ProgressCall, ResultCall, FailureCall
<1>2. RequestInv' /\ FileMoves
  <2>1. Effect(Web, CJob(c))
    BY OneCall, RenewEffect DEF ProgressRenew
  <2>2. OthersTyped
    BY <2>1, OneCall, UnchangedTyped DEF ProgressRenew, OthersTyped
  <2> QED
    BY <2>1, <2>2, ServerCallKeeps DEF ProgressRenew
<1> QED
  BY <1>1, <1>2 DEF RemoteInv

\* A worker gives its run up, or its analysis raises.
LEMMA WorkerMoves ==
    ASSUME RemoteInv, NEW w \in WorkerIds, GiveUpRun(w) \/ AnalysisFails(w)
    PROVE  RemoteInv' /\ FileMoves
<1>1. RemoteTyped'
  <2>1. worker' \in [WorkerIds -> WorkerRow]
    BY WorkerGoesOn DEF GiveUpRun, AnalysisFails, WorkerSteps
  <2> QED
    BY <2>1 DEF GiveUpRun, AnalysisFails, RemoteInv, RemoteTyped
<1>2. RequestInv' /\ FileMoves
  BY StutterKeeps DEF GiveUpRun, AnalysisFails, RemoteInv
<1> QED
  BY <1>1, <1>2 DEF RemoteInv

\* A worker posts its result.
LEMMA SendResultKeeps ==
    ASSUME RemoteInv, NEW w \in WorkerIds, NEW c \in Calls, SendResult(w, c)
    PROVE  RemoteInv' /\ FileMoves
<1>1. RemoteTyped'
  <2>1. worker[w].job \in Jobs
    BY DEF RemoteInv, RemoteTyped, WorkerRow
  <2>2. call' \in [Calls -> CallRow]
    BY <2>1, SendsCall DEF SendResult, CallSteps, ResultCall
  <2>3. worker' \in [WorkerIds -> WorkerRow]
    BY WorkerGoesOn DEF SendResult, WorkerSteps, RemoteInv, RemoteTyped
  <2> QED
    BY <2>2, <2>3 DEF RemoteTyped
<1>2. RequestInv' /\ FileMoves
  BY StutterKeeps DEF SendResult, RemoteInv
<1> QED
  BY <1>1, <1>2 DEF RemoteInv

\* The ownership test of a result.
LEMMA ResultCheckKeeps ==
    ASSUME RemoteInv, NEW c \in Calls, ResultCheck(c)
    PROVE  RemoteInv' /\ FileMoves
<1>1. RemoteTyped'
  BY OneCall, Answers, CallGoesOn DEF ResultCheck, CallSteps, ClaimCall, ProgressCall, ResultCall, FailureCall
<1>2. RequestInv' /\ FileMoves
  <2>1. Effect(Web, CJob(c))
    BY OneCall, GetJobEffect DEF ResultCheck
  <2>2. OthersTyped
    BY <2>1, OneCall, UnchangedTyped DEF ResultCheck, OthersTyped
  <2> QED
    BY <2>1, <2>2, ServerCallKeeps DEF ResultCheck
<1> QED
  BY <1>1, <1>2 DEF RemoteInv

\* The result is committed, or refused.
LEMMA ResultCommitKeeps ==
    ASSUME RemoteInv, NEW c \in Calls, NEW ok \in BOOLEAN, ResultCommit(c, ok)
    PROVE  RemoteInv' /\ FileMoves
<1>1. RemoteTyped'
  BY OneCall, Answers, CallGoesOn DEF ResultCommit, CallSteps, ClaimCall, ProgressCall, ResultCall, FailureCall
<1>2. RequestInv' /\ FileMoves
  <2>1. Effect(Web, CJob(c)) /\ reports' \subseteq Jobs \X Nat
    BY OneCall, FinalizeEffect DEF ResultCommit
  <2>2. OthersTyped
    BY <2>1, OneCall, UnchangedTyped DEF ResultCommit, OthersTyped
  <2> QED
    BY <2>1, <2>2, ServerCallKeeps DEF ResultCommit
<1> QED
  BY <1>1, <1>2 DEF RemoteInv

\* The archive is no good, or from outdated code.
LEMMA ResultRejectedKeeps ==
    ASSUME RemoteInv, NEW c \in Calls, ResultRejected(c)
    PROVE  RemoteInv' /\ FileMoves
<1>1. RemoteTyped'
  BY OneCall, Answers, CallGoesOn DEF ResultRejected, CallSteps, ClaimCall, ProgressCall, ResultCall, FailureCall
<1>2. RequestInv' /\ FileMoves
  BY StutterKeeps DEF ResultRejected, RemoteInv
<1> QED
  BY <1>1, <1>2 DEF RemoteInv

\* The result is saved in the account's history.
LEMMA ResultSaveKeeps ==
    ASSUME RemoteInv, NEW c \in Calls, NEW saves \in BOOLEAN, NEW writes \in BOOLEAN,
           ResultSave(c, saves, writes)
    PROVE  RemoteInv' /\ FileMoves
<1>1. RemoteTyped'
  BY OneCall, Answers, CallGoesOn DEF ResultSave, CallSteps, ClaimCall, ProgressCall, ResultCall, FailureCall
<1>2. RequestInv' /\ FileMoves
  <2>1. Effect(Web, CJob(c)) /\ history' \in [Jobs -> Nat]
    BY OneCall, PersistEffect DEF ResultSave
  <2>2. OthersTyped
    BY <2>1, OneCall, UnchangedTyped DEF ResultSave, OthersTyped
  <2> QED
    BY <2>1, <2>2, ServerCallKeeps DEF ResultSave
<1> QED
  BY <1>1, <1>2 DEF RemoteInv

\* A worker reports a failure.
LEMMA SendFailureKeeps ==
    ASSUME RemoteInv, NEW w \in WorkerIds, NEW c \in Calls, SendFailure(w, c)
    PROVE  RemoteInv' /\ FileMoves
<1>1. RemoteTyped'
  <2>1. worker[w].job \in Jobs
    BY DEF RemoteInv, RemoteTyped, WorkerRow
  <2>2. call' \in [Calls -> CallRow]
    BY <2>1, SendsCall DEF SendFailure, CallSteps, FailureCall
  <2>3. worker' \in [WorkerIds -> WorkerRow]
    BY WorkerGoesOn DEF SendFailure, WorkerSteps, RemoteInv, RemoteTyped
  <2> QED
    BY <2>2, <2>3 DEF RemoteTyped
<1>2. RequestInv' /\ FileMoves
  BY StutterKeeps DEF SendFailure, RemoteInv
<1> QED
  BY <1>1, <1>2 DEF RemoteInv

\* The ownership test of a failure report.
LEMMA FailureCheckKeepsAll ==
    ASSUME RemoteInv, NEW c \in Calls, FailureCheck(c)
    PROVE  RemoteInv' /\ FileMoves
<1>1. RemoteTyped'
  BY OneCall, Answers, CallGoesOn DEF FailureCheck, CallSteps, ClaimCall, ProgressCall, ResultCall, FailureCall
<1>2. RequestInv' /\ FileMoves
  <2>1. Effect(Web, CJob(c))
    BY OneCall, GetJobEffect DEF FailureCheck
  <2>2. OthersTyped
    BY <2>1, OneCall, UnchangedTyped DEF FailureCheck, OthersTyped
  <2> QED
    BY <2>1, <2>2, ServerCallKeeps DEF FailureCheck
<1> QED
  BY <1>1, <1>2 DEF RemoteInv

\* The reserved analysis is given back.
LEMMA FailureReleaseKeeps ==
    ASSUME RemoteInv, NEW c \in Calls, FailureRelease(c)
    PROVE  RemoteInv' /\ FileMoves
<1>1. RemoteTyped'
  BY OneCall, Answers, CallGoesOn DEF FailureRelease, CallSteps, ClaimCall, ProgressCall, ResultCall, FailureCall
<1>2. RequestInv' /\ FileMoves
  <2>1. Effect(Web, CJob(c))
    BY OneCall, NoEffect DEF FailureRelease
  <2>2. OthersTyped
    BY <2>1, OneCall, UnchangedTyped DEF FailureRelease, OthersTyped
  <2> QED
    BY <2>1, <2>2, ServerCallKeeps DEF FailureRelease
<1> QED
  BY <1>1, <1>2 DEF RemoteInv

\* The mark is cleared.
LEMMA FailureUnmarkKeeps ==
    ASSUME RemoteInv, NEW c \in Calls, NEW ok \in BOOLEAN, FailureUnmark(c, ok)
    PROVE  RemoteInv' /\ FileMoves
<1>1. RemoteTyped'
  BY OneCall, Answers, CallGoesOn DEF FailureUnmark, CallSteps, ClaimCall, ProgressCall, ResultCall, FailureCall
<1>2. RequestInv' /\ FileMoves
  <2>1. Effect(Web, CJob(c))
    BY OneCall, MarkEffect DEF FailureUnmark
  <2>2. OthersTyped
    BY <2>1, OneCall, UnchangedTyped DEF FailureUnmark, OthersTyped
  <2> QED
    BY <2>1, <2>2, ServerCallKeeps DEF FailureUnmark
<1> QED
  BY <1>1, <1>2 DEF RemoteInv

\* The run ends as failed, if it is still the worker's.
LEMMA FailureErrorKeeps ==
    ASSUME RemoteInv, NEW c \in Calls, NEW ok \in BOOLEAN, FailureError(c, ok)
    PROVE  RemoteInv' /\ FileMoves
<1>1. RemoteTyped'
  BY OneCall, Answers, CallGoesOn DEF FailureError, CallSteps, ClaimCall, ProgressCall, ResultCall, FailureCall
<1>2. RequestInv' /\ FileMoves
  <2> DEFINE s == OnDisk(CJob(c))
  <2>1. Effect(Web, CJob(c))
    <3>1. CASE OwnsRun(s, By(c), CRun(c))
      <4>1. GoodFor(CJob(c), file[CJob(c)]) /\ s = file[CJob(c)] /\ s # Absent
        BY <3>1, OneCall, ReadsAreGood, OwnerHoldsLease
      <4>2. GoodFor(CJob(c), Failed(s)) /\ SessionMoves(file[CJob(c)], Failed(s))
        BY <4>1, FailedIsGood DEF SessionMoves
      <4> QED
        BY <3>1, <4>2, OneCall, UpdateEffect DEF FailureError
    <3>2. CASE ~OwnsRun(s, By(c), CRun(c))
      BY <3>2, OneCall, ReadEffect DEF FailureError
    <3> QED
      BY <3>1, <3>2
  <2>2. OthersTyped
    BY OneCall, UnchangedTyped DEF FailureError, OthersTyped
  <2> QED
    BY <2>1, <2>2, ServerCallKeeps DEF FailureError
<1> QED
  BY <1>1, <1>2 DEF RemoteInv

\* A worker stops waiting for an answer.
LEMMA StopsWaitingKeeps ==
    ASSUME RemoteInv, NEW c \in Calls, StopsWaiting(c)
    PROVE  RemoteInv' /\ FileMoves
<1>1. RemoteTyped'
  <2>1. call' \in [Calls -> CallRow]
    BY DEF StopsWaiting, RemoteInv, RemoteTyped, CallRow
  <2>2. worker' \in [WorkerIds -> WorkerRow]
    <3>1. \/ WorkerGoto(By(c), "idle")
          \/ WorkerGoto(By(c), "failing")
          \/ UNCHANGED worker
      BY DEF StopsWaiting
    <3>2. By(c) \in WorkerIds /\ "idle" \in WorkerSteps /\ "failing" \in WorkerSteps
      BY OneCall DEF WorkerSteps
    <3> QED
      BY <3>1, <3>2, WorkerGoesOn DEF RemoteInv, RemoteTyped
  <2> QED
    BY <2>1, <2>2 DEF RemoteTyped
<1>2. RequestInv' /\ FileMoves
  BY StutterKeeps DEF StopsWaiting, RemoteInv
<1> QED
  BY <1>1, <1>2 DEF RemoteInv

\* A worker dies.
LEMMA WorkerDiesKeeps ==
    ASSUME RemoteInv, NEW w \in WorkerIds, WorkerDies(w)
    PROVE  RemoteInv' /\ FileMoves
<1>1. RemoteTyped'
  <2>1. worker' \in [WorkerIds -> WorkerRow]
    BY WorkerGoesOn DEF WorkerDies, WorkerSteps
  <2>2. call' \in [Calls -> CallRow]
    BY DEF WorkerDies, RemoteInv, RemoteTyped, CallRow
  <2> QED
    BY <2>1, <2>2 DEF RemoteTyped
<1>2. RequestInv' /\ FileMoves
  <2>1. RequestInv /\ StoreInv /\ Web \in Processes /\ UNCHANGED storeVars
    BY UnchangedTyped DEF WorkerDies, RemoteInv, storeVars
  <2>2. \E j \in Jobs : Effect(Web, j)
    BY <2>1, StoreAssumption, NoEffect DEF storeVars
  <2>3. OthersTyped /\ deleted' \subseteq Jobs /\ crashes' \in Nat /\ UNCHANGED <<req, created>>
    BY <2>1, UnchangedTyped DEF WorkerDies, OthersTyped
  <2> QED
    BY <2>1, <2>2, <2>3, CallKeeps DEF storeVars
<1> QED
  BY <1>1, <1>2 DEF RemoteInv

\* The web process dies with the handlers.
LEMMA RestartKeeps ==
    ASSUME RemoteInv, Restart
    PROVE  RemoteInv' /\ FileMoves
<1>1. RemoteTyped'
  <2>1. \A c \in Calls : NoCall(c) \in CallRow
    BY DEF NoCall, RemoteInv, RemoteTyped, CallRow, CallSteps, NoRun
  <2>2. \A w \in WorkerIds : /\ AtRest(w, "idle") \in WorkerRow
                             /\ [worker[w] EXCEPT !.at = "failing"] \in WorkerRow
                             /\ worker[w] \in WorkerRow
    BY DEF AtRest, RemoteInv, RemoteTyped, WorkerRow, WorkerSteps, NoRun
  <2> QED
    BY <2>1, <2>2 DEF Restart, RemoteTyped
<1>2. RequestInv' /\ FileMoves
  BY WebRestartsKeeps DEF Restart, RemoteInv
<1> QED
  BY <1>1, <1>2 DEF RemoteInv

-----------------------------------------------------------------------------

\* The invariant holds before any worker has called.
LEMMA RemoteInitGood == Init => RemoteInv
<1>1. PICK first \in Jobs, someone \in WorkerIds :
         first = (CHOOSE j \in Jobs : TRUE) /\ someone = (CHOOSE w \in WorkerIds : TRUE)
  BY StoreAssumption, RemoteAssumption
<1>2. /\ [at |-> "idle", job |-> first, run |-> NoRun, lost |-> FALSE] \in WorkerRow
      /\ [at |-> "free", by |-> someone, job |-> first, run |-> NoRun, waits |-> FALSE] \in CallRow
  BY DEF WorkerRow, CallRow, WorkerSteps, CallSteps, NoRun
<1>3. Init => RemoteTyped
  BY <1>1, <1>2 DEF Init, RemoteTyped
<1> QED
  BY <1>3, RequestInitGood DEF Init, RemoteInv

\* The induction step: every action keeps the invariant and moves the session
\* files as it may.
LEMMA RemoteStep ==
    ASSUME RemoteInv, [Next]_remoteVars
    PROVE  RemoteInv' /\ FileMoves
<1>1. CASE WebTurn
  <2>1. RemoteTyped'
    BY <1>1 DEF WebTurn, RemoteInv, RemoteTyped
  <2>2. RequestInv' /\ FileMoves
    BY <1>1, WebStepKeeps, QueueStepKeeps DEF WebTurn, RemoteInv
  <2> QED
    BY <2>1, <2>2 DEF RemoteInv
<1>3. ASSUME NEW c \in Calls, ServerTurn(c) PROVE RemoteInv' /\ FileMoves
  BY <1>3, ClaimMakeKeeps, ClaimDropKeeps, ProgressCheckKeeps, ResultCheckKeeps,
     ResultRejectedKeeps, FailureCheckKeepsAll, FailureReleaseKeeps, ClaimTakeKeeps,
     ProgressRenewKeeps, ResultCommitKeeps, FailureUnmarkKeeps, FailureErrorKeeps,
     ResultSaveKeeps DEF ServerTurn
<1>4. CASE Mishap
  BY <1>4, StopsWaitingKeeps, WorkerDiesKeeps, SendProgressKeeps, RestartKeeps DEF Mishap
<1>5. ASSUME NEW w \in WorkerIds, WorkerTurn(w) \/ AnalysisEnds(w)
      PROVE  RemoteInv' /\ FileMoves
  BY <1>5, AskForJobKeeps, SendFailureKeeps, WorkerMoves, SendResultKeeps
  DEF WorkerTurn, AnalysisEnds
<1>6. CASE UNCHANGED remoteVars
  BY <1>6, StutterKeeps DEF remoteVars, RemoteInv, RemoteTyped
<1> QED
  BY <1>1, <1>3, <1>4, <1>5, <1>6 DEF Next

\* No step leaves out what time does to a directory.
LEMMA RemoteAges ==
    ASSUME [Next]_remoteVars
    PROVE  Ages \/ UNCHANGED remoteVars
BY DEF Next, WebTurn, ServerTurn, WorkerTurn, AnalysisEnds, Mishap

\* The invariant holds in every reachable state.
THEOREM RemoteInvariant == Spec => []RemoteInv
<1>1. Init => RemoteInv
  BY RemoteInitGood
<1>2. RemoteInv /\ [Next]_remoteVars => RemoteInv'
  BY RemoteStep
<1> QED
  BY <1>1, <1>2, PTL DEF Spec

\* Type correctness of the remote deployment.
THEOREM RemoteTypes == Spec => []TypeOK
<1> DEFINE Known == retaken \subseteq Jobs /\ untouched \subseteq Jobs
<1>1. Init => RemoteInv /\ Known
  BY RemoteInitGood DEF Init, RequestInit
<1>2. RemoteInv /\ Known /\ [Next]_remoteVars => RemoteInv' /\ Known'
  <2> SUFFICES ASSUME RemoteInv, Known, [Next]_remoteVars PROVE RemoteInv' /\ Known'
    OBVIOUS
  <2>1. RemoteInv' /\ usage' \subseteq Jobs
    BY RemoteStep DEF RemoteInv, RequestInv, StoreInv, StoreTypeOK
  <2>2. retaken' = retaken \/ retaken' = retaken \cup Retakes
    BY DEF Next, WebTurn, ServerTurn, WorkerTurn, AnalysisEnds, Mishap, remoteVars
  <2>3. untouched' \subseteq Jobs
    BY RemoteAges DEF Ages, remoteVars
  <2> QED
    BY <2>1, <2>2, <2>3 DEF Retakes
<1>3. RemoteInv /\ Known => TypeOK
  BY DEF RemoteInv, RequestInv, RemoteTyped, WorkerRow, CallRow, TypeOK
<1> QED
  BY <1>1, <1>2, <1>3, PTL DEF Spec

\* A finished session names the artifacts of its own current generation.
THEOREM RemoteResults == Spec => []ResultIsCurrent
<1>1. RemoteInv => ResultIsCurrent
  BY RequestInvResult DEF RemoteInv
<1> QED
  BY <1>1, RemoteInvariant, PTL

\* Results are committed only under a live lease of their own generation
\* (finalize_job_from_worker).
THEOREM RemoteCommits == Spec => CommitsOnlyUnderALiveLease
<1> DEFINE Commit == \A j \in Jobs :
          file'[j].status = "complete" /\ file[j].status \notin {"complete", "absent"}
          => /\ file[j].status = "running" /\ file[j].lease = "live"
             /\ file'[j].run = file[j].run
<1>1. RemoteInv /\ [Next]_remoteVars => [Commit]_vars
  <2> SUFFICES ASSUME RemoteInv, [Next]_remoteVars PROVE Commit
    OBVIOUS
  <2> QED
    BY RemoteStep, MovesCommitUnderALease DEF RemoteInv
<1>2. CommitsOnlyUnderALiveLease <=> [][Commit]_vars
  BY DEF CommitsOnlyUnderALiveLease
<1> HIDE DEF Commit
<1> QED
  BY <1>1, <1>2, RemoteInvariant, PTL DEF Spec

\* The remote deployment implements ResultPromise under the mapping of
\* JobRequests.
THEOREM RemoteKeepsPromise == Spec => KeepsPromise
<1>1. Init => Promise!Init
  <2> SUFFICES ASSUME Init PROVE Promise!Init
    OBVIOUS
  <2>1. \A j \in Jobs : PhaseOf(file[j]) = "none" /\ file[j].run = 0
    BY DEF Init, RequestInit, StoreInit, PhaseOf, Absent, NoRun
  <2> QED
    BY <2>1 DEF Promise!Init, Init, RequestInit, StoreInit, NoRun
<1>2. RemoteInv /\ RemoteInv' /\ [Next]_remoteVars => [Promise!Next]_(Promise!vars)
  BY RemoteStep, MovesKeepPromise DEF RemoteInv
<1> QED
  BY <1>1, <1>2, RemoteInvariant, PTL DEF Spec, KeepsPromise, Promise!Spec
-----------------------------------------------------------------------------
(* Committed results stay.                                                 *)

\* A step that leaves every finished session of the run of call c finished, with
\* the same artifacts.
Spares(c) ==
    \A j \in Jobs : file[j].status = "complete" /\ file[j].run = CRun(c)
                    => file'[j].status = "complete" /\ file'[j].artifacts = file[j].artifacts

\* A finished session is read as it is, and no worker owns its run any more.
LEMMA CompleteIsSettled ==
    ASSUME NEW j \in Jobs, file[j].status = "complete"
    PROVE  /\ file[j] # Absent /\ OnDisk(j) = file[j] /\ Seen(Web, j) = file[j]
           /\ Base(Web, j) = file[j]
           /\ \A w, run : ~OwnsRun(OnDisk(j), w, run)
BY DEF OnDisk, Seen, Base, Recovered, Lapsed, OwnsRun, Absent

\* Reading a job leaves the finished sessions alone.
LEMMA ReadingSpares ==
    ASSUME RemoteInv, NEW c \in Calls,
           GetJob(Web, CJob(c)) \/ Refresh(CJob(c), OnDisk(CJob(c)))
    PROVE  Spares(c)
BY OneCall, CompleteIsSettled DEF GetJob, Refresh, Spares, StoreInv, StoreTypeOK

\* No step of a result or a failure call undoes what was committed for its run.
LEMMA HandlerSpares ==
    ASSUME RemoteInv, NEW c \in Calls, ServerTurn(c), call[c].at \in ResultCall \cup FailureCall
    PROVE  Spares(c)
<1> USE DEF ResultCall, FailureCall
<1>1. CASE ResultCheck(c) \/ FailureCheck(c)
  BY <1>1, ReadingSpares DEF ResultCheck, FailureCheck
<1>2. CASE ResultRejected(c) \/ FailureRelease(c)
  BY <1>2 DEF ResultRejected, FailureRelease, vars, Spares
<1>3. ASSUME NEW ok \in BOOLEAN, ResultCommit(c, ok) PROVE Spares(c)
  <2>1. CASE OwnsRun(OnDisk(CJob(c)), By(c), CRun(c))
    <3>1. file[CJob(c)].status # "complete"
      BY <2>1, OneCall, CompleteIsSettled
    <3> QED
      BY <1>3, <2>1, <3>1, OneCall DEF ResultCommit, FinalizeRun, WriteFile, Spares, StoreInv, StoreTypeOK
  <2>2. CASE ~OwnsRun(OnDisk(CJob(c)), By(c), CRun(c))
    BY <1>3, <2>2, ReadingSpares DEF ResultCommit, FinalizeRun
  <2> QED
    BY <2>1, <2>2
<1>4. ASSUME NEW saves \in BOOLEAN, NEW writes \in BOOLEAN, ResultSave(c, saves, writes)
      PROVE  Spares(c)
  <2> DEFINE new == [OnDisk(CJob(c)) EXCEPT !.saved = IF saves THEN "yes" ELSE "no"]
  <2>1. \/ UNCHANGED file
        \/ file' = [file EXCEPT ![CJob(c)] = new]
        \/ Refresh(CJob(c), OnDisk(CJob(c)))
    BY <1>4 DEF ResultSave, PersistRun
  <2>2. CASE UNCHANGED file
    BY <2>2 DEF Spares
  <2>3. CASE file' = [file EXCEPT ![CJob(c)] = new]
    <3>1. file[CJob(c)].status = "complete"
          => new.status = "complete" /\ new.artifacts = file[CJob(c)].artifacts
      BY OneCall, CompleteIsSettled DEF StoreInv, StoreTypeOK, Session
    <3> HIDE DEF new
    <3> QED
      BY <2>3, <3>1, OneCall DEF Spares, StoreInv, StoreTypeOK
  <2>4. CASE Refresh(CJob(c), OnDisk(CJob(c)))
    BY <2>4, ReadingSpares
  <2> QED
    BY <2>1, <2>2, <2>3, <2>4
<1>5. ASSUME NEW ok \in BOOLEAN, FailureUnmark(c, ok) PROVE Spares(c)
  <2> DEFINE new == [Base(Web, CJob(c)) EXCEPT !.reserved = FALSE]
  <2>1. UNCHANGED file \/ file' = [file EXCEPT ![CJob(c)] = new]
    BY <1>5 DEF FailureUnmark, PatchJob, UpdateJob, WriteFile
  <2>2. file[CJob(c)].status = "complete"
        => new.status = "complete" /\ new.artifacts = file[CJob(c)].artifacts
    BY OneCall, CompleteIsSettled DEF StoreInv, StoreTypeOK, Session
  <2> HIDE DEF new
  <2> QED
    BY <2>1, <2>2, OneCall DEF Spares, StoreInv, StoreTypeOK
<1>6. ASSUME NEW ok \in BOOLEAN, FailureError(c, ok) PROVE Spares(c)
  <2>1. CASE OwnsRun(OnDisk(CJob(c)), By(c), CRun(c))
    <3>1. file[CJob(c)].status # "complete"
      BY <2>1, OneCall, CompleteIsSettled
    <3> QED
      BY <1>6, <2>1, <3>1, OneCall DEF FailureError, UpdateJob, WriteFile, Spares, StoreInv, StoreTypeOK
  <2>2. CASE ~OwnsRun(OnDisk(CJob(c)), By(c), CRun(c))
    BY <1>6, <2>2, ReadingSpares DEF FailureError
  <2> QED
    BY <2>1, <2>2
<1>7. /\ ~ClaimMake(c) /\ ~ClaimDrop(c) /\ ~ProgressCheck(c)
      /\ \A ok \in BOOLEAN : ~ClaimTake(c, ok) /\ ~ProgressRenew(c, ok)
  BY DEF ClaimMake, ClaimDrop, ProgressCheck, ClaimTake, ProgressRenew
<1> QED
  BY <1>1, <1>2, <1>3, <1>4, <1>5, <1>6, <1>7 DEF ServerTurn

\* A handler moves no other handler's call.
LEMMA OneHandlerMoves ==
    ASSUME RemoteInv, NEW c \in Calls, NEW d \in Calls, c # d, ServerTurn(d)
    PROVE  call'[c] = call[c]
<1>1. \/ \E step : CallGoto(d, step)
      \/ \E w : Answer(d, w)
      \/ \E ok \in BOOLEAN : ClaimTake(d, ok)
  BY DEF ServerTurn, ClaimMake, ClaimDrop, ProgressCheck, ResultCheck, ResultRejected,
     FailureCheck, FailureRelease, ProgressRenew, ResultCommit, FailureUnmark, FailureError,
     ResultSave
<1> QED
  BY <1>1 DEF CallGoto, Answer, ClaimTake, RemoteInv, RemoteTyped

\* No handler of a result or a failure call undoes what was committed for its
\* run: a report of failure after a commit, a result posted again and a commit
\* that lost its run leave the finished session and its artifacts
\* (remote_worker_complete, remote_worker_failed).
THEOREM RemoteCommittedStays == Spec => CommittedStays
<1> DEFINE Stays == \A j \in Jobs, c \in Calls :
          call[c].at \in ResultCall \cup FailureCall /\ call'[c] # call[c]
          /\ file[j].status = "complete" /\ file[j].run = CRun(c)
          => file'[j].status = "complete" /\ file'[j].artifacts = file[j].artifacts
<1>1. RemoteInv /\ [Next]_remoteVars => [Stays]_remoteVars
  <2> SUFFICES ASSUME RemoteInv, [Next]_remoteVars,
                      NEW c \in Calls, call[c].at \in ResultCall \cup FailureCall,
                      call'[c] # call[c]
               PROVE  Spares(c)
    BY DEF Spares
  <2>1. CASE UNCHANGED remoteVars \/ WebTurn
    BY <2>1 DEF remoteVars, WebTurn
  <2>2. ASSUME NEW d \in Calls, ServerTurn(d) PROVE Spares(c)
    BY <2>2, HandlerSpares, OneHandlerMoves
  <2>3. ASSUME NEW w \in WorkerIds, WorkerTurn(w) \/ AnalysisEnds(w) PROVE Spares(c)
    BY <2>3 DEF WorkerTurn, AnalysisEnds, AskForJob, SendFailure, GiveUpRun, AnalysisFails,
       SendResult, vars, Spares
  <2>4. CASE Mishap
    BY <2>4 DEF Mishap, StopsWaiting, WorkerDies, SendProgress, Restart, WebRestarts, vars, Spares
  <2> QED
    BY <2>1, <2>2, <2>3, <2>4 DEF Next
<1>2. CommittedStays <=> [][Stays]_remoteVars
  BY DEF CommittedStays
<1> HIDE DEF Stays
<1> QED
  BY <1>1, <1>2, RemoteInvariant, PTL DEF Spec
-----------------------------------------------------------------------------
(* A failed analysis is given back.  The property is about the files; it   *)
(* is inductive together with the web process's copies, which a later      *)
(* write may bring back, and with the handlers that are between giving an  *)
(* analysis back and saying so, or between reserving one and queueing it.  *)

Unharmed == faults = 0 /\ crashes = 0

\* A handler is at one of these steps for job j.
AtStep(j, steps) == \E q \in Requests : req[q].job = j /\ req[q].at \in steps

\* The analysis of job j is reserved and its new generation not queued yet.
Taken(j) == AtStep(j, {"mark", "queue"})

\* What may yet be written back as job j's session.
Copies(j) == {file[j], mirror[Web][j]}

\* What the invariant says of a job whose analysis counts: every copy is marked
\* or a handler is about to mark it; nobody is about to clear the mark; no copy
\* has failed, and no call is about to fail one, unless the next generation is
\* under way.
Fine(j) ==
    /\ (\A s \in Copies(j) : s = Absent \/ s.reserved) \/ AtStep(j, {"mark"})
    /\ ~AtStep(j, {"unmark"})
    /\ \A c \in Calls : call[c].at = "unmark" => CJob(c) # j
    /\ (\A s \in Copies(j) : s.status # "error") \/ Taken(j)
    /\ \A c \in Calls : call[c].at = "error" /\ CJob(c) = j
                        => Taken(j) \/ \A s \in Copies(j) : s = Absent \/ s.run # CRun(c)

\* Visitors hold no analysis, failures are reported of generations that were
\* handed out, and nobody lists the jobs.
Orderly ==
    /\ \A j \in usage : HasAccount(j)
    /\ \A q \in Requests : /\ req[q].at \in {"reserve", "mark"} => HasAccount(req[q].job)
                           /\ req[q].at # "remember"
    /\ \A c \in Calls : call[c].at \in FailureCall \ {"failure"}
                        => CJob(c) \in created /\ CRun(c) <= lastRun

ChargeInv ==
    /\ RemoteInv /\ Orderly
    /\ Unharmed => \A j \in usage \ retaken : Fine(j)

\* Session s continues a copy of job j: the same generation and mark, and failed
\* only if that copy is, or the next generation is under way.
Stems(j, s) ==
    \/ s = Absent
    \/ \E t \in Copies(j) : /\ t # Absent
                            /\ s.reserved = t.reserved /\ s.run = t.run
                            /\ s.status = "error" => t.status = "error" \/ Taken(j)

AllStem == \A j \in Jobs : Stems(j, file'[j]) /\ Stems(j, mirror'[Web][j])

\* No handler of job j leaves the steps between reserving and queueing, or comes
\* to clear the mark.
HandlersStay(j) ==
    \A q \in Requests :
        /\ req[q].job = j /\ req[q].at \in {"mark", "queue"}
           => req'[q].job = j /\ req'[q].at = req[q].at
        /\ req'[q].job = j /\ req'[q].at = "unmark"
           => req[q].job = j /\ req[q].at = "unmark"

\* No call comes to clear the mark of job j, or to fail its run while it counts.
CallsStay(j) ==
    \A c \in Calls :
        /\ call'[c].job = j /\ call'[c].at = "unmark"
           => call[c].job = j /\ call[c].at = "unmark"
        /\ call'[c].job = j /\ call'[c].at = "error"
           => \/ call[c].job = j /\ call[c].at = "error" /\ call[c].run = call'[c].run
              \/ Taken(j)

\* Such a step keeps the job as it should be.
LEMMA FineStays ==
    ASSUME NEW j \in Jobs, Fine(j), Stems(j, file'[j]), Stems(j, mirror'[Web][j]),
           HandlersStay(j), CallsStay(j)
    PROVE  Fine(j)'
<1>1. /\ AtStep(j, {"mark"}) => AtStep(j, {"mark"})'
      /\ Taken(j) => Taken(j)'
      /\ ~AtStep(j, {"unmark"})'
  BY DEF HandlersStay, AtStep, Taken, Fine
<1>2. \A c \in Calls : call'[c].at = "unmark" => call'[c].job # j
  BY DEF CallsStay, Fine, CJob
<1> DEFINE New == {file'[j], mirror'[Web][j]}
           Old == Copies(j)
<1>3. ASSUME NEW s \in New, s # Absent
      PROVE  \E t \in Old : /\ t # Absent
                            /\ s.reserved = t.reserved /\ s.run = t.run
                            /\ s.status = "error" => t.status = "error" \/ Taken(j)
  BY <1>3 DEF Stems
<1> HIDE DEF New, Old
<1>4. (\A s \in New : s = Absent \/ s.reserved) \/ AtStep(j, {"mark"})'
  <2> SUFFICES ASSUME ~AtStep(j, {"mark"}), NEW s \in New, s # Absent PROVE s.reserved
    BY <1>1
  <2>1. PICK t \in Old : t # Absent /\ s.reserved = t.reserved
    BY <1>3
  <2>2. t.reserved
    BY <2>1 DEF Fine, Old
  <2> QED
    BY <2>1, <2>2
<1>5. (\A s \in New : s.status # "error") \/ Taken(j)'
  <2> SUFFICES ASSUME ~Taken(j), NEW s \in New, s.status = "error" PROVE FALSE
    BY <1>1
  <2>1. s # Absent
    BY DEF Absent
  <2>2. PICK t \in Old : t.status = "error"
    BY <1>3, <2>1
  <2> QED
    BY <2>2 DEF Fine, Old
<1>6. ASSUME NEW c \in Calls, call'[c].at = "error", call'[c].job = j
      PROVE  Taken(j)' \/ \A s \in New : s = Absent \/ s.run # call'[c].run
  <2> SUFFICES ASSUME ~Taken(j), NEW s \in New, s # Absent PROVE s.run # call'[c].run
    BY <1>1
  <2>1. call[c].job = j /\ call[c].at = "error" /\ call[c].run = call'[c].run
    BY <1>6 DEF CallsStay
  <2>2. PICK t \in Old : t # Absent /\ s.run = t.run
    BY <1>3
  <2>3. t.run # call[c].run
    BY <2>1, <2>2 DEF Fine, Old, CJob, CRun
  <2> QED
    BY <2>1, <2>2, <2>3
<1> QED
  BY <1>1, <1>2, <1>4, <1>5, <1>6 DEF Fine, Copies, CJob, CRun, New

\* The steps between which handlers and calls do nothing to the point here.
LEMMA NobodyMoves ==
    ASSUME NEW j \in Jobs
    PROVE  /\ UNCHANGED req => HandlersStay(j)
           /\ UNCHANGED call => CallsStay(j)
BY DEF HandlersStay, CallsStay

-----------------------------------------------------------------------------
(* The calls of the store.                                                 *)

\* A step of one job whose new file and copy continue the old ones.
LEMMA OneJobStems ==
    ASSUME StoreInv, NEW j \in Jobs, NEW s, NEW t, Stems(j, s), Stems(j, t),
           file' = file \/ file' = [file EXCEPT ![j] = s],
           mirror' = mirror \/ mirror' = [mirror EXCEPT ![Web][j] = t]
    PROVE  AllStem
<1>1. /\ file \in [Jobs -> Session] /\ mirror \in [Processes -> [Jobs -> Session]]
      /\ Web \in Processes
  BY StoreAssumption DEF StoreInv, StoreTypeOK
<1>2. \A i \in Jobs : Stems(i, file[i]) /\ Stems(i, mirror[Web][i])
  BY DEF Stems, Copies
<1>3. \A i \in Jobs : /\ file'[i] = file[i] \/ (i = j /\ file'[i] = s)
                      /\ mirror'[Web][i] = mirror[Web][i] \/ (i = j /\ mirror'[Web][i] = t)
  BY <1>1
<1> QED
  BY <1>2, <1>3 DEF AllStem

\* A step that leaves files and copies alone.
LEMMA UnchangedStems ==
    ASSUME UNCHANGED <<file, mirror>>
    PROVE  AllStem
BY DEF AllStem, Stems, Copies

\* A job's old copies, and nothing, continue it.
LEMMA OldStems ==
    ASSUME NEW j \in Jobs
    PROVE  Stems(j, Absent) /\ Stems(j, file[j]) /\ Stems(j, mirror[Web][j])
BY DEF Stems, Copies

\* What is read of a copy.
LEMMA RecoveredStems ==
    ASSUME NEW j \in Jobs, NEW s \in Session, NEW b \in BOOLEAN, Stems(j, s)
    PROVE  Stems(j, Recovered(s, b))
<1>1. CASE Lapsed(s, b)
  <2>1. s # Absent /\ Recovered(s, b) = Interrupted(s)
    BY <1>1 DEF Lapsed, Absent, Recovered
  <2>2. /\ Interrupted(s).reserved = s.reserved /\ Interrupted(s).run = s.run
        /\ Interrupted(s).status = "interrupted"
    BY DEF Interrupted, Session
  <2> QED
    BY <2>1, <2>2 DEF Stems
<1>2. CASE ~Lapsed(s, b)
  BY <1>2 DEF Recovered
<1> QED
  BY <1>1, <1>2

LEMMA ReadsStem ==
    ASSUME StoreInv, NEW j \in Jobs
    PROVE  /\ Stems(j, OnDisk(j)) /\ Stems(j, Seen(Web, j)) /\ Stems(j, Base(Web, j))
           /\ OnDisk(j) \in Session /\ Seen(Web, j) \in Session /\ Base(Web, j) \in Session
<1>1. /\ file[j] \in Session /\ mirror[Web][j] \in Session
      /\ Stems(j, file[j]) /\ Stems(j, mirror[Web][j])
  BY StoreAssumption, OldStems DEF StoreInv, StoreTypeOK
<1>2. \A b \in BOOLEAN : Stems(j, Recovered(file[j], b))
  BY <1>1, RecoveredStems
<1>3. /\ OnDisk(j) \in Session /\ Seen(Web, j) \in Session /\ Base(Web, j) \in Session
  BY StoreAssumption, ReadsAreGood DEF GoodFor
<1>4. (mirror[Web][j] = Absent) \in BOOLEAN
  OBVIOUS
<1> QED
  BY <1>1, <1>2, <1>3, <1>4 DEF OnDisk, Seen, Base

\* The sessions the calls write continue the ones they start from.
LEMMA WritesStem ==
    ASSUME NEW j \in Jobs, NEW s \in Session, s # Absent, Stems(j, s)
    PROVE  /\ s.status # "error" => /\ Stems(j, Renewed(s))
                                    /\ \A w \in WorkerIds : Stems(j, Started(s, w))
                                    /\ Stems(j, Completed(j, s))
                                    /\ \A v \in {"yes", "no"} : Stems(j, [s EXCEPT !.saved = v])
           /\ Taken(j) => Stems(j, Failed(s))
<1>1. /\ Renewed(s).reserved = s.reserved /\ Renewed(s).run = s.run /\ Renewed(s).status = s.status
      /\ \A w \in WorkerIds : /\ Started(s, w).reserved = s.reserved /\ Started(s, w).run = s.run
                              /\ Started(s, w).status = "running"
      /\ Completed(j, s).reserved = s.reserved /\ Completed(j, s).run = s.run
      /\ Completed(j, s).status = "complete"
      /\ Failed(s).reserved = s.reserved /\ Failed(s).run = s.run
      /\ \A v \in {"yes", "no"} : /\ [s EXCEPT !.saved = v].reserved = s.reserved
                                  /\ [s EXCEPT !.saved = v].run = s.run
                                  /\ [s EXCEPT !.saved = v].status = s.status
  BY DEF Renewed, Started, Completed, Failed, Session
<1>2. \A u : /\ u.reserved = s.reserved /\ u.run = s.run
             /\ u.status = "error" => s.status = "error" \/ Taken(j)
             => Stems(j, u)
  BY DEF Stems
<1> QED
  BY <1>1, <1>2

-----------------------------------------------------------------------------
(* get_job, the fenced calls, and the others, when nothing fails.          *)

\* get_job.
LEMMA GetJobStems ==
    ASSUME StoreInv, NEW j \in Jobs, GetJob(Web, j)
    PROVE  faults' = faults /\ AllStem
BY ReadsStem, OneJobStems DEF GetJob, Refresh, Remember

\* A read of the file alone.
LEMMA ReadStems ==
    ASSUME StoreInv, NEW j \in Jobs, Refresh(j, OnDisk(j)), UNCHANGED mirror
    PROVE  faults' = faults /\ AllStem
BY ReadsStem, OneJobStems DEF Refresh

\* A session written to the file, and perhaps to the copy.
LEMMA WriteStems ==
    ASSUME StoreInv, NEW j \in Jobs, NEW s, NEW ok, WriteFile(j, s, ok), Stems(j, s),
           UNCHANGED mirror \/ Remember(Web, j, s), faults' = 0
    PROVE  faults = 0 /\ AllStem
<1>1. faults = 0
  BY DEF WriteFile, StoreInv, StoreTypeOK
<1>2. file' = file \/ file' = [file EXCEPT ![j] = s]
  BY DEF WriteFile
<1> QED
  BY <1>1, <1>2, OneJobStems DEF Remember

\* update_job with a patch of nothing that matters here.
LEMMA PatchStems ==
    ASSUME StoreInv, NEW j \in Jobs, NEW ok, PatchJob(Web, j, Base(Web, j), ok), faults' = 0
    PROVE  faults = 0 /\ AllStem
BY ReadsStem, WriteStems, UnchangedStems DEF PatchJob, UpdateJob

\* A progress report.
LEMMA RenewStems ==
    ASSUME StoreInv, NEW j \in Jobs, NEW w \in WorkerIds, NEW run, NEW ok,
           RenewRun(Web, j, w, run, ok), faults' = 0
    PROVE  faults = 0 /\ AllStem
<1>1. CASE OwnsRun(OnDisk(j), w, run)
  <2>1. OnDisk(j) # Absent /\ OnDisk(j).status # "error"
    BY <1>1 DEF OwnsRun, Absent
  <2>2. Stems(j, Renewed(OnDisk(j)))
    BY <2>1, ReadsStem, WritesStem
  <2> QED
    BY <1>1, <2>2, WriteStems DEF RenewRun, UpdateJob
<1>2. CASE ~OwnsRun(OnDisk(j), w, run)
  BY <1>2, ReadStems DEF RenewRun
<1> QED
  BY <1>1, <1>2

\* A result.
LEMMA FinalizeStems ==
    ASSUME StoreInv, NEW j \in Jobs, NEW w \in WorkerIds, NEW run, NEW ok,
           FinalizeRun(Web, j, w, run, ok), faults' = 0
    PROVE  faults = 0 /\ AllStem
<1>1. CASE OwnsRun(OnDisk(j), w, run)
  <2>1. OnDisk(j) # Absent /\ OnDisk(j).status # "error"
    BY <1>1 DEF OwnsRun, Absent
  <2>2. Stems(j, Completed(j, OnDisk(j)))
    BY <2>1, ReadsStem, WritesStem
  <2> QED
    BY <1>1, <2>2, WriteStems DEF FinalizeRun
<1>2. CASE ~OwnsRun(OnDisk(j), w, run)
  BY <1>2, ReadStems DEF FinalizeRun
<1> QED
  BY <1>1, <1>2

\* persist_completed_job.
LEMMA PersistStems ==
    ASSUME StoreInv, NEW j \in Jobs, NEW run, NEW saves \in BOOLEAN, NEW writes \in BOOLEAN,
           PersistRun(Web, j, run, saves, writes), faults' = 0
    PROVE  faults = 0 /\ AllStem
<1> DEFINE s == OnDisk(j)
           due == /\ s.status = "complete" /\ s.artifacts = run
                  /\ HasAccount(j) /\ s.saved # "yes"
           new == [s EXCEPT !.saved = IF saves THEN "yes" ELSE "no"]
<1>1. CASE ~due
  <2>1. Refresh(j, OnDisk(j)) /\ UNCHANGED mirror
    BY <1>1 DEF PersistRun
  <2> QED
    BY <2>1, ReadStems
<1>2. CASE due
  <2>1. Stems(j, new)
    <3>1. s # Absent /\ s.status # "error"
      BY <1>2 DEF Absent
    <3> QED
      BY <3>1, ReadsStem, WritesStem
  <2>2. /\ file' = file \/ file' = [file EXCEPT ![j] = new]
        /\ mirror' = mirror \/ mirror' = [mirror EXCEPT ![Web][j] = new]
        /\ faults' = faults \/ faults' = faults + 1
    BY <1>2 DEF PersistRun, Remember
  <2>3. faults = 0
    BY <2>2 DEF StoreInv, StoreTypeOK
  <2> HIDE DEF new
  <2> QED
    BY <2>1, <2>2, <2>3, OneJobStems
<1> QED
  BY <1>1, <1>2

\* The file, or the copy, goes.
LEMMA GoneStems ==
    ASSUME StoreInv, NEW j \in Jobs,
           \/ file' = [file EXCEPT ![j] = Absent] /\ UNCHANGED mirror
           \/ Remember(Web, j, Absent) /\ UNCHANGED file
    PROVE  AllStem
BY OldStems, OneJobStems DEF Remember
-----------------------------------------------------------------------------
(* The steps.                                                              *)

\* What the induction step has to show of a step, but for Orderly.
Kept == Unharmed' => \A j \in usage' \ retaken' : Fine(j)'

\* A step that does nothing to the point.
Calm ==
    /\ Unharmed /\ AllStem /\ usage' \subseteq usage
    /\ \A j \in Jobs : HandlersStay(j) /\ CallsStay(j)

LEMMA ChargeFacts ==
    ASSUME ChargeInv
    PROVE  /\ RequestInv /\ StoreInv /\ usage \subseteq Jobs /\ faults \in Nat /\ crashes \in Nat
           /\ \A q \in Requests : req[q].job \in Jobs /\ req[q].at # "remember"
           /\ \A c \in Calls : CJob(c) \in Jobs
           /\ Unharmed => \A j \in usage \ retaken : j \in Jobs /\ Fine(j)
BY UnchangedTyped, OneCall DEF ChargeInv, RemoteInv, Orderly

LEMMA CalmKeeps ==
    ASSUME ChargeInv, Unharmed' => Calm, retaken \subseteq retaken'
    PROVE  Kept
<1> SUFFICES ASSUME Unharmed', NEW j \in usage', j \notin retaken' PROVE Fine(j)'
  BY DEF Kept
<1>1. j \in Jobs /\ Fine(j)
  BY ChargeFacts DEF Calm
<1> QED
  BY <1>1, FineStays DEF Calm, AllStem

\* A handler that goes on does nothing to another job, nor to its own unless it
\* leaves the steps between reserving and queueing or comes to clear the mark.
LEMMA HandlerGoes ==
    ASSUME ChargeInv, NEW q \in Requests, NEW step,
           Goto(q, step) \/ Done(q) \/ \E j, s : req[q].at = "idle" /\ Begin(q, step, j, s),
           NEW i \in Jobs,
           \/ i # req[q].job /\ req[q].at # "idle"
           \/ req[q].at \notin {"mark", "queue"} /\ step # "unmark"
    PROVE  HandlersStay(i)
<1>1. req \in [Requests -> [at : Steps, job : Jobs, seen : Session]]
  BY ChargeFacts DEF RequestInv, RequestTypeOK
<1>2. \A r \in Requests \ {q} : req'[r] = req[r]
  BY <1>1 DEF Goto, Done, Begin
<1>3. /\ req[q].at # "idle" => req'[q].job = req[q].job
      /\ req'[q].at = step \/ req'[q].at = "idle"
  BY <1>1 DEF Goto, Done, Begin, Idle
<1> QED
  BY <1>2, <1>3 DEF HandlersStay

\* So for a call and the steps at which it clears a mark or fails a run.
LEMMA CallMoves ==
    ASSUME ChargeInv, NEW c \in Calls, NEW step, CallGoto(c, step), NEW i \in Jobs,
           \/ i # CJob(c)
           \/ step \notin {"unmark", "error"}
           \/ step = "error" /\ Taken(i)
    PROVE  CallsStay(i)
<1>1. call \in [Calls -> CallRow]
  BY DEF ChargeInv, RemoteInv, RemoteTyped
<1>2. \A d \in Calls \ {c} : call'[d] = call[d]
  BY <1>1 DEF CallGoto
<1>3. call'[c].at = step /\ call'[c].job = CJob(c)
  BY <1>1 DEF CallGoto, CallRow, CJob
<1> QED
  BY <1>2, <1>3 DEF CallsStay

LEMMA CallEnds ==
    ASSUME ChargeInv, NEW c \in Calls, NEW w, Answer(c, w)
    PROVE  \A i \in Jobs : CallsStay(i)
<1>1. call \in [Calls -> CallRow]
  BY DEF ChargeInv, RemoteInv, RemoteTyped
<1>2. call'[c].at = "free" /\ \A d \in Calls \ {c} : call'[d] = call[d]
  BY <1>1 DEF Answer, NoCall
<1> QED
  BY <1>2 DEF CallsStay

-----------------------------------------------------------------------------
(* The web process.                                                        *)

\* A handler that is not at one of the steps about the analysis.
LEMMA HandlerIsCalm ==
    ASSUME ChargeInv, NEW q \in Requests, NEW ok \in BOOLEAN, HandlerStep(q, ok), Unharmed',
           UNCHANGED call, req[q].at \notin {"reserve", "mark", "unreserve", "unmark"}
    PROVE  Calm
<1> DEFINE j == req[q].job
<1>0. /\ RequestInv /\ StoreInv /\ j \in Jobs /\ faults \in Nat /\ crashes \in Nat
      /\ faults' = 0 /\ crashes' = 0 /\ req[q].at # "remember"
  BY ChargeFacts DEF Unharmed
<1>1. /\ crashes' = crashes /\ usage' \subseteq usage
      /\ req[q].at \notin {"idle", "mark", "queue"}
      /\ \E step : step # "unmark" /\ (Goto(q, step) \/ Done(q))
  <2>1. \A s : AfterTrim(j, s) # "unmark"
    BY DEF AfterTrim
  <2> QED
    BY <1>0, <2>1 DEF HandlerStep, StartTrim, StartReserve, StartMark, StartUndo, StartUnreserve,
       StartUnmark, Patch, CancelUnlink, CancelForget, CancelRelease, CancelWipe, SweepFiles,
       SweepRelease, SweepUnlink, SweepForget, DeleteFiles, ListRemember, Unlink
<1>2. \A i \in Jobs : HandlersStay(i) /\ CallsStay(i)
  BY <1>1, HandlerGoes, NobodyMoves
<1>3. CASE StartTrim(q, ok) \/ Patch(q, ok)
  BY <1>0, <1>1, <1>2, <1>3, PatchStems DEF StartTrim, Patch, Calm, Unharmed
<1>4. CASE StartUndo(q)
  BY <1>0, <1>1, <1>2, <1>4, GetJobStems DEF StartUndo, Calm, Unharmed
<1>5. CASE CancelRelease(q) \/ SweepRelease(q)
  BY <1>0, <1>1, <1>2, <1>5, UnchangedStems DEF CancelRelease, SweepRelease, Calm, Unharmed
<1>6. CASE \/ CancelUnlink(q) \/ SweepUnlink(q) \/ CancelWipe(q) \/ DeleteFiles(q)
           \/ SweepFiles(q) \/ CancelForget(q) \/ SweepForget(q)
  <2>1. /\ faults' = faults
        /\ \/ file' = [file EXCEPT ![j] = Absent] /\ UNCHANGED mirror
           \/ Remember(Web, j, Absent) /\ UNCHANGED file
           \/ UNCHANGED <<file, mirror>>
    BY <1>6 DEF CancelUnlink, SweepUnlink, Unlink, CancelWipe, DeleteFiles, SweepFiles, WipeFolder,
       CancelForget, SweepForget, Forget
  <2> QED
    BY <1>0, <1>1, <1>2, <2>1, GoneStems, UnchangedStems DEF Calm, Unharmed
<1> QED
  BY <1>0, <1>3, <1>4, <1>5, <1>6
  DEF HandlerStep, StartReserve, StartMark, StartUnreserve, StartUnmark, ListRemember

\* A request that arrives.
LEMMA ArrivalIsCalm ==
    ASSUME ChargeInv, NEW q \in Requests, NEW j \in Jobs, Arrival(q, j), Unharmed',
           UNCHANGED call, "list" \notin RequestKinds
    PROVE  Calm
<1>1. ~ListRead(q, j)
  BY DEF ListRead, Free
<1>2. /\ req[q].at = "idle" /\ \E step, s : step # "unmark" /\ Begin(q, step, j, s)
      /\ GetJob(Web, j) \/ UNCHANGED <<file, mirror, faults>>
      /\ crashes' = crashes /\ usage' = usage
  BY <1>1 DEF Arrival, StartRead, RestartRead, CancelRead, SweepRead, EditRead, DeleteRead,
     Free, AfterTrim
<1>3. \A i \in Jobs : HandlersStay(i) /\ CallsStay(i)
  BY <1>2, HandlerGoes, NobodyMoves
<1>4. faults' = faults /\ AllStem
  BY <1>2, ChargeFacts, GetJobStems, UnchangedStems
<1> QED
  BY <1>2, <1>3, <1>4 DEF Calm, Unharmed

\* A page, and the clock.
LEMMA PageIsCalm ==
    ASSUME ChargeInv, NEW j \in Jobs, UNCHANGED call, Unharmed',
           PageRead(j) \/ (LeaseExpires(j) /\ UNCHANGED requestVars)
    PROVE  Calm
<1>0. StoreInv /\ faults' = 0
  BY ChargeFacts DEF Unharmed
<1>1. UNCHANGED <<req, crashes, usage>>
  BY DEF PageRead, Poll, ViewResult, LeaseExpires, requestVars
<1>2. ASSUME Poll(j) PROVE faults = 0 /\ AllStem
  BY <1>0, <1>2, GetJobStems DEF Poll
<1>3. ASSUME NEW saves \in BOOLEAN, NEW writes \in BOOLEAN, ViewResult(j, saves, writes)
      PROVE  faults = 0 /\ AllStem
  BY <1>0, <1>3, PersistStems DEF ViewResult
<1>4. ASSUME LeaseExpires(j) PROVE faults = 0 /\ AllStem
  <2> DEFINE s == [file[j] EXCEPT !.lease = "expired"]
  <2>1. file[j] \in Session /\ Stems(j, file[j]) /\ file[j] # Absent
    BY <1>0, <1>4, OldStems DEF StoreInv, StoreTypeOK, LeaseExpires, Absent
  <2>2. s.reserved = file[j].reserved /\ s.run = file[j].run /\ s.status = file[j].status
    BY <2>1 DEF Session
  <2>3. Stems(j, s)
    BY <2>1, <2>2 DEF Stems
  <2>4. file' = [file EXCEPT ![j] = s] /\ UNCHANGED <<mirror, faults>>
    BY <1>4 DEF LeaseExpires
  <2> HIDE DEF s
  <2> QED
    BY <1>0, <2>1, <2>3, <2>4, OneJobStems
<1>5. faults = 0 /\ AllStem
  BY <1>0, <1>2, <1>3, <1>4 DEF PageRead
<1> QED
  BY <1>1, <1>5, NobodyMoves DEF Calm, Unharmed

\* A fight is uploaded.
LEMMA CreateKeepsFine ==
    ASSUME ChargeInv, NEW j \in Jobs, NEW ok \in BOOLEAN, CreateJob(j, ok),
           retaken' = retaken \cup Retakes, UNCHANGED call
    PROVE  Kept
<1> SUFFICES ASSUME Unharmed', NEW i \in usage', i \notin retaken' PROVE Fine(i)'
  BY DEF Kept
<1>0. /\ StoreInv /\ faults \in Nat /\ faults' = 0 /\ crashes' = 0 /\ i \notin retaken
      /\ i \notin Retakes /\ UNCHANGED req
  BY ChargeFacts DEF CreateJob, Unharmed
<1>1. Unharmed /\ ok
  BY <1>0 DEF CreateJob, MayFail, Unharmed
<1>2. /\ file' = [file EXCEPT ![j] = NewSession]
      /\ mirror' = [mirror EXCEPT ![Web][j] = NewSession]
      /\ i \in usage \/ i = j
  BY <1>1 DEF CreateJob, Remember
<1>3. /\ file \in [Jobs -> Session] /\ mirror \in [Processes -> [Jobs -> Session]]
      /\ Web \in Processes
  BY <1>0, StoreAssumption DEF StoreInv, StoreTypeOK
<1>4. CASE i # j
  <2>1. i \in Jobs /\ Fine(i) /\ Stems(i, file[i]) /\ Stems(i, mirror[Web][i])
    BY <1>0, <1>1, <1>2, <1>4, ChargeFacts, OldStems
  <2>2. file'[i] = file[i] /\ mirror'[Web][i] = mirror[Web][i]
    BY <1>2, <1>3, <1>4, <2>1
  <2> QED
    BY <1>0, <2>1, <2>2, FineStays, NobodyMoves
<1>5. CASE i = j
  <2>1. file'[i] = NewSession /\ mirror'[Web][i] = NewSession
    BY <1>2, <1>3, <1>5
  <2>2. NewSession.reserved /\ NewSession.status # "error"
    BY DEF NewSession, Absent
  <2>3. ~AtStep(i, {"unmark"}) /\ \A c \in Calls : call[c].at = "unmark" => CJob(c) # i
    <3>1. CASE i \in usage
      BY <1>0, <1>1, <3>1, ChargeFacts DEF Fine
    <3>2. CASE i \notin usage
      BY <1>0, <3>2 DEF Retakes, AtStep
    <3> QED
      BY <3>1, <3>2
  <2>4. \A c \in Calls : call[c].at = "error" => CJob(c) # i
    BY <1>5 DEF ChargeInv, Orderly, FailureCall, CreateJob
  <2> QED
    BY <1>0, <2>1, <2>2, <2>3, <2>4 DEF Fine, Copies, AtStep, Taken, CJob, CRun
<1> QED
  BY <1>4, <1>5

\* An analysis is reserved.
LEMMA ReserveKeepsFine ==
    ASSUME ChargeInv, NEW q \in Requests, StartReserve(q),
           retaken' = retaken \cup Retakes, UNCHANGED call
    PROVE  Kept
<1> DEFINE j == req[q].job
<1> SUFFICES ASSUME Unharmed', NEW i \in usage', i \notin retaken' PROVE Fine(i)'
  BY DEF Kept
<1>0. /\ i \notin retaken /\ i \notin Retakes /\ Unharmed /\ AllStem
      /\ req \in [Requests -> [at : Steps, job : Jobs, seen : Session]]
      /\ i \in usage \/ i = j
  BY ChargeFacts, UnchangedStems DEF StartReserve, Unharmed, RequestInv, RequestTypeOK
<1>1. \/ usage' = usage \cup {j} /\ Goto(q, "mark")
      \/ usage' = usage /\ Done(q)
  BY DEF StartReserve
<1>2. CASE usage' = usage \/ i # j
  <2>1. i \in Jobs /\ Fine(i)
    BY <1>0, <1>2, ChargeFacts
  <2>2. HandlersStay(i)
    BY <1>1, <2>1, HandlerGoes DEF StartReserve
  <2> QED
    BY <1>0, <2>1, <2>2, FineStays, NobodyMoves DEF AllStem
<1>3. CASE i = j /\ Goto(q, "mark")
  <2>1. AtStep(i, {"mark"})' /\ Taken(i)'
    BY <1>0, <1>3 DEF Goto, AtStep, Taken
  <2>2. ~AtStep(i, {"unmark"}) /\ \A c \in Calls : call[c].at = "unmark" => CJob(c) # i
    <3>1. CASE i \in usage
      BY <1>0, <3>1, ChargeFacts DEF Fine
    <3>2. CASE i \notin usage
      BY <1>0, <3>2 DEF Retakes, AtStep
    <3> QED
      BY <3>1, <3>2
  <2>3. ~AtStep(i, {"unmark"})'
    BY <1>0, <1>3, <2>2 DEF Goto, AtStep
  <2> QED
    BY <2>1, <2>2, <2>3 DEF Fine, CJob, CRun
<1> QED
  BY <1>1, <1>2, <1>3

\* The reservation is marked.
LEMMA MarkKeepsFine ==
    ASSUME ChargeInv, NEW q \in Requests, NEW ok \in BOOLEAN, StartMark(q, ok),
           retaken \subseteq retaken', UNCHANGED call
    PROVE  Kept
<1> DEFINE j == req[q].job
           s == [Base(Web, j) EXCEPT !.reserved = TRUE]
<1> SUFFICES ASSUME Unharmed', NEW i \in usage', i \notin retaken' PROVE Fine(i)'
  BY DEF Kept
<1>0. /\ StoreInv /\ j \in Jobs /\ i \in usage /\ i \notin retaken /\ faults' = 0 /\ crashes = 0
      /\ req \in [Requests -> [at : Steps, job : Jobs, seen : Session]]
      /\ req[q].at = "mark" /\ Goto(q, "queue") /\ faults \in Nat
      /\ PatchJob(Web, j, s, ok)
  BY ChargeFacts DEF StartMark, Unharmed, RequestInv, RequestTypeOK
<1>1. /\ file \in [Jobs -> Session] /\ mirror \in [Processes -> [Jobs -> Session]]
      /\ Web \in Processes
  BY <1>0, StoreAssumption DEF StoreInv, StoreTypeOK
<1>2. s.reserved /\ (s.status = "error" => Base(Web, j).status = "error")
  BY <1>0, ReadsStem DEF Session
<1> HIDE DEF s
<1>3. \/ Base(Web, j) = Absent /\ UNCHANGED <<file, mirror, faults>>
      \/ file' = [file EXCEPT ![j] = s] /\ mirror' = [mirror EXCEPT ![Web][j] = s] /\ faults = 0
  BY <1>0 DEF PatchJob, UpdateJob, WriteFile, Remember
<1>4. faults = 0
  BY <1>0, <1>3
<1>5. i \in Jobs /\ Fine(i)
  BY <1>0, <1>4, ChargeFacts DEF Unharmed
<1>6. CASE i # j
  <2>1. file'[i] = file[i] /\ mirror'[Web][i] = mirror[Web][i]
    BY <1>1, <1>3, <1>5, <1>6
  <2>2. HandlersStay(i)
    BY <1>0, <1>5, <1>6, HandlerGoes
  <2> QED
    BY <1>5, <2>1, <2>2, OldStems, FineStays, NobodyMoves
<1>7. CASE i = j
  <2>1. Taken(i)'
    BY <1>0, <1>7 DEF Goto, AtStep, Taken
  <2>2. ~AtStep(i, {"unmark"})'
    BY <1>0, <1>5, <1>7 DEF Goto, AtStep, Fine
  <2>3. /\ file'[i] = Absent \/ file'[i].reserved
        /\ mirror'[Web][i] = Absent \/ mirror'[Web][i].reserved
    <3>1. CASE Base(Web, j) = Absent /\ UNCHANGED <<file, mirror>>
      <4>1. file[j] = Absent /\ mirror[Web][j] = Absent
        BY <1>0, <3>1, ReadsAreGood, StoreAssumption DEF Base
      <4> QED
        BY <1>7, <3>1, <4>1
    <3>2. CASE file' = [file EXCEPT ![j] = s] /\ mirror' = [mirror EXCEPT ![Web][j] = s]
      <4>1. file'[i] = s /\ mirror'[Web][i] = s
        BY <1>0, <1>1, <1>7, <3>2
      <4> QED
        BY <1>2, <4>1
    <3> QED
      BY <1>3, <3>1, <3>2
  <2> QED
    BY <1>5, <2>1, <2>2, <2>3 DEF Fine, Copies, CJob, CRun
<1> QED
  BY <1>6, <1>7

\* The analysis is given back because its run could not be queued.
LEMMA UnreserveKeepsFine ==
    ASSUME ChargeInv, NEW q \in Requests, StartUnreserve(q),
           retaken \subseteq retaken', UNCHANGED call
    PROVE  Kept
<1> SUFFICES ASSUME Unharmed', NEW i \in usage', i \notin retaken' PROVE Fine(i)'
  BY DEF Kept
<1>1. i \in usage /\ i # req[q].job /\ Unharmed /\ AllStem
  BY UnchangedStems DEF StartUnreserve, Unharmed
<1>2. i \in Jobs /\ Fine(i)
  BY <1>1, ChargeFacts
<1>3. HandlersStay(i)
  <2>1. req[q].at = "unreserve" /\ Goto(q, "unmark")
    BY DEF StartUnreserve
  <2> QED
    BY <1>1, <1>2, <2>1, HandlerGoes
<1> QED
  BY <1>1, <1>2, <1>3, FineStays, NobodyMoves DEF AllStem

\* The mark is cleared: a job whose analysis counts again is no longer its own.
LEMMA UnmarkKeepsFine ==
    ASSUME ChargeInv, NEW q \in Requests, NEW ok \in BOOLEAN, StartUnmark(q, ok),
           retaken \subseteq retaken', UNCHANGED call
    PROVE  Kept
<1> DEFINE j == req[q].job
<1> SUFFICES ASSUME Unharmed', NEW i \in usage', i \notin retaken' PROVE Fine(i)'
  BY DEF Kept
<1>0. /\ StoreInv /\ j \in Jobs /\ i \in usage /\ i \notin retaken /\ faults' = 0 /\ crashes = 0
      /\ Done(q) /\ req[q].at = "unmark" /\ faults \in Nat
  BY ChargeFacts DEF StartUnmark, Unharmed
<1>1. /\ file \in [Jobs -> Session] /\ mirror \in [Processes -> [Jobs -> Session]]
      /\ Web \in Processes
  BY <1>0, StoreAssumption DEF StoreInv, StoreTypeOK
<1>2. /\ faults = 0
      /\ \A k \in Jobs \ {j} : file'[k] = file[k] /\ mirror'[Web][k] = mirror[Web][k]
  BY <1>0, <1>1 DEF StartUnmark, PatchJob, UpdateJob, WriteFile, Remember
<1>3. i \in Jobs /\ Fine(i)
  BY <1>0, <1>2, ChargeFacts DEF Unharmed
<1>4. i # j
  BY <1>0, <1>3 DEF Fine, AtStep
<1>5. HandlersStay(i)
  BY <1>0, <1>3, <1>4, HandlerGoes
<1>6. file'[i] = file[i] /\ mirror'[Web][i] = mirror[Web][i]
  BY <1>2, <1>3, <1>4
<1> QED
  BY <1>3, <1>5, <1>6, OldStems, FineStays, NobodyMoves

\* A new generation is queued: it carries the mark on, and no call is about it.
LEMMA QueueKeepsFine ==
    ASSUME ChargeInv, NEW q \in Requests, NEW ok \in BOOLEAN, QueueStep(q, ok),
           retaken \subseteq retaken', UNCHANGED call
    PROVE  Kept
<1> DEFINE j == req[q].job
           s == Queued(Base(Web, j), lastRun + 1)
<1> SUFFICES ASSUME Unharmed', NEW i \in usage', i \notin retaken' PROVE Fine(i)'
  BY DEF Kept
<1>p. PICK after \in {"undo", "idle"} : QueueRun(q, ok, after)
  BY DEF QueueStep, StartQueue, RestartQueue
<1>0. /\ StoreInv /\ j \in Jobs /\ i \in usage /\ i \notin retaken /\ faults' = 0 /\ crashes = 0
      /\ req \in [Requests -> [at : Steps, job : Jobs, seen : Session]]
      /\ req[q].at \in {"queue", "requeue"} /\ faults \in Nat /\ lastRun \in Nat
  BY ChargeFacts DEF QueueStep, StartQueue, RestartQueue, Unharmed, RequestInv, RequestTypeOK,
     StoreInv, StoreTypeOK
<1>1. /\ file \in [Jobs -> Session] /\ mirror \in [Processes -> [Jobs -> Session]]
      /\ Web \in Processes /\ Base(Web, j) \in Session /\ Stems(j, Base(Web, j))
  BY <1>0, StoreAssumption, ReadsStem DEF StoreInv, StoreTypeOK
<1>2. s.reserved = Base(Web, j).reserved /\ s.run = lastRun + 1 /\ s.status = "queued"
  BY <1>1 DEF Queued, Session
<1>3. \/ Base(Web, j) = Absent /\ UNCHANGED <<file, mirror, faults>>
      \/ /\ Base(Web, j) # Absent /\ faults = 0
         /\ file' = [file EXCEPT ![j] = s] /\ mirror' = [mirror EXCEPT ![Web][j] = s]
  <2>1. \/ Base(Web, j) # Absent /\ UpdateJob(Web, j, s, ok)
        \/ Base(Web, j) = Absent /\ UNCHANGED <<file, mirror, faults>>
    BY <1>p DEF QueueRun
  <2> HIDE DEF s
  <2> QED
    BY <1>0, <2>1 DEF UpdateJob, WriteFile, Remember
<1> HIDE DEF s
<1>4. Goto(q, "patch") \/ Done(q) \/ Goto(q, "undo")
  BY <1>p, RemoteAssumption DEF QueueRun, Leave
<1>5. faults = 0
  BY <1>0, <1>3
<1>6. i \in Jobs /\ Fine(i)
  BY <1>0, <1>5, ChargeFacts DEF Unharmed
<1>7. CASE i # j
  <2>1. file'[i] = file[i] /\ mirror'[Web][i] = mirror[Web][i]
    BY <1>1, <1>3, <1>6, <1>7
  <2>2. HandlersStay(i)
    BY <1>0, <1>4, <1>6, <1>7, HandlerGoes
  <2> QED
    BY <1>6, <2>1, <2>2, OldStems, FineStays, NobodyMoves
<1>8. CASE i = j
  <2>1. AtStep(i, {"mark"}) => AtStep(i, {"mark"})'
    BY <1>0, <1>4, <1>8 DEF Goto, Done, AtStep
  <2>2. ~AtStep(i, {"unmark"})'
    <3>1. req'[q].at # "unmark"
      BY <1>0, <1>4 DEF Goto, Done, Idle
    <3>2. \A r \in Requests \ {q} : req'[r] = req[r]
      BY <1>0, <1>4 DEF Goto, Done
    <3> QED
      BY <1>6, <3>1, <3>2 DEF AtStep, Fine
  <2>3. CASE Base(Web, j) = Absent /\ UNCHANGED <<file, mirror>>
    <3>1. file[j] = Absent /\ mirror[Web][j] = Absent
      BY <1>0, <2>3, ReadsAreGood, StoreAssumption DEF Base
    <3>2. file'[i] = Absent /\ mirror'[Web][i] = Absent /\ Absent.status # "error"
      BY <1>8, <2>3, <3>1 DEF Absent
    <3> QED
      BY <1>6, <2>2, <3>2 DEF Fine, Copies, CJob, CRun
  <2>4. CASE /\ Base(Web, j) # Absent
             /\ file' = [file EXCEPT ![j] = s] /\ mirror' = [mirror EXCEPT ![Web][j] = s]
    <3>1. file'[i] = s /\ mirror'[Web][i] = s
      BY <1>0, <1>1, <1>8, <2>4
    <3>2. s.reserved \/ AtStep(i, {"mark"})'
      <4>1. PICK t \in Copies(i) : t # Absent /\ Base(Web, j).reserved = t.reserved
        BY <1>1, <1>8, <2>4 DEF Stems
      <4>2. t.reserved \/ AtStep(i, {"mark"})
        BY <1>6, <4>1 DEF Fine
      <4> QED
        BY <1>2, <2>1, <4>1, <4>2
    <3>3. \A c \in Calls : call[c].at = "error" /\ CJob(c) = i => s.run # CRun(c)
      <4>1. ASSUME NEW c \in Calls, call[c].at = "error"
            PROVE  CRun(c) <= lastRun /\ CRun(c) \in Nat
        BY <4>1, OneCall DEF ChargeInv, Orderly, FailureCall
      <4> QED
        BY <1>0, <1>2, <4>1
    <3> QED
      BY <1>2, <1>6, <2>2, <3>1, <3>2, <3>3 DEF Fine, Copies, CJob, CRun
  <2> QED
    BY <1>3, <2>3, <2>4
<1> QED
  BY <1>7, <1>8

\* Any step of the web process.
LEMMA WebKeepsFine ==
    ASSUME ChargeInv, WebTurn, "list" \notin RequestKinds
    PROVE  Kept
<1>1. retaken' = retaken \cup Retakes /\ retaken \subseteq retaken' /\ UNCHANGED call
  BY DEF WebTurn
<1>2. ASSUME NEW j \in Jobs, PageRead(j) \/ (LeaseExpires(j) /\ UNCHANGED requestVars) PROVE Kept
  BY <1>1, <1>2, PageIsCalm, CalmKeeps
<1>3. ASSUME NEW q \in Requests, NEW j \in Jobs, Arrival(q, j) PROVE Kept
  BY <1>1, <1>3, ArrivalIsCalm, CalmKeeps
<1>4. ASSUME NEW q \in Requests, NEW ok \in BOOLEAN, HandlerStep(q, ok) PROVE Kept
  <2>1. CASE req[q].at \notin {"reserve", "mark", "unreserve", "unmark"}
    BY <1>1, <1>4, <2>1, HandlerIsCalm, CalmKeeps
  <2>2. CASE req[q].at \in {"reserve", "mark", "unreserve", "unmark"}
    <3>1. StartReserve(q) \/ StartMark(q, ok) \/ StartUnreserve(q) \/ StartUnmark(q, ok)
      BY <1>4, <2>2 DEF HandlerStep, StartTrim, StartUndo, Patch, CancelUnlink, CancelForget,
         CancelRelease, CancelWipe, SweepFiles, SweepRelease, SweepUnlink, SweepForget,
         DeleteFiles, ListRemember, Unlink
    <3> QED
      BY <1>1, <3>1, ReserveKeepsFine, MarkKeepsFine, UnreserveKeepsFine, UnmarkKeepsFine
  <2> QED
    BY <2>1, <2>2
<1> QED
  BY <1>1, <1>2, <1>3, <1>4, CreateKeepsFine, QueueKeepsFine DEF WebTurn, WebStep

-----------------------------------------------------------------------------
(* The handlers of the workers' calls.                                     *)

\* The ones that are not about a failure.
LEMMA ServerIsCalm ==
    ASSUME ChargeInv, NEW c \in Calls, ServerTurn(c), Unharmed',
           call[c].at \notin FailureCall
    PROVE  Calm
<1> DEFINE j == CJob(c)
<1> USE DEF FailureCall
<1>0. /\ StoreInv /\ j \in Jobs /\ By(c) \in WorkerIds /\ CRun(c) \in Nat
      /\ faults' = 0 /\ crashes' = 0
  BY ChargeFacts, OneCall DEF Unharmed, ChargeInv
<1>1. UNCHANGED <<usage, crashes, req>>
  BY DEF ServerTurn, ClaimMake, ClaimDrop, ProgressCheck, ResultCheck, ResultRejected, FailureCheck,
     FailureRelease, ClaimTake, ProgressRenew, ResultCommit, FailureUnmark, FailureError, ResultSave,
     requestVars, vars
<1>2. \A i \in Jobs : HandlersStay(i) /\ CallsStay(i)
  <2>1. \/ \E step : step \notin {"unmark", "error"} /\ CallGoto(c, step)
        \/ \E w : Answer(c, w)
        \/ \E ok \in BOOLEAN : ClaimTake(c, ok)
    BY DEF ServerTurn, ClaimMake, ClaimDrop, ProgressCheck, ResultCheck, ResultRejected,
       FailureCheck, FailureRelease, ProgressRenew, ResultCommit, FailureUnmark, FailureError,
       ResultSave
  <2>2. ASSUME NEW ok \in BOOLEAN, ClaimTake(c, ok), NEW i \in Jobs PROVE CallsStay(i)
    <3>1. call'[c].at = "drop" /\ \A d \in Calls \ {c} : call'[d] = call[d]
      BY <2>2 DEF ClaimTake, ChargeInv, RemoteInv, RemoteTyped, CallRow
    <3> QED
      BY <3>1 DEF CallsStay
  <2> QED
    BY <1>1, <2>1, <2>2, CallMoves, CallEnds, NobodyMoves
<1>3. ASSUME ClaimMake(c) \/ ClaimDrop(c) \/ ResultRejected(c) PROVE faults = 0 /\ AllStem
  BY <1>0, <1>3, UnchangedStems DEF ClaimMake, ClaimDrop, ResultRejected, vars
<1>4. ASSUME ProgressCheck(c) \/ ResultCheck(c) PROVE faults = 0 /\ AllStem
  BY <1>0, <1>4, GetJobStems DEF ProgressCheck, ResultCheck
<1>5. ASSUME NEW ok \in BOOLEAN, ProgressRenew(c, ok) PROVE faults = 0 /\ AllStem
  BY <1>0, <1>5, RenewStems DEF ProgressRenew
<1>6. ASSUME NEW ok \in BOOLEAN, ResultCommit(c, ok) PROVE faults = 0 /\ AllStem
  BY <1>0, <1>6, FinalizeStems DEF ResultCommit
<1>7. ASSUME NEW saves \in BOOLEAN, NEW writes \in BOOLEAN, ResultSave(c, saves, writes)
      PROVE  faults = 0 /\ AllStem
  BY <1>0, <1>7, PersistStems DEF ResultSave
<1>8. ASSUME NEW ok \in BOOLEAN, ClaimTake(c, ok) PROVE faults = 0 /\ AllStem
  <2>1. CASE Claimable(OnDisk(j))
    <3>1. OnDisk(j) # Absent /\ OnDisk(j).status # "error"
      BY <2>1 DEF Claimable, Absent
    <3>2. Stems(j, Started(OnDisk(j), By(c)))
      BY <1>0, <3>1, ReadsStem, WritesStem
    <3>3. /\ WriteFile(j, Started(OnDisk(j), By(c)), ok)
          /\ UNCHANGED mirror \/ Remember(Web, j, Started(OnDisk(j), By(c)))
      BY <1>8, <2>1 DEF ClaimTake
    <3> QED
      BY <1>0, <3>2, <3>3, WriteStems
  <2>2. CASE ~Claimable(OnDisk(j))
    BY <1>0, <1>8, <2>2, ReadStems DEF ClaimTake
  <2> QED
    BY <2>1, <2>2
<1>9. ~FailureCheck(c) /\ ~FailureRelease(c) /\ \A ok \in BOOLEAN : ~FailureUnmark(c, ok) /\ ~FailureError(c, ok)
  BY DEF FailureCheck, FailureRelease, FailureUnmark, FailureError
<1>10. faults = 0 /\ AllStem
  BY <1>3, <1>4, <1>5, <1>6, <1>7, <1>8, <1>9 DEF ServerTurn
<1> QED
  BY <1>0, <1>1, <1>2, <1>10 DEF Calm, Unharmed

\* The ownership test of a failure report: a session that holds no analysis is
\* no copy of a job whose analysis counts, unless the next one is being marked.
LEMMA CheckKeepsFine ==
    ASSUME ChargeInv, NEW c \in Calls, FailureCheck(c), retaken \subseteq retaken'
    PROVE  Kept
<1> DEFINE j == CJob(c)
           s == Seen(Web, j)
<1> SUFFICES ASSUME Unharmed', NEW i \in usage', i \notin retaken' PROVE Fine(i)'
  BY DEF Kept
<1>0. /\ StoreInv /\ j \in Jobs /\ i \in usage /\ i \notin retaken /\ UNCHANGED <<req, faults, crashes>>
      /\ GetJob(Web, j)
  BY ChargeFacts DEF FailureCheck, requestVars, GetJob, Refresh
<1>1. AllStem /\ Unharmed
  BY <1>0, GetJobStems DEF Unharmed
<1>2. i \in Jobs /\ Fine(i)
  BY <1>0, <1>1, ChargeFacts
<1>3. \/ CallGoto(c, "release") \/ \E w : Answer(c, w)
      \/ CallGoto(c, "error") /\ Owned(c) /\ ~(s.reserved /\ HasAccount(j))
  BY DEF FailureCheck
<1>4. CASE i # j \/ CallGoto(c, "release") \/ \E w : Answer(c, w)
  <2>1. CallsStay(i)
    BY <1>2, <1>3, <1>4, CallMoves, CallEnds
  <2> QED
    BY <1>0, <1>1, <1>2, <2>1, FineStays, NobodyMoves DEF AllStem
<1>5. CASE i = j /\ CallGoto(c, "error") /\ Owned(c) /\ ~(s.reserved /\ HasAccount(j))
  <2>1. HasAccount(j)
    BY <1>0, <1>5 DEF ChargeInv, Orderly
  <2>2. Stems(j, s) /\ s # Absent
    BY <1>0, <1>5, ReadsStem DEF Owned, OwnsRun, Absent
  <2>3. PICK t \in Copies(j) : t # Absent /\ s.reserved = t.reserved
    BY <2>2 DEF Stems
  <2>4. ~t.reserved
    BY <1>5, <2>1, <2>3
  <2>5. Taken(i)
    BY <1>2, <1>5, <2>3, <2>4 DEF Fine, AtStep, Taken
  <2>6. CallsStay(i)
    BY <1>2, <1>5, <2>5, CallMoves
  <2> QED
    BY <1>0, <1>1, <1>2, <2>6, FineStays, NobodyMoves DEF AllStem
<1> QED
  BY <1>3, <1>4, <1>5

\* The analysis is given back.
LEMMA ReleaseKeepsFine ==
    ASSUME ChargeInv, NEW c \in Calls, FailureRelease(c), retaken \subseteq retaken'
    PROVE  Kept
<1> SUFFICES ASSUME Unharmed', NEW i \in usage', i \notin retaken' PROVE Fine(i)'
  BY DEF Kept
<1>1. /\ i \in usage /\ i # CJob(c) /\ Unharmed /\ AllStem /\ UNCHANGED req
      /\ CallGoto(c, "unmark")
  BY UnchangedStems DEF FailureRelease, Unharmed, requestVars
<1>2. i \in Jobs /\ Fine(i)
  BY <1>1, ChargeFacts
<1>3. CallsStay(i)
  BY <1>1, <1>2, CallMoves
<1> QED
  BY <1>1, <1>2, <1>3, FineStays, NobodyMoves DEF AllStem

\* Its mark is cleared: a job whose analysis counts is not the call's.
LEMMA FailureUnmarkKeepsFine ==
    ASSUME ChargeInv, NEW c \in Calls, NEW ok \in BOOLEAN, FailureUnmark(c, ok),
           retaken \subseteq retaken'
    PROVE  Kept
<1> DEFINE j == CJob(c)
<1> SUFFICES ASSUME Unharmed', NEW i \in usage', i \notin retaken' PROVE Fine(i)'
  BY DEF Kept
<1>0. /\ StoreInv /\ j \in Jobs /\ i \in usage /\ i \notin retaken /\ faults' = 0 /\ crashes = 0
      /\ CallGoto(c, "error") /\ call[c].at = "unmark" /\ faults \in Nat /\ UNCHANGED req
  BY ChargeFacts DEF FailureUnmark, Unharmed, requestVars
<1>1. /\ file \in [Jobs -> Session] /\ mirror \in [Processes -> [Jobs -> Session]]
      /\ Web \in Processes
  BY <1>0, StoreAssumption DEF StoreInv, StoreTypeOK
<1>2. /\ faults = 0
      /\ \A k \in Jobs \ {j} : file'[k] = file[k] /\ mirror'[Web][k] = mirror[Web][k]
  BY <1>0, <1>1 DEF FailureUnmark, PatchJob, UpdateJob, WriteFile, Remember
<1>3. i \in Jobs /\ Fine(i)
  BY <1>0, <1>2, ChargeFacts DEF Unharmed
<1>4. i # j
  BY <1>0, <1>3 DEF Fine
<1>5. CallsStay(i)
  BY <1>0, <1>3, <1>4, CallMoves
<1>6. file'[i] = file[i] /\ mirror'[Web][i] = mirror[Web][i]
  BY <1>2, <1>3, <1>4
<1> QED
  BY <1>0, <1>3, <1>5, <1>6, OldStems, FineStays, NobodyMoves

\* The run ends as failed: it counts only if the next one is under way.
LEMMA ErrorKeepsFine ==
    ASSUME ChargeInv, NEW c \in Calls, NEW ok \in BOOLEAN, FailureError(c, ok),
           retaken \subseteq retaken'
    PROVE  Kept
<1> DEFINE j == CJob(c)
           s == OnDisk(j)
<1> SUFFICES ASSUME Unharmed', NEW i \in usage', i \notin retaken' PROVE Fine(i)'
  BY DEF Kept
<1>0. /\ StoreInv /\ j \in Jobs /\ i \in usage /\ i \notin retaken /\ faults' = 0 /\ crashes = 0
      /\ call[c].at = "error" /\ faults \in Nat /\ UNCHANGED req
      /\ Answer(c, AtRest(By(c), "idle"))
  BY ChargeFacts DEF FailureError, Unharmed, requestVars
<1>1. /\ file \in [Jobs -> Session] /\ mirror \in [Processes -> [Jobs -> Session]]
      /\ Web \in Processes /\ s \in Session /\ Stems(j, s)
  BY <1>0, StoreAssumption, ReadsStem DEF StoreInv, StoreTypeOK
<1>2. CASE ~OwnsRun(s, By(c), CRun(c))
  <2>1. faults = 0 /\ AllStem
    BY <1>0, <1>2, ReadStems DEF FailureError
  <2>2. i \in Jobs /\ Fine(i)
    BY <1>0, <2>1, ChargeFacts DEF Unharmed
  <2>3. CallsStay(i)
    BY <1>0, <2>2, CallEnds
  <2> QED
    BY <1>0, <2>1, <2>2, <2>3, FineStays, NobodyMoves DEF AllStem
<1>3. CASE OwnsRun(s, By(c), CRun(c))
  <2>1. WriteFile(j, Failed(s), ok) /\ Remember(Web, j, Failed(s))
    BY <1>3 DEF FailureError, UpdateJob
  <2>2. faults = 0
    BY <1>0, <2>1 DEF WriteFile
  <2>3. i \in Jobs /\ Fine(i)
    BY <1>0, <2>2, ChargeFacts DEF Unharmed
  <2>4. CallsStay(i)
    BY <1>0, <2>3, CallEnds
  <2>5. CASE i # j
    <3>1. file'[i] = file[i] /\ mirror'[Web][i] = mirror[Web][i]
      BY <1>1, <2>1, <2>3, <2>5 DEF WriteFile, Remember
    <3> QED
      BY <1>0, <2>3, <2>4, <3>1, OldStems, FineStays, NobodyMoves
  <2>6. CASE i = j
    <3>1. s # Absent /\ s.run = CRun(c)
      BY <1>3 DEF OwnsRun, Absent
    <3>2. PICK t \in Copies(i) : t # Absent /\ t.run = CRun(c)
      BY <1>1, <2>6, <3>1 DEF Stems
    <3>3. Taken(i)
      BY <1>0, <2>3, <2>6, <3>2 DEF Fine
    <3>4. Stems(j, Failed(s))
      BY <1>0, <1>1, <2>6, <3>1, <3>3, WritesStem
    <3>5. AllStem
      BY <1>0, <2>1, <3>4, WriteStems
    <3> QED
      BY <1>0, <2>3, <2>4, <3>5, FineStays, NobodyMoves DEF AllStem
  <2> QED
    BY <2>5, <2>6
<1> QED
  BY <1>2, <1>3

\* Any step of a handler.
LEMMA ServerKeepsFine ==
    ASSUME ChargeInv, NEW c \in Calls, ServerTurn(c)
    PROVE  Kept
<1>1. retaken \subseteq retaken'
  BY DEF ServerTurn
<1>2. CASE call[c].at \notin FailureCall
  BY <1>1, <1>2, ServerIsCalm, CalmKeeps
<1>3. CASE call[c].at \in FailureCall
  <2>1. \/ FailureCheck(c) \/ FailureRelease(c)
        \/ \E ok \in BOOLEAN : FailureUnmark(c, ok) \/ FailureError(c, ok)
    BY <1>3 DEF FailureCall, ServerTurn, ClaimMake, ClaimDrop, ProgressCheck, ResultCheck,
       ResultRejected, ClaimTake, ProgressRenew, ResultCommit, ResultSave
  <2> QED
    BY <1>1, <2>1, CheckKeepsFine, ReleaseKeepsFine, FailureUnmarkKeepsFine, ErrorKeepsFine
<1> QED
  BY <1>2, <1>3

-----------------------------------------------------------------------------
(* The workers, and the whole.                                             *)

\* Nothing a worker does by itself is to the point.
LEMMA WorkersKeepFine ==
    ASSUME ChargeInv, Mishap \/ \E w \in WorkerIds : WorkerTurn(w) \/ AnalysisEnds(w)
    PROVE  Kept
<1> SUFFICES ASSUME Unharmed' PROVE Calm /\ retaken \subseteq retaken'
  BY CalmKeeps DEF Kept
<1>1. crashes \in Nat /\ crashes' = 0
  BY ChargeFacts DEF Unharmed
<1>2. ~Restart /\ \A w \in WorkerIds : ~WorkerDies(w)
  BY <1>1 DEF Restart, WebRestarts, WorkerDies
<1>3. UNCHANGED <<vars, retaken>>
  BY <1>2 DEF Mishap, StopsWaiting, SendProgress, WorkerTurn, AnalysisEnds, AskForJob, SendFailure,
     GiveUpRun, AnalysisFails, SendResult
<1>4. \A i \in Jobs : CallsStay(i)
  <2>1. \/ \E w \in WorkerIds, c \in Calls :
              \E step, j : step \notin {"unmark", "error"} /\ Send(c, w, step, j)
        \/ \E c \in Calls : StopsWaiting(c)
        \/ UNCHANGED call
    BY <1>2 DEF Mishap, SendProgress, WorkerTurn, AnalysisEnds, AskForJob, SendFailure,
       GiveUpRun, AnalysisFails, SendResult
  <2>2. call \in [Calls -> CallRow]
    BY DEF ChargeInv, RemoteInv, RemoteTyped
  <2>3. ASSUME NEW w \in WorkerIds, NEW c \in Calls, NEW step, NEW j,
               step \notin {"unmark", "error"}, Send(c, w, step, j)
        PROVE  \A i \in Jobs : CallsStay(i)
    <3>1. call'[c].at = step /\ \A d \in Calls \ {c} : call'[d] = call[d]
      BY <2>2, <2>3 DEF Send
    <3> QED
      BY <2>3, <3>1 DEF CallsStay
  <2>4. ASSUME NEW c \in Calls, StopsWaiting(c) PROVE \A i \in Jobs : CallsStay(i)
    <3>1. /\ call'[c].at = call[c].at /\ call'[c].job = call[c].job /\ call'[c].run = call[c].run
          /\ \A d \in Calls \ {c} : call'[d] = call[d]
      BY <2>2, <2>4 DEF StopsWaiting, CallRow
    <3> QED
      BY <3>1 DEF CallsStay
  <2> QED
    BY <2>1, <2>3, <2>4, NobodyMoves
<1> QED
  BY <1>3, <1>4, UnchangedStems, NobodyMoves DEF Calm, Unharmed, vars

\* No generation is taken back, and no upload forgotten.
LEMMA OnlyMoreIsKnown ==
    ASSUME ChargeInv, [Next]_remoteVars
    PROVE  created \subseteq created' /\ lastRun \in Nat /\ lastRun' \in Nat /\ lastRun <= lastRun'
<1>1. lastRun \in Nat /\ lastRun' \in Nat /\ lastRun <= lastRun'
  <2>1. RemoteInv' /\ FileMoves
    BY RemoteStep DEF ChargeInv
  <2>2. lastRun \in Nat /\ lastRun' \in Nat
    BY <2>1 DEF ChargeInv, RemoteInv, RequestInv, StoreInv, StoreTypeOK
  <2>3. lastRun' = lastRun \/ lastRun' = lastRun + 1
    BY <2>1 DEF FileMoves
  <2> QED
    BY <2>2, <2>3
<1>2. ASSUME NEW q \in Requests, NEW ok \in BOOLEAN, HandlerStep(q, ok) \/ QueueStep(q, ok)
      PROVE  created' = created
  BY <1>2 DEF HandlerStep, StartTrim, StartReserve, StartMark, StartUndo, StartUnreserve,
     StartUnmark, Patch, CancelUnlink, CancelForget, CancelRelease, CancelWipe, SweepFiles,
     SweepRelease, SweepUnlink, SweepForget, DeleteFiles, ListRemember, Unlink, QueueStep,
     StartQueue, RestartQueue
<1>3. ASSUME NEW q \in Requests, NEW j \in Jobs, Arrival(q, j) PROVE created' = created
  BY <1>3 DEF Arrival, StartRead, RestartRead, CancelRead, SweepRead, ListRead, EditRead, DeleteRead
<1>4. ASSUME NEW j \in Jobs, PageRead(j) PROVE created' = created
  BY <1>4 DEF PageRead, Poll, ViewResult, requestVars
<1>5. WebTurn => created \subseteq created'
  BY <1>2, <1>3, <1>4 DEF WebTurn, WebStep, CreateJob, requestVars
<1>6. ASSUME NEW c \in Calls, ServerTurn(c) PROVE created' = created
  BY <1>6 DEF ServerTurn, ClaimMake, ClaimDrop, ProgressCheck, ResultCheck, ResultRejected,
     FailureCheck, FailureRelease, ClaimTake, ProgressRenew, ResultCommit, FailureUnmark,
     FailureError, ResultSave, requestVars, vars
<1>7. Mishap \/ (\E w \in WorkerIds : WorkerTurn(w) \/ AnalysisEnds(w)) => created' = created
  BY DEF Mishap, StopsWaiting, WorkerDies, SendProgress, Restart, WebRestarts, WorkerTurn,
     AnalysisEnds, AskForJob, SendFailure, GiveUpRun, AnalysisFails, SendResult, vars
<1> QED
  BY <1>1, <1>5, <1>6, <1>7 DEF Next, remoteVars, vars

\* An analysis is reserved for accounts only.
LEMMA OnlyAccountsReserve ==
    ASSUME ChargeInv, [Next]_remoteVars, "list" \notin RequestKinds
    PROVE  /\ \A j \in usage' : HasAccount(j)
           /\ \A q \in Requests : /\ req'[q].at \in {"reserve", "mark"} => HasAccount(req'[q].job)
                                  /\ req'[q].at # "remember"
<1> DEFINE GoesWell == /\ \A j \in usage' : HasAccount(j)
                       /\ \A q \in Requests :
                             /\ req'[q].at \in {"reserve", "mark"} => HasAccount(req'[q].job)
                             /\ req'[q].at # "remember"
<1>1. /\ \A j \in usage : HasAccount(j)
      /\ \A q \in Requests : /\ req[q].at \in {"reserve", "mark"} => HasAccount(req[q].job)
                             /\ req[q].at # "remember"
      /\ req \in [Requests -> [at : Steps, job : Jobs, seen : Session]]
  BY ChargeFacts DEF ChargeInv, Orderly, RequestInv, RequestTypeOK
<1>2. usage' \subseteq usage /\ UNCHANGED req => GoesWell
  BY <1>1
<1>3. ASSUME NEW q \in Requests, NEW step, NEW j, NEW s, usage' \subseteq usage,
             \/ Goto(q, step) /\ (step = "reserve" => HasAccount(req[q].job))
             \/ Done(q)
             \/ Begin(q, step, j, s) /\ (step = "reserve" => HasAccount(j)),
             step \notin {"mark", "remember"}
      PROVE  GoesWell
  <2>1. \A r \in Requests \ {q} : req'[r] = req[r]
    BY <1>1, <1>3 DEF Goto, Done, Begin
  <2>2. \/ req'[q].at = "idle"
        \/ /\ req'[q].at = step
           /\ step = "reserve" => HasAccount(req'[q].job)
    BY <1>1, <1>3 DEF Goto, Done, Begin, Idle
  <2> QED
    BY <1>1, <1>3, <2>1, <2>2
<1>4. ASSUME NEW q \in Requests, StartReserve(q) PROVE GoesWell
  <2>1. /\ HasAccount(req[q].job) /\ usage' \subseteq usage \cup {req[q].job}
        /\ Goto(q, "mark") \/ Done(q)
    BY <1>1, <1>4 DEF StartReserve
  <2>2. \A r \in Requests \ {q} : req'[r] = req[r]
    BY <1>1, <2>1 DEF Goto, Done
  <2>3. req'[q].at \in {"mark", "idle"} /\ req'[q].job = req[q].job
    BY <1>1, <2>1 DEF Goto, Done, Idle
  <2> QED
    BY <1>1, <2>1, <2>2, <2>3
<1> HIDE DEF GoesWell
<1>5. ASSUME NEW q \in Requests, NEW ok \in BOOLEAN, HandlerStep(q, ok) PROVE GoesWell
  <2>1. StartReserve(q)
        \/ /\ usage' \subseteq usage
           /\ \E step : /\ step \notin {"mark", "remember"}
                        /\ step = "reserve" => HasAccount(req[q].job)
                        /\ Goto(q, step) \/ Done(q)
    <3>1. \A s : /\ AfterTrim(req[q].job, s) \in {"reserve", "queue"}
                 /\ AfterTrim(req[q].job, s) = "reserve" => HasAccount(req[q].job)
      BY DEF AfterTrim
    <3> QED
      BY <1>5, <3>1 DEF HandlerStep, StartTrim, StartMark, StartUndo, StartUnreserve,
         StartUnmark, Patch, CancelUnlink, CancelForget, CancelRelease, CancelWipe, SweepFiles,
         SweepRelease, SweepUnlink, SweepForget, DeleteFiles, ListRemember, Unlink
  <2> QED
    BY <1>3, <1>4, <2>1
<1>6. ASSUME NEW q \in Requests, NEW j \in Jobs, Arrival(q, j) PROVE GoesWell
  <2>1. /\ usage' = usage
        /\ \E step, s : /\ step \notin {"mark", "remember"}
                        /\ step = "reserve" => HasAccount(j)
                        /\ Begin(q, step, j, s)
    <3>1. \A s : /\ AfterTrim(j, s) \in {"reserve", "queue"}
                 /\ AfterTrim(j, s) = "reserve" => HasAccount(j)
      BY DEF AfterTrim
    <3>2. ~ListRead(q, j)
      BY DEF ListRead, Free
    <3> QED
      BY <1>6, <3>1, <3>2 DEF Arrival, StartRead, RestartRead, CancelRead, SweepRead, EditRead,
         DeleteRead
  <2> QED
    BY <1>3, <2>1
<1>7. ASSUME NEW q \in Requests, NEW ok \in BOOLEAN, QueueStep(q, ok) PROVE GoesWell
  <2>1. usage' = usage /\ \E after \in {"undo", "idle"} : QueueRun(q, ok, after)
    BY <1>7 DEF QueueStep, StartQueue, RestartQueue
  <2>2. Goto(q, "patch") \/ Done(q) \/ Goto(q, "undo")
    BY <2>1, RemoteAssumption DEF QueueRun, Leave
  <2> QED
    BY <1>3, <2>1, <2>2
<1>8. ASSUME NEW j \in Jobs, NEW ok \in BOOLEAN, CreateJob(j, ok) PROVE GoesWell
  BY <1>1, <1>8 DEF CreateJob, GoesWell
<1>9. ASSUME NEW j \in Jobs, PageRead(j) \/ (LeaseExpires(j) /\ UNCHANGED requestVars)
      PROVE  GoesWell
  BY <1>2, <1>9 DEF PageRead, Poll, ViewResult, LeaseExpires, requestVars
<1>10. ASSUME NEW c \in Calls, ServerTurn(c) PROVE GoesWell
  BY <1>2, <1>10 DEF ServerTurn, ClaimMake, ClaimDrop, ProgressCheck, ResultCheck, ResultRejected,
     FailureCheck, FailureRelease, ClaimTake, ProgressRenew, ResultCommit, FailureUnmark,
     FailureError, ResultSave, requestVars, vars
<1>11. CASE Restart
  <2>1. usage' = usage /\ \A q \in Requests : req'[q].at = "idle"
    BY <1>11 DEF Restart, WebRestarts, Idle
  <2>2. GoesWell
    BY <1>1, <2>1 DEF GoesWell
  <2> QED
    BY <2>2 DEF GoesWell
<1>12. ASSUME ~Restart, Mishap \/ \E w \in WorkerIds : WorkerTurn(w) \/ AnalysisEnds(w) PROVE GoesWell
  BY <1>2, <1>12 DEF Mishap, StopsWaiting, WorkerDies, SendProgress, WorkerTurn,
     AnalysisEnds, AskForJob, SendFailure, GiveUpRun, AnalysisFails, SendResult, vars
<1>13. ASSUME UNCHANGED remoteVars PROVE GoesWell
  BY <1>2, <1>13 DEF remoteVars, vars
<1>14. ASSUME WebTurn PROVE GoesWell
  BY <1>5, <1>6, <1>7, <1>8, <1>9, <1>14 DEF WebTurn, WebStep
<1>15. ~Restart => GoesWell
  BY <1>10, <1>12, <1>13, <1>14 DEF Next, Mishap
<1> QED
  BY <1>11, <1>15 DEF GoesWell

\* A failure is worked off for a run that the session at that moment had.
LEMMA FailuresAreKnown ==
    ASSUME ChargeInv, [Next]_remoteVars
    PROVE  \A c \in Calls : call'[c].at \in FailureCall \ {"failure"}
                            => call'[c].job \in created' /\ call'[c].run <= lastRun'
<1> DEFINE Known(d) == call'[d].at \in FailureCall \ {"failure"}
                       => call'[d].job \in created /\ call'[d].run <= lastRun
<1>0. /\ created \subseteq created' /\ lastRun \in Nat /\ lastRun' \in Nat /\ lastRun <= lastRun'
      /\ call \in [Calls -> CallRow]
      /\ \A d \in Calls : call[d].at \in FailureCall \ {"failure"}
                          => call[d].job \in created /\ call[d].run <= lastRun
  BY OnlyMoreIsKnown DEF ChargeInv, Orderly, RemoteInv, RemoteTyped, CJob, CRun
<1>1. \A d \in Calls : call'[d] = call[d] => Known(d)
  BY <1>0
<1>2. ASSUME NEW c \in Calls,
             \/ \E step : /\ CallGoto(c, step)
                          /\ step \in FailureCall \ {"failure"}
                             => CJob(c) \in created /\ CRun(c) <= lastRun
             \/ \E w : Answer(c, w)
             \/ \E w, j, step : Send(c, w, step, j) /\ step \notin FailureCall \ {"failure"}
             \/ \E ok \in BOOLEAN : ClaimTake(c, ok)
             \/ StopsWaiting(c)
      PROVE  \A d \in Calls : Known(d)
  <2>1. \A d \in Calls \ {c} : call'[d] = call[d]
    BY <1>0, <1>2 DEF CallGoto, Answer, Send, ClaimTake, StopsWaiting
  <2>2. Known(c)
    <3>1. CASE \E step : /\ CallGoto(c, step)
                         /\ step \in FailureCall \ {"failure"}
                            => CJob(c) \in created /\ CRun(c) <= lastRun
      BY <1>0, <3>1 DEF CallGoto, CallRow, CJob, CRun
    <3>2. CASE \E w : Answer(c, w)
      BY <1>0, <3>2 DEF Answer, NoCall, FailureCall
    <3>3. CASE \E w, j, step : Send(c, w, step, j) /\ step \notin FailureCall \ {"failure"}
      BY <1>0, <3>3 DEF Send
    <3>4. CASE \E ok \in BOOLEAN : ClaimTake(c, ok)
      BY <1>0, <3>4 DEF ClaimTake, CallRow, FailureCall
    <3>5. CASE StopsWaiting(c)
      BY <1>0, <3>5 DEF StopsWaiting, CallRow
    <3> QED
      BY <1>2, <3>1, <3>2, <3>3, <3>4, <3>5
  <2> HIDE DEF Known
  <2> QED
    BY <1>1, <2>1, <2>2
<1>3. ASSUME NEW c \in Calls, ServerTurn(c) PROVE \A d \in Calls : Known(d)
  <2>1. ASSUME FailureCheck(c), Owned(c) PROVE CJob(c) \in created /\ CRun(c) <= lastRun
    <3>1. GoodFor(CJob(c), Seen(Web, CJob(c)))
      BY ChargeFacts, ReadsAreGood, StoreAssumption
    <3> QED
      BY <2>1, <3>1 DEF Owned, OwnsRun, GoodFor, Absent
  <2>2. ASSUME FailureRelease(c) \/ \E ok \in BOOLEAN : FailureUnmark(c, ok)
        PROVE  CJob(c) \in created /\ CRun(c) <= lastRun
    BY <1>0, <2>2 DEF FailureRelease, FailureUnmark, FailureCall, CJob, CRun
  <2>3. \/ \E step : /\ CallGoto(c, step)
                     /\ step \in FailureCall \ {"failure"}
                        => CJob(c) \in created /\ CRun(c) <= lastRun
        \/ \E w : Answer(c, w)
        \/ \E ok \in BOOLEAN : ClaimTake(c, ok)
    <3>1. CASE FailureCheck(c)
      BY <2>1, <3>1 DEF FailureCheck
    <3>2. CASE FailureRelease(c) \/ \E ok \in BOOLEAN : FailureUnmark(c, ok)
      BY <2>2, <3>2 DEF FailureRelease, FailureUnmark
    <3>3. CASE \/ ClaimMake(c) \/ ClaimDrop(c) \/ ProgressCheck(c) \/ ResultCheck(c)
               \/ ResultRejected(c)
               \/ \E ok \in BOOLEAN : ProgressRenew(c, ok) \/ ResultCommit(c, ok) \/ FailureError(c, ok)
               \/ \E saves, writes \in BOOLEAN : ResultSave(c, saves, writes)
      BY <3>3 DEF ClaimMake, ClaimDrop, ProgressCheck, ResultCheck, ResultRejected, ProgressRenew,
         ResultCommit, FailureError, ResultSave, FailureCall
    <3> QED
      BY <1>3, <3>1, <3>2, <3>3 DEF ServerTurn
  <2> HIDE DEF Known
  <2> QED
    BY <1>2, <2>3
<1>4. ASSUME Mishap \/ \E w \in WorkerIds : WorkerTurn(w) \/ AnalysisEnds(w)
      PROVE  \A d \in Calls : Known(d)
  <2>1. CASE Restart
    <3>1. \A d \in Calls : call'[d].at = "free"
      BY <2>1 DEF Restart, NoCall
    <3> QED
      BY <3>1 DEF FailureCall
  <2>2. ASSUME NEW w \in WorkerIds, WorkerDies(w) PROVE \A d \in Calls : Known(d)
    <3>1. \A d \in Calls : /\ call'[d].at = call[d].at /\ call'[d].job = call[d].job
                           /\ call'[d].run = call[d].run
      BY <1>0, <2>2 DEF WorkerDies, CallRow
    <3> QED
      BY <1>0, <3>1
  <2> HIDE DEF Known
  <2>3. CASE ~Restart /\ \A w \in WorkerIds : ~WorkerDies(w)
    <3>1. \/ \E w \in WorkerIds, c \in Calls :
                \E step, j : step \notin FailureCall \ {"failure"} /\ Send(c, w, step, j)
          \/ \E c \in Calls : StopsWaiting(c)
          \/ UNCHANGED call
      BY <1>4, <2>3 DEF Mishap, SendProgress, WorkerTurn, AnalysisEnds, AskForJob, SendFailure,
         GiveUpRun, AnalysisFails, SendResult, FailureCall
    <3> QED
      BY <1>1, <1>2, <3>1
  <2> QED
    BY <2>1, <2>2, <2>3
<1>5. ASSUME WebTurn \/ UNCHANGED remoteVars PROVE \A d \in Calls : Known(d)
  BY <1>0, <1>5 DEF WebTurn, remoteVars
<1>6. CASE \A d \in Calls : Known(d)
  <2> SUFFICES ASSUME NEW d \in Calls, call'[d].at \in FailureCall \ {"failure"}
               PROVE  call'[d].job \in created' /\ call'[d].run <= lastRun'
    OBVIOUS
  <2>1. call'[d].job \in created /\ call'[d].run <= lastRun
    BY <1>6
  <2>2. call'[d].run \in Nat
    BY RemoteStep DEF ChargeInv, RemoteInv, RemoteTyped, CallRow
  <2> QED
    BY <1>0, <2>1, <2>2
<1> HIDE DEF Known
<1> QED
  BY <1>3, <1>4, <1>5, <1>6 DEF Next

\* The induction step.
LEMMA ChargeStep ==
    ASSUME ChargeInv, [Next]_remoteVars, "list" \notin RequestKinds
    PROVE  ChargeInv'
<1>1. RemoteInv'
  BY RemoteStep DEF ChargeInv
<1>2. Orderly'
  BY OnlyAccountsReserve, FailuresAreKnown DEF Orderly, HasAccount, CJob, CRun
<1>3. Kept
  <2>1. CASE UNCHANGED remoteVars
    BY <2>1, CalmKeeps, UnchangedStems, NobodyMoves DEF remoteVars, vars, Calm, Unharmed
  <2> QED
    BY <2>1, WebKeepsFine, ServerKeepsFine, WorkersKeepFine DEF Next
<1> QED
  BY <1>1, <1>2, <1>3 DEF ChargeInv, Kept

\* An analysis that failed before completion is given back (remote_worker_failed,
\* core/legal.py:132), for any number of workers, calls, handlers and generations,
\* whichever answers are lost, as long as no write fails and no process dies, and
\* nobody reserved another while the failure was being worked off.  The
\* hypothesis leaves out the listing, which puts an older copy back into memory.
THEOREM RemoteFailuresAreGivenBack ==
    ASSUME "list" \notin RequestKinds
    PROVE  Spec => []FailureIsGivenBack
<1>1. Init => ChargeInv
  <2> SUFFICES ASSUME Init PROVE ChargeInv
    OBVIOUS
  <2>1. /\ RemoteInv /\ usage = {} /\ \A q \in Requests : req[q].at = "idle"
        /\ \A c \in Calls : call[c].at = "free"
    BY RemoteInitGood DEF Init, RequestInit, StoreInit, Idle
  <2> QED
    BY <2>1 DEF ChargeInv, Orderly, FailureCall
<1>2. ChargeInv /\ [Next]_remoteVars => ChargeInv'
  BY ChargeStep
<1>3. ChargeInv => FailureIsGivenBack
  <2> SUFFICES ASSUME ChargeInv, Unharmed, NEW j \in Jobs, file[j].status = "error",
                      Settled(j), j \in usage \ retaken
               PROVE  FALSE
    BY DEF FailureIsGivenBack, Unharmed
  <2>1. Taken(j)
    BY DEF ChargeInv, Fine, Copies
  <2> QED
    BY <2>1 DEF Settled, Taken, AtStep
<1> QED
  BY <1>1, <1>2, <1>3, PTL DEF Spec
-----------------------------------------------------------------------------
(* Saved fights and their reports.                                         *)

\* The handlers of the workers' calls add reports, and save only a fight whose
\* report is there.
LEMMA CallsMoveHistory ==
    ASSUME RemoteInv, NEW c \in Calls, ServerTurn(c)
    PROVE  HistoryMoves
<1>1. NoSnapshot
  <2>1. UNCHANGED req
    BY DEF ServerTurn, ClaimMake, ClaimTake, ClaimDrop, ProgressCheck, ProgressRenew, ResultCheck,
       ResultCommit, ResultRejected, ResultSave, FailureCheck, FailureRelease, FailureUnmark,
       FailureError, vars, requestVars
  <2> QED
    BY <2>1 DEF NoSnapshot
<1>2. ASSUME NEW saves \in BOOLEAN, NEW writes \in BOOLEAN, ResultSave(c, saves, writes)
      PROVE  HistoryMoves
  BY <1>1, <1>2, OneCall, PersistMoves DEF ResultSave, requestVars
<1>3. ASSUME NEW ok \in BOOLEAN, ResultCommit(c, ok) PROVE NothingForgotten
  BY <1>3 DEF ResultCommit, FinalizeRun, requestVars, NothingForgotten
<1>4. CASE \/ ClaimMake(c) \/ ClaimDrop(c) \/ ProgressCheck(c) \/ ResultCheck(c)
           \/ ResultRejected(c) \/ FailureCheck(c) \/ FailureRelease(c)
           \/ \E ok \in BOOLEAN : \/ ClaimTake(c, ok) \/ ProgressRenew(c, ok)
                                  \/ FailureUnmark(c, ok) \/ FailureError(c, ok)
  <2>1. NothingForgotten
    BY <1>4 DEF ClaimMake, ClaimTake, ClaimDrop, ProgressCheck, ProgressRenew, ResultCheck,
       ResultRejected, FailureCheck, FailureRelease, FailureUnmark, FailureError, vars,
       requestVars, NothingForgotten
  <2> QED
    BY <1>1, <2>1, NothingForgottenMoves
<1> QED
  BY <1>1, <1>2, <1>3, <1>4, NothingForgottenMoves DEF ServerTurn

\* The workers themselves reach nothing of it, and the web process takes the
\* sweep with it when it dies.
LEMMA WorkersMoveHistory ==
    ASSUME RemoteInv, Mishap \/ \E w \in WorkerIds : WorkerTurn(w) \/ AnalysisEnds(w)
    PROVE  HistoryMoves
<1>1. CASE Restart
  BY <1>1, WebMovesHistory DEF Restart, RemoteInv
<1>2. CASE ~Restart
  <2>1. UNCHANGED <<history, reports, deleted, req>>
    BY <1>2 DEF Mishap, WorkerTurn, AnalysisEnds, StopsWaiting, WorkerDies, SendProgress, AskForJob,
       SendFailure, GiveUpRun, AnalysisFails, SendResult, vars
  <2> QED
    BY <2>1, NothingForgottenMoves DEF NothingForgotten, NoSnapshot
<1> QED
  BY <1>1, <1>2

\* The report a saved fight points at is there until the fight's deletion, whatever
\* calls, lost answers, failed writes, retries of the save and sweeps do
\* (remote_worker_complete, persist_completed_job, cleanup_abandoned_processing_files).
THEOREM RemoteReportsStay == Spec => []ReportMissingOnlyAfterDeletion
<1>1. Init => RemoteInv /\ HistoryInv
  BY RemoteInitGood, HistoryInitGood DEF Init
<1>2. RemoteInv /\ HistoryInv /\ [Next]_remoteVars => RemoteInv' /\ HistoryInv'
  <2> SUFFICES ASSUME RemoteInv, HistoryInv, [Next]_remoteVars PROVE RemoteInv' /\ HistoryInv'
    OBVIOUS
  <2>1. RemoteInv' /\ RequestInv
    BY RemoteStep DEF RemoteInv
  <2>2. CASE WebTurn
    BY <2>1, <2>2, WebMovesHistory, MovesKeepHistory DEF WebTurn
  <2>3. ASSUME NEW c \in Calls, ServerTurn(c) PROVE HistoryInv'
    BY <2>1, <2>3, CallsMoveHistory, MovesKeepHistory DEF ServerTurn
  <2>4. CASE Mishap \/ \E w \in WorkerIds : WorkerTurn(w) \/ AnalysisEnds(w)
    BY <2>1, <2>4, WorkersMoveHistory, MovesKeepHistory DEF Mishap, WorkerTurn, AnalysisEnds
  <2>5. CASE UNCHANGED remoteVars
    <3>1. UNCHANGED <<vars, untouched>>
      BY <2>5 DEF remoteVars
    <3> QED
      BY <2>1, <3>1, StutterKeepsHistory
  <2> QED
    BY <2>1, <2>2, <2>3, <2>4, <2>5 DEF Next
<1>3. HistoryInv => ReportMissingOnlyAfterDeletion
  BY DEF HistoryInv
<1> QED
  BY <1>1, <1>2, <1>3, PTL DEF Spec
=============================================================================
