--------------------------- MODULE JobRequestsProofs ---------------------------
(***************************************************************************)
(* What every deployment of JobRequests keeps, proved once: the inductive  *)
(* invariant RequestInv, the shape FileMoves of every change to a session  *)
(* file, and that FileMoves implements a step of ResultPromise.  The       *)
(* modules that add workers prove the same of their own actions and        *)
(* combine the two.                                                        *)
(***************************************************************************)
EXTENDS JobRequests, TLAPS

\* A copy of job j's session that may be written or kept in memory: of no later
\* generation than the newest, empty as a whole or not at all, naming its own
\* artifacts if it is finished and saying whether its account's history has it,
\* and of a job that was uploaded.
GoodFor(j, s) ==
    /\ s \in Session
    /\ s.run <= lastRun
    /\ s.status = "absent" => s = Absent
    /\ s.status = "complete" => s.artifacts = s.run /\ (HasAccount(j) => s.saved # "none")
    /\ s # Absent => j \in created

SessionsGood == \A j \in Jobs : GoodFor(j, file[j])
CopiesGood == \A p \in Processes, j \in Jobs : GoodFor(j, mirror[p][j])
SeenGood == \A q \in Requests : GoodFor(req[q].job, req[q].seen)

\* A handler that is about to submit a run to the executor has queued it.
SubmitsGood == \A q \in Requests : req[q].at = "submit" => req[q].seen.run \in 1..MaxRuns

StoreInv == StoreTypeOK /\ created \subseteq Jobs /\ SessionsGood /\ CopiesGood

\* The inductive invariant of the web process's part.
RequestInv == RequestTypeOK /\ StoreInv /\ SeenGood /\ SubmitsGood

\* How a session file may go from s to t while no generation is handed out.
SessionMoves(s, t) ==
    \/ s = Absent \/ t = Absent
    \/ /\ t.run = s.run
       /\ \/ PhaseOf(t) = PhaseOf(s)
          \/ PhaseOf(t) = "closed"
          \/ s.status = "running" /\ s.lease = "live" /\ t.status = "complete"

\* How one step may change the session files: those of one job, either under
\* the same newest generation or under a new one, which is then queued there or
\* lost.
FileMoves ==
    \/ UNCHANGED <<file, lastRun>>
    \/ \E j \in Jobs :
          /\ \A i \in Jobs \ {j} : file'[i] = file[i]
          /\ \/ lastRun' = lastRun /\ SessionMoves(file[j], file'[j])
             \/ /\ lastRun < MaxRuns /\ lastRun' = lastRun + 1
                /\ \/ file'[j] = file[j]
                   \/ file'[j].status = "queued" /\ file'[j].run = lastRun'

\* The effect on the store of one call of app/state.py about job j in process
\* p, where the call hands out no generation.
Effect(p, j) ==
    /\ \E s \in Session : /\ GoodFor(j, s) /\ SessionMoves(file[j], s)
                          /\ file' = [file EXCEPT ![j] = s]
    /\ \E t \in Session : /\ GoodFor(j, t)
                          /\ mirror' = [mirror EXCEPT ![p][j] = t]
    /\ folders' \subseteq Jobs
    /\ faults' \in Nat

-----------------------------------------------------------------------------
(* Sessions.                                                               *)

\* The empty session and the one upload creates are sessions.
LEMMA SessionTypes == Absent \in Session /\ NewSession \in Session
BY StoreAssumption DEF Absent, NewSession, Session, Statuses, NoRun

\* A process that has no copy of a job remembers nothing wrong about it.
LEMMA AbsentIsGood ==
    ASSUME StoreInv, NEW j \in Jobs
    PROVE  GoodFor(j, Absent)
BY SessionTypes DEF GoodFor, StoreInv, StoreTypeOK, Absent, NoRun

\* Session s says that generation run is queued.
QueuedAs(s, run) == s.status = "queued" /\ s.run = run

\* A read finds what is there, or an interruption.
LEMMA ReadIsNoYounger ==
    ASSUME NEW s, NEW b \in BOOLEAN
    PROVE  /\ Recovered(s, b) = s \/ Recovered(s, b).status = "interrupted"
           /\ s.status = "queued" => Recovered(s, b) = s
<1>1. CASE Lapsed(s, b)
  <2>1. s.status = "running"
    BY <1>1 DEF Lapsed
  <2> QED
    BY <1>1, <2>1 DEF Recovered, Interrupted
<1>2. CASE ~Lapsed(s, b)
  BY <1>2 DEF Recovered
<1> QED
  BY <1>1, <1>2

\* What _read_session returns is as good as what the file holds, and differs
\* from it at most by being interrupted.
LEMMA RecoveredIsGood ==
    ASSUME NEW j, NEW s, GoodFor(j, s), NEW b \in BOOLEAN
    PROVE  /\ GoodFor(j, Recovered(s, b))
           /\ SessionMoves(s, Recovered(s, b))
           /\ Recovered(s, b) = Absent <=> s = Absent
           /\ Recovered(s, b) = s \/ PhaseOf(Recovered(s, b)) = "closed"
<1>1. CASE ~Lapsed(s, b)
  BY <1>1 DEF Recovered, SessionMoves
<1>2. CASE Lapsed(s, b)
  <2>1. Recovered(s, b) = Interrupted(s) /\ s.status = "running"
    BY <1>2 DEF Recovered, Lapsed
  <2>2. /\ Interrupted(s) \in Session /\ Interrupted(s).run = s.run
        /\ Interrupted(s).status = "interrupted"
    BY StoreAssumption DEF GoodFor, Interrupted, Session, Statuses
  <2>3. s # Absent /\ Interrupted(s) # Absent
    BY <2>1, <2>2 DEF Absent
  <2>4. PhaseOf(Interrupted(s)) = "closed"
    BY <2>2 DEF PhaseOf
  <2> QED
    BY <2>1, <2>2, <2>3, <2>4 DEF GoodFor, SessionMoves
<1> QED
  BY <1>1, <1>2

\* The three ways a call reads a session: _read_session, get_job, update_job.
LEMMA ReadsAreGood ==
    ASSUME StoreInv, NEW p \in Processes, NEW j \in Jobs
    PROVE  /\ GoodFor(j, OnDisk(j)) /\ GoodFor(j, Seen(p, j)) /\ GoodFor(j, Base(p, j))
           /\ SessionMoves(file[j], OnDisk(j))
           /\ SessionMoves(file[j], Seen(p, j))
           /\ SessionMoves(file[j], Base(p, j))
           /\ OnDisk(j) = Absent <=> file[j] = Absent
           /\ OnDisk(j) = file[j] \/ PhaseOf(OnDisk(j)) = "closed"
           /\ Base(p, j) = file[j] \/ PhaseOf(Base(p, j)) = "closed" \/ file[j] = Absent
<1>1. GoodFor(j, file[j]) /\ GoodFor(j, mirror[p][j])
  BY DEF StoreInv, SessionsGood, CopiesGood
<1>2. \A b \in BOOLEAN : /\ GoodFor(j, Recovered(file[j], b))
                         /\ SessionMoves(file[j], Recovered(file[j], b))
                         /\ Recovered(file[j], b) = Absent <=> file[j] = Absent
                         /\ Recovered(file[j], b) = file[j] \/ PhaseOf(Recovered(file[j], b)) = "closed"
  BY <1>1, RecoveredIsGood
<1> QED
  <2> DEFINE none == mirror[p][j] = Absent
  <2>1. none \in BOOLEAN
    OBVIOUS
  <2>2. SessionMoves(Absent, mirror[p][j])
    BY DEF SessionMoves
  <2> QED
    BY <1>1, <1>2, <2>1, <2>2 DEF OnDisk, Seen, Base

\* The sessions that the calls write are good wherever the one they start from
\* is, and so are the moves they make.
LEMMA RenewedIsGood ==
    ASSUME NEW j, NEW s, GoodFor(j, s), s.status = "running"
    PROVE  GoodFor(j, Renewed(s)) /\ PhaseOf(Renewed(s)) = PhaseOf(s) /\ Renewed(s).run = s.run
BY DEF GoodFor, Renewed, Session, Absent, PhaseOf

LEMMA StartedIsGood ==
    ASSUME NEW j, NEW s, GoodFor(j, s), Claimable(s), NEW w \in WorkerIds
    PROVE  /\ GoodFor(j, Started(s, w)) /\ PhaseOf(Started(s, w)) = PhaseOf(s)
           /\ Started(s, w).run = s.run
<1>1. Started(s, w) \in Session /\ Started(s, w).status = "running" /\ Started(s, w).run = s.run
  BY DEF GoodFor, Started, Session, Statuses
<1> QED
  BY <1>1 DEF GoodFor, Claimable, Absent, PhaseOf

LEMMA CompletedIsGood ==
    ASSUME NEW j, NEW s, GoodFor(j, s), s.status = "running"
    PROVE  /\ GoodFor(j, Completed(j, s)) /\ Completed(j, s).status = "complete"
           /\ Completed(j, s).run = s.run
<1>1. /\ Completed(j, s) \in Session /\ Completed(j, s).status = "complete"
      /\ Completed(j, s).run = s.run /\ Completed(j, s).artifacts = s.run
      /\ Completed(j, s).saved = IF HasAccount(j) THEN "no" ELSE "none"
  BY DEF GoodFor, Completed, Session, Statuses
<1> QED
  BY <1>1 DEF GoodFor, Absent

LEMMA FailedIsGood ==
    ASSUME NEW j, NEW s, GoodFor(j, s), s # Absent
    PROVE  /\ GoodFor(j, Failed(s)) /\ PhaseOf(Failed(s)) = "closed"
           /\ Failed(s).run = s.run
<1>1. Failed(s) \in Session /\ Failed(s).status = "error" /\ Failed(s).run = s.run
  BY DEF GoodFor, Failed, Session, Statuses
<1> QED
  BY <1>1 DEF GoodFor, Absent, PhaseOf

LEMMA MarkedIsGood ==
    ASSUME NEW j, NEW s, GoodFor(j, s), s # Absent, NEW b \in BOOLEAN
    PROVE  /\ GoodFor(j, [s EXCEPT !.reserved = b]) /\ PhaseOf([s EXCEPT !.reserved = b]) = PhaseOf(s)
           /\ [s EXCEPT !.reserved = b].run = s.run
<1>1. /\ [s EXCEPT !.reserved = b] \in Session
      /\ [s EXCEPT !.reserved = b].status = s.status
      /\ [s EXCEPT !.reserved = b].run = s.run
      /\ [s EXCEPT !.reserved = b].artifacts = s.artifacts
  BY DEF GoodFor, Session
<1> QED
  BY <1>1 DEF GoodFor, Absent, PhaseOf

LEMMA SavedIsGood ==
    ASSUME NEW j, NEW s, GoodFor(j, s), s # Absent, NEW v \in {"yes", "no"}
    PROVE  /\ GoodFor(j, [s EXCEPT !.saved = v]) /\ PhaseOf([s EXCEPT !.saved = v]) = PhaseOf(s)
           /\ [s EXCEPT !.saved = v].run = s.run
<1>1. /\ [s EXCEPT !.saved = v] \in Session
      /\ [s EXCEPT !.saved = v].status = s.status
      /\ [s EXCEPT !.saved = v].run = s.run
      /\ [s EXCEPT !.saved = v].artifacts = s.artifacts
  BY DEF GoodFor, Session
<1> QED
  BY <1>1 DEF GoodFor, Absent, PhaseOf

LEMMA QueuedIsGood ==
    ASSUME NEW j, NEW s, GoodFor(j, s), NEW run \in Nat
    PROVE  /\ Queued(s, run) \in Session /\ Queued(s, run).run = run
           /\ Queued(s, run).status = "queued"
BY DEF GoodFor, Queued, Session, Statuses, NoRun

\* A session that a read interrupted and a call then changed under the same
\* generation moves from the file in one step.
LEMMA MoveAfterRead ==
    ASSUME NEW s, NEW t, NEW u, SessionMoves(s, t), u.run = t.run,
           PhaseOf(u) = PhaseOf(t) \/ PhaseOf(u) = "closed",
           t = s \/ PhaseOf(t) = "closed" \/ s = Absent
    PROVE  SessionMoves(s, u)
<1>1. CASE s = Absent
  BY <1>1 DEF SessionMoves
<1>2. CASE t = s
  BY <1>2 DEF SessionMoves
<1>3. CASE PhaseOf(t) = "closed" /\ s # Absent
  <2>1. PhaseOf(u) = "closed"
    BY <1>3
  <2>2. t # Absent
    BY <1>3 DEF PhaseOf, Absent
  <2> QED
    BY <1>3, <2>1, <2>2 DEF SessionMoves
<1> QED
  BY <1>1, <1>2, <1>3

-----------------------------------------------------------------------------
(* Calls.                                                                  *)

\* A call that changes neither file nor memory.
LEMMA NoEffect ==
    ASSUME StoreInv, NEW p \in Processes, NEW j \in Jobs,
           UNCHANGED <<file, mirror, folders, faults>>
    PROVE  Effect(p, j)
<1>1. GoodFor(j, file[j]) /\ GoodFor(j, mirror[p][j])
  BY DEF StoreInv, SessionsGood, CopiesGood
<1>2. file' = [file EXCEPT ![j] = file[j]] /\ mirror' = [mirror EXCEPT ![p][j] = mirror[p][j]]
  BY DEF StoreInv, StoreTypeOK
<1>3. SessionMoves(file[j], file[j])
  BY DEF SessionMoves
<1> QED
  BY <1>1, <1>2, <1>3 DEF Effect, GoodFor, StoreInv, StoreTypeOK

\* A read that finds the session lapsed writes it back.
LEMMA RefreshEffect ==
    ASSUME StoreInv, NEW p \in Processes, NEW j \in Jobs, NEW s, NEW t,
           GoodFor(j, s), SessionMoves(file[j], s), Refresh(j, s),
           GoodFor(j, t), mirror' = [mirror EXCEPT ![p][j] = t]
    PROVE  Effect(p, j)
<1>1. GoodFor(j, file[j]) /\ SessionMoves(file[j], file[j]) /\ file = [file EXCEPT ![j] = file[j]]
  BY DEF StoreInv, SessionsGood, StoreTypeOK, SessionMoves
<1>2. \E u \in Session : /\ GoodFor(j, u) /\ SessionMoves(file[j], u)
                         /\ file' = [file EXCEPT ![j] = u]
  BY <1>1 DEF Refresh, GoodFor
<1> QED
  BY <1>2 DEF Effect, Refresh, GoodFor, StoreInv, StoreTypeOK

\* get_job, with the copy it leaves in memory.
LEMMA GetJobEffect ==
    ASSUME StoreInv, NEW p \in Processes, NEW j \in Jobs, GetJob(p, j)
    PROVE  Effect(p, j)
<1>1. GoodFor(j, Seen(p, j)) /\ SessionMoves(file[j], Seen(p, j))
  BY ReadsAreGood
<1> QED
  BY <1>1, RefreshEffect DEF GetJob, Remember

\* A read under the lock that leaves no copy.
LEMMA ReadEffect ==
    ASSUME StoreInv, NEW p \in Processes, NEW j \in Jobs,
           Refresh(j, OnDisk(j)), UNCHANGED mirror
    PROVE  Effect(p, j)
<1>1. GoodFor(j, OnDisk(j)) /\ SessionMoves(file[j], OnDisk(j))
  BY ReadsAreGood
<1>2. GoodFor(j, mirror[p][j]) /\ mirror' = [mirror EXCEPT ![p][j] = mirror[p][j]]
  BY DEF StoreInv, CopiesGood, StoreTypeOK
<1> QED
  BY <1>1, <1>2, RefreshEffect

\* _write_session, which may fail and then leaves the file as it was.
LEMMA WriteEffect ==
    ASSUME StoreInv, NEW p \in Processes, NEW j \in Jobs, NEW s, NEW t, NEW ok \in BOOLEAN,
           GoodFor(j, s), SessionMoves(file[j], s), WriteFile(j, s, ok),
           GoodFor(j, t), mirror' = [mirror EXCEPT ![p][j] = t]
    PROVE  Effect(p, j)
<1>1. GoodFor(j, file[j]) /\ SessionMoves(file[j], file[j]) /\ file = [file EXCEPT ![j] = file[j]]
  BY DEF StoreInv, SessionsGood, StoreTypeOK, SessionMoves
<1>2. \E u \in Session : /\ GoodFor(j, u) /\ SessionMoves(file[j], u)
                         /\ file' = [file EXCEPT ![j] = u]
  BY <1>1 DEF WriteFile, GoodFor
<1>3. folders' \subseteq Jobs /\ faults' \in Nat
  BY DEF WriteFile, StoreInv, StoreTypeOK
<1> QED
  BY <1>2, <1>3 DEF Effect, GoodFor

LEMMA UpdateEffect ==
    ASSUME StoreInv, NEW p \in Processes, NEW j \in Jobs, NEW s, NEW ok \in BOOLEAN,
           GoodFor(j, s), SessionMoves(file[j], s), UpdateJob(p, j, s, ok)
    PROVE  Effect(p, j)
BY WriteEffect DEF UpdateJob, Remember

\* update_job with a patch that keeps the generation, and the phase or fails it.
LEMMA PatchEffect ==
    ASSUME StoreInv, NEW p \in Processes, NEW j \in Jobs, NEW s, NEW ok \in BOOLEAN,
           PatchJob(p, j, s, ok),
           Base(p, j) # Absent => /\ GoodFor(j, s) /\ s.run = Base(p, j).run
                                  /\ PhaseOf(s) = PhaseOf(Base(p, j)) \/ PhaseOf(s) = "closed"
    PROVE  Effect(p, j)
<1>1. CASE Base(p, j) = Absent
  BY <1>1, NoEffect DEF PatchJob
<1>2. CASE Base(p, j) # Absent
  <2>1. SessionMoves(file[j], s)
    BY <1>2, ReadsAreGood, MoveAfterRead
  <2> QED
    BY <1>2, <2>1, UpdateEffect DEF PatchJob
<1> QED
  BY <1>1, <1>2

\* usage_reserved set or cleared.
LEMMA MarkEffect ==
    ASSUME StoreInv, NEW p \in Processes, NEW j \in Jobs, NEW b \in BOOLEAN, NEW ok \in BOOLEAN,
           PatchJob(p, j, [Base(p, j) EXCEPT !.reserved = b], ok)
    PROVE  Effect(p, j)
<1> DEFINE s == [Base(p, j) EXCEPT !.reserved = b]
<1>1. GoodFor(j, Base(p, j))
  BY ReadsAreGood
<1>2. Base(p, j) # Absent => /\ GoodFor(j, s) /\ s.run = Base(p, j).run
                             /\ PhaseOf(s) = PhaseOf(Base(p, j))
  BY <1>1, MarkedIsGood
<1>3. PatchJob(p, j, s, ok)
  OBVIOUS
<1> HIDE DEF s
<1> QED
  BY <1>2, <1>3, PatchEffect

\* Status error, without a fence.
LEMMA FailEffect ==
    ASSUME StoreInv, NEW p \in Processes, NEW j \in Jobs, NEW ok \in BOOLEAN,
           PatchJob(p, j, Failed(Base(p, j)), ok)
    PROVE  Effect(p, j)
<1>1. GoodFor(j, Base(p, j))
  BY ReadsAreGood
<1> QED
  BY <1>1, FailedIsGood, PatchEffect

\* The fence: whoever owns the run on disk holds a lease that has not run out.
LEMMA OwnerHoldsLease ==
    ASSUME NEW j \in Jobs, NEW w \in WorkerIds, NEW run, OwnsRun(OnDisk(j), w, run)
    PROVE  /\ OnDisk(j) = file[j] /\ file[j].status = "running" /\ file[j].lease = "live"
           /\ file[j] # Absent
<1>1. CASE Lapsed(file[j], FALSE)
  <2>1. OnDisk(j).status = "interrupted"
    BY <1>1 DEF OnDisk, Recovered, Interrupted, Lapsed
  <2> QED
    BY <2>1 DEF OwnsRun
<1>2. CASE ~Lapsed(file[j], FALSE)
  <2>1. OnDisk(j) = file[j]
    BY <1>2 DEF OnDisk, Recovered
  <2>2. file[j].status = "running" /\ file[j].worker # Nobody
    BY <2>1, StoreAssumption DEF OwnsRun
  <2> QED
    BY <1>2, <2>1, <2>2 DEF Lapsed, Absent
<1> QED
  BY <1>1, <1>2

LEMMA RenewEffect ==
    ASSUME StoreInv, NEW p \in Processes, NEW j \in Jobs, NEW w \in WorkerIds, NEW run,
           NEW ok \in BOOLEAN, RenewRun(p, j, w, run, ok)
    PROVE  Effect(p, j)
<1>1. CASE OwnsRun(OnDisk(j), w, run)
  <2>1. GoodFor(j, OnDisk(j)) /\ OnDisk(j) = file[j] /\ file[j].status = "running"
    BY <1>1, ReadsAreGood, OwnerHoldsLease
  <2>2. GoodFor(j, Renewed(file[j])) /\ SessionMoves(file[j], Renewed(file[j]))
    BY <2>1, RenewedIsGood DEF SessionMoves
  <2> QED
    BY <1>1, <2>1, <2>2, UpdateEffect DEF RenewRun
<1>2. CASE ~OwnsRun(OnDisk(j), w, run)
  BY <1>2, ReadEffect DEF RenewRun
<1> QED
  BY <1>1, <1>2

LEMMA FinalizeEffect ==
    ASSUME StoreInv, NEW p \in Processes, NEW j \in Jobs, NEW w \in WorkerIds, NEW run \in Nat,
           NEW ok \in BOOLEAN, FinalizeRun(p, j, w, run, ok)
    PROVE  Effect(p, j) /\ reports' \subseteq Jobs \X Nat
<1>1. CASE OwnsRun(OnDisk(j), w, run)
  <2>1. /\ GoodFor(j, file[j]) /\ GoodFor(j, mirror[p][j]) /\ OnDisk(j) = file[j]
        /\ file[j].status = "running" /\ file[j].lease = "live"
    BY <1>1, ReadsAreGood, OwnerHoldsLease DEF StoreInv, CopiesGood
  <2>2. /\ GoodFor(j, Completed(j, file[j]))
        /\ SessionMoves(file[j], Completed(j, file[j]))
    BY <2>1, CompletedIsGood DEF SessionMoves
  <2>3. \E t : GoodFor(j, t) /\ mirror' = [mirror EXCEPT ![p][j] = t]
    <3>1. mirror = [mirror EXCEPT ![p][j] = mirror[p][j]]
      BY DEF StoreInv, StoreTypeOK
    <3> QED
      BY <1>1, <2>1, <2>2, <3>1 DEF FinalizeRun, Remember
  <2>4. WriteFile(j, Completed(j, file[j]), ok)
    BY <1>1, <2>1 DEF FinalizeRun
  <2>5. reports' \subseteq Jobs \X Nat
    BY <1>1 DEF FinalizeRun, StoreInv, StoreTypeOK
  <2> QED
    BY <2>2, <2>3, <2>4, <2>5, WriteEffect
<1>2. CASE ~OwnsRun(OnDisk(j), w, run)
  BY <1>2, ReadEffect DEF FinalizeRun, StoreInv, StoreTypeOK
<1> QED
  BY <1>1, <1>2

LEMMA PersistEffect ==
    ASSUME StoreInv, NEW p \in Processes, NEW j \in Jobs, NEW run \in Nat,
           NEW saves \in BOOLEAN, NEW writes \in BOOLEAN, PersistRun(p, j, run, saves, writes)
    PROVE  Effect(p, j) /\ history' \in [Jobs -> Nat]
<1> DEFINE s == OnDisk(j)
           new == [s EXCEPT !.saved = IF saves THEN "yes" ELSE "no"]
           due == /\ s.status = "complete" /\ s.artifacts = run
                  /\ HasAccount(j) /\ s.saved # "yes"
<1>1. CASE due
  <2>1. /\ GoodFor(j, file[j]) /\ GoodFor(j, mirror[p][j])
        /\ GoodFor(j, s) /\ SessionMoves(file[j], s) /\ s # Absent
    BY <1>1, ReadsAreGood DEF StoreInv, CopiesGood, SessionsGood, Absent
  <2>2. GoodFor(j, new) /\ PhaseOf(new) = PhaseOf(s) /\ new.run = s.run
    BY <2>1, SavedIsGood
  <2>3. SessionMoves(file[j], new) /\ SessionMoves(file[j], file[j])
    BY <2>1, <2>2, ReadsAreGood, MoveAfterRead DEF SessionMoves
  <2>4. \E u \in Session : /\ GoodFor(j, u) /\ SessionMoves(file[j], u)
                           /\ file' = [file EXCEPT ![j] = u]
    <3>1. file = [file EXCEPT ![j] = file[j]]
      BY DEF StoreInv, StoreTypeOK
    <3>2. file' = [file EXCEPT ![j] = new] \/ file' = file
      BY <1>1 DEF PersistRun
    <3> QED
      BY <2>1, <2>2, <2>3, <3>1, <3>2 DEF GoodFor
  <2>5. \E t \in Session : GoodFor(j, t) /\ mirror' = [mirror EXCEPT ![p][j] = t]
    <3>1. mirror = [mirror EXCEPT ![p][j] = mirror[p][j]]
      BY DEF StoreInv, StoreTypeOK
    <3>2. mirror' = [mirror EXCEPT ![p][j] = new] \/ mirror' = mirror
      BY <1>1 DEF PersistRun, Remember
    <3> QED
      BY <2>1, <2>2, <3>1, <3>2 DEF GoodFor
  <2>6. folders' \subseteq Jobs /\ faults' \in Nat /\ history' \in [Jobs -> Nat]
    <3>1. folders' = folders /\ (faults' = faults \/ faults' = faults + 1)
      BY <1>1 DEF PersistRun
    <3>2. history' = history \/ history' = [history EXCEPT ![j] = run]
      BY <1>1 DEF PersistRun
    <3> QED
      BY <3>1, <3>2 DEF StoreInv, StoreTypeOK
  <2> QED
    BY <2>4, <2>5, <2>6 DEF Effect
<1>2. CASE ~due
  BY <1>2, ReadEffect DEF PersistRun, StoreInv, StoreTypeOK
<1> QED
  BY <1>1, <1>2

-----------------------------------------------------------------------------
(* Steps.                                                                  *)

\* The variables of the store that a call's Effect says nothing about.
OthersTyped ==
    /\ claims' \subseteq Jobs /\ usage' \subseteq Jobs
    /\ history' \in [Jobs -> Nat] /\ reports' \subseteq Jobs \X Nat

\* A step that is one call about one job keeps the store's invariant and moves
\* the session files as it may.
LEMMA EffectKeeps ==
    ASSUME StoreInv, NEW p \in Processes, NEW j \in Jobs, Effect(p, j),
           lastRun' = lastRun, created' = created, OthersTyped
    PROVE  StoreInv' /\ FileMoves
<1>1. PICK s \in Session : /\ GoodFor(j, s) /\ SessionMoves(file[j], s)
                           /\ file' = [file EXCEPT ![j] = s]
  BY DEF Effect
<1>2. PICK t \in Session : GoodFor(j, t) /\ mirror' = [mirror EXCEPT ![p][j] = t]
  BY DEF Effect
<1>3. file' \in [Jobs -> Session] /\ mirror' \in [Processes -> [Jobs -> Session]]
  BY <1>1, <1>2 DEF StoreInv, StoreTypeOK
<1>4. SessionsGood'
  <2> SUFFICES ASSUME NEW i \in Jobs PROVE GoodFor(i, file[i])'
    BY DEF SessionsGood
  <2>1. file'[i] = IF i = j THEN s ELSE file[i]
    BY <1>1 DEF StoreInv, StoreTypeOK
  <2>2. GoodFor(i, file[i])
    BY DEF StoreInv, SessionsGood
  <2> QED
    BY <1>1, <2>1, <2>2 DEF GoodFor
<1>5. CopiesGood'
  <2> SUFFICES ASSUME NEW r \in Processes, NEW i \in Jobs PROVE GoodFor(i, mirror[r][i])'
    BY DEF CopiesGood
  <2>1. mirror'[r][i] = IF r = p /\ i = j THEN t ELSE mirror[r][i]
    BY <1>2 DEF StoreInv, StoreTypeOK
  <2>2. GoodFor(i, mirror[r][i])
    BY DEF StoreInv, CopiesGood
  <2> QED
    BY <1>2, <2>1, <2>2 DEF GoodFor
<1>6. FileMoves
  <2>1. /\ \A i \in Jobs \ {j} : file'[i] = file[i]
        /\ lastRun' = lastRun /\ SessionMoves(file[j], file'[j])
    BY <1>1 DEF StoreInv, StoreTypeOK
  <2> QED
    BY <2>1 DEF FileMoves
<1> QED
  BY <1>3, <1>4, <1>5, <1>6 DEF Effect, StoreInv, StoreTypeOK, OthersTyped

\* What the step of a handler may do to the table of handlers.
Handled(q) ==
    \/ \E step \in Steps \ {"submit"} : Goto(q, step)
    \/ Done(q)
    \/ \E step \in Steps, j \in Jobs, s \in Session :
          Begin(q, step, j, s) /\ GoodFor(j, s)' /\ (step = "submit" => s.run \in 1..MaxRuns)

\* A step that keeps the store's invariant and goes on with at most one handler
\* keeps the whole.
LEMMA RequestKept ==
    ASSUME RequestInv, StoreInv', lastRun <= lastRun', created \subseteq created',
           UNCHANGED req \/ \E q \in Requests : Handled(q),
           deleted' \subseteq Jobs, crashes' \in Nat
    PROVE  RequestInv'
<1> DEFINE Rows == [at : Steps, job : Jobs, seen : Session]
<1>1. /\ req \in [Requests -> Rows] /\ lastRun \in Nat /\ lastRun' \in Nat
      /\ StoreInv /\ StoreTypeOK' /\ (created \subseteq Jobs)'
  BY DEF RequestInv, RequestTypeOK, StoreInv, StoreTypeOK
<1>2. \A r \in Requests : req[r].seen.run \in Nat /\ GoodFor(req[r].job, req[r].seen)
  BY <1>1 DEF RequestInv, SeenGood, Session
<1>3. ASSUME NEW i \in Jobs, NEW s \in Session, GoodFor(i, s)
      PROVE  s.run <= lastRun' /\ (s # Absent => i \in created')
  BY <1>1, <1>3 DEF GoodFor, Session
<1>4. CASE UNCHANGED req
  <2> SUFFICES ASSUME NEW r \in Requests PROVE GoodFor(req[r].job, req[r].seen)'
    BY <1>1, <1>4 DEF RequestInv, RequestTypeOK, SeenGood, SubmitsGood
  <2> QED
    BY <1>1, <1>2, <1>3, <1>4 DEF GoodFor
<1>5. ASSUME NEW q \in Requests, Handled(q) PROVE RequestInv'
  <2>1. CASE \E step \in Steps \ {"submit"} : Goto(q, step)
    <3>1. /\ req' \in [Requests -> Rows]
          /\ \A r \in Requests : /\ req'[r].job = req[r].job /\ req'[r].seen = req[r].seen
                                 /\ req'[r].at = req[r].at \/ req'[r].at # "submit"
      BY <1>1, <2>1 DEF Goto
    <3> SUFFICES ASSUME NEW r \in Requests PROVE GoodFor(req[r].job, req[r].seen)'
      BY <1>1, <3>1 DEF RequestInv, RequestTypeOK, SeenGood, SubmitsGood
    <3> QED
      BY <1>1, <1>2, <1>3, <3>1 DEF GoodFor
  <2>2. CASE Done(q)
    <3>1. /\ req' \in [Requests -> Rows]
          /\ \A r \in Requests : /\ req'[r].job = req[r].job
                                 /\ req'[r].seen = IF r = q THEN Absent ELSE req[r].seen
                                 /\ req'[r].at = IF r = q THEN "idle" ELSE req[r].at
      BY <1>1, <2>2, SessionTypes DEF Done, Idle, Steps
    <3>2. \A i \in Jobs : GoodFor(i, Absent)
      BY <1>1, AbsentIsGood
    <3> SUFFICES ASSUME NEW r \in Requests PROVE GoodFor(req[r].job, req[r].seen)'
      BY <1>1, <3>1 DEF RequestInv, RequestTypeOK, SeenGood, SubmitsGood
    <3> QED
      BY <1>1, <1>2, <1>3, <3>1, <3>2 DEF GoodFor
  <2>3. ASSUME NEW step \in Steps, NEW j \in Jobs, NEW s \in Session,
               Begin(q, step, j, s), GoodFor(j, s)', step = "submit" => s.run \in 1..MaxRuns
        PROVE  RequestInv'
    <3>1. /\ req' \in [Requests -> Rows]
          /\ \A r \in Requests : /\ req'[r].job = IF r = q THEN j ELSE req[r].job
                                 /\ req'[r].seen = IF r = q THEN s ELSE req[r].seen
                                 /\ req'[r].at = IF r = q THEN step ELSE req[r].at
      BY <1>1, <2>3 DEF Begin
    <3> SUFFICES ASSUME NEW r \in Requests PROVE GoodFor(req[r].job, req[r].seen)'
      BY <1>1, <2>3, <3>1 DEF RequestInv, RequestTypeOK, SeenGood, SubmitsGood
    <3>2. CASE r = q
      BY <2>3, <3>1, <3>2 DEF GoodFor
    <3>3. CASE r # q
      BY <1>1, <1>2, <1>3, <3>1, <3>3 DEF GoodFor
    <3> QED
      BY <3>2, <3>3
  <2> QED
    BY <1>5, <2>1, <2>2, <2>3 DEF Handled
<1> QED
  BY <1>4, <1>5

\* One call about one job by a process, and at most one handler that goes on.
LEMMA CallKeeps ==
    ASSUME RequestInv, NEW p \in Processes, NEW j \in Jobs, Effect(p, j),
           lastRun' = lastRun, created' = created, OthersTyped,
           UNCHANGED req \/ \E q \in Requests : Handled(q),
           deleted' \subseteq Jobs, crashes' \in Nat
    PROVE  RequestInv' /\ FileMoves
<1>1. StoreInv' /\ FileMoves
  BY EffectKeeps DEF RequestInv
<1>2. lastRun <= lastRun'
  BY DEF RequestInv, StoreInv, StoreTypeOK
<1> QED
  BY <1>1, <1>2, RequestKept

\* A handler that begins remembers the session it read.
LEMMA BeginsHandled ==
    ASSUME RequestInv, NEW q \in Requests, NEW j \in Jobs, NEW step \in Steps \ {"submit"}, NEW s,
           GoodFor(j, s), Begin(q, step, j, s), UNCHANGED <<lastRun, created>>
    PROVE  Handled(q)
<1>1. s \in Session /\ GoodFor(j, s)'
  BY DEF GoodFor
<1> QED
  BY <1>1 DEF Handled

\* The variables that keep their value keep their type.
LEMMA UnchangedTyped ==
    ASSUME RequestInv
    PROVE  /\ claims \subseteq Jobs /\ usage \subseteq Jobs /\ history \in [Jobs -> Nat]
           /\ reports \subseteq Jobs \X Nat /\ folders \subseteq Jobs /\ faults \in Nat
           /\ deleted \subseteq Jobs /\ crashes \in Nat /\ lastRun \in Nat /\ created \subseteq Jobs
           /\ StoreInv /\ Web \in Processes
           /\ \A q \in Requests : req[q].job \in Jobs /\ req[q].at \in Steps /\ req[q].seen \in Session
           /\ \A q \in Requests : GoodFor(req[q].job, req[q].seen)
BY StoreAssumption DEF RequestInv, RequestTypeOK, StoreInv, StoreTypeOK, SeenGood

-----------------------------------------------------------------------------
(* The web process's actions.                                              *)

\* A poll.
LEMMA PollKeeps ==
    ASSUME RequestInv, NEW j \in Jobs, Poll(j)
    PROVE  RequestInv' /\ FileMoves
<1>1. j \in Jobs
  BY UnchangedTyped
<1>2. Effect(Web, j)
  BY <1>1, UnchangedTyped, GetJobEffect DEF Poll
<1>3. UNCHANGED req
  BY DEF Poll, requestVars
<1>4. OthersTyped /\ deleted' \subseteq Jobs /\ crashes' \in Nat
  BY UnchangedTyped DEF Poll, requestVars, OthersTyped
<1> QED
  BY <1>1, <1>2, <1>3, <1>4, UnchangedTyped, CallKeeps DEF Poll, requestVars

\* The result page's second try at the history.
LEMMA ViewKeeps ==
    ASSUME RequestInv, NEW j \in Jobs, NEW saves \in BOOLEAN, NEW writes \in BOOLEAN,
           ViewResult(j, saves, writes)
    PROVE  RequestInv' /\ FileMoves
<1>1. Seen(Web, j).run \in Nat
  BY UnchangedTyped, ReadsAreGood DEF GoodFor, Session
<1>2. Effect(Web, j) /\ history' \in [Jobs -> Nat]
  BY <1>1, UnchangedTyped, PersistEffect DEF ViewResult
<1>3. OthersTyped /\ UNCHANGED req /\ deleted' \subseteq Jobs /\ crashes' \in Nat
  BY <1>2, UnchangedTyped DEF ViewResult, requestVars, OthersTyped
<1> QED
  BY <1>2, <1>3, UnchangedTyped, CallKeeps DEF ViewResult, requestVars

\* Start, as far as its first read.
LEMMA StartReadKeeps ==
    ASSUME RequestInv, NEW q \in Requests, NEW j \in Jobs, StartRead(q, j)
    PROVE  RequestInv' /\ FileMoves
<1>1. GoodFor(j, Seen(Web, j))
  BY UnchangedTyped, ReadsAreGood
<1>2. Effect(Web, j)
  BY UnchangedTyped, GetJobEffect DEF StartRead
<1>3. Handled(q)
  <2>1. \E step \in Steps \ {"submit"} : Begin(q, step, j, Seen(Web, j))
    BY DEF StartRead, AfterTrim, Steps
  <2> QED
    BY <1>1, <2>1, BeginsHandled DEF StartRead
<1>4. OthersTyped /\ deleted' \subseteq Jobs /\ crashes' \in Nat
  BY UnchangedTyped DEF StartRead, OthersTyped
<1> QED
  BY <1>2, <1>3, <1>4, UnchangedTyped, CallKeeps DEF StartRead

\* An edit of the fight, as far as its read.
LEMMA EditReadKeeps ==
    ASSUME RequestInv, NEW q \in Requests, NEW j \in Jobs, EditRead(q, j)
    PROVE  RequestInv' /\ FileMoves
<1>1. GoodFor(j, Seen(Web, j))
  BY UnchangedTyped, ReadsAreGood
<1>2. Effect(Web, j)
  BY UnchangedTyped, GetJobEffect DEF EditRead
<1>3. Handled(q)
  <2>1. \E step \in Steps \ {"submit"} : Begin(q, step, j, Seen(Web, j))
    BY DEF EditRead, Steps
  <2> QED
    BY <1>1, <2>1, BeginsHandled DEF EditRead
<1>4. OthersTyped /\ deleted' \subseteq Jobs /\ crashes' \in Nat
  BY UnchangedTyped DEF EditRead, OthersTyped
<1> QED
  BY <1>2, <1>3, <1>4, UnchangedTyped, CallKeeps DEF EditRead

\* Restart, as far as its read.
LEMMA RestartReadKeeps ==
    ASSUME RequestInv, NEW q \in Requests, NEW j \in Jobs, RestartRead(q, j)
    PROVE  RequestInv' /\ FileMoves
<1>1. GoodFor(j, Seen(Web, j))
  BY UnchangedTyped, ReadsAreGood
<1>2. Effect(Web, j)
  BY UnchangedTyped, GetJobEffect DEF RestartRead
<1>3. Handled(q)
  <2>1. \E step \in Steps \ {"submit"} : Begin(q, step, j, Seen(Web, j))
    BY DEF RestartRead, Steps
  <2> QED
    BY <1>1, <2>1, BeginsHandled DEF RestartRead
<1>4. OthersTyped /\ deleted' \subseteq Jobs /\ crashes' \in Nat
  BY UnchangedTyped DEF RestartRead, OthersTyped
<1> QED
  BY <1>2, <1>3, <1>4, UnchangedTyped, CallKeeps DEF RestartRead

\* Cancel, as far as its read.
LEMMA CancelReadKeeps ==
    ASSUME RequestInv, NEW q \in Requests, NEW j \in Jobs, CancelRead(q, j)
    PROVE  RequestInv' /\ FileMoves
<1>1. GoodFor(j, Seen(Web, j))
  BY UnchangedTyped, ReadsAreGood
<1>2. Effect(Web, j)
  BY UnchangedTyped, GetJobEffect DEF CancelRead
<1>3. Handled(q)
  <2>1. \E step \in Steps \ {"submit"} : Begin(q, step, j, Seen(Web, j))
    BY DEF CancelRead, Steps
  <2> QED
    BY <1>1, <2>1, BeginsHandled DEF CancelRead
<1>4. OthersTyped /\ deleted' \subseteq Jobs /\ crashes' \in Nat
  BY UnchangedTyped DEF CancelRead, OthersTyped
<1> QED
  BY <1>2, <1>3, <1>4, UnchangedTyped, CallKeeps DEF CancelRead

\* The sweep's snapshot of one job.
LEMMA SweepReadKeeps ==
    ASSUME RequestInv, NEW q \in Requests, NEW j \in Jobs, SweepRead(q, j)
    PROVE  RequestInv' /\ FileMoves
<1>1. GoodFor(j, Seen(Web, j))
  BY UnchangedTyped, ReadsAreGood
<1>2. Effect(Web, j)
  BY UnchangedTyped, GetJobEffect DEF SweepRead
<1>3. Handled(q)
  <2>1. \E step \in Steps \ {"submit"} : Begin(q, step, j, Seen(Web, j))
    BY DEF SweepRead, Steps, SweepSteps
  <2> QED
    BY <1>1, <2>1, BeginsHandled DEF SweepRead
<1>4. OthersTyped /\ deleted' \subseteq Jobs /\ crashes' \in Nat
  BY UnchangedTyped DEF SweepRead, OthersTyped
<1> QED
  BY <1>2, <1>3, <1>4, UnchangedTyped, CallKeeps DEF SweepRead

\* The library's read of one job.
LEMMA ListReadKeeps ==
    ASSUME RequestInv, NEW q \in Requests, NEW j \in Jobs, ListRead(q, j)
    PROVE  RequestInv' /\ FileMoves
<1>1. GoodFor(j, Seen(Web, j)) /\ SessionMoves(file[j], Seen(Web, j))
  BY UnchangedTyped, ReadsAreGood
<1>2. Effect(Web, j)
  <2>1. /\ GoodFor(j, mirror[Web][j])
        /\ mirror' = [mirror EXCEPT ![Web][j] = mirror[Web][j]]
    BY UnchangedTyped DEF ListRead, StoreInv, CopiesGood, StoreTypeOK
  <2> QED
    BY <1>1, <2>1, UnchangedTyped, RefreshEffect DEF ListRead
<1>3. Handled(q)
  BY <1>1, BeginsHandled DEF ListRead, Steps
<1>4. OthersTyped /\ deleted' \subseteq Jobs /\ crashes' \in Nat
  BY UnchangedTyped DEF ListRead, OthersTyped
<1> QED
  BY <1>2, <1>3, <1>4, UnchangedTyped, CallKeeps DEF ListRead

\* The trim a start applies.
LEMMA StartTrimKeeps ==
    ASSUME RequestInv, NEW q \in Requests, NEW ok \in BOOLEAN, StartTrim(q, ok)
    PROVE  RequestInv' /\ FileMoves
<1> DEFINE j == req[q].job
<1>1. j \in Jobs
  BY UnchangedTyped
<1>2. Effect(Web, j)
  <2>1. GoodFor(j, Base(Web, j))
    BY <1>1, UnchangedTyped, ReadsAreGood
  <2> QED
    BY <1>1, <2>1, UnchangedTyped, PatchEffect DEF StartTrim
<1>3. Handled(q)
  BY UnchangedTyped DEF StartTrim, Handled, Steps, AfterTrim
<1>4. OthersTyped /\ deleted' \subseteq Jobs /\ crashes' \in Nat
  BY UnchangedTyped DEF StartTrim, OthersTyped
<1> QED
  BY <1>1, <1>2, <1>3, <1>4, UnchangedTyped, CallKeeps DEF StartTrim

\* A patch of fields that are left out.
LEMMA PatchKeeps ==
    ASSUME RequestInv, NEW q \in Requests, NEW ok \in BOOLEAN, Patch(q, ok)
    PROVE  RequestInv' /\ FileMoves
<1> DEFINE j == req[q].job
<1>1. j \in Jobs
  BY UnchangedTyped
<1>2. Effect(Web, j)
  <2>1. GoodFor(j, Base(Web, j))
    BY <1>1, UnchangedTyped, ReadsAreGood
  <2> QED
    BY <1>1, <2>1, UnchangedTyped, PatchEffect DEF Patch
<1>3. Handled(q)
  BY UnchangedTyped DEF Patch, Handled, Steps
<1>4. OthersTyped /\ deleted' \subseteq Jobs /\ crashes' \in Nat
  BY UnchangedTyped DEF Patch, OthersTyped
<1> QED
  BY <1>1, <1>2, <1>3, <1>4, UnchangedTyped, CallKeeps DEF Patch

\* The mark that an analysis is reserved.
LEMMA StartMarkKeeps ==
    ASSUME RequestInv, NEW q \in Requests, NEW ok \in BOOLEAN, StartMark(q, ok)
    PROVE  RequestInv' /\ FileMoves
<1> DEFINE j == req[q].job
<1>1. j \in Jobs
  BY UnchangedTyped
<1>2. Effect(Web, j)
  BY <1>1, UnchangedTyped, MarkEffect DEF StartMark
<1>3. Handled(q)
  BY UnchangedTyped DEF StartMark, Handled, Steps
<1>4. OthersTyped /\ deleted' \subseteq Jobs /\ crashes' \in Nat
  BY UnchangedTyped DEF StartMark, OthersTyped
<1> QED
  BY <1>1, <1>2, <1>3, <1>4, UnchangedTyped, CallKeeps DEF StartMark

\* The mark taken back.
LEMMA StartUnmarkKeeps ==
    ASSUME RequestInv, NEW q \in Requests, NEW ok \in BOOLEAN, StartUnmark(q, ok)
    PROVE  RequestInv' /\ FileMoves
<1> DEFINE j == req[q].job
<1>1. j \in Jobs
  BY UnchangedTyped
<1>2. Effect(Web, j)
  BY <1>1, UnchangedTyped, MarkEffect DEF StartUnmark
<1>3. Handled(q)
  BY UnchangedTyped DEF StartUnmark, Handled, Steps
<1>4. OthersTyped /\ deleted' \subseteq Jobs /\ crashes' \in Nat
  BY UnchangedTyped DEF StartUnmark, OthersTyped
<1> QED
  BY <1>1, <1>2, <1>3, <1>4, UnchangedTyped, CallKeeps DEF StartUnmark

\* The read before a start gives its analysis back.
LEMMA StartUndoKeeps ==
    ASSUME RequestInv, NEW q \in Requests, StartUndo(q)
    PROVE  RequestInv' /\ FileMoves
<1>1. req[q].job \in Jobs
  BY UnchangedTyped
<1>2. Effect(Web, req[q].job)
  BY <1>1, UnchangedTyped, GetJobEffect DEF StartUndo
<1>3. Handled(q)
  BY DEF StartUndo, Handled, Steps
<1>4. OthersTyped /\ deleted' \subseteq Jobs /\ crashes' \in Nat
  BY UnchangedTyped DEF StartUndo, OthersTyped
<1> QED
  BY <1>1, <1>2, <1>3, <1>4, UnchangedTyped, CallKeeps DEF StartUndo

\* The reservation of an analysis.
LEMMA StartReserveKeeps ==
    ASSUME RequestInv, NEW q \in Requests, StartReserve(q)
    PROVE  RequestInv' /\ FileMoves
<1>1. req[q].job \in Jobs /\ Effect(Web, req[q].job)
  BY UnchangedTyped, NoEffect DEF StartReserve
<1>2. Handled(q)
  BY DEF StartReserve, Handled, Steps, SweepSteps
<1>3. OthersTyped /\ deleted' \subseteq Jobs /\ crashes' \in Nat
  BY UnchangedTyped DEF StartReserve, OthersTyped
<1> QED
  BY <1>1, <1>2, <1>3, UnchangedTyped, CallKeeps DEF StartReserve

\* The reservation given back.
LEMMA StartUnreserveKeeps ==
    ASSUME RequestInv, NEW q \in Requests, StartUnreserve(q)
    PROVE  RequestInv' /\ FileMoves
<1>1. req[q].job \in Jobs /\ Effect(Web, req[q].job)
  BY UnchangedTyped, NoEffect DEF StartUnreserve
<1>2. Handled(q)
  BY DEF StartUnreserve, Handled, Steps, SweepSteps
<1>3. OthersTyped /\ deleted' \subseteq Jobs /\ crashes' \in Nat
  BY UnchangedTyped DEF StartUnreserve, OthersTyped
<1> QED
  BY <1>1, <1>2, <1>3, UnchangedTyped, CallKeeps DEF StartUnreserve

\* The reservation of a cancelled fight given back.
LEMMA CancelReleaseKeeps ==
    ASSUME RequestInv, NEW q \in Requests, CancelRelease(q)
    PROVE  RequestInv' /\ FileMoves
<1>1. req[q].job \in Jobs /\ Effect(Web, req[q].job)
  BY UnchangedTyped, NoEffect DEF CancelRelease
<1>2. Handled(q)
  BY DEF CancelRelease, Handled, Steps, SweepSteps
<1>3. OthersTyped /\ deleted' \subseteq Jobs /\ crashes' \in Nat
  BY UnchangedTyped DEF CancelRelease, OthersTyped
<1> QED
  BY <1>1, <1>2, <1>3, UnchangedTyped, CallKeeps DEF CancelRelease

\* The reservation of an abandoned fight given back.
LEMMA SweepReleaseKeeps ==
    ASSUME RequestInv, NEW q \in Requests, SweepRelease(q)
    PROVE  RequestInv' /\ FileMoves
<1>1. req[q].job \in Jobs /\ Effect(Web, req[q].job)
  BY UnchangedTyped, NoEffect DEF SweepRelease
<1>2. Handled(q)
  BY DEF SweepRelease, Handled, Steps, SweepSteps
<1>3. OthersTyped /\ deleted' \subseteq Jobs /\ crashes' \in Nat
  BY UnchangedTyped DEF SweepRelease, OthersTyped
<1> QED
  BY <1>1, <1>2, <1>3, UnchangedTyped, CallKeeps DEF SweepRelease


\* A session file that goes, alone or with its directory.
LEMMA GoneEffect ==
    ASSUME StoreInv, NEW j \in Jobs, file' = [file EXCEPT ![j] = Absent],
           UNCHANGED mirror, folders' \subseteq Jobs, faults' \in Nat
    PROVE  Effect(Web, j)
<1>1. GoodFor(j, Absent) /\ Absent \in Session /\ SessionMoves(file[j], Absent)
  BY AbsentIsGood, SessionTypes DEF SessionMoves
<1>2. /\ GoodFor(j, mirror[Web][j]) /\ mirror[Web][j] \in Session
      /\ mirror' = [mirror EXCEPT ![Web][j] = mirror[Web][j]]
  BY StoreAssumption DEF StoreInv, CopiesGood, StoreTypeOK
<1> QED
  BY <1>1, <1>2 DEF Effect

\* A copy that is dropped from memory, or put there.
LEMMA RememberEffect ==
    ASSUME StoreInv, NEW j \in Jobs, NEW s, GoodFor(j, s), Remember(Web, j, s),
           UNCHANGED <<file, folders, faults>>
    PROVE  Effect(Web, j)
<1>1. /\ GoodFor(j, file[j]) /\ file[j] \in Session /\ SessionMoves(file[j], file[j])
      /\ file' = [file EXCEPT ![j] = file[j]]
  BY DEF StoreInv, SessionsGood, StoreTypeOK, SessionMoves
<1>2. s \in Session /\ folders' \subseteq Jobs /\ faults' \in Nat
  BY DEF GoodFor, StoreInv, StoreTypeOK
<1> QED
  BY <1>1, <1>2 DEF Effect, Remember

\* A cancel unlinks the session.
LEMMA CancelUnlinkKeeps ==
    ASSUME RequestInv, NEW q \in Requests, CancelUnlink(q)
    PROVE  RequestInv' /\ FileMoves
<1>1. req[q].job \in Jobs /\ folders' \subseteq Jobs /\ faults' \in Nat
  BY UnchangedTyped DEF CancelUnlink, Unlink
<1>2. Effect(Web, req[q].job)
  BY <1>1, UnchangedTyped, GoneEffect DEF CancelUnlink, Unlink
<1>3. Handled(q)
  BY DEF CancelUnlink, Unlink, Handled, Steps, SweepSteps
<1>4. OthersTyped /\ deleted' \subseteq Jobs /\ crashes' \in Nat
  BY UnchangedTyped DEF CancelUnlink, Unlink, OthersTyped
<1> QED
  BY <1>1, <1>2, <1>3, <1>4, UnchangedTyped, CallKeeps DEF CancelUnlink, Unlink

\* The sweep unlinks the session.
LEMMA SweepUnlinkKeeps ==
    ASSUME RequestInv, NEW q \in Requests, SweepUnlink(q)
    PROVE  RequestInv' /\ FileMoves
<1>1. req[q].job \in Jobs /\ folders' \subseteq Jobs /\ faults' \in Nat
  BY UnchangedTyped DEF SweepUnlink, Unlink
<1>2. Effect(Web, req[q].job)
  BY <1>1, UnchangedTyped, GoneEffect DEF SweepUnlink, Unlink
<1>3. Handled(q)
  BY DEF SweepUnlink, Unlink, Handled, Steps, SweepSteps
<1>4. OthersTyped /\ deleted' \subseteq Jobs /\ crashes' \in Nat
  BY UnchangedTyped DEF SweepUnlink, Unlink, OthersTyped
<1> QED
  BY <1>1, <1>2, <1>3, <1>4, UnchangedTyped, CallKeeps DEF SweepUnlink, Unlink

\* A cancel drops the copy in memory.
LEMMA CancelForgetKeeps ==
    ASSUME RequestInv, NEW q \in Requests, CancelForget(q)
    PROVE  RequestInv' /\ FileMoves
<1>1. req[q].job \in Jobs
  BY UnchangedTyped
<1>2. Effect(Web, req[q].job)
  BY <1>1, UnchangedTyped, AbsentIsGood, RememberEffect DEF CancelForget, Forget
<1>3. Handled(q)
  BY DEF CancelForget, Handled, Steps, SweepSteps
<1>4. OthersTyped /\ deleted' \subseteq Jobs /\ crashes' \in Nat
  BY <1>1, UnchangedTyped DEF CancelForget, OthersTyped
<1> QED
  BY <1>1, <1>2, <1>3, <1>4, UnchangedTyped, CallKeeps DEF CancelForget

\* The sweep drops the copy in memory.
LEMMA SweepForgetKeeps ==
    ASSUME RequestInv, NEW q \in Requests, SweepForget(q)
    PROVE  RequestInv' /\ FileMoves
<1>1. req[q].job \in Jobs
  BY UnchangedTyped
<1>2. Effect(Web, req[q].job)
  BY <1>1, UnchangedTyped, AbsentIsGood, RememberEffect DEF SweepForget, Forget
<1>3. Handled(q)
  BY DEF SweepForget, Handled, Steps, SweepSteps
<1>4. OthersTyped /\ deleted' \subseteq Jobs /\ crashes' \in Nat
  BY <1>1, UnchangedTyped DEF SweepForget, OthersTyped
<1> QED
  BY <1>1, <1>2, <1>3, <1>4, UnchangedTyped, CallKeeps DEF SweepForget

\* The library remembers what it read.
LEMMA ListRememberKeeps ==
    ASSUME RequestInv, NEW q \in Requests, ListRemember(q)
    PROVE  RequestInv' /\ FileMoves
<1>1. req[q].job \in Jobs
  BY UnchangedTyped
<1>2. Effect(Web, req[q].job)
  BY <1>1, UnchangedTyped, RememberEffect DEF ListRemember
<1>3. Handled(q)
  BY DEF ListRemember, Handled, Steps, SweepSteps
<1>4. OthersTyped /\ deleted' \subseteq Jobs /\ crashes' \in Nat
  BY <1>1, UnchangedTyped DEF ListRemember, OthersTyped
<1> QED
  BY <1>1, <1>2, <1>3, <1>4, UnchangedTyped, CallKeeps DEF ListRemember

\* A cancel removes the job's directory.
LEMMA CancelWipeKeeps ==
    ASSUME RequestInv, NEW q \in Requests, CancelWipe(q)
    PROVE  RequestInv' /\ FileMoves
<1>1. /\ req[q].job \in Jobs /\ folders' \subseteq Jobs /\ faults' \in Nat
      /\ file' = [file EXCEPT ![req[q].job] = Absent]
  BY UnchangedTyped DEF CancelWipe, WipeFolder
<1>2. Effect(Web, req[q].job)
  BY <1>1, UnchangedTyped, GoneEffect DEF CancelWipe
<1>3. Handled(q)
  BY DEF CancelWipe, Handled
<1>4. OthersTyped /\ deleted' \subseteq Jobs /\ crashes' \in Nat
  BY <1>1, UnchangedTyped DEF CancelWipe, WipeFolder, OthersTyped
<1> QED
  BY <1>1, <1>2, <1>3, <1>4, UnchangedTyped, CallKeeps DEF CancelWipe

\* A deletion removes the job's directory.
LEMMA DeleteFilesKeeps ==
    ASSUME RequestInv, NEW q \in Requests, DeleteFiles(q)
    PROVE  RequestInv' /\ FileMoves
<1>1. /\ req[q].job \in Jobs /\ folders' \subseteq Jobs /\ faults' \in Nat
      /\ file' = [file EXCEPT ![req[q].job] = Absent]
  BY UnchangedTyped DEF DeleteFiles, WipeFolder
<1>2. Effect(Web, req[q].job)
  BY <1>1, UnchangedTyped, GoneEffect DEF DeleteFiles
<1>3. Handled(q)
  BY DEF DeleteFiles, Handled
<1>4. OthersTyped /\ deleted' \subseteq Jobs /\ crashes' \in Nat
  BY <1>1, UnchangedTyped DEF DeleteFiles, WipeFolder, OthersTyped
<1> QED
  BY <1>1, <1>2, <1>3, <1>4, UnchangedTyped, CallKeeps DEF DeleteFiles

\* The sweep removes a job's files, or leaves its directory.
LEMMA SweepFilesKeeps ==
    ASSUME RequestInv, NEW q \in Requests, SweepFiles(q)
    PROVE  RequestInv' /\ FileMoves
<1> DEFINE j == req[q].job
<1>1. j \in Jobs
  BY UnchangedTyped
<1>2. CASE WipeFolder(j)
  <2>1. folders' \subseteq Jobs /\ faults' \in Nat /\ file' = [file EXCEPT ![j] = Absent]
    BY <1>2, UnchangedTyped DEF SweepFiles, WipeFolder
  <2>2. Effect(Web, j)
    BY <1>1, <2>1, UnchangedTyped, GoneEffect DEF SweepFiles
  <2>3. Handled(q)
    BY DEF SweepFiles, Handled, Steps, SweepSteps
  <2>4. OthersTyped /\ deleted' \subseteq Jobs /\ crashes' \in Nat
    BY <1>2, UnchangedTyped DEF SweepFiles, WipeFolder, OthersTyped
  <2> QED
    BY <1>1, <2>2, <2>3, <2>4, UnchangedTyped, CallKeeps DEF SweepFiles
<1>3. CASE UNCHANGED <<file, folders, claims, reports>>
  <2>1. Effect(Web, j)
    BY <1>1, <1>3, UnchangedTyped, NoEffect DEF SweepFiles
  <2>2. Handled(q)
    BY DEF SweepFiles, Handled, Steps, SweepSteps
  <2>3. OthersTyped /\ deleted' \subseteq Jobs /\ crashes' \in Nat
    BY <1>3, UnchangedTyped DEF SweepFiles, OthersTyped
  <2> QED
    BY <1>1, <2>1, <2>2, <2>3, UnchangedTyped, CallKeeps DEF SweepFiles
<1> QED
  BY <1>2, <1>3 DEF SweepFiles

\* A deletion drops the history row.
LEMMA DeleteReadKeeps ==
    ASSUME RequestInv, NEW q \in Requests, NEW j \in Jobs, DeleteRead(q, j)
    PROVE  RequestInv' /\ FileMoves
<1>1. Effect(Web, j) /\ GoodFor(j, Absent)
  BY UnchangedTyped, NoEffect, AbsentIsGood DEF DeleteRead
<1>2. Handled(q)
  BY <1>1, BeginsHandled DEF DeleteRead, Steps
<1>3. OthersTyped /\ deleted' \subseteq Jobs /\ crashes' \in Nat
  BY UnchangedTyped DEF DeleteRead, OthersTyped, NoRun
<1> QED
  BY <1>1, <1>2, <1>3, UnchangedTyped, CallKeeps DEF DeleteRead


\* Time passing a lease.
LEMMA LeaseExpiresKeeps ==
    ASSUME RequestInv, NEW j \in Jobs, LeaseExpires(j), UNCHANGED requestVars
    PROVE  RequestInv' /\ FileMoves
<1> DEFINE s == [file[j] EXCEPT !.lease = "expired"]
<1>1. GoodFor(j, file[j]) /\ GoodFor(j, mirror[Web][j])
  BY UnchangedTyped DEF StoreInv, SessionsGood, CopiesGood
<1>2. /\ s \in Session /\ s.status = "running" /\ s.run = file[j].run
      /\ file[j] # Absent /\ file[j].status = "running"
  BY <1>1 DEF LeaseExpires, GoodFor, Session, Absent
<1>3. GoodFor(j, s) /\ SessionMoves(file[j], s)
  BY <1>1, <1>2 DEF GoodFor, SessionMoves, PhaseOf
<1>4. file' = [file EXCEPT ![j] = s]
  BY DEF LeaseExpires
<1>5. mirror' = [mirror EXCEPT ![Web][j] = mirror[Web][j]]
  BY UnchangedTyped DEF LeaseExpires, StoreInv, StoreTypeOK
<1>6. Effect(Web, j)
  <2>1. folders' \subseteq Jobs /\ faults' \in Nat
    BY UnchangedTyped DEF LeaseExpires
  <2> HIDE DEF s
  <2> QED
    BY <1>1, <1>2, <1>3, <1>4, <1>5, <2>1 DEF Effect, GoodFor
<1>7. OthersTyped /\ deleted' \subseteq Jobs /\ crashes' \in Nat
  BY UnchangedTyped DEF LeaseExpires, requestVars, OthersTyped
<1> QED
  BY <1>6, <1>7, UnchangedTyped, CallKeeps DEF LeaseExpires, requestVars

\* An upload creates a session that nobody has a copy of.
LEMMA CreateJobKeeps ==
    ASSUME RequestInv, NEW j \in Jobs, NEW ok \in BOOLEAN, CreateJob(j, ok)
    PROVE  RequestInv' /\ FileMoves
<1>1. file[j] = Absent
  BY UnchangedTyped DEF CreateJob, StoreInv, SessionsGood, GoodFor
<1>2. /\ NewSession \in Session /\ NewSession.run = 0 /\ NewSession.status = "selecting"
  BY SessionTypes DEF NewSession, Absent, NoRun
<1>3. \A s : \A i \in Jobs : GoodFor(i, s) => GoodFor(i, s)'
  BY DEF CreateJob, GoodFor
<1>4. GoodFor(j, NewSession)'
  BY <1>2, UnchangedTyped DEF CreateJob, GoodFor
<1>5. /\ file' \in [Jobs -> Session]
      /\ \A i \in Jobs : file'[i] = file[i] \/ (i = j /\ file'[i] = NewSession)
  BY <1>2, UnchangedTyped DEF CreateJob, StoreInv, StoreTypeOK
<1>6. /\ mirror' \in [Processes -> [Jobs -> Session]]
      /\ \A p \in Processes, i \in Jobs :
            mirror'[p][i] = mirror[p][i] \/ (i = j /\ mirror'[p][i] = NewSession)
  BY <1>2, UnchangedTyped DEF CreateJob, Remember, StoreInv, StoreTypeOK
<1>7. SessionsGood' /\ CopiesGood'
  <2>1. /\ \A i \in Jobs : GoodFor(i, file[i])
        /\ \A p \in Processes, i \in Jobs : GoodFor(i, mirror[p][i])
    BY UnchangedTyped DEF StoreInv, SessionsGood, CopiesGood
  <2>2. lastRun' = lastRun /\ created \subseteq created'
    BY DEF CreateJob
  <2>3. ASSUME NEW i \in Jobs, NEW s, NEW t, GoodFor(i, s), t = s \/ (i = j /\ t = NewSession)
        PROVE  /\ t \in Session /\ t.run <= lastRun' /\ (t.status = "absent" => t = Absent)
               /\ t.status = "complete" => t.artifacts = t.run /\ (HasAccount(i) => t.saved # "none")
               /\ t # Absent => i \in created'
    BY <1>4, <2>2, <2>3 DEF GoodFor
  <2>4. ASSUME NEW i \in Jobs PROVE GoodFor(i, file[i])'
    <3>1. GoodFor(i, file[i]) /\ (file'[i] = file[i] \/ (i = j /\ file'[i] = NewSession))
      BY <1>5, <2>1
    <3> QED
      BY <2>3, <3>1 DEF GoodFor
  <2>5. ASSUME NEW p \in Processes, NEW i \in Jobs PROVE GoodFor(i, mirror[p][i])'
    <3>1. /\ GoodFor(i, mirror[p][i])
          /\ mirror'[p][i] = mirror[p][i] \/ (i = j /\ mirror'[p][i] = NewSession)
      BY <1>6, <2>1
    <3> QED
      BY <2>3, <3>1 DEF GoodFor
  <2> QED
    BY <2>4, <2>5 DEF SessionsGood, CopiesGood
<1>8. StoreInv'
  BY <1>5, <1>6, <1>7, UnchangedTyped DEF CreateJob, StoreInv, StoreTypeOK
<1>9. RequestInv'
  BY <1>8, UnchangedTyped, RequestKept DEF CreateJob
<1>10. FileMoves
  <2>1. \A i \in Jobs \ {j} : file'[i] = file[i]
    BY <1>5
  <2>2. lastRun' = lastRun /\ SessionMoves(file[j], file'[j])
    BY <1>1 DEF CreateJob, SessionMoves
  <2> QED
    BY <2>1, <2>2 DEF FileMoves
<1> QED
  BY <1>9, <1>10

\* A handler queues a run: under a new generation, which is lost when the
\* session cannot be written; or the session is gone.
LEMMA QueueRunKeeps ==
    ASSUME RequestInv, NEW q \in Requests, NEW ok \in BOOLEAN, NEW after \in Steps,
           QueueRun(q, ok, after), after # "submit",
           UNCHANGED <<claims, usage, history, reports, created, deleted, crashes>>
    PROVE  RequestInv' /\ FileMoves
<1>j. PICK j \in Jobs : j = req[q].job
  BY UnchangedTyped
<1>1. GoodFor(j, Base(Web, j)) /\ lastRun \in Nat /\ lastRun + 1 \in Nat
  BY UnchangedTyped, ReadsAreGood
<1>n. PICK new \in Session : /\ new = Queued(Base(Web, j), lastRun + 1)
                             /\ new.run = lastRun + 1 /\ new.status = "queued"
  BY <1>1, QueuedIsGood
<1>2. OthersTyped /\ deleted' \subseteq Jobs /\ crashes' \in Nat
  BY UnchangedTyped DEF OthersTyped
<1>3. CASE /\ Base(Web, j) = Absent /\ UNCHANGED <<file, mirror, folders, faults, lastRun>>
           /\ Leave(q, after)
  <2>1. Effect(Web, j) /\ Handled(q)
    BY <1>j, <1>3, UnchangedTyped, NoEffect DEF Handled, Leave
  <2> QED
    BY <1>2, <1>3, <2>1, UnchangedTyped, CallKeeps
<1>4. CASE /\ Base(Web, j) # Absent /\ lastRun < MaxRuns /\ lastRun' = lastRun + 1
           /\ UpdateJob(Web, j, new, ok)
           /\ \/ \E step \in Steps \ {"submit"} : Goto(q, step)
              \/ Done(q)
              \/ ok /\ Begin(q, "submit", j, new)
  <2>2. GoodFor(j, new)'
    <3>1. j \in created
      BY <1>1, <1>4 DEF GoodFor
    <3>2. lastRun' = lastRun + 1 /\ created' = created
      BY <1>4
    <3> QED
      BY <1>n, <3>1, <3>2 DEF GoodFor
  <2>3. \A i \in Jobs, s \in Session : GoodFor(i, s) => GoodFor(i, s)'
    BY <1>1, <1>4 DEF GoodFor, Session
  <2>4. /\ file' = [file EXCEPT ![j] = new] \/ file' = file
        /\ mirror' = [mirror EXCEPT ![Web][j] = new]
        /\ folders' \subseteq Jobs /\ faults' \in Nat
    BY <1>1, <1>4, UnchangedTyped DEF UpdateJob, WriteFile, Remember
  <2>5. /\ file' \in [Jobs -> Session]
        /\ \A i \in Jobs : file'[i] = file[i] \/ (i = j /\ file'[i] = new)
    BY <1>1, <1>n, <2>4, UnchangedTyped DEF StoreInv, StoreTypeOK
  <2>6. /\ mirror' \in [Processes -> [Jobs -> Session]]
        /\ \A p \in Processes, i \in Jobs :
              mirror'[p][i] = mirror[p][i] \/ (i = j /\ mirror'[p][i] = new)
    BY <1>1, <1>n, <2>4, UnchangedTyped DEF StoreInv, StoreTypeOK
  <2>7. SessionsGood'
    <3> SUFFICES ASSUME NEW i \in Jobs PROVE GoodFor(i, file[i])'
      BY DEF SessionsGood
    <3>1. GoodFor(i, file[i]) /\ file[i] \in Session
      BY UnchangedTyped DEF StoreInv, SessionsGood, StoreTypeOK
    <3> QED
      BY <2>2, <2>3, <2>5, <3>1 DEF GoodFor
  <2>8. CopiesGood'
    <3> SUFFICES ASSUME NEW p \in Processes, NEW i \in Jobs PROVE GoodFor(i, mirror[p][i])'
      BY DEF CopiesGood
    <3>1. GoodFor(i, mirror[p][i]) /\ mirror[p][i] \in Session
      BY UnchangedTyped DEF StoreInv, CopiesGood, StoreTypeOK
    <3> QED
      BY <2>2, <2>3, <2>6, <3>1 DEF GoodFor
  <2>9. StoreInv'
    BY <1>1, <1>2, <1>4, <2>4, <2>5, <2>6, <2>7, <2>8, UnchangedTyped
    DEF StoreInv, StoreTypeOK, OthersTyped
  <2>10. Handled(q)
    <3>1. "submit" \in Steps /\ lastRun + 1 \in 1..MaxRuns
      BY <1>1, <1>4, StoreAssumption DEF Steps
    <3> QED
      BY <1>4, <1>n, <2>2, <3>1 DEF Handled
  <2>11. RequestInv'
    BY <1>1, <1>2, <1>4, <2>9, <2>10, RequestKept
  <2>12. FileMoves
    BY <1>1, <1>4, <1>n, <2>5 DEF FileMoves
  <2> QED
    BY <2>11, <2>12
<1>5. \/ /\ Base(Web, j) = Absent /\ UNCHANGED <<file, mirror, folders, faults, lastRun>>
         /\ Leave(q, after)
      \/ /\ Base(Web, j) # Absent /\ lastRun < MaxRuns /\ lastRun' = lastRun + 1
         /\ UpdateJob(Web, j, new, ok)
         /\ \/ \E step \in Steps \ {"submit"} : Goto(q, step)
            \/ Done(q)
            \/ ok /\ Begin(q, "submit", j, new)
  BY <1>j, <1>n DEF QueueRun, Leave, Steps
<1> QED
  BY <1>3, <1>4, <1>5

\* The web process's own actions that queue a run.
LEMMA QueueStepKeeps ==
    ASSUME RequestInv, NEW q \in Requests, NEW ok \in BOOLEAN, QueueStep(q, ok)
    PROVE  RequestInv' /\ FileMoves
<1>1. CASE StartQueue(q, ok)
  <2>1. (IF HasAccount(req[q].job) THEN "undo" ELSE "idle") \in Steps \ {"submit"}
    BY DEF Steps
  <2> QED
    BY <1>1, <2>1, QueueRunKeeps DEF StartQueue
<1>2. CASE RestartQueue(q, ok)
  <2>1. "idle" \in Steps
    BY DEF Steps
  <2> QED
    BY <1>2, <2>1, QueueRunKeeps DEF RestartQueue
<1> QED
  BY <1>1, <1>2 DEF QueueStep

\* Every other step of a handler under way.
LEMMA HandlerStepKeeps ==
    ASSUME RequestInv, NEW q \in Requests, NEW ok \in BOOLEAN, HandlerStep(q, ok)
    PROVE  RequestInv' /\ FileMoves
<1>1. CASE StartTrim(q, ok) \/ StartReserve(q) \/ StartMark(q, ok)
  BY <1>1, StartTrimKeeps, StartReserveKeeps, StartMarkKeeps
<1>2. CASE StartUndo(q) \/ StartUnreserve(q) \/ StartUnmark(q, ok) \/ Patch(q, ok)
  BY <1>2, StartUndoKeeps, StartUnreserveKeeps, StartUnmarkKeeps, PatchKeeps
<1>3. CASE CancelUnlink(q) \/ CancelForget(q) \/ CancelRelease(q) \/ CancelWipe(q)
  BY <1>3, CancelUnlinkKeeps, CancelForgetKeeps, CancelReleaseKeeps, CancelWipeKeeps
<1>4. CASE SweepFiles(q) \/ SweepRelease(q) \/ SweepUnlink(q) \/ SweepForget(q)
  BY <1>4, SweepFilesKeeps, SweepReleaseKeeps, SweepUnlinkKeeps, SweepForgetKeeps
<1>5. CASE DeleteFiles(q) \/ ListRemember(q)
  BY <1>5, DeleteFilesKeeps, ListRememberKeeps
<1> QED
  BY <1>1, <1>2, <1>3, <1>4, <1>5 DEF HandlerStep

\* Everything the web process and the clock do on their own.
LEMMA WebStepKeeps ==
    ASSUME RequestInv, WebStep
    PROVE  RequestInv' /\ FileMoves
<1>1. ASSUME NEW j \in Jobs, PageRead(j) PROVE RequestInv' /\ FileMoves
  BY <1>1, PollKeeps, ViewKeeps DEF PageRead
<1>2. ASSUME NEW j \in Jobs, LeaseExpires(j), UNCHANGED requestVars
      PROVE  RequestInv' /\ FileMoves
  BY <1>2, LeaseExpiresKeeps
<1>3. ASSUME NEW j \in Jobs, NEW ok \in BOOLEAN, CreateJob(j, ok) PROVE RequestInv' /\ FileMoves
  BY <1>3, CreateJobKeeps
<1>4. ASSUME NEW q \in Requests, NEW j \in Jobs, Arrival(q, j) PROVE RequestInv' /\ FileMoves
  BY <1>4, StartReadKeeps, RestartReadKeeps, CancelReadKeeps, SweepReadKeeps,
     ListReadKeeps, EditReadKeeps, DeleteReadKeeps DEF Arrival
<1>5. ASSUME NEW q \in Requests, NEW ok \in BOOLEAN, HandlerStep(q, ok)
      PROVE  RequestInv' /\ FileMoves
  BY <1>5, HandlerStepKeeps
<1> QED
  BY <1>1, <1>2, <1>3, <1>4, <1>5 DEF WebStep

\* A process that dies loses its copies: whatever they were, the empty ones
\* are good.
LEMMA CopiesLost ==
    ASSUME RequestInv, NEW p \in Processes,
           mirror' = [mirror EXCEPT ![p] = [j \in Jobs |-> Absent]],
           UNCHANGED <<file, folders, claims, usage, history, reports, lastRun, faults, created>>
    PROVE  StoreInv' /\ FileMoves
<1>1. Absent \in Session /\ \A j \in Jobs : GoodFor(j, Absent)
  BY UnchangedTyped, SessionTypes, AbsentIsGood
<1>2. /\ mirror' \in [Processes -> [Jobs -> Session]]
      /\ \A r \in Processes, j \in Jobs :
            mirror'[r][j] = mirror[r][j] \/ mirror'[r][j] = Absent
  BY <1>1, UnchangedTyped DEF StoreInv, StoreTypeOK
<1>3. CopiesGood'
  <2> SUFFICES ASSUME NEW r \in Processes, NEW j \in Jobs PROVE GoodFor(j, mirror[r][j])'
    BY DEF CopiesGood
  <2> QED
    BY <1>1, <1>2, UnchangedTyped DEF GoodFor, StoreInv, CopiesGood
<1>4. SessionsGood'
  BY UnchangedTyped DEF StoreInv, SessionsGood, GoodFor
<1> QED
  BY <1>2, <1>3, <1>4, UnchangedTyped DEF StoreInv, StoreTypeOK, FileMoves

\* The web process dies.
LEMMA WebRestartsKeeps ==
    ASSUME RequestInv, WebRestarts
    PROVE  RequestInv' /\ FileMoves
<1>1. StoreInv' /\ FileMoves
  BY UnchangedTyped, CopiesLost DEF WebRestarts
<1>2. /\ (req \in [Requests -> [at : Steps, job : Jobs, seen : Session]])'
      /\ \A q \in Requests : /\ req'[q].seen = Absent /\ req'[q].job \in Jobs
                             /\ req'[q].at = "idle"
  BY UnchangedTyped, SessionTypes DEF WebRestarts, Idle, Steps
<1>3. SeenGood'
  <2>1. \A j \in Jobs : GoodFor(j, Absent)
    BY UnchangedTyped, AbsentIsGood
  <2> SUFFICES ASSUME NEW q \in Requests PROVE GoodFor(req[q].job, req[q].seen)'
    BY DEF SeenGood
  <2> QED
    BY <1>2, <2>1 DEF WebRestarts, GoodFor
<1>4. deleted' \subseteq Jobs /\ crashes' \in Nat
  BY UnchangedTyped DEF WebRestarts
<1> QED
  BY <1>1, <1>2, <1>3, <1>4 DEF RequestInv, RequestTypeOK, StoreInv, SubmitsGood

\* A step that leaves the web process and the store alone.
LEMMA StutterKeeps ==
    ASSUME RequestInv, UNCHANGED vars
    PROVE  RequestInv' /\ FileMoves
BY DEF RequestInv, RequestTypeOK, StoreInv, StoreTypeOK, vars, SessionsGood, CopiesGood,
       SeenGood, SubmitsGood, GoodFor, FileMoves

\* The invariant holds when nothing has been uploaded.
LEMMA RequestInitGood == RequestInit => RequestInv
<1> SUFFICES ASSUME RequestInit PROVE RequestInv
  OBVIOUS
<1>1. (CHOOSE j \in Jobs : TRUE) \in Jobs
  BY StoreAssumption
<1>2. Absent \in Session /\ Absent.run = 0 /\ Absent.status = "absent"
  BY SessionTypes DEF Absent, NoRun
<1>3. \A j \in Jobs : GoodFor(j, Absent)
  <2>1. lastRun = 0
    BY DEF RequestInit, StoreInit, NoRun
  <2> QED
    BY <1>2, <2>1 DEF GoodFor
<1>4. StoreInv
  BY <1>2, <1>3 DEF RequestInit, StoreInit, StoreInv, StoreTypeOK, SessionsGood, CopiesGood, NoRun
<1>5. /\ req \in [Requests -> [at : Steps, job : Jobs, seen : Session]]
      /\ \A q \in Requests : req[q].seen = Absent /\ req[q].job \in Jobs /\ req[q].at = "idle"
  BY <1>1, <1>2 DEF RequestInit, Idle, Steps
<1>6. SeenGood
  BY <1>3, <1>5 DEF SeenGood
<1> QED
  BY <1>4, <1>5, <1>6 DEF RequestInv, RequestTypeOK, StoreInv, RequestInit, SubmitsGood

-----------------------------------------------------------------------------
(* What the invariant and the moves give.                                  *)

\* The invariant has every finished session name its own run's artifacts.
LEMMA RequestInvResult == RequestInv => ResultIsCurrent
BY DEF RequestInv, StoreInv, SessionsGood, GoodFor, ResultIsCurrent

\* A move of the session files never publishes but under a live lease.
LEMMA MovesCommitUnderALease ==
    ASSUME RequestInv, FileMoves, NEW j \in Jobs,
           file'[j].status = "complete", file[j].status \notin {"complete", "absent"}
    PROVE  /\ file[j].status = "running" /\ file[j].lease = "live"
           /\ file'[j].run = file[j].run
<1>1. file[j] # Absent /\ file'[j] # Absent
  BY DEF Absent
<1>2. PhaseOf(file'[j]) = "published" /\ PhaseOf(file[j]) # "published"
  BY DEF PhaseOf
<1>3. file'[j] # file[j]
  OBVIOUS
<1>4. PICK i \in Jobs :
         /\ \A k \in Jobs \ {i} : file'[k] = file[k]
         /\ \/ lastRun' = lastRun /\ SessionMoves(file[i], file'[i])
            \/ file'[i] = file[i]
            \/ file'[i].status = "queued"
  BY <1>3 DEF FileMoves
<1>5. i = j /\ SessionMoves(file[j], file'[j])
  BY <1>3, <1>4
<1> QED
  BY <1>1, <1>2, <1>5 DEF SessionMoves

\* The same moves are the promise's steps.
LEMMA MovesKeepPromise ==
    ASSUME RequestInv, RequestInv', FileMoves
    PROVE  Promise!Next \/ UNCHANGED Promise!vars
<1> DEFINE phase == [j \in Jobs |-> PhaseOf(file[j])]
           current == [j \in Jobs |-> file[j].run]
<1>1. \A j \in Jobs : /\ file[j] \in Session /\ file'[j] \in Session
                      /\ file[j].run <= lastRun /\ file'[j].run <= lastRun'
                      /\ file[j].run \in Nat /\ file'[j].run \in Nat
                      /\ PhaseOf(file[j]) = "none" <=> file[j] = Absent
                      /\ PhaseOf(file'[j]) = "none" <=> file'[j] = Absent
                      /\ PhaseOf(file[j]) \in {"none", "open", "published", "closed"}
                      /\ PhaseOf(file'[j]) \in {"none", "open", "published", "closed"}
  <2> SUFFICES ASSUME NEW j \in Jobs
               PROVE  /\ file[j] \in Session /\ file'[j] \in Session
                      /\ file[j].run <= lastRun /\ file'[j].run <= lastRun'
                      /\ file[j].run \in Nat /\ file'[j].run \in Nat
                      /\ PhaseOf(file[j]) = "none" <=> file[j] = Absent
                      /\ PhaseOf(file'[j]) = "none" <=> file'[j] = Absent
                      /\ PhaseOf(file[j]) \in {"none", "open", "published", "closed"}
                      /\ PhaseOf(file'[j]) \in {"none", "open", "published", "closed"}
    OBVIOUS
  <2>1. GoodFor(j, file[j]) /\ GoodFor(j, file[j])'
    BY DEF RequestInv, StoreInv, SessionsGood
  <2> QED
    BY <2>1 DEF GoodFor, Session, PhaseOf, Absent
<1>2. CASE UNCHANGED <<file, lastRun>>
  BY <1>2 DEF Promise!vars
<1>3. ASSUME NEW j \in Jobs, \A i \in Jobs \ {j} : file'[i] = file[i],
             lastRun' = lastRun, SessionMoves(file[j], file'[j])
      PROVE  Promise!Next \/ UNCHANGED Promise!vars
  <2>1. /\ phase' = [phase EXCEPT ![j] = PhaseOf(file'[j])]
        /\ current' = [current EXCEPT ![j] = file'[j].run]
    BY <1>3
  <2>2. CASE file'[j] = file[j]
    <3>1. phase' = phase /\ current' = current
      BY <2>1, <2>2
    <3> QED
      BY <1>3, <3>1 DEF Promise!vars
  <2>3. CASE file'[j] = Absent /\ file[j] # Absent
    <3>1. Promise!Disappear(j)
      <4>1. PhaseOf(file'[j]) = "none" /\ file'[j].run = 0 /\ phase[j] # "none"
        <5>1. Absent.run = 0
          BY DEF Absent, NoRun
        <5> QED
          BY <1>1, <2>3, <5>1
      <4> QED
        BY <1>3, <2>1, <4>1 DEF Promise!Disappear
    <3> QED
      BY <3>1 DEF Promise!Next
  <2>4. CASE file[j] = Absent /\ file'[j] # Absent
    <3>1. Promise!Appear(j)
      <4>1. /\ phase[j] = "none" /\ file'[j].run \in 0..lastRun
            /\ PhaseOf(file'[j]) \in {"open", "published", "closed"}
        BY <1>1, <1>3, <2>4
      <4> QED
        BY <1>3, <2>1, <4>1 DEF Promise!Appear
    <3> QED
      BY <3>1 DEF Promise!Next
  <2>5. CASE file[j] # Absent /\ file'[j] # Absent /\ file'[j] # file[j]
    <3>1. current' = current
      BY <1>3, <2>1, <2>5 DEF SessionMoves
    <3>2. CASE PhaseOf(file'[j]) = PhaseOf(file[j])
      <4>1. phase' = phase
        BY <2>1, <3>2
      <4> QED
        BY <1>3, <3>1, <4>1 DEF Promise!vars
    <3>3. CASE PhaseOf(file'[j]) = "closed" /\ PhaseOf(file[j]) # "closed"
      <4>1. Promise!Close(j)
        BY <1>1, <1>3, <2>1, <2>5, <3>1, <3>3 DEF Promise!Close
      <4> QED
        BY <4>1 DEF Promise!Next
    <3>4. CASE file[j].status = "running" /\ file'[j].status = "complete"
      <4>1. Promise!Publish(j)
        BY <1>3, <2>1, <3>1, <3>4 DEF Promise!Publish, PhaseOf
      <4> QED
        BY <4>1 DEF Promise!Next
    <3> QED
      BY <1>3, <2>5, <3>2, <3>3, <3>4 DEF SessionMoves
  <2> QED
    BY <2>2, <2>3, <2>4, <2>5
<1>4. ASSUME NEW j \in Jobs, \A i \in Jobs \ {j} : file'[i] = file[i],
             lastRun < MaxRuns, lastRun' = lastRun + 1, file'[j] = file[j]
      PROVE  Promise!Next
  <2>1. phase' = phase /\ current' = current
    BY <1>4
  <2> QED
    BY <1>4, <2>1 DEF Promise!Next, Promise!Waste
<1>5. ASSUME NEW j \in Jobs, \A i \in Jobs \ {j} : file'[i] = file[i],
             lastRun < MaxRuns, lastRun' = lastRun + 1,
             file'[j].status = "queued", file'[j].run = lastRun'
      PROVE  Promise!Next
  <2>1. /\ phase' = [phase EXCEPT ![j] = "open"]
        /\ current' = [current EXCEPT ![j] = lastRun + 1]
    BY <1>5 DEF PhaseOf
  <2>2. Promise!Open(j)
    BY <1>5, <2>1 DEF Promise!Open
  <2> QED
    BY <2>2 DEF Promise!Next
<1> QED
  BY <1>2, <1>3, <1>4, <1>5 DEF FileMoves
-----------------------------------------------------------------------------
(* Saved fights and their reports.                                         *)

\* The session of job j is one that persist_completed_job still has to save.
Unsaved(j) == HasAccount(j) /\ file[j].status = "complete" /\ file[j].saved # "yes"

\* ReportMissingOnlyAfterDeletion, and why the sweep keeps it: a directory that is
\* old enough to go is of no fight that was saved, nor of one about to be.
HistoryInv ==
    /\ ReportMissingOnlyAfterDeletion
    /\ \A j \in Guests : history[j] = NoRun
    /\ \A j \in untouched : history[j] = NoRun /\ ~Unsaved(j)

\* What a step may do to the history: a row goes, or is saved with a report that
\* is there; the reports of a job go with the job, or in a sweep; and the sweep
\* takes up no fight that is saved.
HistoryMoves ==
    /\ deleted \subseteq deleted'
    /\ \A j \in Jobs :
          /\ \/ history'[j] \in {history[j], NoRun}
             \/ Unsaved(j) /\ <<j, history'[j]>> \in reports'
          /\ \/ \A run : <<j, run>> \in reports => <<j, run>> \in reports'
             \/ j \in deleted'
             \/ j \in untouched \cup Guests /\ UNCHANGED history
    /\ \A q \in Requests, j \in Jobs :
          req'[q].at = "sweep_files" /\ req'[q].job = j /\ req[q].at = "idle"
          => history'[j] = NoRun /\ ~Unsaved(j)'

\* A step that does not touch the history, and no handler takes a snapshot in it.
NoSnapshot == \A q \in Requests : req'[q].at = "sweep_files" => req[q].at # "idle"

NothingForgotten == history' = history /\ reports \subseteq reports' /\ deleted \subseteq deleted'

LEMMA NothingForgottenMoves ==
    ASSUME NothingForgotten, NoSnapshot
    PROVE  HistoryMoves
BY DEF NothingForgotten, NoSnapshot, HistoryMoves

\* Such steps keep the invariant, as time passes the directories.
LEMMA MovesKeepHistory ==
    ASSUME RequestInv, HistoryInv, HistoryMoves, Ages
    PROVE  HistoryInv'
<1>1. ASSUME NEW j \in Jobs, history'[j] # NoRun, j \notin deleted'
      PROVE  <<j, history'[j]>> \in reports'
  <2>1. CASE Unsaved(j) /\ <<j, history'[j]>> \in reports'
    BY <2>1
  <2>2. CASE history'[j] = history[j]
    <3>1. <<j, history[j]>> \in reports /\ j \notin untouched \cup Guests
      BY <1>1, <2>2 DEF HistoryInv, ReportMissingOnlyAfterDeletion, HistoryMoves
    <3> QED
      BY <1>1, <2>2, <3>1 DEF HistoryMoves
  <2> QED
    BY <1>1, <2>1, <2>2 DEF HistoryMoves
<1>2. ASSUME NEW j \in Guests PROVE history'[j] = NoRun
  BY StoreAssumption DEF HistoryInv, HistoryMoves, Unsaved, HasAccount
<1>3. ASSUME NEW j \in untouched' PROVE history'[j] = NoRun /\ ~Unsaved(j)'
  <2>1. PICK q \in Requests : /\ req'[q].at = "sweep_files" /\ req'[q].job = j
                              /\ req[q].at = "idle" \/ j \in untouched
    BY <1>3 DEF Ages
  <2>2. j \in Jobs /\ file'[j] = file[j]
    BY <1>3 DEF Ages
  <2>3. CASE req[q].at = "idle"
    BY <2>1, <2>2, <2>3 DEF HistoryMoves
  <2>4. CASE j \in untouched
    BY <2>2, <2>4 DEF HistoryInv, HistoryMoves, Unsaved
  <2> QED
    BY <2>1, <2>3, <2>4
<1> QED
  BY <1>1, <1>2, <1>3 DEF HistoryInv, ReportMissingOnlyAfterDeletion

\* A step that leaves everything as it is.
LEMMA StutterKeepsHistory ==
    ASSUME HistoryInv, UNCHANGED <<vars, untouched>>
    PROVE  HistoryInv'
BY DEF HistoryInv, ReportMissingOnlyAfterDeletion, Unsaved, vars

\* A handler that was under way, or begins with something else, takes no snapshot.
LEMMA OneHandlerLooks ==
    ASSUME RequestInv, NEW q \in Requests,
           req[q].at # "idle" \/ req'[q].at # "sweep_files",
           \/ \E step : Goto(q, step)
           \/ Done(q)
           \/ \E step, j, s : Begin(q, step, j, s)
    PROVE  NoSnapshot
<1>1. \A r \in Requests \ {q} : req'[r] = req[r]
  BY DEF Goto, Done, Begin, RequestInv, RequestTypeOK
<1> QED
  BY <1>1 DEF NoSnapshot

\* persist_completed_job saves a fight that is complete, with its report.
LEMMA PersistMoves ==
    ASSUME StoreInv, NEW p \in Processes, NEW j \in Jobs, NEW run \in Nat,
           NEW saves \in BOOLEAN, NEW writes \in BOOLEAN,
           PersistRun(p, j, run, saves, writes),
           UNCHANGED <<reports, deleted>>, NoSnapshot
    PROVE  HistoryMoves
<1> DEFINE s == OnDisk(j)
           due == /\ s.status = "complete" /\ s.artifacts = run
                  /\ HasAccount(j) /\ s.saved # "yes"
<1>1. CASE history' = history
  BY <1>1, NothingForgottenMoves DEF NothingForgotten
<1>2. CASE history' # history
  <2>1. due /\ saves
    BY <1>2 DEF PersistRun
  <2>2. history' = [history EXCEPT ![j] = run] /\ <<j, run>> \in reports
    BY <2>1 DEF PersistRun
  <2>3. Unsaved(j)
    <3>1. s = file[j]
      BY <2>1, ReadIsNoYounger DEF OnDisk
    <3> QED
      BY <2>1, <3>1 DEF Unsaved
  <2>4. \A i \in Jobs : history'[i] = IF i = j THEN run ELSE history[i]
    BY <2>2 DEF StoreInv, StoreTypeOK
  <2> QED
    BY <2>2, <2>3, <2>4 DEF HistoryMoves, NoSnapshot
<1> QED
  BY <1>1, <1>2

\* The pages.
LEMMA PageReadMoves ==
    ASSUME RequestInv, NEW j \in Jobs, PageRead(j)
    PROVE  HistoryMoves
<1>1. NoSnapshot /\ deleted' = deleted
  BY DEF PageRead, Poll, ViewResult, requestVars, NoSnapshot
<1>2. CASE Poll(j)
  BY <1>1, <1>2, NothingForgottenMoves DEF Poll, NothingForgotten
<1>3. ASSUME NEW saves \in BOOLEAN, NEW writes \in BOOLEAN, ViewResult(j, saves, writes)
      PROVE  HistoryMoves
  <2>1. StoreInv /\ Web \in Processes
    BY UnchangedTyped
  <2>2. Seen(Web, j).run \in Nat
    BY <2>1, ReadsAreGood DEF GoodFor, Session
  <2> QED
    BY <1>1, <1>3, <2>1, <2>2, PersistMoves DEF ViewResult
<1> QED
  BY <1>2, <1>3 DEF PageRead

\* The sweep's snapshot: a fight that is saved, or finished and not saved yet, is
\* not among those it takes up.
LEMMA SweepReadMoves ==
    ASSUME RequestInv, NEW q \in Requests, NEW j \in Jobs, SweepRead(q, j)
    PROVE  HistoryMoves
<1> DEFINE s == Seen(Web, j)
<1>1. /\ StoreInv /\ GoodFor(j, s) /\ Web \in Processes
      /\ req \in [Requests -> [at : Steps, job : Jobs, seen : Session]]
      /\ file \in [Jobs -> Session]
  BY UnchangedTyped, ReadsAreGood DEF RequestInv, RequestTypeOK, StoreTypeOK
<1>2. NothingForgotten
  BY DEF SweepRead, NothingForgotten
<1>3. history[j] = NoRun /\ ~(s.status = "complete" /\ s.saved = "no")
  BY DEF SweepRead, Spared, Protected
<1>4. ~Unsaved(j)'
  <2>1. file'[j] = s \/ file'[j] = Absent
    BY <1>1 DEF SweepRead, GetJob, Refresh
  <2>2. HasAccount(j) /\ s.status = "complete" => s.saved = "yes"
    BY <1>1, <1>3 DEF GoodFor, Session
  <2> QED
    BY <2>1, <2>2 DEF Unsaved, Absent
<1>5. \A r \in Requests : req'[r].at = "sweep_files" /\ req[r].at = "idle" => req'[r].job = j
  BY <1>1 DEF SweepRead, Begin
<1>6. history'[j] = NoRun
  BY <1>2, <1>3 DEF NothingForgotten
<1> QED
  BY <1>2, <1>4, <1>5, <1>6 DEF HistoryMoves, NothingForgotten

\* A request arrives.
LEMMA ArrivalMoves ==
    ASSUME RequestInv, NEW q \in Requests, NEW j \in Jobs, Arrival(q, j)
    PROVE  HistoryMoves
<1>1. CASE SweepRead(q, j)
  BY <1>1, SweepReadMoves
<1>2. CASE \/ StartRead(q, j) \/ RestartRead(q, j) \/ CancelRead(q, j)
           \/ ListRead(q, j) \/ EditRead(q, j) \/ DeleteRead(q, j)
  <2>1. \E step, s : Begin(q, step, j, s) /\ step # "sweep_files"
    BY <1>2 DEF StartRead, AfterTrim, RestartRead, CancelRead, ListRead, EditRead, DeleteRead
  <2>2. NoSnapshot
    <3>1. req'[q].at # "sweep_files"
      BY <2>1 DEF Begin, RequestInv, RequestTypeOK
    <3> QED
      BY <2>1, <3>1, OneHandlerLooks
  <2>3. CASE DeleteRead(q, j)
    <3>1. /\ \A i \in Jobs : history'[i] \in {history[i], NoRun}
          /\ UNCHANGED <<reports, deleted>>
      BY <2>3, UnchangedTyped DEF DeleteRead
    <3> QED
      BY <2>2, <3>1 DEF HistoryMoves, NoSnapshot
  <2>4. CASE ~DeleteRead(q, j)
    <3>1. NothingForgotten
      BY <1>2, <2>4 DEF StartRead, RestartRead, CancelRead, ListRead, EditRead, NothingForgotten
    <3> QED
      BY <2>2, <3>1, NothingForgottenMoves
  <2> QED
    BY <2>3, <2>4
<1> QED
  BY <1>1, <1>2 DEF Arrival

\* A handler goes on: the directories it removes are of a job it deletes, or the
\* sweep's.
LEMMA HandlerStepMoves ==
    ASSUME RequestInv, NEW q \in Requests, NEW ok \in BOOLEAN, HandlerStep(q, ok)
    PROVE  HistoryMoves
<1>1. NoSnapshot
  <2>1. req[q].at # "idle"
    BY DEF HandlerStep, StartTrim, StartReserve, StartMark, StartUndo, StartUnreserve,
       StartUnmark, Patch, CancelUnlink, CancelForget, CancelRelease, CancelWipe, SweepFiles,
       SweepRelease, SweepUnlink, SweepForget, DeleteFiles, ListRemember, Unlink
  <2>2. (\E step : Goto(q, step)) \/ Done(q)
    BY DEF HandlerStep, StartTrim, StartReserve, StartMark, StartUndo, StartUnreserve,
       StartUnmark, Patch, CancelUnlink, CancelForget, CancelRelease, CancelWipe, SweepFiles,
       SweepRelease, SweepUnlink, SweepForget, DeleteFiles, ListRemember, Unlink
  <2> QED
    BY <2>1, <2>2, OneHandlerLooks
<1>2. CASE CancelWipe(q) \/ DeleteFiles(q)
  <2>1. /\ history' = history /\ deleted' = deleted \cup {req[q].job}
        /\ reports' = {r \in reports : r[1] # req[q].job}
    BY <1>2 DEF CancelWipe, DeleteFiles, WipeFolder
  <2> QED
    BY <1>1, <2>1 DEF HistoryMoves, NoSnapshot
<1>3. CASE SweepFiles(q)
  <2>1. history' = history /\ deleted' = deleted
    BY <1>3 DEF SweepFiles
  <2>2. \/ reports' = reports
        \/ /\ reports' = {r \in reports : r[1] # req[q].job}
           /\ req[q].job \in untouched \cup Guests
    BY <1>3 DEF SweepFiles, WipeFolder
  <2> QED
    BY <1>1, <2>1, <2>2 DEF HistoryMoves, NoSnapshot
<1>4. CASE ~(CancelWipe(q) \/ DeleteFiles(q) \/ SweepFiles(q))
  <2>1. NothingForgotten
    BY <1>4 DEF HandlerStep, StartTrim, StartReserve, StartMark, StartUndo, StartUnreserve,
       StartUnmark, Patch, CancelUnlink, CancelForget, CancelRelease,
       SweepRelease, SweepUnlink, SweepForget, ListRemember, Unlink, NothingForgotten
  <2> QED
    BY <1>1, <2>1, NothingForgottenMoves
<1> QED
  BY <1>2, <1>3, <1>4

\* The web process's steps, and its death, move the history as they may.
LEMMA WebMovesHistory ==
    ASSUME RequestInv,
           WebStep \/ WebRestarts \/ \E q \in Requests, ok \in BOOLEAN : QueueStep(q, ok)
    PROVE  HistoryMoves
<1>1. ASSUME NEW j \in Jobs, \/ LeaseExpires(j) /\ UNCHANGED requestVars
                             \/ \E ok \in BOOLEAN : CreateJob(j, ok)
      PROVE  HistoryMoves
  <2>1. NothingForgotten /\ NoSnapshot
    BY <1>1 DEF LeaseExpires, CreateJob, requestVars, NothingForgotten, NoSnapshot
  <2> QED
    BY <2>1, NothingForgottenMoves
<1>2. CASE WebRestarts
  <2>1. NothingForgotten /\ NoSnapshot
    BY <1>2 DEF WebRestarts, Idle, NothingForgotten, NoSnapshot
  <2> QED
    BY <2>1, NothingForgottenMoves
<1>3. ASSUME NEW q \in Requests, NEW ok \in BOOLEAN, QueueStep(q, ok)
      PROVE  HistoryMoves
  <2>1. NothingForgotten /\ req[q].at # "idle"
    BY <1>3 DEF QueueStep, StartQueue, RestartQueue, NothingForgotten
  <2>2. \E after : QueueRun(q, ok, after)
    BY <1>3 DEF QueueStep, StartQueue, RestartQueue
  <2>3. \/ \E step : Goto(q, step)
        \/ Done(q)
        \/ \E step, j, s : Begin(q, step, j, s)
    BY <2>2 DEF QueueRun, Leave
  <2> QED
    BY <2>1, <2>3, OneHandlerLooks, NothingForgottenMoves
<1> QED
  BY <1>1, <1>2, <1>3, PageReadMoves, ArrivalMoves, HandlerStepMoves DEF WebStep

\* Nothing is saved before anything is uploaded.
LEMMA HistoryInitGood == RequestInit => HistoryInv
BY StoreAssumption DEF RequestInit, StoreInit, HistoryInv, ReportMissingOnlyAfterDeletion
=============================================================================
