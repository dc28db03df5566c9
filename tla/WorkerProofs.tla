---------------------------- MODULE WorkerProofs ----------------------------
(***************************************************************************)
(* What the analysis PC promises the website: one process works, for any   *)
(* number of processes, restarts, deployments and stale locks; the last    *)
(* report of an analysis goes before its result, for any number of reports *)
(* and mishaps; and the frame pass sees with its threads what it would see *)
(* without them, for any film.                                             *)
(***************************************************************************)
EXTENDS WorkerMachine, FramePass, ProgressSender, FiniteSetTheorems, SequenceTheorems, TLAPS

-----------------------------------------------------------------------------
(* The lock.  As long as nothing excuses a second worker, whoever works    *)
(* wrote it last, at most one heartbeat ago, and every process that is     *)
(* starting has read that line.                                            *)

Line == [pid : Procs \cup {Nobody, Other}, age : Nat]
Places == {"off", "starting", "polling", "analysing", "closed"}

LockTypes ==
    /\ at \in [Procs -> Places] /\ lock \in Line /\ seen \in [Procs -> Line]
    /\ due \subseteq Working

\* What the lock says of the one that works.
LockIsItsOwn ==
    \A p \in Working :
      /\ lock.pid = p /\ seen[p].pid = p
      /\ lock.age = 0 \/ (lock.age = 1 /\ p \in due)
      /\ \A q \in Procs : at[q] = "starting" => seen[q].pid = p /\ seen[q].age <= 1

MachineInv == LockTypes /\ (excuse = {} => LockIsItsOwn)

\* The lock is the reason that there is one: it names one process.
LEMMA OneOfThem ==
    ASSUME LockIsItsOwn, NEW p \in Working
    PROVE  Working = {p}
BY DEF LockIsItsOwn

\* A process that leaves is forgotten, and nobody else is.
LEMMA LeavingKeepsLock ==
    ASSUME MachineInv, NEW p \in Procs, NEW where \in {"off", "closed"},
           NEW now \in {Nobody, Other}, Leaves(p, where, now), excuse' = excuse
    PROVE  MachineInv'
<1>0. LockTypes /\ Nobody \notin Procs /\ Other \notin Procs
  BY MachineAssumption DEF MachineInv
<1>1. /\ at' = [at EXCEPT ![p] = where] /\ due' = due \ {p}
      /\ Working' = Working \ {p}
  BY <1>0 DEF Leaves, Moves, LockTypes, Working
<1>2. ASSUME NEW line \in Line
      PROVE  /\ Renumbered(line, p, now) \in Line
             /\ line.pid # p => Renumbered(line, p, now) = line
  BY DEF Renumbered, Line, Free
<1>3. /\ lock' \in Line /\ (lock.pid # p => lock' = lock)
      /\ seen' \in [Procs -> Line]
      /\ \A q \in Procs \ {p} : seen[q].pid # p => seen'[q] = seen[q]
  <2>1. Free \in Line
    BY DEF Free, Line
  <2> QED
    BY <1>0, <1>2, <2>1 DEF Leaves, LockTypes
<1>4. LockTypes'
  BY <1>0, <1>1, <1>3 DEF LockTypes, Places
<1>5. ASSUME excuse = {} PROVE LockIsItsOwn'
  <2>1. ASSUME NEW r \in Working'
        PROVE  /\ lock'.pid = r /\ seen'[r].pid = r
               /\ lock'.age = 0 \/ (lock'.age = 1 /\ r \in due')
               /\ \A q \in Procs : at'[q] = "starting" => seen'[q].pid = r /\ seen'[q].age <= 1
    <3>1. r \in Working /\ r # p /\ r \in Procs
      BY <1>1, <2>1 DEF Working
    <3>2. lock.pid = r /\ lock' = lock /\ seen[r].pid = r /\ seen'[r] = seen[r]
      BY <1>3, <1>5, <3>1 DEF MachineInv, LockIsItsOwn
    <3>3. \A q \in Procs : at'[q] = "starting" => q # p /\ at[q] = "starting"
      BY <1>0, <1>1 DEF LockTypes
    <3> QED
      BY <1>1, <1>3, <1>5, <3>1, <3>2, <3>3 DEF MachineInv, LockIsItsOwn
  <2> QED
    BY <2>1 DEF LockIsItsOwn
<1> QED
  BY <1>4, <1>5 DEF MachineInv

\* A process that starts reads the line of whoever works.
LEMMA ReadingKeepsLock ==
    ASSUME MachineInv, NEW p \in Procs, Reads(p)
    PROVE  MachineInv'
<1>0. LockTypes
  BY DEF MachineInv
<1>1. /\ at[p] = "off" /\ at' = [at EXCEPT ![p] = "starting"]
      /\ seen' = [seen EXCEPT ![p] = lock] /\ UNCHANGED <<lock, due, excuse>>
      /\ Working' = Working
  BY <1>0 DEF Reads, Moves, LockTypes, Working
<1>2. LockTypes'
  BY <1>0, <1>1 DEF LockTypes, Places
<1>3. ASSUME excuse = {} PROVE LockIsItsOwn'
  BY <1>0, <1>1, <1>3 DEF MachineInv, LockIsItsOwn, LockTypes, Working, Line
<1> QED
  BY <1>1, <1>2, <1>3 DEF MachineInv

\* A process takes the lock when what it read does not keep it out: then nobody
\* works, or it has an excuse.
LEMMA ClaimingKeepsLock ==
    ASSUME Stale > 1, MachineInv, NEW p \in Procs, Claims(p)
    PROVE  MachineInv'
<1>0. LockTypes /\ Nobody \notin Procs /\ Stale \in Nat
  BY MachineAssumption DEF MachineInv
<1>1. /\ at[p] = "starting" /\ at' = [at EXCEPT ![p] = "polling"]
      /\ lock' = [pid |-> p, age |-> 0] /\ seen' = [seen EXCEPT ![p] = lock']
      /\ due' = due /\ Working' = Working \cup {p}
  BY <1>0 DEF Claims, Moves, LockTypes, Working
<1>2. LockTypes'
  BY <1>0, <1>1 DEF LockTypes, Places, Line
<1>3. ASSUME excuse' = {} PROVE LockIsItsOwn'
  <2>1. excuse = {} /\ \A q \in Procs \ {p} : at[q] # "starting"
    BY <1>3 DEF Claims
  <2>2. Working = {}
    <3>1. ASSUME NEW r \in Working PROVE FALSE
      <4>1. r \in Procs /\ seen[p].pid = r /\ seen[p].age <= 1 /\ r # p
        BY <1>1, <2>1, <3>1 DEF MachineInv, LockIsItsOwn, Working
      <4>2. seen[p].age \in Nat
        BY <1>0 DEF LockTypes, Line
      <4> QED
        BY <1>0, <4>1, <4>2 DEF Claims, HeldByAnother
    <3> QED
      BY <3>1
  <2>3. Working' = {p} /\ \A q \in Procs : at'[q] # "starting"
    BY <1>0, <1>1, <2>1, <2>2 DEF LockTypes
  <2> QED
    BY <1>0, <1>1, <2>3 DEF LockIsItsOwn, LockTypes
<1> QED
  BY <1>2, <1>3 DEF MachineInv

\* A refused process leaves, or is the excuse itself.
LEMMA RefusalKeepsLock ==
    ASSUME MachineInv, NEW p \in Procs, IsRefused(p)
    PROVE  MachineInv'
<1>1. CASE p \in OneShot
  <2>0. LockTypes
    BY DEF MachineInv
  <2>1. /\ at' = [at EXCEPT ![p] = "polling"] /\ UNCHANGED <<lock, seen, due>>
        /\ Working' = Working \cup {p} /\ excuse' # {}
    BY <2>0, <1>1 DEF IsRefused, Moves, LockTypes, Working
  <2>2. LockTypes'
    BY <2>0, <2>1 DEF LockTypes, Places
  <2> QED
    BY <2>1, <2>2 DEF MachineInv
<1>2. CASE p \notin OneShot
  BY <1>2, LeavingKeepsLock DEF IsRefused
<1> QED
  BY <1>1, <1>2

\* Whoever works writes the line again.
LEMMA RefreshingKeepsLock ==
    ASSUME MachineInv, NEW p \in Procs,
           Beats(p) \/ \E got \in BOOLEAN : Polls(p, got)
    PROVE  MachineInv'
<1>0. LockTypes /\ p \in Working
  BY DEF MachineInv, LockTypes, Beats, Polls, Working
<1>1. /\ Working' = Working /\ lock' = [pid |-> p, age |-> 0]
      /\ due' \subseteq due /\ UNCHANGED <<seen, excuse>>
      /\ at' \in [Procs -> Places]
      /\ \A q \in Procs : at'[q] = "starting" => at[q] = "starting"
  <2>1. CASE Beats(p)
    BY <1>0, <2>1 DEF Beats, LockTypes, Working
  <2>2. CASE \E got \in BOOLEAN : Polls(p, got)
    <3>1. PICK where \in {"polling", "analysing"} : at' = [at EXCEPT ![p] = where]
      BY <2>2 DEF Polls, Moves
    <3> QED
      BY <1>0, <2>2, <3>1 DEF Polls, LockTypes, Working, Places
  <2> QED
    BY <2>1, <2>2
<1>2. LockTypes'
  BY <1>0, <1>1 DEF LockTypes, Line
<1>3. ASSUME excuse = {} PROVE LockIsItsOwn'
  <2>1. Working = {p} /\ LockIsItsOwn
    BY <1>0, <1>3, OneOfThem DEF MachineInv
  <2> QED
    BY <1>0, <1>1, <2>1 DEF LockIsItsOwn
<1> QED
  BY <1>1, <1>2, <1>3 DEF MachineInv

\* A heartbeat's time goes by, and whoever works is due to beat.
LEMMA TickKeepsLock ==
    ASSUME Stale > 1, MachineInv, Tick
    PROVE  MachineInv'
<1>0. LockTypes /\ Nobody \notin Procs /\ Stale \in Nat
  BY MachineAssumption DEF MachineInv
<1>1. /\ due = {} /\ due' = Holding /\ Working' = Working /\ Holding \subseteq Working
      /\ UNCHANGED <<at, seen, excuse>> /\ lock' = Older
  BY DEF Tick, Beating, Working, Holding
<1>2. LockTypes'
  BY <1>0, <1>1 DEF LockTypes, Older, Line
<1>3. ASSUME excuse = {} PROVE LockIsItsOwn'
  <2>1. ASSUME NEW r \in Working
        PROVE  lock'.pid = r /\ lock'.age = 1 /\ r \in due'
    <3>1. lock.pid = r /\ lock.age = 0 /\ seen[r].pid = r /\ r # Nobody
      BY <1>0, <1>1, <1>3 DEF MachineInv, LockIsItsOwn, Working
    <3> QED
      BY <1>0, <1>1, <3>1 DEF Older, LockTypes, Line, Holding
  <2> QED
    BY <1>1, <1>3, <2>1 DEF MachineInv, LockIsItsOwn
<1> QED
  BY <1>1, <1>2, <1>3 DEF MachineInv

\* What leaves the lock alone: the end of a job, and the code that is fetched.
LEMMA WorkKeepsLock ==
    ASSUME MachineInv,
           \/ \E p \in Procs : JobEnds(p) \/ Syncs(p) \/ SyncStops(p)
           \/ Deploys
    PROVE  MachineInv'
<1>0. LockTypes
  BY DEF MachineInv
<1>1. /\ Working' = Working /\ UNCHANGED <<lock, seen, due, excuse>>
      /\ at' \in [Procs -> Places]
      /\ \A q \in Procs : at'[q] = "starting" => at[q] = "starting"
  BY <1>0 DEF JobEnds, Syncs, SyncStops, Deploys, Moves, LockTypes, Places, Working
<1>2. LockTypes'
  BY <1>0, <1>1 DEF LockTypes
<1> QED
  BY <1>1, <1>2 DEF MachineInv, LockIsItsOwn

\* worker.py's lock: two processes work at once only if two starts overlapped,
\* the machine slept past a heartbeat, or a --once run was let past the lock.
\* It takes a lock that outlives one missed heartbeat.
THEOREM OneWorkerPerMachine ==
    ASSUME Stale > 1
    PROVE  MachineSpec => []SoleWorker
<1>1. MachineInit => MachineInv
  <2> SUFFICES ASSUME MachineInit PROVE MachineInv
    OBVIOUS
  <2>1. Free \in Line /\ Working = {}
    BY DEF MachineInit, Free, Line, Working
  <2> QED
    BY <2>1 DEF MachineInit, MachineInv, LockTypes, LockIsItsOwn, Places
<1>2. MachineInv /\ [MachineNext]_machineVars => MachineInv'
  <2> SUFFICES ASSUME MachineInv, [MachineNext]_machineVars PROVE MachineInv'
    OBVIOUS
  <2>1. CASE UNCHANGED machineVars
    BY <2>1 DEF machineVars, MachineInv, LockTypes, LockIsItsOwn, Working
  <2>2. ASSUME NEW p \in Procs, Crashes(p) \/ Exits(p) PROVE MachineInv'
    BY <2>2, LeavingKeepsLock DEF Crashes, Exits
  <2>3. CASE Sleeps
    <3>1. /\ excuse' # {} /\ UNCHANGED <<at, seen, due>> /\ Working' = Working
          /\ lock' \in Line
      BY <2>3, MachineAssumption DEF Sleeps, Working, MachineInv, LockTypes, Line
    <3> QED
      BY <3>1 DEF MachineInv, LockTypes
  <2>4. CASE MachineNext
    BY <2>2, <2>3, <2>4, ReadingKeepsLock, ClaimingKeepsLock, RefusalKeepsLock,
       RefreshingKeepsLock, TickKeepsLock, WorkKeepsLock DEF MachineNext
  <2> QED
    BY <2>1, <2>4
<1>3. MachineInv => SoleWorker
  <2> SUFFICES ASSUME MachineInv, excuse = {} PROVE ~(Cardinality(Working) > 1)
    BY DEF SoleWorker
  <2>1. Working = {} \/ \E p : Working = {p}
    BY OneOfThem DEF MachineInv
  <2>2. CASE Working = {}
    BY <2>2, FS_EmptySet
  <2>3. CASE \E p : Working = {p}
    BY <2>3, FS_Singleton
  <2> QED
    BY <2>1, <2>2, <2>3
<1> QED
  BY <1>1, <1>2, <1>3, PTL DEF MachineSpec

-----------------------------------------------------------------------------
(* The reports of one analysis.                                            *)

ReportTypes ==
    /\ mainAt \in {"downloading", "analysing", "closing", "joining", "checking",
                   "completing", "ending", "over"}
    /\ senderAt \in {"none", "waiting", "calling", "ended"}
    /\ reported \in Nat /\ closed \in BOOLEAN

\* The analysis reports before it closes its sender, which ends with nothing
\* left to send.
SenderIsLast ==
    /\ closed => mainAt \notin {"downloading", "analysing", "closing"}
    /\ senderAt = "none" => mainAt = "downloading" \/ outcome # "none"
    /\ mainAt = "downloading" => senderAt = "none" /\ reported = 0
    /\ senderAt = "ended" => closed /\ pending = 0
    /\ senderAt = "calling" <=> sending # 0
    /\ outcome = "none" /\ mainAt \notin {"downloading", "analysing"}
         => reported = MaxReports

\* Where the newest report is, while no call was lost.
NewestIsKnown ==
    /\ late = 0
    /\ \/ pending = reported
       \/ pending = 0 /\ sending = reported
       \/ pending = 0 /\ sending = 0 /\ (shown = reported \/ ~owned)
    /\ mainAt = "checking" /\ outcome = "none" => senderAt = "ended"
    /\ mainAt = "completing" => senderAt = "ended" /\ outcome = "none"
    /\ outcome = "accepted" =>
         ~owned /\ shown = MaxReports /\ mainAt \in {"ending", "over"}

ReportsInv == ReportTypes /\ SenderIsLast /\ (~hiccups => NewestIsKnown)

\* The thread of the analysis keeps it.
LEMMA RunKeepsReports ==
    ASSUME ReportsInv,
           RunStep \/ AnalysisEnds(FALSE) \/ CompletesUnheard
    PROVE  ReportsInv'
<1>0. MaxReports \in Nat \ {0}
  BY SenderAssumption
<1>1. CASE Downloads
  BY <1>0, <1>1 DEF Downloads, ReportsInv, ReportTypes, SenderIsLast, NewestIsKnown
<1>2. CASE Reports
  BY <1>0, <1>2 DEF Reports, callVars, ReportsInv, ReportTypes, SenderIsLast, NewestIsKnown
<1>3. CASE AnalysisEnds(TRUE) \/ AnalysisEnds(FALSE)
  BY <1>0, <1>3 DEF AnalysisEnds, callVars, ReportsInv, ReportTypes, SenderIsLast, NewestIsKnown
<1>4. CASE SenderCloses
  BY <1>0, <1>4 DEF SenderCloses, ReportsInv, ReportTypes, SenderIsLast, NewestIsKnown
<1>5. CASE Joined
  BY <1>0, <1>5 DEF Joined, Hiccup, NoHiccup, callVars, ReportsInv, ReportTypes,
                    SenderIsLast, NewestIsKnown
<1>6. CASE Checks
  BY <1>0, <1>6 DEF Checks, AfterCheck, callVars, ReportsInv, ReportTypes,
                    SenderIsLast, NewestIsKnown
<1>7. CASE Completes
  BY <1>0, <1>7 DEF Completes, callVars, ReportsInv, ReportTypes, SenderIsLast, NewestIsKnown
<1>8. CASE CompletesUnheard \/ Over
  BY <1>0, <1>8 DEF CompletesUnheard, Over, Hiccup, callVars, ReportsInv, ReportTypes,
                    SenderIsLast, NewestIsKnown
<1> QED
  BY <1>1, <1>2, <1>3, <1>4, <1>5, <1>6, <1>7, <1>8 DEF RunStep

\* So do the sender, the lease keeper and the website.
LEMMA CallsKeepReports ==
    ASSUME ReportsInv,
           SenderStep \/ KeeperStep \/ ActsLate \/ CallFails \/ RunIsTaken
    PROVE  ReportsInv'
<1>0. MaxReports \in Nat \ {0}
  BY SenderAssumption
<1>1. CASE SenderStep
  BY <1>0, <1>1 DEF SenderStep, SenderTakes, Take, SenderStops, CallEnds, ReportsInv,
                    ReportTypes, SenderIsLast, NewestIsKnown
<1>2. CASE KeeperStep
  BY <1>0, <1>2 DEF KeeperStep, Keeps, KeeperEnds, ReportsInv, ReportTypes,
                    SenderIsLast, NewestIsKnown
<1>3. CASE ActsLate \/ CallFails \/ RunIsTaken
  BY <1>0, <1>3 DEF ActsLate, CallFails, RunIsTaken, Hiccup, callVars, ReportsInv,
                    ReportTypes, SenderIsLast, NewestIsKnown
<1> QED
  BY <1>1, <1>2, <1>3

\* run_remote_claimed_job, "the last update goes before the result": a result
\* that is accepted finds the last report shown when no call was lost, for any
\* number of reports and wherever the run is taken away.
THEOREM LastUpdateGoesFirst == SenderSpec => []LastReportIsShown
<1>1. SenderInit => ReportsInv
  <2> SUFFICES ASSUME SenderInit PROVE ReportsInv
    OBVIOUS
  <2>1. ReportTypes
    BY DEF SenderInit, ReportTypes
  <2>2. SenderIsLast /\ NewestIsKnown
    BY DEF SenderInit, SenderIsLast, NewestIsKnown
  <2> QED
    BY <2>1, <2>2 DEF ReportsInv
<1>2. ReportsInv /\ [SenderNext]_senderVars => ReportsInv'
  <2> SUFFICES ASSUME ReportsInv, [SenderNext]_senderVars PROVE ReportsInv'
    OBVIOUS
  <2>1. CASE UNCHANGED senderVars
    BY <2>1 DEF senderVars, callVars, ReportsInv, ReportTypes, SenderIsLast, NewestIsKnown
  <2>2. CASE SenderNext
    BY <2>2, RunKeepsReports, CallsKeepReports DEF SenderNext, Mishap
  <2> QED
    BY <2>1, <2>2
<1>3. ReportsInv => LastReportIsShown
  BY DEF ReportsInv, NewestIsKnown, LastReportIsShown
<1> QED
  BY <1>1, <1>2, <1>3, PTL DEF SenderSpec

-----------------------------------------------------------------------------
(* The frame pass.  What the decoding thread hands over is the film in     *)
(* order, and a frame the loop will want when it gets there was already    *)
(* wanted when it was decoded: the thread never reads past the gate, and   *)
(* the gate moves only when nothing decoded is left.                       *)

\* Division, and the multiples of n.
LEMMA DivisionAlgorithm ==
    ASSUME NEW n \in Int, n > 0, NEW a \in Int
    PROVE  a = n * (a \div n) + (a % n) /\ a \div n \in Int /\ a % n \in 0..(n - 1)
BY SMTT(30)

\* Two multiples of n are not less than n apart.
LEMMA MultiplesApart ==
    ASSUME NEW n \in Int, n > 0, NEW a \in Int, NEW b \in Int, a % n = 0, b % n = 0, a < b
    PROVE  a + n <= b
<1>1. PICK k \in Int, l \in Int : a = n * k /\ b = n * l
  <2>1. a = n * (a \div n) /\ b = n * (b \div n)
    BY DivisionAlgorithm
  <2> QED
    BY <2>1, DivisionAlgorithm
<1>2. l - k >= 1
  BY <1>1
<1>3. n * (l - k) >= n
  BY <1>2
<1> QED
  BY <1>1, <1>3

\* The multiple after a.
LEMMA NextMultiple ==
    ASSUME NEW n \in Int, n > 0, NEW a \in Int, a % n = 0
    PROVE  (a + n) % n = 0
<1> DEFINE r == (a + n) % n
           q == (a + n) \div n
           k == a \div n
<1>1. a + n = n * q + r /\ r \in 0..(n - 1) /\ q \in Int /\ a = n * k /\ k \in Int
  BY DivisionAlgorithm
<1> HIDE DEF r, q, k
<1>2. r = n * (k + 1 - q)
  BY <1>1
<1>3. CASE k + 1 - q >= 1
  <2>1. n * (k + 1 - q) >= n
    BY <1>1, <1>3
  <2> QED
    BY <1>1, <1>2, <2>1
<1>4. CASE k + 1 - q <= -1
  <2>1. n * (k + 1 - q) <= -n
    BY <1>1, <1>4
  <2> QED
    BY <1>1, <1>2, <2>1
<1>5. CASE k + 1 - q = 0
  BY <1>1, <1>2, <1>5
<1> QED
  BY <1>1, <1>3, <1>4, <1>5 DEF r

\* The first multiple.
LEMMA FirstMultiple ==
    ASSUME NEW n \in Int, n > 0
    PROVE  n % n = 0
<1>1. 0 % n = 0
  BY DivisionAlgorithm, SMTT(30)
<1> QED
  BY <1>1, NextMultiple

-----------------------------------------------------------------------------

Fed == [frame : 0..length, image : BOOLEAN]

PassTypes ==
    /\ length \in Nat /\ sweepFate \in {"whole", "fails"} /\ found \subseteq Sequential!Sampled
    /\ loopAt \in {"reading", "guiding", "closing", "joining", "done"}
    /\ decoderAt \in {"deciding", "putting", "ended"}
    /\ queue \in Seq(Fed) /\ item \in Fed /\ Len(queue) <= Depth
    /\ pos \in Nat /\ gate \in Nat /\ feedNext \in 1..(length + 1) /\ stopped \in BOOLEAN
    /\ swept \in {-1} \cup Sequential!Sampled /\ sweepDone \in BOOLEAN

\* Fed frame e is frame n of the film, not past the gate, and if it will be
\* wanted it has its image - unless there is none to be had.
IsFrame(e, n) ==
    /\ e.frame = n /\ n \in 1..length /\ n <= gate
    /\ e.image => n \notin bad
    /\ Sequential!Wanted(n) /\ n \notin bad => e.image

\* The queue, what the thread is putting into it, and what it decodes next
\* follow one another from the frame after pos.
InOrder ==
    /\ pos <= End /\ pos <= length /\ feedGate = gate
    /\ \A i \in 1..Len(queue) :
          \/ IsFrame(queue[i], pos + i)
          \/ queue[i] = TheEnd /\ i = Len(queue) /\ decoderAt = "ended" /\ length < pos + i
    /\ decoderAt = "deciding" => feedNext = pos + Len(queue) + 1
    /\ decoderAt = "putting" =>
          \/ IsFrame(item, pos + Len(queue) + 1) /\ feedNext = pos + Len(queue) + 2
          \/ item = TheEnd /\ feedNext = pos + Len(queue) + 1 /\ length < feedNext

\* The thread knows the next frame of the referee's history, though it keeps
\* no count of the frames before it.
HistoryKept ==
    HistoryStep > 0 => /\ feedHist \in Nat /\ feedHist % HistoryStep = 0
                       /\ feedNext <= feedHist /\ feedHist < feedNext + HistoryStep

PassInv == PassTypes /\ InOrder /\ HistoryKept

\* The invariant holds before the first frame is read.
LEMMA PassInitGood == PassInit => PassInv
<1> SUFFICES ASSUME PassInit PROVE PassInv
  OBVIOUS
<1> USE PassAssumption DEF PassInit
<1>1. length \in Nat /\ sweepFate \in {"whole", "fails"} /\ found \subseteq Sequential!Sampled
  BY DEF Sequential!FilmInit
<1>2. gate \in Nat /\ queue = <<>> /\ Len(queue) = 0 /\ queue \in Seq(Fed)
  OBVIOUS
<1>3. TheEnd \in Fed
  BY <1>1 DEF TheEnd, Fed
<1>4. PassTypes
  <2>1. feedNext \in 1..(length + 1)
    BY <1>1
  <2>2. pos \in Nat /\ stopped \in BOOLEAN /\ sweepDone \in BOOLEAN
    OBVIOUS
  <2>3. swept \in {-1} \cup Sequential!Sampled
    OBVIOUS
  <2>4. item \in Fed
    BY <1>3
  <2>5. Len(queue) <= Depth
    BY <1>2
  <2> QED
    BY <1>1, <1>2, <2>1, <2>2, <2>3, <2>4, <2>5 DEF PassTypes
<1>5. InOrder
  BY <1>1, <1>2 DEF InOrder
<1>6. HistoryKept
  BY FirstMultiple DEF HistoryKept
<1> QED
  BY <1>4, <1>5, <1>6 DEF PassInv

\* A frame is decoded.
LEMMA DecodesKeeps ==
    ASSUME PassInv, Decodes
    PROVE  PassInv'
<1>1. /\ PassTypes /\ InOrder /\ HistoryKept
      /\ UNCHANGED <<length, bad, found, sweepFate, loopAt, pos, gate, analysed, swept, sweepDone,
                     queue, feedGate, stopped>>
      /\ decoderAt = "deciding" /\ decoderAt' = "putting" /\ feedNext <= gate
      /\ feedNext = pos + Len(queue) + 1 /\ Len(queue) \in Nat
  BY LenProperties DEF PassInv, InOrder, Decodes, film, loopVars, sweepVars, MayDecode, PassTypes
<1>2. CASE DecodesFrame
  <2>1. feedNext <= length /\ feedNext' = feedNext + 1 /\ feedNext \in 1..length
    BY <1>1, <1>2 DEF DecodesFrame, PassTypes
  <2>2. item'.frame = feedNext /\ item'.image = (FeedWants(feedNext) /\ feedNext \notin bad)
        /\ item' = [frame |-> feedNext, image |-> FeedWants(feedNext) /\ feedNext \notin bad]
    BY <1>2 DEF DecodesFrame
  <2>3. Sequential!Wanted(feedNext) => FeedWants(feedNext)
    <3>1. CASE HistoryStep > 0 /\ feedNext % HistoryStep = 0
      <4>1. feedNext \in Int /\ feedHist \in Int /\ HistoryStep \in Int
        BY <1>1, <3>1, PassAssumption DEF HistoryKept, PassTypes
      <4>2. ~(feedNext < feedHist)
        BY <1>1, <3>1, <4>1, MultiplesApart DEF HistoryKept
      <4> QED
        BY <3>1, <4>1, <4>2 DEF FeedWants
    <3>2. CASE ~(HistoryStep > 0 /\ feedNext % HistoryStep = 0)
      BY <1>1, <3>2 DEF Sequential!Wanted, Sequential!ForHistory, FeedWants, InOrder
    <3> QED
      BY <3>1, <3>2
  <2>4. PassTypes'
    <3>1. item' \in Fed
      BY <2>1, <2>2 DEF Fed
    <3>2. Fed' = Fed
      BY <1>1 DEF Fed
    <3> QED
      BY <1>1, <2>1, <3>1, <3>2 DEF PassTypes
  <2>5. InOrder'
    <3>1. \A e, n : IsFrame(e, n)' <=> IsFrame(e, n)
      BY <1>1 DEF IsFrame, Sequential!Wanted
    <3>2. IsFrame(item', feedNext)
      BY <1>1, <2>1, <2>2, <2>3 DEF IsFrame
    <3>3. feedNext' = pos + Len(queue) + 2
      BY <1>1, <2>1 DEF PassTypes
    <3> QED
      BY <1>1, <3>1, <3>2, <3>3 DEF InOrder
  <2>6. HistoryKept'
    <3> SUFFICES ASSUME HistoryStep > 0
                 PROVE  /\ feedHist' \in Nat /\ feedHist' % HistoryStep = 0
                        /\ feedNext' <= feedHist' /\ feedHist' < feedNext' + HistoryStep
      BY DEF HistoryKept
    <3>1. /\ feedHist \in Nat /\ feedHist % HistoryStep = 0 /\ HistoryStep \in Nat
          /\ feedNext <= feedHist /\ feedHist < feedNext + HistoryStep /\ feedNext \in Nat
      BY <1>1, PassAssumption DEF HistoryKept, PassTypes
    <3>2. CASE feedNext >= feedHist
      <4>1. feedHist' = feedHist + HistoryStep
        BY <1>2, <3>1, <3>2 DEF DecodesFrame
      <4>2. (feedHist + HistoryStep) % HistoryStep = 0
        <5>1. HistoryStep \in Int /\ HistoryStep > 0 /\ feedHist \in Int
          BY <3>1
        <5> QED
          BY <3>1, <5>1, NextMultiple
      <4> QED
        BY <2>1, <3>1, <3>2, <4>1, <4>2
    <3>3. CASE feedNext < feedHist
      <4>1. feedHist' = feedHist
        BY <1>2, <3>1, <3>3 DEF DecodesFrame
      <4> QED
        BY <2>1, <3>1, <3>3, <4>1
    <3> QED
      BY <3>1, <3>2, <3>3
  <2> QED
    BY <2>4, <2>5, <2>6 DEF PassInv
<1>3. CASE DecodesEnd
  <2>1. feedNext > length /\ item' = TheEnd /\ UNCHANGED <<feedNext, feedHist>>
    BY <1>3 DEF DecodesEnd
  <2>2. PassTypes'
    <3>1. item' \in Fed /\ Fed' = Fed
      BY <1>1, <2>1 DEF Fed, TheEnd, PassTypes
    <3> QED
      BY <1>1, <2>1, <3>1 DEF PassTypes
  <2>3. InOrder'
    <3>1. \A e, n : IsFrame(e, n)' <=> IsFrame(e, n)
      BY <1>1 DEF IsFrame, Sequential!Wanted
    <3>2. length < feedNext
      BY <1>1, <2>1 DEF PassTypes
    <3> QED
      BY <1>1, <2>1, <3>1, <3>2 DEF InOrder
  <2>4. HistoryKept'
    BY <1>1, <2>1 DEF HistoryKept
  <2> QED
    BY <2>2, <2>3, <2>4 DEF PassInv
<1> QED
  BY <1>2, <1>3 DEF Decodes

\* It is put into the queue.
LEMMA PutsKeeps ==
    ASSUME PassInv, Puts
    PROVE  PassInv'
<1>1. /\ PassTypes /\ InOrder /\ HistoryKept
      /\ UNCHANGED <<length, bad, found, sweepFate, loopAt, pos, gate, analysed, swept, sweepDone,
                     item, feedNext, feedGate, feedHist, stopped>>
      /\ decoderAt = "putting" /\ decoderAt' = IF item = TheEnd THEN "ended" ELSE "deciding"
      /\ Len(queue) < Depth /\ queue' = Append(queue, item) /\ Len(queue) \in Nat
  BY LenProperties DEF PassInv, Puts, film, loopVars, sweepVars, QueueHasRoom, PassTypes
<1>2. /\ queue' \in Seq(Fed) /\ Len(queue') = Len(queue) + 1
      /\ \A i \in 1..Len(queue) : queue'[i] = queue[i]
      /\ queue'[Len(queue) + 1] = item
  BY <1>1, AppendProperties DEF PassTypes
<1>3. PassTypes'
  <2>1. Fed' = Fed
    BY <1>1 DEF Fed
  <2> QED
    BY <1>1, <1>2, <2>1, PassAssumption DEF PassTypes
<1>4. InOrder'
  <2>1. \A e, n : IsFrame(e, n)' <=> IsFrame(e, n)
    BY <1>1 DEF IsFrame, Sequential!Wanted
  <2>2. \A n : IsFrame(item, n) => item # TheEnd
    BY <1>1 DEF IsFrame, TheEnd, PassTypes
  <2>3. \A i \in 1..Len(queue) : IsFrame(queue[i], pos + i)
    BY <1>1 DEF InOrder
  <2>4. CASE IsFrame(item, pos + Len(queue) + 1) /\ feedNext = pos + Len(queue) + 2
    <3>1. decoderAt' = "deciding"
      BY <1>1, <2>2, <2>4
    <3>2. \A i \in 1..Len(queue') : IsFrame(queue'[i], pos + i)
      <4> SUFFICES ASSUME NEW i \in 1..(Len(queue) + 1) PROVE IsFrame(queue'[i], pos + i)
        BY <1>2
      <4>1. CASE i = Len(queue) + 1
        <5>1. pos + i = pos + Len(queue) + 1
          BY <1>1, <4>1 DEF PassTypes
        <5> QED
          BY <1>2, <2>4, <4>1, <5>1
      <4>2. CASE i # Len(queue) + 1
        <5>1. i \in 1..Len(queue)
          BY <1>1, <4>2
        <5> QED
          BY <1>2, <2>3, <5>1
      <4> QED
        BY <4>1, <4>2
    <3>3. feedNext' = pos' + Len(queue') + 1
      BY <1>1, <1>2, <2>4 DEF PassTypes
    <3> QED
      BY <1>1, <2>1, <3>1, <3>2, <3>3 DEF InOrder
  <2>5. CASE item = TheEnd /\ feedNext = pos + Len(queue) + 1 /\ length < feedNext
    <3>1. decoderAt' = "ended"
      BY <1>1, <2>5
    <3>2. \A i \in 1..Len(queue') :
             \/ IsFrame(queue'[i], pos + i)
             \/ queue'[i] = TheEnd /\ i = Len(queue') /\ length < pos + i
      <4> SUFFICES ASSUME NEW i \in 1..(Len(queue) + 1)
                   PROVE  \/ IsFrame(queue'[i], pos + i)
                          \/ queue'[i] = TheEnd /\ i = Len(queue') /\ length < pos + i
        BY <1>2
      <4>1. CASE i = Len(queue) + 1
        <5>1. pos + i = feedNext
          BY <1>1, <2>5, <4>1 DEF PassTypes
        <5> QED
          BY <1>2, <2>5, <4>1, <5>1
      <4>2. CASE i # Len(queue) + 1
        <5>1. i \in 1..Len(queue)
          BY <1>1, <4>2
        <5> QED
          BY <1>2, <2>3, <5>1
      <4> QED
        BY <4>1, <4>2
    <3> QED
      BY <1>1, <2>1, <3>1, <3>2 DEF InOrder
  <2> QED
    BY <1>1, <2>4, <2>5 DEF InOrder
<1>5. HistoryKept'
  BY <1>1 DEF HistoryKept
<1> QED
  BY <1>3, <1>4, <1>5 DEF PassInv

-----------------------------------------------------------------------------

\* What the loop takes is the next frame, with its image if it wants it and
\* there is one.
LEMMA FedIsNext ==
    ASSUME PassInv, queue # <<>>
    PROVE  /\ Len(queue) \in Nat \ {0} /\ Head(queue) = queue[1]
           /\ Tail(queue) \in Seq(Fed) /\ Len(Tail(queue)) = Len(queue) - 1
           /\ \A i \in 1..(Len(queue) - 1) : Tail(queue)[i] = queue[i + 1]
           /\ Head(queue) = TheEnd => length <= pos
           /\ Head(queue) # TheEnd => IsFrame(Head(queue), pos + 1)
<1>1. /\ Len(queue) \in Nat \ {0} /\ Head(queue) = queue[1]
      /\ Tail(queue) \in Seq(Fed) /\ Len(Tail(queue)) = Len(queue) - 1
      /\ \A i \in 1..(Len(queue) - 1) : Tail(queue)[i] = queue[i + 1]
  BY HeadTailProperties, LenProperties, EmptySeq DEF PassInv, PassTypes
<1>2. 1 \in 1..Len(queue) /\ pos \in Nat /\ length \in Nat
  BY <1>1 DEF PassInv, PassTypes
<1>3. \/ IsFrame(queue[1], pos + 1)
      \/ queue[1] = TheEnd /\ length < pos + 1
  BY <1>2 DEF PassInv, InOrder
<1>4. IsFrame(queue[1], pos + 1) => queue[1] # TheEnd
  BY <1>2 DEF IsFrame, TheEnd
<1> QED
  BY <1>1, <1>2, <1>3, <1>4

\* The loop takes a frame.
LEMMA NextFrameKeeps ==
    ASSUME PassInv, NextFrame
    PROVE  PassInv' /\ Sequential!Takes
<1> DEFINE fed == Head(queue)
           gone == Sequential!Wanted(pos + 1) /\ ~fed.image
           infer == pos + 1 >= gate /\ ~gone
<1>1. /\ PassTypes /\ InOrder /\ HistoryKept
      /\ UNCHANGED <<length, bad, found, sweepFate, swept, sweepDone, analysed, decoderAt, item,
                     feedNext, feedHist, stopped>>
      /\ loopAt = "reading" /\ pos < End /\ queue # <<>> /\ fed # TheEnd
      /\ queue' = Tail(queue) /\ pos' = pos + 1
  BY DEF PassInv, NextFrame, film, sweepVars
<1>2. /\ loopAt' = IF gone THEN "closing" ELSE IF infer THEN "guiding" ELSE "reading"
      /\ infer => \E stride \in Strides : gate' = pos + 1 + stride
      /\ ~infer => gate' = gate
      /\ feedGate' = gate'
  BY DEF NextFrame
<1>3. /\ Len(queue) \in Nat \ {0} /\ Tail(queue) \in Seq(Fed) /\ Len(Tail(queue)) = Len(queue) - 1
      /\ \A i \in 1..(Len(queue) - 1) : Tail(queue)[i] = queue[i + 1]
      /\ IsFrame(fed, pos + 1)
  BY <1>1, FedIsNext
<1>4. gone <=> Sequential!Wanted(pos + 1) /\ pos + 1 \in bad
  BY <1>3 DEF IsFrame
<1>5. infer <=> pos + 1 >= gate /\ pos + 1 \notin bad
  BY <1>4 DEF Sequential!Wanted
<1> HIDE DEF fed, gone, infer
<1>6. /\ pos \in Nat /\ gate \in Nat /\ pos + 1 <= length /\ gate' \in Nat
      /\ infer => gate' >= pos + 2 /\ \E stride \in Strides : gate' = pos + 1 + stride
      /\ infer => pos + 1 >= gate
  <2>1. pos \in Nat /\ gate \in Nat /\ length \in Nat
    BY <1>1 DEF PassTypes
  <2>2. infer => gate' \in Nat /\ gate' >= pos + 2
    BY <1>2, <2>1, PassAssumption
  <2> QED
    BY <1>2, <1>3, <1>5, <2>1, <2>2 DEF IsFrame
<1>7. Sequential!Takes
  <2>1. (loopAt' = "guiding") <=> pos + 1 >= gate /\ pos + 1 \notin bad
    BY <1>2, <1>4, <1>5 DEF infer, gone
  <2>2. (loopAt' \in {"closing", "joining", "done"}) <=> Sequential!Wanted(pos + 1) /\ pos + 1 \in bad
    BY <1>2, <1>4
  <2>3. IF loopAt' = "guiding" THEN \E stride \in Strides : gate' = pos + 1 + stride ELSE gate' = gate
    BY <1>2, <1>5, <2>1
  <2>4. pos < length
    BY <1>1, <1>6 DEF PassTypes
  <2> QED
    BY <1>1, <2>1, <2>2, <2>3, <2>4 DEF Sequential!Takes, Sequential!film, Sequential!Wanted
<1>8. PassTypes'
  <2>1. Fed' = Fed
    BY <1>1 DEF Fed
  <2>2. loopAt' \in {"reading", "guiding", "closing", "joining", "done"} /\ pos' \in Nat
    BY <1>1, <1>2, <1>6
  <2>3. Len(queue') <= Depth
    BY <1>1, <1>3, PassAssumption DEF PassTypes
  <2> QED
    BY <1>1, <1>3, <1>6, <2>1, <2>2, <2>3 DEF PassTypes
<1>9. InOrder'
  <2>1. pos' <= End /\ pos' <= length' /\ feedGate' = gate'
    BY <1>1, <1>2, <1>6, PassAssumption
  <2>2. \A e, n : IsFrame(e, n) /\ n \in Int /\ n > pos + 1 => IsFrame(e, n)'
    <3>1. CASE infer
      BY <1>5, <1>6, <3>1 DEF IsFrame
    <3>2. CASE ~infer
      BY <1>1, <1>2, <3>2 DEF IsFrame, Sequential!Wanted
    <3> QED
      BY <3>1, <3>2
  <2>3. ASSUME NEW i \in 1..Len(queue')
        PROVE  \A e, n : e = queue'[i] /\ n = pos' + i =>
                  \/ IsFrame(e, n)'
                  \/ e = TheEnd /\ i = Len(queue') /\ decoderAt' = "ended" /\ length' < n
    <3>1. /\ i + 1 \in 1..Len(queue) /\ queue'[i] = queue[i + 1] /\ pos' + i = pos + (i + 1)
          /\ pos + (i + 1) \in Int /\ pos + (i + 1) > pos + 1
      BY <1>1, <1>3, <1>6
    <3>2. \/ IsFrame(queue[i + 1], pos + (i + 1))
          \/ queue[i + 1] = TheEnd /\ i + 1 = Len(queue) /\ decoderAt = "ended" /\ length < pos + (i + 1)
      BY <1>1, <3>1 DEF InOrder
    <3>3. i + 1 = Len(queue) => i = Len(queue')
      <4>1. i \in Int /\ Len(queue) \in Int /\ Len(queue') = Len(queue) - 1
        BY <1>1, <1>3
      <4> QED
        BY <4>1
    <3> SUFFICES ASSUME NEW e, NEW n, e = queue[i + 1], n = pos + (i + 1)
                 PROVE  \/ IsFrame(e, n)'
                        \/ e = TheEnd /\ i = Len(queue') /\ decoderAt = "ended" /\ length < n
      BY <1>1, <3>1
    <3> QED
      BY <2>2, <3>1, <3>2, <3>3
  <2>4. decoderAt' = "deciding" => feedNext' = pos' + Len(queue') + 1
    BY <1>1, <1>3, <1>6 DEF InOrder
  <2>5. decoderAt' = "putting" => \A e, n : e = item' /\ n = pos' + Len(queue') + 1 =>
          \/ IsFrame(e, n)' /\ feedNext' = n + 1
          \/ e = TheEnd /\ feedNext' = n /\ length' < feedNext'
    <3> SUFFICES ASSUME decoderAt = "putting"
                 PROVE  \A e, n : e = item /\ n = pos + Len(queue) + 1 =>
                          \/ IsFrame(e, n)' /\ feedNext = n + 1
                          \/ e = TheEnd /\ feedNext = n /\ length < feedNext
      BY <1>1, <1>3, <1>6
    <3>1. pos + Len(queue) + 1 \in Int /\ pos + Len(queue) + 1 > pos + 1
          /\ pos + Len(queue) + 2 = pos + Len(queue) + 1 + 1
      BY <1>3, <1>6
    <3> QED
      BY <1>1, <2>2, <3>1 DEF InOrder
  <2>6. pos' + Len(queue') + 2 = pos' + Len(queue') + 1 + 1
    BY <1>1, <1>3, <1>6
  <2> QED
    BY <2>1, <2>3, <2>4, <2>5, <2>6 DEF InOrder, IsFrame, TheEnd
<1>10. HistoryKept'
  BY <1>1 DEF HistoryKept
<1> QED
  BY <1>7, <1>8, <1>9, <1>10 DEF PassInv

-----------------------------------------------------------------------------

\* Steps that neither decode, nor put, nor take a frame.
LEMMA BesideKeeps ==
    ASSUME PassInv,
           UNCHANGED <<film, queue, item, pos, gate, feedNext, feedGate, feedHist>>,
           loopAt' \in {"reading", "guiding", "closing", "joining", "done"},
           decoderAt' \in {decoderAt, "ended"}, stopped' \in BOOLEAN,
           swept' \in {-1} \cup Sequential!Sampled, sweepDone' \in BOOLEAN
    PROVE  PassInv'
<1>1. UNCHANGED <<length, bad, found, sweepFate>>
  BY DEF film
<1>2. Fed' = Fed /\ \A e, n : IsFrame(e, n)' <=> IsFrame(e, n)
  BY <1>1 DEF Fed, IsFrame, Sequential!Wanted
<1>3. PassTypes'
  BY <1>1, <1>2 DEF PassInv, PassTypes
<1>4. InOrder'
  BY <1>1, <1>2 DEF PassInv, PassTypes, InOrder
<1>5. HistoryKept'
  BY DEF PassInv, HistoryKept
<1> QED
  BY <1>3, <1>4, <1>5 DEF PassInv

\* The induction step.
LEMMA PassStep ==
    ASSUME PassInv, [PassNext]_passVars
    PROVE  PassInv'
<1> USE DEF PassInv, PassTypes
<1>1. CASE Decodes \/ Puts \/ NextFrame
  BY <1>1, DecodesKeeps, PutsKeeps, NextFrameKeeps
<1>2. CASE GivesUp
  BY <1>2, BesideKeeps DEF GivesUp, film, loopVars, sweepVars
<1>3. CASE VideoEnds \/ Raises \/ Joins
  BY <1>3, BesideKeeps DEF VideoEnds, Raises, Joins, film, feedVars, sweepVars
<1>4. CASE Analyse
  BY <1>4, BesideKeeps DEF Analyse, film, feedVars, sweepVars
<1>5. CASE Closes
  BY <1>5, BesideKeeps DEF Closes, film, sweepVars
<1>6. CASE Sweeps \/ SweepEnds
  BY <1>6, BesideKeeps DEF Sweeps, SweepEnds, film, feedVars, loopVars
<1>7. CASE UNCHANGED passVars
  BY <1>7, BesideKeeps DEF passVars, film, feedVars, loopVars, sweepVars
<1> QED
  BY <1>1, <1>2, <1>3, <1>4, <1>5, <1>6, <1>7
     DEF PassNext, DecoderStep, LoopStep, SweepStep

-----------------------------------------------------------------------------

\* What the sweep has not reached is too far away to guide frame n.
LEMMA SweptIsEnough ==
    ASSUME NEW n \in Nat, NEW tracks, tracks \subseteq Int, NEW last \in Int,
           last >= n + SweepStride
    PROVE  Sequential!Guidance({m \in tracks : m <= last}, n) = Sequential!Guidance(tracks, n)
<1> DEFINE Near(t) == {m \in t : Sequential!Distance(m, n) <= SweepStride}
           Nearest(near) == IF near = {} THEN NoGuide
                            ELSE Sequential!Min({m \in near : \A k \in near :
                                    Sequential!Distance(m, n) <= Sequential!Distance(k, n)})
<1>1. \A t : Sequential!Guidance(t, n) = Nearest(Near(t))
  BY DEF Sequential!Guidance
<1>2. \A m \in tracks : Sequential!Distance(m, n) <= SweepStride => m <= last
  BY PassAssumption DEF Sequential!Distance
<1>3. Near({m \in tracks : m <= last}) = Near(tracks)
  BY <1>2
<1> HIDE DEF Near, Nearest
<1> QED
  BY <1>1, <1>3

\* A frame is analysed with the guidance of the whole sweep, or of none if the
\* sweep failed.
LEMMA AnalyseRefines ==
    ASSUME PassInv, Analyse
    PROVE  Sequential!Analyses
<1>1. /\ loopAt = "guiding" /\ Ready
      /\ analysed' = Append(analysed, [frame |-> pos, guide |-> Sequential!Guidance(Tracks, pos)])
      /\ loopAt' = IF pos >= End - 1 THEN "closing" ELSE "reading"
      /\ UNCHANGED <<length, bad, found, sweepFate, pos, gate>>
  BY DEF Analyse, film
<1>2. pos \in Nat /\ swept \in Int /\ found \subseteq Int /\ sweepFate \in {"whole", "fails"}
      /\ sweepDone \in BOOLEAN
  BY PassAssumption DEF PassInv, PassTypes, Sequential!Sampled
<1>3. \E tracks \in IF sweepFate = "whole" THEN {found} ELSE {found, {}} :
         Sequential!Guidance(Tracks, pos) = Sequential!Guidance(tracks, pos)
  <2>1. CASE sweepDone
    BY <1>2, <2>1 DEF Tracks
  <2>2. CASE ~sweepDone
    <3>1. Tracks = {m \in found : m <= swept} /\ swept >= pos + SweepStride
      BY <1>1, <2>2 DEF Tracks, Ready
    <3>2. Sequential!Guidance(Tracks, pos) = Sequential!Guidance(found, pos)
      BY <1>2, <3>1, SweptIsEnough
    <3> QED
      BY <3>2
  <2> QED
    BY <1>2, <2>1, <2>2
<1>4. (loopAt' # "guiding") /\ (loopAt' \in {"closing", "joining", "done"} <=> pos >= End - 1)
  BY <1>1
<1> QED
  BY <1>1, <1>3, <1>4 DEF Sequential!Analyses, Sequential!film

\* Every step of the pass is one of the sequential pass, or none.
LEMMA PassRefines ==
    ASSUME PassInv, [PassNext]_passVars
    PROVE  [Sequential!SequentialNext]_(Sequential!sequentialVars)
<1> USE DEF Sequential!SequentialNext, Sequential!sequentialVars, Sequential!film
<1>1. CASE NextFrame
  BY <1>1, NextFrameKeeps
<1>2. CASE Analyse
  BY <1>2, AnalyseRefines
<1>3. CASE VideoEnds
  <2>1. /\ loopAt = "reading" /\ loopAt' = "closing"
        /\ UNCHANGED <<length, bad, found, sweepFate, pos, gate, analysed>>
        /\ pos >= End \/ (queue # <<>> /\ Head(queue) = TheEnd)
    BY <1>3 DEF VideoEnds, film
  <2>2. pos = End \/ pos = length
    <3>1. pos <= End /\ pos <= length /\ pos \in Nat /\ length \in Nat /\ End \in Nat
      BY PassAssumption DEF PassInv, InOrder, PassTypes
    <3>2. CASE pos >= End
      BY <3>1, <3>2
    <3>3. CASE queue # <<>> /\ Head(queue) = TheEnd
      <4>1. length <= pos
        BY <3>3, FedIsNext
      <4> QED
        BY <3>1, <4>1
    <3> QED
      BY <2>1, <3>2, <3>3
  <2>3. Sequential!Stops
    BY <2>1, <2>2 DEF Sequential!Stops, Sequential!Ends
  <2> QED
    BY <2>3
<1>4. CASE Raises
  <2>1. /\ loopAt = "guiding" /\ loopAt' = "closing"
        /\ UNCHANGED <<length, bad, found, sweepFate, pos, gate, analysed>>
    BY <1>4 DEF Raises, film
  <2>2. Sequential!Stops
    BY <2>1 DEF Sequential!Stops
  <2> QED
    BY <2>2
<1>5. CASE Closes \/ Joins
  <2>1. /\ loopAt \in {"closing", "joining"} /\ loopAt' \in {"joining", "done"}
        /\ UNCHANGED <<length, bad, found, sweepFate, pos, gate, analysed>>
    BY <1>5 DEF Closes, Joins, film
  <2> QED
    BY <2>1
<1>6. CASE DecoderStep \/ SweepStep \/ UNCHANGED passVars
  <2>1. UNCHANGED <<length, bad, found, sweepFate, loopAt, pos, gate, analysed>>
    BY <1>6 DEF DecoderStep, Decodes, Puts, GivesUp, SweepStep, Sweeps, SweepEnds, passVars, film, loopVars
  <2> QED
    BY <2>1
<1> QED
  BY <1>1, <1>2, <1>3, <1>4, <1>5, <1>6 DEF PassNext, LoopStep

\* The invariant holds in every reachable state.
THEOREM PassInvariant == PassSpec => []PassInv
<1>1. PassInit => PassInv
  BY PassInitGood
<1>2. PassInv /\ [PassNext]_passVars => PassInv'
  BY PassStep
<1> QED
  BY <1>1, <1>2, PTL DEF PassSpec

\* Type correctness of the frame pass, and a queue that never holds more than
\* Depth frames (FrameFeed.__init__).
THEOREM PassIsWellTyped == PassSpec => []PassTypeOK
<1>1. PassInv => PassTypeOK
  BY DEF PassInv, PassTypes, PassTypeOK, Fed
<1> QED
  BY <1>1, PassInvariant, PTL

\* The results must not change (frame_feed.py, SweepInBackground): the pass with
\* decoding and the sweep on threads of their own implements the pass without
\* them, for films of any length, any strides, and a queue of any depth.
THEOREM PassIsSequential == PassSpec => SameAsSequential
<1>1. PassInit => Sequential!SequentialInit
  <2> SUFFICES ASSUME PassInit PROVE Sequential!SequentialInit
    OBVIOUS
  <2>1. /\ Sequential!FilmInit /\ pos = 0 /\ gate \in Strides /\ analysed = <<>>
        /\ loopAt = "reading"
    BY DEF PassInit
  <2> QED
    BY <2>1 DEF Sequential!SequentialInit
<1>2. PassInv /\ [PassNext]_passVars => [Sequential!SequentialNext]_(Sequential!sequentialVars)
  BY PassRefines
<1> QED
  BY <1>1, <1>2, PassInvariant, PTL DEF PassSpec, SameAsSequential, Sequential!SequentialSpec
=============================================================================
