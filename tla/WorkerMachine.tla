---------------------------- MODULE WorkerMachine ----------------------------
(***************************************************************************)
(* The analysis PC: worker processes that may be started side by side, the *)
(* lock file that lets one of them work (worker.py), the launchers that    *)
(* start them again (deploy/run-worker.ps1, start-worker.bat), and the code*)
(* they fetch from the website when it refuses theirs.                     *)
(*                                                                         *)
(* Time passes in heartbeats: within one, every heartbeat thread beats,    *)
(* unless the machine was asleep or starved.                               *)
(***************************************************************************)
EXTENDS Integers, FiniteSets

CONSTANTS
    Service,      \* processes the service script starts, and starts again
    Window,       \* started from start-worker.bat, which closes when refused
    OneShot,      \* started by hand with --once
    Nobody,       \* no process, or one that is gone
    Other,        \* an unrelated Python that has a gone worker's number
    Stale,        \* LOCK_STALE_SECONDS in heartbeats
    MaxDeploy,    \* bound: deployments of the website
    MaxTrouble    \* bound: crashes, sleeps, failed installs and --once runs

Procs == Service \cup Window \cup OneShot

ASSUME MachineAssumption ==
    /\ Stale \in Nat \ {0} /\ MaxDeploy \in Nat /\ MaxTrouble \in Nat
    /\ {Nobody, Other} \cap Procs = {}

VARIABLES
    at,         \* process -> where its main thread is
    lock,       \* worker.lock: who beat last and how long ago
    seen,       \* process -> what it read of the lock
    due,        \* processes whose heartbeat of this interval is to come
    site, disk, code,    \* versions: website, core/ on disk, each process
    trouble,    \* crashes, sleeps, failed installs and --once runs so far
    excuse      \* history: what can have let a second worker in

machineVars == <<at, lock, seen, due, site, disk, code, trouble,
                 excuse>>

Free == [pid |-> Nobody, age |-> 0]
Working == {p \in Procs : at[p] \in {"polling", "analysing"}}

MachineInit ==
    /\ at = [p \in Procs |-> "off"]
    /\ lock = Free /\ seen = [p \in Procs |-> Free]
    /\ due = {}
    /\ site = 0 /\ disk = "0" /\ code = [p \in Procs |-> "0"]
    /\ trouble = 0 /\ excuse = {}

\* Versions of the code, and what an interrupted install leaves: core/ that
\* imports ("mixed") or does not ("broken").
Version(n) == IF n = 0 THEN "0" ELSE IF n = 1 THEN "1" ELSE "2"
Versions == {Version(n) : n \in 0..MaxDeploy}

Moves(p, where) == at' = [at EXCEPT ![p] = where]

\* A process goes; its number is nobody's, or another program's.
Renumbered(line, p, now) == IF line.pid # p THEN line
                            ELSE IF now = Nobody THEN Free
                            ELSE [line EXCEPT !.pid = now]
Leaves(p, where, now) ==
    /\ Moves(p, where) /\ due' = due \ {p}
    /\ lock' = Renumbered(lock, p, now)
    /\ seen' = [q \in Procs |-> IF q = p THEN Free
                               ELSE Renumbered(seen[q], p, now)]
    /\ code' = [code EXCEPT ![p] = "0"]

-----------------------------------------------------------------------------
(* The lock.                                                               *)

\* _claim_sole_worker reads who holds the lock ...
Reads(p) ==
    /\ at[p] = "off" /\ disk # "broken"
    /\ p \in OneShot => trouble < MaxTrouble
    /\ trouble' = IF p \in OneShot THEN trouble + 1 ELSE trouble
    /\ Moves(p, "starting")
    /\ seen' = [seen EXCEPT ![p] = lock]
    /\ code' = [code EXCEPT ![p] = disk]
    /\ UNCHANGED <<lock, due, site, disk, excuse>>

\* ... refuses while another process holds it, beat recently and is alive ...
HeldForever(p) == seen[p].pid \notin {p, Nobody}
HeldByAnother(p) == seen[p].pid \notin {p, Nobody} /\ seen[p].age < Stale

\* ... and otherwise writes its own line over whatever is there by then.
Claims(p) ==
    /\ at[p] = "starting" /\ ~HeldByAnother(p)
    /\ lock' = [pid |-> p, age |-> 0] /\ seen' = [seen EXCEPT ![p] = lock']
    /\ Moves(p, "polling")
    /\ excuse' = IF \E q \in Procs \ {p} : at[q] = "starting"
                 THEN excuse \cup {"race"} ELSE excuse
    /\ UNCHANGED <<due, site, disk, code, trouble>>

\* A refused process exits; its window closes for good; --once goes on.
IsRefused(p) ==
    /\ at[p] = "starting" /\ HeldByAnother(p)
    /\ IF p \in OneShot
         THEN /\ Moves(p, "polling") /\ excuse' = excuse \cup {"once"}
              /\ UNCHANGED <<lock, seen, due, code>>
         ELSE /\ Leaves(p, IF p \in Service THEN "off" ELSE "closed", Nobody)
              /\ UNCHANGED excuse
    /\ UNCHANGED <<site, disk, trouble>>

\* refresh_worker_lock, from the heartbeat thread: whoever holds it by now.
Beats(p) ==
    /\ p \in due
    /\ lock' = [pid |-> p, age |-> 0] /\ due' = due \ {p}
    /\ UNCHANGED <<at, seen, site, disk, code, trouble, excuse>>

\* A heartbeat's time goes by, once the threads of the last one have beaten.
\* A refused --once run has no such thread.
Holding == {p \in Working : seen[p].pid = p}
BeatingWhileIdle == {p \in Holding : at[p] = "polling"}
Beating == Holding
Older == IF lock.pid = Nobody \/ lock.age = Stale THEN lock
         ELSE [lock EXCEPT !.age = @ + 1]
Tick ==
    /\ due = {} /\ due' = Beating /\ lock' = Older
    /\ UNCHANGED <<at, seen, site, disk, code, trouble, excuse>>

\* The machine sleeps or is starved: time goes by without a beat.
Sleeps ==
    /\ trouble < MaxTrouble /\ Working # {}
    /\ lock' = IF lock.pid = Nobody THEN lock ELSE [lock EXCEPT !.age = Stale]
    /\ trouble' = trouble + 1 /\ excuse' = excuse \cup {"sleep"}
    /\ UNCHANGED <<at, seen, due, site, disk, code>>

\* A process is killed; its number may go to another Python.
Crashes(p) ==
    /\ trouble < MaxTrouble /\ at[p] \notin {"off", "closed"}
    /\ trouble' = trouble + 1
    /\ \E now \in {Nobody, Other} : Leaves(p, "off", now)
    /\ UNCHANGED <<site, disk, excuse>>

\* The main program's finally: the lock goes if this process wrote it last.
\* (A lock of a process that is gone keeps nobody out: it reads as Free.)
Exits(p) ==
    /\ at[p] = "polling" /\ (p \in OneShot \/ disk # code[p])
    /\ Leaves(p, "off", Nobody)
    /\ UNCHANGED <<site, disk, trouble, excuse>>

-----------------------------------------------------------------------------
(* The poll loop, and the code it runs.                                    *)

Current(p) == code[p] = Version(site)

\* Changed code is noticed between jobs; then heartbeat and claim, which also
\* refresh the lock.
Polls(p, found) ==
    /\ at[p] = "polling" /\ disk = code[p]
    /\ lock' = [pid |-> p, age |-> 0]
    /\ Moves(p, IF found /\ Current(p) THEN "analysing" ELSE "polling")
    /\ UNCHANGED <<seen, due, site, disk, code, trouble, excuse>>

JobEnds(p) ==
    /\ at[p] = "analysing" /\ Moves(p, "polling")
    /\ UNCHANGED <<lock, seen, due, site, disk, code, trouble,
                   excuse>>

\* _sync_analysis_code, when the website refuses this code: checked before a
\* file is written, then installed file by file.
InstalledOld == disk
InstalledEmpty == ""
Installed == Version(site)
Syncs(p) ==
    /\ at[p] = "polling" /\ disk = code[p] /\ ~Current(p)
    /\ disk' = Installed
    /\ UNCHANGED <<at, lock, seen, due, site, code, trouble,
                   excuse>>
SyncStops(p) ==
    /\ at[p] = "polling" /\ disk = code[p] /\ ~Current(p)
    /\ trouble < MaxTrouble /\ trouble' = trouble + 1
    /\ disk' \in {"mixed", "broken"}
    /\ UNCHANGED <<at, lock, seen, due, site, code, excuse>>

Deploys ==
    /\ site < MaxDeploy /\ site' = site + 1
    /\ UNCHANGED <<at, lock, seen, due, disk, code, trouble,
                   excuse>>

-----------------------------------------------------------------------------
\* What a started process does of itself: take the lock or be refused, end its
\* job, stop or poll.
Starting(p) == Claims(p) \/ IsRefused(p)
GoesOn(p) == Exits(p) \/ JobEnds(p) \/ Polls(p, FALSE)

MachineNext ==
    \/ \E p \in Procs : Reads(p)
    \/ \E p \in Procs : Claims(p)
    \/ \E p \in Procs : IsRefused(p)
    \/ \E p \in Procs : Beats(p)
    \/ Tick
    \/ Sleeps
    \/ \E p \in Procs : Crashes(p)
    \/ \E p \in Procs : Exits(p)
    \/ \E p \in Procs, found \in BOOLEAN : Polls(p, found)
    \/ \E p \in Procs : JobEnds(p)
    \/ \E p \in Procs : Syncs(p)
    \/ \E p \in Procs : SyncStops(p)
    \/ Deploys

\* The service script starts its process whenever it is off; a started
\* process, its threads and time go on; a worker refused for its code tries
\* again until the website's is installed.
MachineFairness ==
    /\ \A p \in Service : WF_machineVars(Reads(p))
    /\ \A p \in Procs : WF_machineVars(Starting(p)) /\ WF_machineVars(Beats(p))
                       /\ WF_machineVars(GoesOn(p)) /\ SF_machineVars(Syncs(p))
    /\ WF_machineVars(Tick)

MachineSpec == MachineInit /\ [][MachineNext]_machineVars /\ MachineFairness

-----------------------------------------------------------------------------
\* Places, versions and ages are those the program knows.
MachineTypeOK ==
    /\ at \in [Procs -> {"off", "starting", "polling", "analysing", "closed"}]
    /\ lock \in [pid : Procs \cup {Nobody, Other}, age : 0..Stale]
    /\ seen \in [Procs -> [pid : Procs \cup {Nobody, Other}, age : 0..Stale]]
    /\ due \subseteq Procs 
    /\ site \in 0..MaxDeploy /\ disk \in Versions \cup {"mixed", "broken"}
    /\ code \in [Procs -> Versions \cup {"mixed"}]
    /\ trouble \in 0..MaxTrouble
    /\ excuse \subseteq {"race", "sleep", "once"}

\* worker.py's lock: two processes work at once only if two starts overlapped
\* (one read the lock before the other wrote it), the machine slept past the
\* heartbeat, or a --once run was let past the lock.
SoleWorker == Cardinality(Working) > 1 => excuse # {}

\* A killed worker's lock keeps nobody out for good, even when its process
\* number went to another program: someone works again, or an install broke
\* core/ for good.
SomeoneWorks == []<>(Working # {} \/ disk = "broken")

\* A worker the website refuses for its code comes to run the website's: after
\* the last deployment a working process runs it, through failed installs and
\* restarts, or core/ is broken for good.
CodeCatchesUp ==
    (site = MaxDeploy) ~>
      ((\E p \in Working : Current(p)) \/ disk = "broken")

=============================================================================
