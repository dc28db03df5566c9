--------------------------- MODULE ProgressSender ---------------------------
(***************************************************************************)
(* One analysis on the remote worker (run_remote_claimed_job, worker.py):  *)
(* the analysis reports, a sender thread posts what is newest, a lease     *)
(* keeper posts empty updates beside it, and the result goes last.  The    *)
(* website takes an update only while the run is this worker's and not     *)
(* finished; any call may be lost, before or after the website acted, and  *)
(* one given up on may still be acted on later.                            *)
(*                                                                         *)
(* Every report carries every field, so a report is its number and merging *)
(* two keeps the later one.                                                *)
(***************************************************************************)
EXTENDS Integers

CONSTANTS
    MaxReports,    \* bound: reports of the analysis
    MaxMishaps     \* bound: lost calls, joins given up and a lost run

ASSUME SenderAssumption == MaxReports \in Nat \ {0} /\ MaxMishaps \in Nat

VARIABLES
    mainAt,      \* the thread that runs the analysis
    reported,    \* the last report it handed over
    pending,     \* waiting to be sent, 0 when nothing is
    sending,     \* in a call to the website
    senderAt, keeperAt,
    closed,      \* close() was called
    lost,        \* ownership_lost
    owned,       \* website: the run is still this worker's
    shown,       \* website: the report it shows
    late,        \* a report the website has yet to act on, given up by now
    outcome,     \* what became of the run
    hiccups,     \* calls lost and joins given up
    mishaps

callVars == <<senderAt, keeperAt, closed>>
senderVars == <<mainAt, reported, pending, sending, callVars, lost, owned,
                shown, late, outcome, hiccups, mishaps>>

SenderInit ==
    /\ mainAt = "downloading" /\ reported = 0 /\ pending = 0 /\ sending = 0
    /\ senderAt = "none" /\ keeperAt = "waiting" /\ closed = FALSE
    /\ lost = FALSE /\ owned = TRUE /\ shown = 0 /\ late = 0
    /\ outcome = "none" /\ hiccups = FALSE /\ mishaps = 0

Later(m, n) == IF m > n THEN m ELSE n
Hiccup == mishaps < MaxMishaps /\ mishaps' = mishaps + 1 /\ hiccups' = TRUE
NoHiccup == UNCHANGED <<hiccups, mishaps>>

-----------------------------------------------------------------------------
(* The thread of the analysis.                                             *)

\* The download is over: the run may have been lost meanwhile.
Downloads ==
    /\ mainAt = "downloading"
    /\ IF lost THEN mainAt' = "ending" /\ outcome' = "discarded"
                    /\ UNCHANGED senderAt
       ELSE mainAt' = "analysing" /\ senderAt' = "waiting" /\ UNCHANGED outcome
    /\ UNCHANGED <<reported, pending, sending, keeperAt, closed, lost, owned,
                   shown, late, hiccups, mishaps>>

\* sender(patch): refused when the run is known to be lost, else merged.
Reports ==
    /\ mainAt = "analysing" /\ reported < MaxReports
    /\ IF lost THEN mainAt' = "closing" /\ outcome' = "discarded"
                    /\ UNCHANGED <<reported, pending>>
       ELSE /\ reported' = reported + 1 /\ pending' = reported'
            /\ UNCHANGED <<mainAt, outcome>>
    /\ UNCHANGED <<sending, callVars, lost, owned, shown, late, hiccups,
                   mishaps>>

\* The analysis ends, well or with an exception; close() follows either way.
AnalysisEnds(well) ==
    /\ mainAt = "analysing" /\ (well => reported = MaxReports)
    /\ mainAt' = "closing" /\ outcome' = IF well THEN outcome ELSE "failed"
    /\ UNCHANGED <<reported, pending, sending, callVars, lost, owned, shown,
                   late, hiccups, mishaps>>

SenderCloses ==
    /\ mainAt = "closing" /\ mainAt' = "joining" /\ closed' = TRUE
    /\ UNCHANGED <<reported, pending, sending, senderAt, keeperAt, lost, owned,
                   shown, late, outcome, hiccups, mishaps>>

\* The thread is joined for thirty seconds, a call of it may take longer.
Joined ==
    /\ mainAt = "joining" /\ mainAt' = "checking"
    /\ \/ senderAt = "ended" /\ NoHiccup
       \/ senderAt = "calling" /\ Hiccup
    /\ UNCHANGED <<reported, pending, sending, callVars, lost, owned, shown,
                   late, outcome>>

\* A run known to be lost is discarded, a failed one reported.
AfterCheck == IF lost THEN "ending" ELSE "completing"
Checks ==
    /\ mainAt = "checking"
    /\ IF outcome = "none"
       THEN /\ mainAt' = AfterCheck
            /\ outcome' = IF AfterCheck = "ending" THEN "discarded" ELSE outcome
       ELSE mainAt' = "ending" /\ UNCHANGED outcome
    /\ UNCHANGED <<reported, pending, sending, callVars, lost, owned, shown,
                   late, hiccups, mishaps>>

\* The website takes the result of a run that is still this worker's.
Completes ==
    /\ mainAt = "completing" /\ mainAt' = "ending"
    /\ outcome' = IF owned THEN "accepted" ELSE "refused"
    /\ owned' = FALSE
    /\ UNCHANGED <<reported, pending, sending, callVars, lost, shown, late,
                   hiccups, mishaps>>

\* Its answer is lost: the worker reports a failure of a finished run.
CompletesUnheard ==
    /\ mainAt = "completing" /\ Hiccup /\ mainAt' = "ending"
    /\ \E acted \in BOOLEAN :
         /\ outcome' = IF acted /\ owned THEN "accepted" ELSE "failed"
         /\ owned' = (owned /\ ~acted)
    /\ UNCHANGED <<reported, pending, sending, callVars, lost, shown, late>>

\* The keeper is told to stop and joined.
Over ==
    /\ mainAt = "ending" /\ keeperAt = "stopped" /\ mainAt' = "over"
    /\ UNCHANGED <<reported, pending, sending, callVars, lost, owned, shown,
                   late, outcome, hiccups, mishaps>>

-----------------------------------------------------------------------------
(* The sender and the lease keeper.                                        *)

\* A new report takes the place of the one that waits.
TakeOldest == IF pending = 0 THEN 0 ELSE Later(1, pending - 1)
Take == pending
SenderTakes ==
    /\ senderAt = "waiting" /\ pending # 0
    /\ sending' = Take /\ pending' = 0 /\ senderAt' = "calling"
    /\ UNCHANGED <<mainAt, reported, keeperAt, closed, lost, owned, shown,
                   late, outcome, hiccups, mishaps>>

SenderStops ==
    /\ senderAt = "waiting" /\ pending = 0 /\ closed
    /\ senderAt' = "ended"
    /\ UNCHANGED <<mainAt, reported, pending, sending, keeperAt, closed, lost,
                   owned, shown, late, outcome, hiccups, mishaps>>

\* progress(): shown, or the run is lost.
CallEnds ==
    /\ senderAt = "calling" /\ senderAt' = "waiting" /\ sending' = 0
    /\ shown' = IF owned THEN sending ELSE shown
    /\ lost' = (lost \/ ~owned)
    /\ UNCHANGED <<mainAt, reported, pending, keeperAt, closed, owned, late,
                   outcome, hiccups, mishaps>>

\* Given up on: logged, and the next one tried.  The website may not have
\* seen it, or act on it later.
CallFails ==
    /\ senderAt = "calling" /\ Hiccup /\ senderAt' = "waiting" /\ sending' = 0
    /\ late' \in {late, sending}
    /\ UNCHANGED <<mainAt, reported, pending, keeperAt, closed, lost, owned,
                   shown, outcome>>

ActsLate ==
    /\ late # 0 /\ late' = 0
    /\ shown' = IF owned THEN late ELSE shown
    /\ UNCHANGED <<mainAt, reported, pending, sending, callVars, lost, owned,
                   outcome, hiccups, mishaps>>

\* The keeper's empty update changes nothing that is shown.
StopsNever == FALSE
KeeperStops == mainAt = "ending"
Keeps ==
    /\ keeperAt = "waiting" /\ ~KeeperStops
    /\ IF owned THEN UNCHANGED <<keeperAt, lost>>
       ELSE keeperAt' = "stopped" /\ lost' = TRUE
    /\ UNCHANGED <<mainAt, reported, pending, sending, senderAt, closed, owned,
                   shown, late, outcome, hiccups, mishaps>>
KeeperEnds ==
    /\ keeperAt = "waiting" /\ KeeperStops /\ keeperAt' = "stopped"
    /\ UNCHANGED <<mainAt, reported, pending, sending, senderAt, closed, lost,
                   owned, shown, late, outcome, hiccups, mishaps>>

\* The lease lapses and another worker has the run, or it is cancelled.
RunIsTaken ==
    /\ owned /\ mishaps < MaxMishaps /\ mishaps' = mishaps + 1
    /\ owned' = FALSE
    /\ UNCHANGED <<mainAt, reported, pending, sending, callVars, lost, shown,
                   late, outcome, hiccups>>

-----------------------------------------------------------------------------
RunStep == \/ Downloads \/ Reports \/ AnalysisEnds(TRUE) \/ SenderCloses
           \/ Joined \/ Checks \/ Completes \/ Over
SenderStep == SenderTakes \/ SenderStops \/ CallEnds
KeeperStep == Keeps \/ KeeperEnds
Mishap == AnalysisEnds(FALSE) \/ CompletesUnheard \/ CallFails \/ RunIsTaken

SenderNext == RunStep \/ SenderStep \/ KeeperStep \/ ActsLate \/ Mishap

\* Threads go on; a call to the website ends, or is given up on, and so does
\* the analysis.
SenderFairness ==
    WF_senderVars(RunStep) /\ WF_senderVars(SenderStep) /\ WF_senderVars(KeeperStep)

SenderSpec == SenderInit /\ [][SenderNext]_senderVars /\ SenderFairness

-----------------------------------------------------------------------------
\* The website shows a report that was made, and never one not made yet.
SenderTypeOK ==
    /\ mainAt \in {"downloading", "analysing", "closing", "joining", "checking",
                   "completing", "ending", "over"}
    /\ senderAt \in {"none", "waiting", "calling", "ended"}
    /\ keeperAt \in {"waiting", "stopped"}
    /\ reported \in 0..MaxReports /\ mishaps \in 0..MaxMishaps
    /\ \A n \in {pending, sending, shown, late} : n \in 0..reported
    /\ outcome \in {"none", "accepted", "refused", "discarded", "failed"}
    /\ closed \in BOOLEAN /\ lost \in BOOLEAN /\ owned \in BOOLEAN

\* run_remote_claimed_job, "the last update goes before the result": when no
\* call was lost, a result that is accepted finds the last report shown.
LastReportIsShown ==
    outcome = "accepted" /\ ~hiccups => shown = MaxReports

\* Whatever fails, the run comes to its end and its threads with it.
RunIsOver ==
    <>(mainAt = "over" /\ keeperAt = "stopped" /\ senderAt \in {"none", "ended"})

=============================================================================
