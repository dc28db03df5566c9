---------------------------- MODULE ResultPromise ----------------------------
(***************************************************************************)
(* What app/state.py promises about the results of a job, whoever runs the *)
(* analysis: a job has at most one current generation; only an open        *)
(* generation is published, and nothing opens one again once it is         *)
(* published or closed, so one that was given up, failed or replaced is    *)
(* never published and none is published twice.  A published one can still *)
(* be closed, and a job whose session is gone may come back as an older    *)
(* copy of itself: the store does not exclude either.                      *)
(***************************************************************************)
EXTENDS Naturals

CONSTANTS Jobs, MaxRuns

VARIABLES
    phase,    \* "none", "open", "published" or "closed"
    current,  \* the generation the phase is about
    newest    \* the newest generation handed out to any job

vars == <<phase, current, newest>>

Init ==
    /\ phase = [j \in Jobs |-> "none"]
    /\ current = [j \in Jobs |-> 0]
    /\ newest = 0

\* A new job, or one whose session had disappeared, is there (again).
Appear(j) ==
    /\ phase[j] = "none"
    /\ phase' \in {[phase EXCEPT ![j] = p] : p \in {"open", "published", "closed"}}
    /\ current' \in {[current EXCEPT ![j] = g] : g \in 0..newest}
    /\ UNCHANGED newest

\* A fresh generation is queued.
Open(j) ==
    /\ newest < MaxRuns
    /\ newest' = newest + 1
    /\ phase' = [phase EXCEPT ![j] = "open"]
    /\ current' = [current EXCEPT ![j] = newest + 1]

\* A generation identifier is drawn for a queue entry that is never written.
Waste == newest < MaxRuns /\ newest' = newest + 1 /\ UNCHANGED <<phase, current>>

Publish(j) ==
    /\ phase[j] = "open"
    /\ phase' = [phase EXCEPT ![j] = "published"]
    /\ UNCHANGED <<current, newest>>

\* Interrupted or failed.
Close(j) ==
    /\ phase[j] \in {"open", "published"}
    /\ phase' = [phase EXCEPT ![j] = "closed"]
    /\ UNCHANGED <<current, newest>>

Disappear(j) ==
    /\ phase[j] # "none"
    /\ phase' = [phase EXCEPT ![j] = "none"]
    /\ current' = [current EXCEPT ![j] = 0]
    /\ UNCHANGED newest

Next ==
    \/ Waste
    \/ \E j \in Jobs : Appear(j) \/ Open(j) \/ Publish(j) \/ Close(j) \/ Disappear(j)

Spec == Init /\ [][Next]_vars
=============================================================================
