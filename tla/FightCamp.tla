------------------------------ MODULE FightCamp ------------------------------
(***************************************************************************)
(* What one athlete trains and the points it earns (app/main.py, core/     *)
(* camp.py, core/db.py): items on a list, clips uploaded for them, and the *)
(* ledger, in which a reason pays once.  Handlers overlap, and each of     *)
(* their statements is on its own; a handler may end between two of them.  *)
(***************************************************************************)
EXTENDS Integers, Sequences, FiniteSets

CONSTANTS
    Training,    \* requests that may be under way
    Clips,       \* clips the athlete may upload, by fingerprint
    Moving,      \* those that check_training_video counts
    DailyCap,    \* DAILY_COUNTED_SESSIONS
    MaxItems, MaxSessions, MaxDate  \* bounds: rows, and days

ASSUME CampAssumption ==
    Moving \subseteq Clips /\ DailyCap \in Nat \ {0} /\ MaxDate \in Nat
    /\ MaxItems \in Nat /\ MaxSessions \in Nat

VARIABLES
    items,     \* coach_assignments: item -> active or complete
    trained,   \* training_sessions, in the order of their ids
    ledger,    \* points_ledger: reason and reference
    trainee,   \* request -> what it does and how far it is
    date,
    crowded    \* history: two uploads were under way at once

campVars == <<items, trained, ledger, trainee, date, crowded>>

Resting == [at |-> "idle", item |-> 0, clip |-> CHOOSE c \in Clips : TRUE,
            seen |-> 0, verdict |-> "none", paid |-> FALSE]

CampInit ==
    /\ items = <<>> /\ trained = <<>> /\ ledger = {} /\ date = 1
    /\ trainee = [q \in Training |-> Resting] /\ crowded = FALSE

Moves(q, at) == trainee' = [trainee EXCEPT ![q].at = at]
Rests(q) == trainee' = [trainee EXCEPT ![q] = Resting]
Uploading(q) == trainee[q].at \in {"filed", "judged", "recorded"}

\* add_assignment of a title that no active item has.
AddsItem ==
    /\ Len(items) < MaxItems /\ items' = Append(items, "active")
    /\ UNCHANGED <<trained, ledger, trainee, date, crowded>>

\* toggle_assignment reads the status, then writes the other one.
ReadsStatus(q, i) ==
    /\ trainee[q].at = "idle"
    /\ trainee' = [trainee EXCEPT ![q].item = i, ![q].verdict = items[i],
                                  ![q].at = "toggling"]
    /\ UNCHANGED <<items, trained, ledger, date, crowded>>
WritesStatus(q) ==
    /\ trainee[q].at = "toggling"
    /\ items' = [items EXCEPT ![trainee[q].item] =
                   IF trainee[q].verdict = "active" THEN "complete" ELSE "active"]
    /\ trainee' = [trainee EXCEPT ![q].at = "toggled", ![q].verdict = "none"]
    /\ UNCHANGED <<trained, ledger, date, crowded>>

\* The route then reads both lists again and pays for a finished item with a
\* counted session behind it.
FindsDone(q) ==
    /\ trainee[q].at = "toggled"
    /\ IF items[trainee[q].item] = "complete" THEN Moves(q, "done") ELSE Rests(q)
    /\ UNCHANGED <<items, trained, ledger, date, crowded>>
TrainedAnything(i) == trained # <<>>
Trained(i) == \E s \in DOMAIN trained :
                 trained[s].item = i /\ trained[s].verdict = "counted"
PaysForItem(q) ==
    /\ trainee[q].at = "done"
    /\ ledger' = IF Trained(trainee[q].item)
                 THEN ledger \cup {<<"mission_done", trainee[q].item>>} ELSE ledger
    /\ Rests(q)
    /\ UNCHANGED <<items, trained, date, crowded>>

\* upload_training_session: the clip is saved, and the earlier sessions listed.
Files(q, i, c) ==
    /\ trainee[q].at = "idle" /\ Len(trained) < MaxSessions
    /\ trainee' = [trainee EXCEPT ![q] =
         [Resting EXCEPT !.at = "filed", !.item = i, !.clip = c, !.seen = Len(trained)]]
    /\ crowded' = (crowded \/ \E r \in Training \ {q} : Uploading(r))
    /\ UNCHANGED <<items, trained, ledger, date>>

\* Judged by those: a clip once seen is a duplicate, and only so many sessions
\* of today are paid.
Seen(q, c) == \E s \in 1..trainee[q].seen : trained[s].clip = c
Verdict(q) == IF Seen(q, trainee[q].clip) THEN "duplicate"
              ELSE IF trainee[q].clip \in Moving THEN "counted" ELSE "no_movement"
PaidToday(q) == Cardinality({s \in 1..trainee[q].seen :
                               trained[s].paid /\ trained[s].on = date})
UnderCapOrAt(q) == PaidToday(q) <= DailyCap
UnderCap(q) == PaidToday(q) < DailyCap
Judges(q) ==
    /\ trainee[q].at = "filed"
    /\ trainee' = [trainee EXCEPT ![q].at = "judged", ![q].seen = 0,
                     ![q].verdict = Verdict(q),
                     ![q].paid = Verdict(q) = "counted" /\ UnderCap(q)]
    /\ UNCHANGED <<items, trained, ledger, date, crowded>>

\* record_training_session, dated when it is written ...
Records(q) ==
    /\ trainee[q].at = "judged" /\ Len(trained) < MaxSessions
    /\ trained' = Append(trained,
         [item |-> trainee[q].item, clip |-> trainee[q].clip, on |-> date,
          verdict |-> trainee[q].verdict, paid |-> trainee[q].paid])
    /\ trainee' = [trainee EXCEPT ![q] =
         [Resting EXCEPT !.at = "recorded", !.seen = Len(trained'),
                         !.paid = trainee[q].paid]]
    /\ UNCHANGED <<items, ledger, date, crowded>>

\* ... and award_points, once for the session.
PaysForSession(q) ==
    /\ trainee[q].at = "recorded"
    /\ ledger' = IF trainee[q].paid THEN ledger \cup {<<"session", trainee[q].seen>>}
                 ELSE ledger
    /\ Rests(q)
    /\ UNCHANGED <<items, trained, date, crowded>>

\* A handler that comes to its end between two statements: the process ends.
Breaks(q) ==
    /\ trainee[q].at # "idle" /\ Rests(q)
    /\ UNCHANGED <<items, trained, ledger, date, crowded>>

Midnight ==
    /\ date < MaxDate /\ date' = date + 1
    /\ UNCHANGED <<items, trained, ledger, trainee, crowded>>

-----------------------------------------------------------------------------
CampNext ==
    \/ AddsItem
    \/ \E q \in Training, i \in DOMAIN items : ReadsStatus(q, i)
    \/ \E q \in Training : WritesStatus(q)
    \/ \E q \in Training : FindsDone(q)
    \/ \E q \in Training : PaysForItem(q)
    \/ \E q \in Training, i \in DOMAIN items, c \in Clips : Files(q, i, c)
    \/ \E q \in Training : Judges(q)
    \/ \E q \in Training : Records(q)
    \/ \E q \in Training : PaysForSession(q)
    \/ \E q \in Training : Breaks(q)
    \/ Midnight

CampSpec == CampInit /\ [][CampNext]_campVars

-----------------------------------------------------------------------------
CampTypeOK ==
    /\ \A i \in DOMAIN items : items[i] \in {"active", "complete"}
    /\ \A s \in DOMAIN trained : trained[s] \in
         [item : DOMAIN items, clip : Clips, on : 1..MaxDate, paid : BOOLEAN,
          verdict : {"counted", "duplicate", "no_movement"}]
    /\ ledger \subseteq {"session", "mission_done"} \X Nat
    /\ \A q \in Training : trainee[q].item \in {0} \cup DOMAIN items
    /\ date \in 1..MaxDate /\ crowded \in BOOLEAN

CountedOnce == \A s, t \in DOMAIN trained :
    /\ trained[s].verdict = "counted" /\ trained[t].verdict = "counted"
    /\ trained[s].clip = trained[t].clip
    => s = t
CapIsKept == \A d \in 1..date :
    Cardinality({s \in DOMAIN trained : trained[s].paid /\ trained[s].on = d})
      <= DailyCap

\* upload_training_session and update_coach_assignment ("ticking a box alone
\* earns nothing"): every entry of the ledger has a counted session behind it,
\* and unless two uploads overlapped, a clip counts once and a day, over
\* midnight too, pays no more than its cap.
PointsAreEarned ==
    /\ \A e \in ledger : e[1] = "session" => trained[e[2]].paid
    /\ \A e \in ledger : e[1] = "mission_done" => Trained(e[2])
    /\ ~crowded => CountedOnce /\ CapIsKept

=============================================================================
