------------------------------ MODULE Strikes ------------------------------
(***************************************************************************)
(* When a fighter's movement becomes a strike (core/action.py,             *)
(* ActionEngine, as the frame pass of core/analyzer.py drives it).  Every  *)
(* limb has at most one action under way, which is started, followed to    *)
(* its peak and ended by the limb coming back; whatever interrupts the view*)
(* of the fighter ends them all.  A and B have a state each and the same   *)
(* code: this is one of them.                                              *)
(*                                                                         *)
(* How far and how fast a limb moved, whether a leg was visible, whether   *)
(* the hand or the foot travelled further and what a trained model says    *)
(* are free choices; time is counted in the finest step of the sampler.    *)
(***************************************************************************)
EXTENDS Integers, Sequences, SequencesExt

CONSTANTS Limbs, FamilyOf,  \* LIMBS: a limb, and what its action is taken for
          Rounds,           \* the selected rounds
          Least, Longest,   \* frames of an action: at least, and max(6, action_window)
          Rest,             \* min_event_gap_seconds
          Apart,            \* one physical action, 0.30 s
          MaxGap,           \* max_observation_gap_seconds
          MaxTime, Never

Families == {"punch", "kick", "knee"}

ASSUME StrikesAssumption ==
    /\ FamilyOf \in [Limbs -> Families]
    /\ Least \in Nat /\ Longest \in Nat /\ 1 < Least /\ Least <= Longest
    /\ Rest \in Nat /\ Apart \in Nat /\ MaxGap \in Nat \ {0} /\ MaxTime \in Nat
    /\ Never \notin 0..MaxTime \cup [time : 0..MaxTime, round : Rounds]

VARIABLES
    clock,   \* the time of the frame analysed last
    sample,  \* samples[-1]: its time and round, or Never
    action,  \* active: start, peak and frames of each limb's action, or Never
    rested,  \* last_event_time of each limb
    peaked,  \* last_family_event_time
    struck,  \* the events, each with the moment since which the fighter had
             \* been in view without a break when it was found
    view     \* for the property: the round in which the fighter was seen on the
             \* last frame, or Never, and since when

strikesVars == <<clock, sample, action, rested, peaked, struck, view>>

StrikesInit ==
    /\ clock = 0 /\ sample = Never /\ action = [l \in Limbs |-> Never]
    /\ rested = [l \in Limbs |-> Never] /\ peaked = [f \in Families |-> Never]
    /\ struck = {} /\ view = [round |-> Never, since |-> 0]

------------------------------------------------------------------------------

Since(time, then) == IF then = Never THEN MaxTime + 1 ELSE time - then

\* Slip: an action is joined across a gap.
JoinsAcrossGaps(s, time, round) == round # s.round \/ time <= s.time

\* update: what came after a change of round, a time that did not move on or a
\* gap is not joined to what came before.
Breaks(s, time, round) ==
    round # s.round \/ time <= s.time \/ time - s.time > MaxGap

\* Which of the two limbs moved decides, in the end, what it was ...
TakenFor(family) == IF family = "punch" THEN {"punch", "kick"} ELSE {family, "punch"}

\* ... and the limb's action goes on with the next sample: it starts, ...
Starts(l, from, time) ==
    IF action[l] = Never /\ Since(time, rested[l]) >= Rest
    THEN {[start |-> from.time, peak |-> time, frames |-> 1]} ELSE {}

\* ... reaches further, or not, ...
Followed(a, time) ==
    {[a EXCEPT !.frames = @ + 1, !.peak = p] : p \in {a.peak, time}}
TimedOut(a) == a.frames >= Longest

\* ... and is over when the limb has come back, or for its length.
Finishes(a, time) == TimedOut(a) \/ (a.frames >= Least /\ a.peak # time)

\* What a limb may be doing after the sample: its action, and the event that
\* came of it.  An action without the speed or reach of a strike, of a leg that
\* was not seen, or which the model calls none, is dropped.
Doings(l, from, time) ==
    IF action[l] = Never
    THEN [now : {Never} \cup Starts(l, from, time), event : {Never}]
    ELSE UNION {
           {[now |-> a, event |-> Never] : x \in IF TimedOut(a) THEN {} ELSE {a}}
           \cup IF Finishes(a, time) /\ a.frames >= Least
                THEN [now : {Never},
                      event : {Never} \cup
                              {[limb |-> l, family |-> f, start |-> a.start, peak |-> a.peak]
                                 : f \in TakenFor(FamilyOf[l])}]
                ELSE {}
           : a \in Followed(action[l], time)}

\* Of the events of one sample the most confident comes first, and a technique
\* that moved several limbs is counted once: an event counts if it is Apart after
\* the one of its family that counted before it.
Counts(order, counted, i) ==
    LET e == order[i]
    IN  /\ Since(e.peak, peaked[e.family]) >= Apart
        /\ \A k \in counted : k < i /\ order[k].family = e.family
                            => Since(e.peak, order[k].peak) >= Apart
Accepted(order, counted) ==
    \A i \in DOMAIN order : i \in counted <=> Counts(order, counted, i)

\* last_family_event_time: that of the last one that counted.
Latest(f, events) ==
    LET peaks == {e.peak : e \in {g \in events : g.family = f}}
    IN  IF peaks = {} THEN peaked[f] ELSE Max(peaks)

\* For the property: the fighter has been in view since.
Steady(time, round) ==
    IF view.round = round /\ time - clock \in 1..MaxGap THEN view.since ELSE time

\* interrupt.
Interrupted == [l \in Limbs |-> Never]

\* The fighter is not found on a frame, or no selected round is on.
LosesSight(time) ==
    /\ sample' = Never /\ action' = Interrupted
    /\ clock' = time /\ view' = [round |-> Never, since |-> time]
    /\ UNCHANGED <<rested, peaked, struck>>

\* The first sample after an interruption ends and starts nothing.
SeesAfresh(time, round) ==
    /\ sample # Never => Breaks(sample, time, round)
    /\ action' = IF sample = Never THEN action ELSE Interrupted
    /\ sample' = [time |-> time, round |-> round]
    /\ clock' = time /\ view' = [round |-> round, since |-> Steady(time, round)]
    /\ UNCHANGED <<rested, peaked, struck>>

\* update.
Sees(time, round) ==
    /\ sample # Never /\ ~Breaks(sample, time, round)
    /\ sample' = [time |-> time, round |-> round]
    /\ clock' = time /\ view' = [round |-> round, since |-> Steady(time, round)]
    /\ \E doing \in [Limbs -> UNION {Doings(l, sample, time) : l \in Limbs}] :
         /\ \A l \in Limbs : doing[l] \in Doings(l, sample, time)
         /\ action' = [l \in Limbs |-> doing[l].now]
         /\ rested' = [l \in Limbs |-> IF doing[l].event = Never THEN rested[l] ELSE time]
         /\ \E order \in SetToSeqs({doing[l].event : l \in Limbs} \ {Never}) :
              \E counted \in SUBSET (DOMAIN order) :
                LET events == {order[i] : i \in counted}
                IN  /\ Accepted(order, counted)
                    /\ peaked' = [f \in Families |-> Latest(f, events)]
                    /\ struck' = struck \cup
                         {[limb |-> e.limb, family |-> e.family, start |-> e.start,
                           peak |-> e.peak, since |-> view'.since] : e \in events}

StrikesNext ==
    \E time \in clock..(clock + MaxGap + 1) \cap 0..MaxTime :
       \/ LosesSight(time)
       \/ \E round \in Rounds : SeesAfresh(time, round) \/ Sees(time, round)

StrikesSpec == StrikesInit /\ [][StrikesNext]_strikesVars

StrikesTypeOK ==
    LET Time == 0..MaxTime
    IN  /\ clock \in Time
        /\ sample \in {Never} \cup [time : Time, round : Rounds]
        /\ action \in [Limbs -> {Never} \cup [start : Time, peak : Time, frames : 1..Longest]]
        /\ rested \in [Limbs -> {Never} \cup Time]
        /\ peaked \in [Families -> {Never} \cup Time]
        /\ struck \subseteq [limb : Limbs, family : Families, start : Time, peak : Time,
                           since : Time]
        /\ view \in [round : {Never} \cup Rounds, since : Time]

\* "Multi-frame strike candidate detector": every strike that is counted was
\* seen from its start to its end, in one round and without a gap, and no other
\* limb's part in it, nor its own tail, is counted as a strike of that kind again.
StrikesAreSeenOnce ==
    \A e \in struck :
       /\ e.since <= e.start /\ e.start < e.peak
       /\ \A f \in struck \ {e} :
            e.family = f.family => e.peak - f.peak \notin (1 - Apart)..(Apart - 1)
=============================================================================
