---------------------------- MODULE FightFootage ----------------------------
(***************************************************************************)
(* Which strikes are shown while the fight is analysed, and which are in   *)
(* its report (core/fight_presence.py, FightPresence, as core/analyzer.py  *)
(* uses it).  The footage is cut into windows; a window is left out when   *)
(* its frames are evidence that nobody fights in it.                       *)
(*                                                                         *)
(* What the frames of a window say is a free choice, frame by frame, and a *)
(* strike is the window of its peak: nothing here tells two of one window  *)
(* apart.                                                                  *)
(***************************************************************************)
EXTENDS Integers

CONSTANTS Length,  \* windows of the analysed span
          Bridged  \* MAX_BRIDGED_WINDOWS

ASSUME FootageAssumption == Length \in Nat \ {0} /\ Bridged \in Nat

Windows == 1..Length

VARIABLES
    reached,  \* the window of the frame analysed last, or 0
    fights,   \* the verdict of each window: kept, on its own
    peaks,    \* the windows with a strike (events)
    onPage,   \* the windows with a strike on the progress page
    everSeen, \* ... and those that ever had one there
    report    \* the windows with a strike in the report, or Pending

footageVars == <<reached, fights, peaks, onPage, everSeen, report>>

Pending == {0}

FootageInit ==
    /\ reached = 0 /\ fights = [w \in Windows |-> TRUE] /\ peaks = {}
    /\ onPage = {} /\ everSeen = {} /\ report = Pending

------------------------------------------------------------------------------

\* _verdicts: a short pause between windows of the fight belongs to it.
Around(w, before, after) ==
    before < w /\ w < after /\ after - before - 1 <= Bridged
IsPause(w) ==
    \E before, after \in Windows :
       Around(w, before, after) /\ fights[before] /\ fights[after]

\* segments, is_fight.
IsFight(w) == fights[w] \/ IsPause(w)

\* Slip: also of the window that is being analysed.
DecidedAndNow(w) == w <= reached

\* decided_until.
Decided(w) == w < reached

\* A frame of this window or a later one: what is now thought of its window, and
\* a strike that has just ended and was thrown at the opponent.
AnalysesFrame(w) ==
    /\ report = Pending /\ reached <= w
    /\ reached' = w
    /\ \E fight \in BOOLEAN : fights' = [fights EXCEPT ![w] = fight]
    /\ \/ UNCHANGED peaks
       \/ \E p \in 1..w : peaks' = peaks \cup {p}
    /\ UNCHANGED <<onPage, everSeen, report>>

\* The progress page gets the strikes of the windows that are complete.
EmitsProgress ==
    /\ report = Pending /\ reached > 0
    /\ onPage' = {p \in peaks : Decided(p) /\ IsFight(p)}
    /\ everSeen' = everSeen \cup onPage'
    /\ UNCHANGED <<reached, fights, peaks, report>>

\* The end of the frame pass leaves out what was no fight.
Reports ==
    /\ report = Pending
    /\ report' = {p \in peaks : IsFight(p)}
    /\ UNCHANGED <<reached, fights, peaks, onPage, everSeen>>

FootageNext == \/ \E w \in Windows : AnalysesFrame(w)
               \/ EmitsProgress \/ Reports

FootageSpec == FootageInit /\ [][FootageNext]_footageVars

FootageTypeOK ==
    /\ reached \in 0..Length /\ fights \in [Windows -> BOOLEAN] /\ peaks \subseteq Windows
    /\ onPage \subseteq everSeen /\ everSeen \subseteq peaks
    /\ report = Pending \/ report \subseteq peaks

\* analyzer.py:1842, "a strike shown live and then dropped from the report would
\* be the live page contradicting the report": that happens only to a strike in a
\* pause, next to a window that did not look like a pause too until it was over.
ShownLiveIsReported ==
    report # Pending =>
      \A p \in everSeen \ report :
         /\ ~fights[p]
         /\ \E before \in Windows, after \in 1..reached :
              Around(p, before, after) /\ fights[before] /\ ~fights[after]
=============================================================================
