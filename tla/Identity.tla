------------------------------ MODULE Identity ------------------------------
(***************************************************************************)
(* Who is fighter A and who is fighter B, frame by frame                   *)
(* (core/identity.py, IdentityManager, with the recoveries of the frame    *)
(* pass in core/analyzer.py).  Every analysed frame shows some of the      *)
(* people the tracker follows, and perhaps a stand-in: a crop searched     *)
(* where one fighter was expected.                                         *)
(*                                                                         *)
(* What the pictures say is a free choice: which assignment scores best,   *)
(* whom a gate of _score refuses for how they look or where they are, whom *)
(* the propagated mask overlaps, who stands still and who moved again.     *)
(***************************************************************************)
EXTENDS Integers

CONSTANTS People,    \* tracks of the tracker
          StandIns,  \* fighters a crop may be searched for
          Untracked, \* no track, nobody
          Patience,  \* missing_before_recovery
          CrossedFor \* swap_correction_frames

Corners == {"A", "B"}
Opponent(f) == IF f = "A" THEN "B" ELSE "A"
StandIn(f) == [standIn |-> f]
Candidates == People \cup {StandIn(f) : f \in StandIns}

ASSUME IdentityAssumption ==
    /\ StandIns \subseteq Corners /\ Untracked \notin Candidates
    /\ Patience \in Nat \ {0} /\ CrossedFor \in Nat \ {0}

VARIABLES
    fighter,   \* what is followed of each: the FighterState, and per fighter
               \* held (on this frame), last (_last_real_track), and, for the
               \* properties, how the track was taken
    crossed,   \* _cross_match_frames
    furniture, \* tracks let go of for standing still
    inFrame,     \* who is in the frame
    step       \* what the frame pass does next

identityVars == <<fighter, crossed, furniture, inFrame, step>>

IdentityInit ==
    /\ \E pick \in {t \in [Corners -> People] : t["A"] # t["B"]} :
         fighter = [f \in Corners |->
                      [track |-> pick[f], held |-> pick[f], last |-> Untracked,
                       placed |-> TRUE, missing |-> 0, entry |-> "own"]]
    /\ crossed = 0 /\ furniture = {} /\ inFrame = People /\ step = "frame"

------------------------------------------------------------------------------

\* Slip: the gates of a new track are not applied.
RefusedStandIn(w, f, p, still) == p = StandIn(Opponent(f))

\* _score: the stand-in of the other fighter, and furniture that has not moved,
\* are refused for certain, and everybody else perhaps.
Refused(w, f, p, still) == p = StandIn(Opponent(f)) \/ (p \in still /\ p # w[f].track)

\* candidate_score: who is refused may be let in where the mask overlaps them.
Ways(w, f, p, still) == IF Refused(w, f, p, still) THEN {"mask"} ELSE {"own", "mask"}

\* _commit: a stand-in does not replace a real track.
Follow(w, f, p, how) ==
    LET moves == p \in People \/ w[f].track = Untracked
    IN  IF p = Untracked THEN w
        ELSE [w EXCEPT ![f] =
               [track |-> IF moves THEN p ELSE @.track, held |-> p,
                last |-> IF p \in People THEN p ELSE @.last,
                placed |-> TRUE, missing |-> 0,
                entry |-> IF moves /\ p # @.track THEN how ELSE @.entry]]

Lose(w, f) ==
    [w EXCEPT ![f].held = Untracked,
              ![f].missing = IF @ < Patience THEN @ + 1 ELSE @]

\* _release_if_furniture: not where the two were just seen together.
Chairs(w, f, still, together) ==
    IF together /\ w[Opponent(f)].track # Untracked THEN {} ELSE {w[f].track} \cap still
Release(w, f, chairs) ==
    IF chairs = {} THEN w
    ELSE [Lose(w, f) EXCEPT ![f].track = Untracked, ![f].placed = FALSE,
                            ![f].entry = "own"]

\* Slip: the last real tracks stay where they are.
ExchangedButLast(w) == [f \in Corners |-> [w[Opponent(f)] EXCEPT !.last = w[f].last]]

\* What _correct_swap exchanges: the _FOLLOWED_FIELDS, the last real tracks and
\* what the caller was given.
Exchanged(w) == [f \in Corners |-> w[Opponent(f)]]

\* update on a frame without people.
SeesNobody ==
    /\ step = "frame"
    /\ fighter' = Lose(Lose(fighter, "A"), "B")
    /\ inFrame' = {} /\ step' = "recoverA"
    /\ UNCHANGED <<crossed, furniture>>

\* update: whoever moved again is forgiven, and A and B are assigned together,
\* or neither when the exchange is as plausible; ...
AssignsBoth ==
    /\ step = "frame" /\ step' = "release"
    /\ inFrame' \in SUBSET Candidates \ {{}}
    /\ \E moved \in SUBSET (furniture \cap inFrame'), a, b \in inFrame' \cup {Untracked} :
         LET lost == Lose(Lose(fighter, "A"), "B")
         IN  /\ a = b => a = Untracked
             /\ furniture' = furniture \ moved
             /\ \E how \in Ways(fighter, "A", a, furniture'),
                  other \in Ways(fighter, "B", b, furniture') :
                  fighter' = Follow(Follow(lost, "A", a, how), "B", b, other)
    /\ UNCHANGED crossed

\* ... who turns out to be a chair is let go of, A before B; ...
LetsGo ==
    /\ step = "release" /\ step' = "correct"
    /\ \E still \in SUBSET {fighter[f].track : f \in Corners}, together \in BOOLEAN :
         LET a == Chairs(fighter, "A", still \ {Untracked}, together)
             without == Release(fighter, "A", a)
             b == Chairs(without, "B", still \ {Untracked}, together)
         IN  /\ fighter' = Release(without, "B", b)
             /\ furniture' = furniture \cup a \cup b
    /\ UNCHANGED <<crossed, inFrame>>

\* ... and where each looks like the other's selection for CrossedFor frames on
\* which both are held, they are put the right way round.
CorrectsSwap ==
    /\ step = "correct" /\ step' = "recoverA"
    /\ \/ UNCHANGED <<fighter, crossed>>
       \/ /\ \A f \in Corners : fighter[f].held # Untracked
          /\ \/ crossed' = 0 /\ UNCHANGED fighter
             \/ /\ crossed + 1 < CrossedFor
                /\ crossed' = crossed + 1 /\ UNCHANGED fighter
             \/ /\ crossed + 1 = CrossedFor
                /\ crossed' = 0 /\ fighter' = Exchanged(fighter)
    /\ UNCHANGED <<furniture, inFrame>>

\* merged_into_other, needs_recovery.
MayRecover(f) ==
    /\ fighter[f].placed
    /\ \/ fighter[f].missing >= Patience
       \/ fighter[f].missing > 0 /\ fighter[Opponent(f)].held # Untracked

\* apply_external_recovery: the mask fits somebody in the frame, who is taken
\* whoever they are.
RecoversFighter(f) ==
    /\ step = (IF f = "A" THEN "recoverA" ELSE "recoverB")
    /\ step' = (IF f = "A" THEN "recoverB" ELSE "judge")
    /\ \/ UNCHANGED fighter
       \/ MayRecover(f) /\ \E p \in inFrame : fighter' = Follow(fighter, f, p, "recovery")
    /\ UNCHANGED <<crossed, furniture, inFrame>>

\* apply_ai_assignment: two people no gate refuses.  Who moved again is forgiven
\* also when one of them is refused.
Judges ==
    /\ step = "judge" /\ step' = "frame"
    /\ \E moved \in SUBSET (furniture \cap inFrame) :
         /\ furniture' = furniture \ moved
         /\ \/ UNCHANGED fighter
            \/ \E a, b \in inFrame :
                 /\ a # b
                 /\ ~Refused(fighter, "A", a, furniture')
                 /\ ~Refused(fighter, "B", b, furniture')
                 /\ fighter' = Follow(Follow(fighter, "A", a, "own"), "B", b, "own")
    /\ UNCHANGED <<crossed, inFrame>>

IdentityNext ==
    \/ SeesNobody \/ AssignsBoth \/ LetsGo \/ CorrectsSwap
    \/ \E f \in Corners : RecoversFighter(f)
    \/ Judges

IdentitySpec == IdentityInit /\ [][IdentityNext]_identityVars

IdentityTypeOK ==
    /\ fighter \in [Corners ->
         [track : Candidates \cup {Untracked}, held : Candidates \cup {Untracked},
          last : People \cup {Untracked}, placed : BOOLEAN, missing : 0..Patience,
          entry : {"own", "mask", "recovery"}]]
    /\ crossed \in 0..(CrossedFor - 1)
    /\ furniture \subseteq Candidates /\ inFrame \subseteq Candidates

\* _commit, _correct_swap, _release_if_furniture: a fighter held on a track is
\* followed on it, where it was last seen is known, and the track that hand-offs
\* are counted against is theirs, also when A and B have just been put the right
\* way round.
TracksAreFollowed ==
    \A f \in Corners :
       LET x == fighter[f]
       IN  /\ x.held \in People => x.track = x.held /\ x.last \in {x.held, Untracked}
           /\ x.track # Untracked => x.placed
           /\ x.held # Untracked <=> x.missing = 0
           /\ x.held # Untracked => x.track # Untracked

\* _furniture: the chair a fighter was let go of is not taken up again before it
\* moves, unless a mask said that it is the fighter.
ChairsStayEmpty ==
    \A f \in Corners :
       fighter[f].held \in furniture \cap People => fighter[f].entry # "own"
=============================================================================
