------------------------------ MODULE MCFights ------------------------------
(***************************************************************************)
(* What belongs to a fight, each part on its own: who is who in its frames,*)
(* the strikes found in them and those that are shown, the links that show *)
(* it and what is kept of it for training.  One of them moves, the others  *)
(* stay where they begin.                                                  *)
(***************************************************************************)
EXTENDS Identity, Strikes, FightFootage, FightLinks, TrainingCopies, TLC

VARIABLE turn

\* What each limb's action is taken for.
LimbFamilies == [l \in {"hand", "leg"} |-> IF l = "hand" THEN "punch" ELSE "kick"]

fightsVars == <<turn, identityVars, strikesVars, footageVars, linksVars, copiesVars>>

FightsInit ==
    /\ turn \in {"identity", "strikes", "footage", "links", "copies"}
    /\ IdentityInit /\ StrikesInit /\ FootageInit /\ LinksInit /\ CopiesInit
    /\ turn # "copies" => ~ticked /\ ~sharing

FightsNext ==
    /\ UNCHANGED turn
    /\ \/ /\ turn = "identity" /\ IdentityNext
          /\ UNCHANGED <<strikesVars, footageVars, linksVars, copiesVars>>
       \/ /\ turn = "strikes" /\ StrikesNext
          /\ UNCHANGED <<identityVars, footageVars, linksVars, copiesVars>>
       \/ /\ turn = "footage" /\ FootageNext
          /\ UNCHANGED <<identityVars, strikesVars, linksVars, copiesVars>>
       \/ /\ turn = "links" /\ LinksNext
          /\ UNCHANGED <<identityVars, strikesVars, footageVars, copiesVars>>
       \/ /\ turn = "copies" /\ CopiesNext
          /\ UNCHANGED <<identityVars, strikesVars, footageVars, linksVars>>

FightsSpec == FightsInit /\ [][FightsNext]_fightsVars

Perms == Permutations(Corrections) \cup Permutations(People)
=============================================================================
