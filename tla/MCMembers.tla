----------------------------- MODULE MCMembers -----------------------------
(***************************************************************************)
(* What a member is on the web host, each part on its own: the account and *)
(* its sessions, the plan and the allowance, a coach's roster, the training*)
(* clips and the athlete page.  One of them moves, the others stay where   *)
(* they begin.                                                             *)
(***************************************************************************)
EXTENDS Accounts, Billing, Roster, FightCamp, AthletePage, TLC

VARIABLE turn

Addresses == [i \in Identities |-> "e1"]

\* Names in ASCII, which both comparisons fold alike.
AsciiNames == {"ana", "ANA", "bo", "cy"}
AsciiFold == [n \in AsciiNames |-> IF n = "ANA" THEN "ana" ELSE n]

PlanLimits == [p \in Plans |-> IF p = "free" THEN 1 ELSE IF p = "athlete" THEN 2
                               ELSE NoLimit]

membersVars == <<turn, accountsVars, billingVars, rosterVars, campVars, pageVars>>

MembersInit ==
    /\ turn \in {"accounts", "billing", "roster", "camp", "page"}
    /\ AccountsInit /\ BillingInit /\ RosterInit /\ CampInit /\ PageInit
    /\ turn # "billing" => guardian = "not_applicable"
    /\ turn # "roster" => seats = Max(Limits)
    /\ turn # "page" => ~minor

MembersNext ==
    /\ UNCHANGED turn
    /\ \/ /\ turn = "accounts" /\ AccountsNext
          /\ UNCHANGED <<billingVars, rosterVars, campVars, pageVars>>
       \/ /\ turn = "billing" /\ BillingNext
          /\ UNCHANGED <<accountsVars, rosterVars, campVars, pageVars>>
       \/ /\ turn = "roster" /\ RosterNext
          /\ UNCHANGED <<accountsVars, billingVars, campVars, pageVars>>
       \/ /\ turn = "camp" /\ CampNext
          /\ UNCHANGED <<accountsVars, billingVars, rosterVars, pageVars>>
       \/ /\ turn = "page" /\ PageNext
          /\ UNCHANGED <<accountsVars, billingVars, rosterVars, campVars>>

MembersSpec == MembersInit /\ [][MembersNext]_membersVars

Perms == Permutations(Browsers) \cup Permutations(Analyses)
           \cup Permutations(Subs)
=============================================================================
