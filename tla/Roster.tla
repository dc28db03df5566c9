------------------------------- MODULE Roster -------------------------------
(***************************************************************************)
(* A coach's roster (app/main.py, core/db.py, core/payments.py): fighters  *)
(* are added by name, from the squad page or while a fight is set up, and  *)
(* a name already on the roster is the same person.  The route and the     *)
(* database each decide on their own which names are the same: Python's    *)
(* lower() folds every alphabet, SQLite's NOCASE only A to Z.              *)
(***************************************************************************)
EXTENDS Integers, FiniteSets, FiniteSetsExt

CONSTANTS
    Adding,   \* requests that may be under way
    Names,    \* what a coach types
    Lower,    \* Lower[n]: the name as the route compares it
    NoCase,   \* NoCase[n]: the name as the database compares it
    Limits    \* seats of the plans the coach may be on

ASSUME RosterAssumption ==
    Limits \in SUBSET Nat /\ IsFiniteSet(Limits) /\ Limits # {}

VARIABLES
    fighters,  \* names of the profile's rows
    seats,     \* seats of the plan it is on
    adding,    \* request -> the name it adds and how far it is
    mostSeats, \* history: seats of the largest plan so far
    raced      \* history: two additions were under way at once

rosterVars == <<fighters, seats, adding, mostSeats, raced>>

NoAddition == [at |-> "idle", name |-> CHOOSE n \in Names : TRUE]

RosterInit ==
    /\ fighters = {} /\ seats \in Limits /\ mostSeats = seats
    /\ adding = [q \in Adding |-> NoAddition] /\ raced = FALSE

Turns(q, at) == adding' = [adding EXCEPT ![q].at = at]
EndsAddition(q) == adding' = [adding EXCEPT ![q] = NoAddition]

\* The route's own check: a name it knows takes no seat, any other needs one.
\* Nothing ever frees a seat: no route archives a fighter.
OnRoster(n) == \E f \in fighters : Lower[f] = Lower[n]
CanAddOneMore == Cardinality(fighters) <= seats
CanAdd == Cardinality(fighters) < seats
Admits(q, n) ==
    /\ adding[q].at = "idle" /\ (OnRoster(n) \/ CanAdd)
    /\ adding' = [adding EXCEPT ![q] = [at |-> "admitted", name |-> n]]
    /\ raced' = (raced \/ \E r \in Adding \ {q} : adding[r].at # "idle")
    /\ UNCHANGED <<fighters, seats, mostSeats>>

\* create_fighter, first statement: is there a row of that name?
FindsPerson(q) ==
    /\ adding[q].at = "admitted"
    /\ IF \E f \in fighters : NoCase[f] = NoCase[adding[q].name]
       THEN EndsAddition(q) ELSE Turns(q, "new")
    /\ UNCHANGED <<fighters, seats, mostSeats, raced>>

\* ... and the insert, which UNIQUE(profile_id, name) refuses a second time.
InsertsPerson(q) ==
    /\ adding[q].at = "new"
    /\ fighters' = fighters \cup {adding[q].name}
    /\ EndsAddition(q)
    /\ UNCHANGED <<seats, mostSeats, raced>>

ChangesPlan ==
    /\ seats' \in Limits \ {seats} /\ mostSeats' = Max({mostSeats, seats'})
    /\ UNCHANGED <<fighters, adding, raced>>

-----------------------------------------------------------------------------
RosterNext ==
    \/ \E q \in Adding, n \in Names : Admits(q, n)
    \/ \E q \in Adding : FindsPerson(q)
    \/ \E q \in Adding : InsertsPerson(q)
    \/ ChangesPlan

RosterSpec == RosterInit /\ [][RosterNext]_rosterVars

-----------------------------------------------------------------------------
RosterTypeOK ==
    /\ fighters \subseteq Names /\ seats \in Limits /\ mostSeats \in Limits
    /\ adding \in [Adding -> [at : {"idle", "admitted", "new"}, name : Names]]
    /\ raced \in BOOLEAN

\* roster_capacity ("The seat count is what a coach's plan actually sells, so
\* it has to be enforced rather than described"): a coach who adds one fighter
\* after another never holds more of them than the largest plan had seats.
SeatsAreKept == ~raced => Cardinality(fighters) <= mostSeats

=============================================================================
