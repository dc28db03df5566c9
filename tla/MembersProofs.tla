---------------------------- MODULE MembersProofs ----------------------------
(***************************************************************************)
(* What the web host promises its members, for any number of visitors,     *)
(* names, requests, accounts, subscriptions, analyses, days and points: who*)
(* follows an athlete, how many fighters a coach holds, which plan is in   *)
(* force and how many analyses it gives away, what earns points, and what  *)
(* is left of an old password or a deleted account.  Each part has an      *)
(* inductive invariant, shown to hold at the start and to be kept by every *)
(* action.                                                                 *)
(***************************************************************************)
EXTENDS Accounts, AthletePage, Billing, FightCamp, Roster, FiniteSetTheorems, SequenceTheorems, TLAPS

-----------------------------------------------------------------------------
(* The athlete's page.                                                     *)

\* Until the owner acts in the middle of a request, what the request read of
\* the page still holds.
ReadHolds ==
    \A v \in Visitors : visitor[v].at = "read" =>
       /\ visitor[v].accepted <=> visibility = "public"
       /\ visitor[v].accepted => v \in welcome

PageInv == PageTypeOK /\ FollowersWereLetIn /\ (~crossed => ReadHolds)

\* The page is saved: everyone who waits at a page that goes public is let in.
LEMMA SavingKeepsPage ==
    ASSUME PageInv, NEW w \in {"private", "public"}, NEW named \in BOOLEAN,
           SavesPage(w, named)
    PROVE  PageInv'
<1> DEFINE let == IF visibility' = "public" THEN Pending ELSE {}
<1>1. /\ handle' \in BOOLEAN /\ visibility' \in {"private", "public"}
      /\ follows' = [v \in Visitors |-> IF v \in let THEN "accepted" ELSE follows[v]]
      /\ welcome' = welcome \cup let
      /\ let \subseteq Visitors
  BY DEF SavesPage, AcceptsWaiting, Wanted, Pending
<1>2. PageTypeOK'
  BY <1>1 DEF PageInv, PageTypeOK, SavesPage
<1>3. FollowersWereLetIn'
  BY <1>1, <1>2 DEF PageInv, PageTypeOK, FollowersWereLetIn, SavesPage, Pending
<1>4. ~crossed' => ReadHolds'
  BY <1>1 DEF PageInv, ReadHolds, SavesPage
<1> QED
  BY <1>2, <1>3, <1>4 DEF PageInv

\* A visitor's own steps, and what the owner answers.
LEMMA VisitorsKeepPage ==
    ASSUME PageInv, NEW v \in Visitors,
           \/ ReadsPage(v) \/ AsksToFollow(v) \/ Unfollows(v)
           \/ Approves(v) \/ Removes(v)
    PROVE  PageInv'
<1>1. CASE ReadsPage(v)
  BY <1>1 DEF PageInv, PageTypeOK, FollowersWereLetIn, ReadHolds, Pending,
              ReadsPage, CanFollow
<1>2. CASE AsksToFollow(v)
  <2>1. PageTypeOK'
    BY <1>2 DEF PageInv, PageTypeOK, AsksToFollow, Away
  <2>2. ~crossed' => ReadHolds'
    BY <1>2 DEF PageInv, PageTypeOK, ReadHolds, AsksToFollow, Away
  <2>3. FollowersWereLetIn'
    BY <1>2, <2>1 DEF PageInv, PageTypeOK, FollowersWereLetIn, ReadHolds, Pending,
                      AsksToFollow
  <2> QED
    BY <2>1, <2>2, <2>3 DEF PageInv
<1>3. CASE Unfollows(v) \/ Approves(v) \/ Removes(v)
  <2>1. PageTypeOK'
    BY <1>3 DEF PageInv, PageTypeOK, Unfollows, Approves, Removes, TakesOut, Pending
  <2>2. ~crossed' => ReadHolds'
    BY <1>3 DEF PageInv, PageTypeOK, ReadHolds, Unfollows, Approves, Removes, TakesOut
  <2>3. FollowersWereLetIn'
    BY <1>3, <2>1 DEF PageInv, PageTypeOK, FollowersWereLetIn, Pending,
                      Unfollows, Approves, Removes, TakesOut
  <2> QED
    BY <2>1, <2>2, <2>3 DEF PageInv
<1> QED
  BY <1>1, <1>2, <1>3

\* set_public_profile and follow_athlete let nobody in by themselves: whoever
\* follows was let in by the owner or by a page that was public, for any number
\* of visitors.
THEOREM FollowersAreLetIn == PageSpec => []FollowersWereLetIn
<1>1. PageInit => PageInv
  <2> SUFFICES ASSUME PageInit PROVE PageInv
    OBVIOUS
  <2>1. Away \in [at : {"idle", "read"}, accepted : BOOLEAN] /\ Away.at = "idle"
    BY DEF Away
  <2>2. PageTypeOK
    BY <2>1 DEF PageInit, PageTypeOK
  <2>3. FollowersWereLetIn /\ ReadHolds
    BY <2>1 DEF PageInit, FollowersWereLetIn, ReadHolds, Pending
  <2> QED
    BY <2>2, <2>3 DEF PageInv
<1>2. PageInv /\ [PageNext]_pageVars => PageInv'
  <2> SUFFICES ASSUME PageInv, [PageNext]_pageVars PROVE PageInv'
    OBVIOUS
  <2>1. CASE UNCHANGED pageVars
    BY <2>1 DEF pageVars, PageInv, PageTypeOK, FollowersWereLetIn, ReadHolds, Pending
  <2>2. CASE PageNext
    BY <2>2, SavingKeepsPage, VisitorsKeepPage DEF PageNext
  <2> QED
    BY <2>1, <2>2
<1>3. PageInv => FollowersWereLetIn
  BY DEF PageInv
<1> QED
  BY <1>1, <1>2, <1>3, PTL DEF PageSpec

-----------------------------------------------------------------------------
(* The roster.                                                             *)

\* One addition at a time, with a seat for a name the database does not know.
SeatIsThere ==
    /\ \A q, r \in Adding : adding[q].at # "idle" /\ adding[r].at # "idle" => q = r
    /\ \A q \in Adding :
         /\ adding[q].at = "admitted" =>
              OnRoster(adding[q].name) \/ Cardinality(fighters) < mostSeats
         /\ adding[q].at = "new" => Cardinality(fighters) < mostSeats

RosterInv ==
    /\ RosterTypeOK /\ IsFiniteSet(fighters) /\ seats <= mostSeats
    /\ SeatsAreKept /\ (~raced => SeatIsThere)

\* Seats are numbers, and the larger of two is one of them.
LEMMA LargerOfTwo ==
    ASSUME NEW m \in Nat, NEW n \in Nat
    PROVE  /\ Max({m, n}) \in {m, n}
           /\ Max({m, n}) >= m /\ Max({m, n}) >= n
<1>1. \E x \in {m, n} : \A y \in {m, n} : x >= y
  <2>1. CASE m >= n
    BY <2>1
  <2>2. CASE n >= m
    BY <2>2
  <2> QED
    BY <2>1, <2>2
<1> QED
  BY <1>1 DEF Max

\* The route lets a name in.
LEMMA AdmittingKeepsRoster ==
    ASSUME RosterInv, NEW q \in Adding, NEW n \in Names, Admits(q, n)
    PROVE  RosterInv'
<1>1. RosterTypeOK'
  BY DEF RosterInv, RosterTypeOK, Admits
<1>2. ASSUME ~raced' PROVE SeatIsThere'
  <2>1. Cardinality(fighters) \in Nat /\ seats \in Nat /\ mostSeats \in Nat
    BY FS_CardinalityType, RosterAssumption DEF RosterInv, RosterTypeOK
  <2>2. ~raced /\ \A r \in Adding \ {q} : adding[r].at = "idle"
    BY <1>2 DEF Admits, RosterInv, RosterTypeOK
  <2>3. OnRoster(n) \/ Cardinality(fighters) < mostSeats
    BY <2>1 DEF Admits, CanAdd, RosterInv
  <2> QED
    BY <2>2, <2>3 DEF Admits, SeatIsThere, RosterInv, RosterTypeOK, OnRoster
<1> QED
  BY <1>1, <1>2 DEF RosterInv, SeatsAreKept, Admits

\* The database looks for the row, and inserts it.
LEMMA InsertingKeepsRoster ==
    ASSUME \A m, n \in Names : Lower[m] = Lower[n] <=> NoCase[m] = NoCase[n],
           RosterInv, NEW q \in Adding, FindsPerson(q) \/ InsertsPerson(q)
    PROVE  RosterInv'
<1>0. /\ adding[q].name \in Names /\ NoAddition.at = "idle"
      /\ Cardinality(fighters) \in Nat /\ mostSeats \in Nat
  BY FS_CardinalityType, RosterAssumption DEF RosterInv, RosterTypeOK, NoAddition
<1>1. CASE FindsPerson(q)
  <2>1. RosterTypeOK'
    BY <1>1, <1>0 DEF RosterInv, RosterTypeOK, FindsPerson, EndsAddition, Turns, NoAddition
  <2>2. ASSUME ~raced' PROVE SeatIsThere'
    <3>1. OnRoster(adding[q].name) =>
            \E f \in fighters : NoCase[f] = NoCase[adding[q].name]
      BY <1>0 DEF OnRoster, RosterInv, RosterTypeOK
    <3> QED
      BY <1>1, <1>0, <2>2, <3>1 DEF RosterInv, RosterTypeOK, SeatIsThere, FindsPerson,
                                EndsAddition, Turns, OnRoster
  <2> QED
    BY <1>1, <2>1, <2>2 DEF RosterInv, SeatsAreKept, FindsPerson
<1>2. CASE InsertsPerson(q)
  <2>1. RosterTypeOK'
    BY <1>2, <1>0 DEF RosterInv, RosterTypeOK, InsertsPerson, EndsAddition, NoAddition
  <2>2. IsFiniteSet(fighters') /\ Cardinality(fighters') <= Cardinality(fighters) + 1
    <3>1. IsFiniteSet(fighters) /\ fighters' = fighters \cup {adding[q].name}
      BY <1>2 DEF RosterInv, InsertsPerson
    <3>2. /\ IsFiniteSet(fighters \cup {adding[q].name})
          /\ Cardinality(fighters \cup {adding[q].name}) =
               IF adding[q].name \in fighters THEN Cardinality(fighters)
               ELSE Cardinality(fighters) + 1
      BY <3>1, FS_AddElement
    <3> QED
      BY <3>1, <3>2, <1>0
  <2>3. Cardinality(fighters') \in Nat
    BY <2>2, FS_CardinalityType
  <2>4. ~raced' => SeatsAreKept' /\ SeatIsThere'
    BY <1>2, <1>0, <2>2, <2>3 DEF RosterInv, RosterTypeOK, SeatIsThere, SeatsAreKept,
                                  InsertsPerson, EndsAddition
  <2> QED
    BY <1>2, <2>1, <2>2, <2>4 DEF RosterInv, SeatsAreKept, InsertsPerson
<1> QED
  BY <1>1, <1>2

\* The coach moves to another plan.
LEMMA PlanKeepsRoster ==
    ASSUME RosterInv, ChangesPlan
    PROVE  RosterInv'
<1>1. /\ Cardinality(fighters) \in Nat /\ mostSeats \in Nat /\ seats' \in Limits
      /\ seats' \in Nat /\ mostSeats \in Limits
  BY FS_CardinalityType, RosterAssumption DEF RosterInv, RosterTypeOK, ChangesPlan
<1>2. mostSeats' \in Limits /\ mostSeats' >= mostSeats /\ mostSeats' >= seats'
  BY <1>1, LargerOfTwo DEF ChangesPlan
<1>3. mostSeats' \in Nat
  BY <1>2, RosterAssumption
<1>4. RosterTypeOK'
  BY <1>1, <1>2 DEF RosterInv, RosterTypeOK, ChangesPlan
<1>5. ~raced' => SeatsAreKept' /\ SeatIsThere'
  BY <1>1, <1>2, <1>3 DEF RosterInv, SeatsAreKept, SeatIsThere, ChangesPlan, OnRoster
<1> QED
  BY <1>1, <1>2, <1>3, <1>4, <1>5 DEF RosterInv, SeatsAreKept, ChangesPlan

\* roster_capacity: a coach who adds one fighter after another never holds more
\* than the largest plan had seats, whatever the names, as long as the route and
\* the database agree on which names are the same.
THEOREM RosterKeepsSeats ==
    ASSUME \A m, n \in Names : Lower[m] = Lower[n] <=> NoCase[m] = NoCase[n],
           Names # {}
    PROVE  RosterSpec => []SeatsAreKept
<1>1. RosterInit => RosterInv
  <2> SUFFICES ASSUME RosterInit PROVE RosterInv
    OBVIOUS
  <2>1. seats \in Nat /\ IsFiniteSet(fighters) /\ Cardinality(fighters) = 0
    BY FS_EmptySet, RosterAssumption DEF RosterInit
  <2>2. RosterTypeOK /\ NoAddition.at = "idle"
    BY DEF RosterInit, RosterTypeOK, NoAddition
  <2> QED
    BY <2>1, <2>2 DEF RosterInit, RosterInv, SeatsAreKept, SeatIsThere
<1>2. RosterInv /\ [RosterNext]_rosterVars => RosterInv'
  <2> SUFFICES ASSUME RosterInv, [RosterNext]_rosterVars PROVE RosterInv'
    OBVIOUS
  <2>1. CASE UNCHANGED rosterVars
    BY <2>1 DEF rosterVars, RosterInv, RosterTypeOK, SeatsAreKept, SeatIsThere, OnRoster
  <2>2. CASE RosterNext
    BY <2>2, AdmittingKeepsRoster, InsertingKeepsRoster, PlanKeepsRoster DEF RosterNext
  <2> QED
    BY <2>1, <2>2
<1>3. RosterInv => SeatsAreKept
  BY DEF RosterInv
<1> QED
  BY <1>1, <1>2, <1>3, PTL DEF RosterSpec

-----------------------------------------------------------------------------
(* The allowance.                                                          *)

\* Columns the allowance is counted from, a limit in force that is never higher
\* than the best of the day, and no row of a day to come.
Counted ==
    /\ plan \in Plans /\ best \in Nat \cup {NoLimit}
    /\ \A e \in events : e.plan \in Plans /\ e.sub \in Subs
    /\ stripe \in [Subs -> [state : Live \cup {"none", "ended"}, plan : Plans]]
    /\ sub \in Subs \cup {Nobody} /\ DOMAIN usage = Analyses
    /\ day \in Nat /\ earned \in Nat /\ bought \in Nat
InForce == best # NoLimit => LimitOf[plan] # NoLimit /\ LimitOf[plan] <= best
NoneAhead == \A j \in Analyses, d \in Nat : usage[j] = <<"day", d>> => d <= day

AllowanceInv == Counted /\ InForce /\ NoneAhead /\ WithinAllowance

\* Rows are counted in numbers.
LEMMA RowsAreCounted ==
    ASSUME IsFiniteSet(Analyses), NEW period
    PROVE  IsFiniteSet(RowsFor(period)) /\ Cardinality(RowsFor(period)) \in Nat
BY FS_Subset, FS_CardinalityType DEF RowsFor

\* The better of two limits is at least each of them.
LEMMA MoreIsMore ==
    ASSUME NEW l \in Nat \cup {NoLimit}, NEW m \in Nat \cup {NoLimit}
    PROVE  /\ MoreOf(l, m) \in Nat \cup {NoLimit}
           /\ MoreOf(l, m) # NoLimit =>
                l # NoLimit /\ m # NoLimit /\ l <= MoreOf(l, m) /\ m <= MoreOf(l, m)
<1>1. CASE NoLimit \in {l, m}
  BY <1>1 DEF MoreOf
<1>2. CASE NoLimit \notin {l, m}
  BY <1>2, LargerOfTwo DEF MoreOf
<1> QED
  BY <1>1, <1>2

\* What touches neither the rows nor the plan keeps the allowance.
LEMMA OthersKeepAllowance ==
    ASSUME AllowanceInv, Counted', UNCHANGED <<plan, best, usage, day, bought>>,
           earned' >= earned
    PROVE  AllowanceInv'
<1>1. RowsFor(Today)' = RowsFor(Today) /\ RowsFor(Bonus)' = RowsFor(Bonus)
  BY DEF RowsFor, Today, Bonus
<1>2. Cost \in Nat /\ Cost * bought \in Nat
  BY BillingAssumption DEF AllowanceInv, Counted
<1> QED
  BY <1>1, <1>2 DEF AllowanceInv, Counted, InForce, NoneAhead, WithinAllowance

\* An event names a subscription of the account and a plan.
LEMMA SendingKeepsTypes ==
    ASSUME Counted, NEW kind, NEW s \in Subs, NEW p \in Plans, Sends(kind, s, p)
    PROVE  \A e \in events' : e.plan \in Plans /\ e.sub \in Subs
BY DEF Counted, Sends

\* Stripe sells, changes and ends subscriptions, and sends events of them.
LEMMA StripeKeepsAllowance ==
    ASSUME AllowanceInv,
           \/ \E s \in Subs, p \in PaidPlans : Purchases(s, p) \/ ChangesPrice(s, p)
           \/ \E s \in Subs : \/ CardFails(s) \/ CardRecovers(s) \/ PeriodEnds(s)
                             \/ GivesBack(s, "refunded") \/ GivesBack(s, "disputed")
           \/ Cancels
    PROVE  AllowanceInv'
<1>2. \A e \in events' : e.plan \in Plans /\ e.sub \in Subs
  <2>1. CASE \E s \in Subs, p \in PaidPlans : Purchases(s, p) \/ ChangesPrice(s, p)
    <3>1. PICK s \in Subs, p \in PaidPlans : Purchases(s, p) \/ ChangesPrice(s, p)
      BY <2>1
    <3>2. p \in Plans /\ (Sends("checkout", s, p) \/ Sends("updated", s, p))
      BY <3>1 DEF Purchases, ChangesPrice, Plans
    <3> QED
      BY <3>2, SendingKeepsTypes DEF AllowanceInv
  <2>2. ASSUME NEW s \in Subs, NEW from, NEW to, NEW kind, Becomes(s, from, to, kind)
        PROVE  \A e \in events' : e.plan \in Plans /\ e.sub \in Subs
    <3>1. stripe[s].plan \in Plans /\ Sends(kind, s, stripe[s].plan)
      BY <2>2 DEF Becomes, AllowanceInv, Counted
    <3> QED
      BY <3>1, SendingKeepsTypes DEF AllowanceInv
  <2>3. CASE Cancels
    <3>1. sub \in Subs /\ stripe[sub].plan \in Plans /\ Sends("ending", sub, stripe[sub].plan)
      BY <2>3 DEF Cancels, AllowanceInv, Counted
    <3> QED
      BY <3>1, SendingKeepsTypes DEF AllowanceInv
  <2> QED
    BY <2>1, <2>2, <2>3 DEF CardFails, CardRecovers, PeriodEnds, GivesBack
<1>3. stripe' \in [Subs -> [state : Live \cup {"none", "ended"}, plan : Plans]]
  BY DEF Purchases, ChangesPrice, CardFails, CardRecovers, PeriodEnds, GivesBack,
         Becomes, Cancels, AllowanceInv, Counted, Plans, Live
<1>4. UNCHANGED <<plan, sub, best, usage, day, bought, earned>>
  BY DEF Purchases, ChangesPrice, CardFails, CardRecovers, PeriodEnds, GivesBack,
         Becomes, Cancels
<1>5. Counted'
  BY <1>2, <1>3, <1>4 DEF AllowanceInv, Counted
<1> QED
  BY <1>4, <1>5, OthersKeepAllowance DEF AllowanceInv, Counted

\* A delivery may change the plan, and the best of the day with it.
LEMMA DeliveryKeepsAllowance ==
    ASSUME IsFiniteSet(Analyses), AllowanceInv, NEW e \in events, NEW answered \in BOOLEAN,
           Checkout(e, answered) \/ Change(e, answered)
    PROVE  AllowanceInv'
<1>1. plan' \in Plans /\ plan \in Plans /\ sub' \in Subs \cup {Nobody}
  BY DEF Checkout, Change, PlanAfter, AllowanceInv, Counted, Plans
<1>2. LimitOf[plan'] \in Nat \cup {NoLimit} /\ LimitOf[plan] \in Nat \cup {NoLimit}
  BY <1>1, BillingAssumption
<1>3. /\ best' = MoreOf(best, LimitOf[plan']) /\ events' \subseteq events
      /\ UNCHANGED <<stripe, usage, earned, bought, day>>
  BY DEF Checkout, Change, Delivery
<1>4. /\ best' \in Nat \cup {NoLimit}
      /\ best' # NoLimit => /\ best # NoLimit /\ best <= best'
                           /\ LimitOf[plan'] # NoLimit /\ LimitOf[plan'] <= best'
  BY <1>2, <1>3, MoreIsMore DEF AllowanceInv, Counted
<1>5. RowsFor(Today)' = RowsFor(Today) /\ RowsFor(Bonus)' = RowsFor(Bonus)
  BY <1>3 DEF RowsFor, Today, Bonus
<1>6. Counted' /\ InForce' /\ NoneAhead'
  BY <1>1, <1>3, <1>4 DEF AllowanceInv, Counted, InForce, NoneAhead
<1>7. Cardinality(RowsFor(Today)) \in Nat
  BY RowsAreCounted
<1>8. WithinAllowance'
  BY <1>3, <1>4, <1>5, <1>7 DEF AllowanceInv, Counted, WithinAllowance
<1> QED
  BY <1>6, <1>8 DEF AllowanceInv

\* A row more, or less.
LEMMA OneMoreOrLess ==
    ASSUME NEW S, IsFiniteSet(S), NEW x
    PROVE  /\ Cardinality(S \cup {x}) <= Cardinality(S) + 1
           /\ Cardinality(S \ {x}) <= Cardinality(S)
           /\ Cardinality(S \cup {x}) \in Nat /\ Cardinality(S \ {x}) \in Nat
<1>1. /\ IsFiniteSet(S \cup {x}) /\ IsFiniteSet(S \ {x})
      /\ Cardinality(S \cup {x}) = IF x \in S THEN Cardinality(S) ELSE Cardinality(S) + 1
      /\ Cardinality(S \ {x}) = IF x \in S THEN Cardinality(S) - 1 ELSE Cardinality(S)
  BY FS_AddElement, FS_RemoveElement
<1>2. /\ Cardinality(S) \in Nat /\ Cardinality(S \cup {x}) \in Nat
      /\ Cardinality(S \ {x}) \in Nat
  BY <1>1, FS_CardinalityType
<1> QED
  BY <1>1, <1>2

\* reserve_analysis counts a row where there is room for one.
LEMMA ReservingKeepsAllowance ==
    ASSUME IsFiniteSet(Analyses), AllowanceInv, NEW j \in Analyses, Reserves(j)
    PROVE  AllowanceInv'
<1>0. /\ LimitOf[plan] \in Nat \cup {NoLimit} /\ NoLimit \notin Nat
      /\ day \in Nat /\ bought \in Nat /\ earned \in Nat /\ Cost \in Nat
      /\ Cardinality(RowsFor(Today)) \in Nat /\ Cardinality(RowsFor(Bonus)) \in Nat
  BY BillingAssumption, RowsAreCounted DEF AllowanceInv, Counted
<1>1. usage' = [usage EXCEPT ![j] = CountedUnder] /\ DOMAIN usage = Analyses
  BY DEF Reserves, AllowanceInv, Counted
<1>2. CountedUnder \in {Today, Bonus, <<"unlimited", 0>>}
  BY DEF CountedUnder
<1>3. /\ Counted' /\ InForce' /\ Today' = Today /\ Bonus' = Bonus /\ best' = best
      /\ bought' = bought /\ earned' = earned
  BY <1>1 DEF Reserves, AllowanceInv, Counted, InForce, Today, Bonus
<1>4. NoneAhead'
  BY <1>0, <1>1, <1>2 DEF AllowanceInv, NoneAhead, Today, Bonus, Reserves
<1>5. /\ RowsFor(Today)' = IF Today = CountedUnder THEN RowsFor(Today) \cup {j}
                           ELSE RowsFor(Today) \ {j}
      /\ RowsFor(Bonus)' = IF Bonus = CountedUnder THEN RowsFor(Bonus) \cup {j}
                           ELSE RowsFor(Bonus) \ {j}
  BY <1>1, <1>3 DEF RowsFor
<1>6. /\ Cardinality(RowsFor(Today)') <= Cardinality(RowsFor(Today))
           + (IF CountedUnder = Today THEN 1 ELSE 0)
      /\ Cardinality(RowsFor(Bonus)') <= Cardinality(RowsFor(Bonus))
           + (IF CountedUnder = Bonus THEN 1 ELSE 0)
      /\ Cardinality(RowsFor(Today)') \in Nat /\ Cardinality(RowsFor(Bonus)') \in Nat
  <2>1. /\ IsFiniteSet(RowsFor(Today)) /\ Cardinality(RowsFor(Today)) \in Nat
        /\ IsFiniteSet(RowsFor(Bonus)) /\ Cardinality(RowsFor(Bonus)) \in Nat
    BY RowsAreCounted
  <2>2. /\ Cardinality(RowsFor(Today) \cup {j}) <= Cardinality(RowsFor(Today)) + 1
        /\ Cardinality(RowsFor(Today) \ {j}) <= Cardinality(RowsFor(Today))
        /\ Cardinality(RowsFor(Today) \cup {j}) \in Nat
        /\ Cardinality(RowsFor(Today) \ {j}) \in Nat
    BY <2>1, OneMoreOrLess
  <2>3. /\ Cardinality(RowsFor(Bonus) \cup {j}) <= Cardinality(RowsFor(Bonus)) + 1
        /\ Cardinality(RowsFor(Bonus) \ {j}) <= Cardinality(RowsFor(Bonus))
        /\ Cardinality(RowsFor(Bonus) \cup {j}) \in Nat
        /\ Cardinality(RowsFor(Bonus) \ {j}) \in Nat
    BY <2>1, OneMoreOrLess
  <2> QED
    BY <1>5, <2>1, <2>2, <2>3
<1>7. best # NoLimit => Cardinality(RowsFor(Today)') <= best
  <2>1. CASE CountedUnder = Today
    <3>1. HasRoom
      BY <2>1, <1>0 DEF CountedUnder, Today, Bonus
    <3>2. best # NoLimit => Cardinality(RowsFor(Today)) + 1 <= best
      BY <3>1, <1>0 DEF HasRoom, AllowanceInv, InForce, Counted
    <3> QED
      BY <3>2, <1>0, <1>6, <2>1 DEF AllowanceInv, Counted
  <2>2. CASE CountedUnder # Today
    BY <2>2, <1>0, <1>6 DEF AllowanceInv, Counted, WithinAllowance
  <2> QED
    BY <2>1, <2>2
<1>8. Cardinality(RowsFor(Bonus)') <= bought
  <2>1. CASE CountedUnder = Bonus
    <3>1. ~HasRoom
      BY <2>1, <1>0 DEF CountedUnder, Today, Bonus
    <3>2. Cardinality(RowsFor(Bonus)) + 1 <= bought
      BY <3>1, <1>0 DEF Reserves, BonusLeft
    <3> QED
      BY <3>2, <1>0, <1>6, <2>1
  <2>2. CASE CountedUnder # Bonus
    BY <2>2, <1>0, <1>6 DEF AllowanceInv, WithinAllowance
  <2> QED
    BY <2>1, <2>2
<1> QED
  BY <1>3, <1>4, <1>7, <1>8 DEF AllowanceInv, WithinAllowance, RowsFor, Today, Bonus

\* release_analysis only takes a row away.
LEMMA ReleasingKeepsAllowance ==
    ASSUME IsFiniteSet(Analyses), AllowanceInv, NEW j \in Analyses, Releases(j)
    PROVE  AllowanceInv'
<1>1. /\ \A i \in Analyses : usage'[i] \in {usage[i], NoRow}
      /\ DOMAIN usage' = Analyses
      /\ UNCHANGED <<events, stripe, plan, sub, best, day, earned, bought>>
  BY DEF Releases, AllowanceInv, Counted
<1>2. RowsFor(Today)' \subseteq RowsFor(Today) /\ RowsFor(Bonus)' \subseteq RowsFor(Bonus)
  BY <1>1 DEF RowsFor, Today, Bonus, NoRow
<1>3. /\ Cardinality(RowsFor(Today)') <= Cardinality(RowsFor(Today))
      /\ Cardinality(RowsFor(Bonus)') <= Cardinality(RowsFor(Bonus))
      /\ Cardinality(RowsFor(Today)') \in Nat /\ Cardinality(RowsFor(Bonus)') \in Nat
      /\ Cardinality(RowsFor(Today)) \in Nat /\ Cardinality(RowsFor(Bonus)) \in Nat
  BY <1>2, RowsAreCounted, FS_Subset, FS_CardinalityType
<1>4. Counted' /\ InForce' /\ NoneAhead'
  BY <1>1 DEF AllowanceInv, Counted, InForce, NoneAhead, NoRow
<1>5. WithinAllowance'
  BY <1>1, <1>3 DEF AllowanceInv, Counted, WithinAllowance, RowsFor, Today, Bonus
<1> QED
  BY <1>4, <1>5 DEF AllowanceInv

\* Points are earned, and spent on an analysis where there are enough.
LEMMA PointsKeepAllowance ==
    ASSUME IsFiniteSet(Analyses), AllowanceInv, Earns \/ Redeems
    PROVE  AllowanceInv'
<1>1. CASE Earns
  BY <1>1, OthersKeepAllowance DEF Earns, AllowanceInv, Counted
<1>2. CASE Redeems
  <2>0. /\ bought \in Nat /\ earned \in Nat /\ Cost \in Nat
        /\ Cardinality(RowsFor(Bonus)) \in Nat
    BY BillingAssumption, RowsAreCounted DEF AllowanceInv, Counted
  <2>1. bought' = bought + 1 /\ Cost * (bought + 1) <= earned
    BY <1>2, <2>0 DEF Redeems
  <2>2. Counted' /\ InForce' /\ NoneAhead'
    BY <1>2, <2>0 DEF Redeems, AllowanceInv, Counted, InForce, NoneAhead
  <2>3. RowsFor(Today)' = RowsFor(Today) /\ RowsFor(Bonus)' = RowsFor(Bonus)
    BY <1>2 DEF Redeems, RowsFor, Today, Bonus
  <2> QED
    BY <1>2, <2>0, <2>1, <2>2, <2>3 DEF Redeems, AllowanceInv, WithinAllowance
<1> QED
  BY <1>1, <1>2

\* A day begins with no row of its own, under the plan of the moment.
LEMMA NextDayKeepsAllowance ==
    ASSUME AllowanceInv, NextDay
    PROVE  AllowanceInv'
<1>1. LimitOf[plan] \in Nat \cup {NoLimit} /\ day \in Nat /\ day' = day + 1
  BY BillingAssumption DEF AllowanceInv, Counted, NextDay
<1>2. RowsFor(Today)' = {} /\ RowsFor(Bonus)' = RowsFor(Bonus)
  BY <1>1 DEF RowsFor, Today, Bonus, NextDay, AllowanceInv, NoneAhead
<1>3. Counted' /\ InForce' /\ NoneAhead'
  BY <1>1 DEF AllowanceInv, Counted, InForce, NoneAhead, NextDay
<1>4. WithinAllowance'
  BY <1>1, <1>2, FS_EmptySet DEF AllowanceInv, WithinAllowance, NextDay
<1> QED
  BY <1>3, <1>4 DEF AllowanceInv

\* Reservations, releases, retries, purchases, changes of plan and days in any
\* order never give away more analyses than the best plan of the day allowed or
\* than were bought with points that were earned, for any number of them.
THEOREM AllowanceIsKept ==
    ASSUME IsFiniteSet(Analyses)
    PROVE  BillingSpec => []WithinAllowance
<1>1. BillingInit => AllowanceInv
  <2> SUFFICES ASSUME BillingInit PROVE AllowanceInv
    OBVIOUS
  <2>1. Counted /\ InForce /\ NoneAhead
    BY BillingAssumption DEF BillingInit, Counted, InForce, NoneAhead, Plans, Unbought, NoRow
  <2>2. RowsFor(Today) = {} /\ RowsFor(Bonus) = {}
    BY DEF BillingInit, RowsFor, Today, Bonus, NoRow
  <2> QED
    BY <2>1, <2>2, FS_EmptySet, BillingAssumption DEF BillingInit, AllowanceInv, WithinAllowance
<1>2. AllowanceInv /\ [BillingNext]_billingVars => AllowanceInv'
  <2> SUFFICES ASSUME AllowanceInv, [BillingNext]_billingVars PROVE AllowanceInv'
    OBVIOUS
  <2>1. CASE UNCHANGED billingVars
    BY <2>1, OthersKeepAllowance DEF billingVars, AllowanceInv, Counted
  <2>2. CASE \E answer \in {"approved", "declined"} : GuardianAnswers(answer)
    BY <2>2, OthersKeepAllowance DEF GuardianAnswers, AllowanceInv, Counted
  <2>3. CASE BillingNext /\ ~\E answer \in {"approved", "declined"} : GuardianAnswers(answer)
    BY <2>3, StripeKeepsAllowance, DeliveryKeepsAllowance, ReservingKeepsAllowance,
       ReleasingKeepsAllowance, PointsKeepAllowance, NextDayKeepsAllowance DEF BillingNext
  <2> QED
    BY <2>1, <2>2, <2>3
<1>3. AllowanceInv => WithinAllowance
  BY DEF AllowanceInv
<1> QED
  BY <1>1, <1>2, <1>3, PTL DEF BillingSpec

-----------------------------------------------------------------------------
(* The plan.                                                               *)

\* A plan is the one that Stripe's subscription x pays for.
Matches(p, x) ==
    CASE x.state = "ended" -> p = "free"
      [] x.state = "refunded" -> p \in {"free", x.plan}
      [] OTHER -> p = x.plan

\* The events that set a plan, and the plan each sets whatever it was before.
Sets(e) == e.kind \in {"updated", "ending", "deleted", "refunded", "disputed"}
PlanSet(e) == IF e.kind \in {"updated", "ending"} THEN e.plan ELSE "free"

\* From the plan p the events es lead to what the subscription x pays for: the
\* last of them that sets a plan sets that one.
Leads(es, p, x) ==
    /\ (\A e \in es : ~Sets(e)) => Matches(p, x)
    /\ \A e \in es :
         Sets(e) /\ (\A f \in es : Sets(f) => f.id <= e.id) => Matches(PlanSet(e), x)

\* The events of s not delivered yet.
Undelivered(s) == {e \in events : e.sub = s /\ e.id \notin handled}

\* Events are numbered as they are sent, the checkout of a subscription first,
\* and only a delivered one is recorded.
EventTypes ==
    /\ lastEvent \in Nat
    /\ stripe \in [Subs -> [state : Live \cup {"none", "ended"}, plan : Plans]]
    /\ sub \in Subs \cup {Nobody}
    /\ \A e \in events : e.id \in 1..lastEvent /\ e.sub \in Subs
    /\ recorded \subseteq handled /\ handled \subseteq 1..lastEvent
Numbered ==
    /\ \A e, f \in events : e.id = f.id => e = f
    /\ \A e \in events : stripe[e.sub].state # "none"
    /\ sub # Nobody => stripe[sub].state # "none"
    /\ \A e, f \in events : e.kind = "checkout" /\ f.sub = e.sub /\ f # e => e.id < f.id
    /\ \A e \in events : e.kind = "checkout" /\ e.id \in handled => e.id \in recorded

\* Delivered in order: no event before an earlier one, those of the connected
\* subscription recorded, and what is still to come leads to the right plan.
InStep ==
    /\ \A e, f \in events : f.id \in handled /\ e.id < f.id => e.id \in handled
    /\ \A e \in events : e.sub = sub /\ e.id \in handled => e.id \in recorded
    /\ sub # Nobody => Leads(Undelivered(sub), plan, stripe[sub])
    /\ \A e \in events : e.kind = "checkout" /\ e.id \notin handled =>
         Leads(Undelivered(e.sub), e.plan, stripe[e.sub])

StripeInv == EventTypes /\ Numbered /\ (inOrder => InStep)

\* One more event, later than the others, which sets the plan of x or changes
\* nothing of it.
LEMMA OneMoreLeads ==
    ASSUME NEW es, NEW p, NEW x, NEW y, NEW e, Leads(es, p, y),
           \A f \in es : f.id \in Nat /\ f.id < e.id, e.id \in Nat,
           IF Sets(e) THEN Matches(PlanSet(e), x) ELSE \A q : Matches(q, y) => Matches(q, x)
    PROVE  Leads(es \cup {e}, p, x)
<1>1. CASE Sets(e)
  <2>1. \A f \in es \cup {e} : (\A g \in es \cup {e} : Sets(g) => g.id <= f.id) => f = e
    BY <1>1
  <2> QED
    BY <1>1, <2>1 DEF Leads
<1>2. CASE ~Sets(e)
  <2>1. Matches(p, y) => Matches(p, x)
    BY <1>2
  <2>2. \A f \in es : Matches(PlanSet(f), y) => Matches(PlanSet(f), x)
    BY <1>2
  <2> QED
    BY <1>2, <2>1, <2>2 DEF Leads
<1> QED
  BY <1>1, <1>2

\* The earliest event is delivered: it sets its plan, or leaves the one there was.
LEMMA OneLessLeads ==
    ASSUME NEW es, NEW p, NEW x, NEW e \in es, Leads(es, p, x),
           \A f \in es : f.id \in Nat /\ (f # e => e.id < f.id)
    PROVE  Leads(es \ {e}, IF Sets(e) THEN PlanSet(e) ELSE p, x)
<1>1. CASE Sets(e)
  <2>1. (\A f \in es \ {e} : ~Sets(f)) => Matches(PlanSet(e), x)
    BY <1>1 DEF Leads
  <2>2. \A f \in es \ {e} :
          Sets(f) /\ (\A g \in es \ {e} : Sets(g) => g.id <= f.id) => Matches(PlanSet(f), x)
    BY DEF Leads
  <2> QED
    BY <1>1, <2>1, <2>2 DEF Leads
<1>2. CASE ~Sets(e)
  BY <1>2 DEF Leads
<1> QED
  BY <1>1, <1>2

\* Stripe sends one more event of s, whose new state is x.
LEMMA SendingKeepsStep ==
    ASSUME StripeInv, NEW kind, NEW s \in Subs, NEW p, Sends(kind, s, p),
           NEW x \in [state : Live \cup {"ended"}, plan : Plans],
           stripe' = [stripe EXCEPT ![s] = x],
           UNCHANGED <<recorded, plan, sub, handled, inOrder>>,
           IF kind = "checkout" THEN stripe[s].state = "none" /\ Matches(p, x)
           ELSE stripe[s].state # "none",
           LET e == [id |-> lastEvent + 1, kind |-> kind, sub |-> s, plan |-> p]
           IN  IF Sets(e) THEN Matches(PlanSet(e), x)
               ELSE kind = "checkout" \/ \A q : Matches(q, stripe[s]) => Matches(q, x)
    PROVE  StripeInv'
<1> DEFINE new == [id |-> lastEvent + 1, kind |-> kind, sub |-> s, plan |-> p]
<1>0. /\ EventTypes /\ Numbered
      /\ events' = events \cup {new} /\ lastEvent' = lastEvent + 1
      /\ new.id = lastEvent + 1 /\ new.sub = s /\ new.kind = kind /\ new.plan = p
      /\ lastEvent \in Nat /\ handled' = handled /\ sub' = sub
      /\ x.state # "none" /\ new.id \notin handled
  BY DEF StripeInv, Sends, EventTypes, Live
<1>1. Sets(new) => Matches(PlanSet(new), x)
  OBVIOUS
<1>2. ~Sets(new) => kind = "checkout" \/ \A q : Matches(q, stripe[s]) => Matches(q, x)
  OBVIOUS
<1> HIDE DEF new
<1>3. /\ stripe'[s] = x /\ \A t \in Subs \ {s} : stripe'[t] = stripe[t]
      /\ stripe' \in [Subs -> [state : Live \cup {"none", "ended"}, plan : Plans]]
  BY <1>0 DEF EventTypes
<1>4. EventTypes'
  BY <1>0, <1>3 DEF EventTypes
<1>5. kind = "checkout" => \A e \in events : e.sub # s
  BY <1>0 DEF Numbered
<1>6. Numbered'
  BY <1>0, <1>3, <1>5 DEF Numbered, EventTypes
<1>7. /\ Undelivered(s)' = Undelivered(s) \cup {new}
      /\ \A t \in Subs \ {s} : Undelivered(t)' = Undelivered(t)
  BY <1>0 DEF Undelivered
<1>8. ASSUME NEW t \in Subs, NEW q, Leads(Undelivered(t), q, stripe[t]),
             t = s => kind # "checkout"
      PROVE  Leads(Undelivered(t)', q, stripe'[t])
  <2>1. CASE t = s
    <3>1. \A f \in Undelivered(s) : f.id \in Nat /\ f.id < new.id
      BY <1>0 DEF Undelivered, EventTypes
    <3>2. IF Sets(new) THEN Matches(PlanSet(new), x)
          ELSE \A r : Matches(r, stripe[s]) => Matches(r, x)
      BY <1>1, <1>2, <1>8, <2>1
    <3>3. Leads(Undelivered(s) \cup {new}, q, x)
      BY <1>0, <1>8, <2>1, <3>1, <3>2, OneMoreLeads
    <3> QED
      BY <1>3, <1>7, <2>1, <3>3
  <2>2. CASE t # s
    BY <1>3, <1>7, <1>8, <2>2
  <2> QED
    BY <2>1, <2>2
<1>9. ASSUME InStep PROVE InStep'
  <2>1. \A e, f \in events' : f.id \in handled' /\ e.id < f.id => e.id \in handled'
    BY <1>0, <1>9 DEF InStep, EventTypes
  <2>2. \A e \in events' : e.sub = sub' /\ e.id \in handled' => e.id \in recorded'
    BY <1>0, <1>9 DEF InStep
  <2>3. sub' # Nobody => Leads(Undelivered(sub)', plan', stripe'[sub'])
    BY <1>0, <1>8, <1>9 DEF InStep, Numbered, EventTypes
  <2>4. ASSUME NEW e \in events', e.kind = "checkout", e.id \notin handled'
        PROVE  Leads(Undelivered(e.sub)', e.plan, stripe'[e.sub])
    <3>1. CASE e = new
      <4>1. Undelivered(s)' = {new} /\ ~Sets(new)
        BY <1>0, <1>5, <1>7, <2>4, <3>1 DEF Undelivered, Sets
      <4>2. Matches(p, x)
        BY <1>0, <2>4, <3>1
      <4>3. Leads({new}, p, x)
        BY <4>1, <4>2 DEF Leads
      <4> QED
        BY <1>0, <1>3, <3>1, <4>1, <4>3
    <3>2. CASE e \in events /\ e # new
      <4>1. e.sub \in Subs /\ (e.sub = s => kind # "checkout")
        BY <1>0, <1>5, <3>2 DEF EventTypes
      <4>2. Leads(Undelivered(e.sub), e.plan, stripe[e.sub])
        BY <1>0, <1>9, <2>4, <3>2 DEF InStep
      <4> QED
        BY <1>8, <4>1, <4>2
    <3> QED
      BY <1>0, <3>1, <3>2
  <2> QED
    BY <2>1, <2>2, <2>3, <2>4 DEF InStep, Undelivered
<1> QED
  BY <1>4, <1>6, <1>9 DEF StripeInv

\* Every change at Stripe's leads to the plan that is paid for then.
LEMMA StripeKeepsStep ==
    ASSUME StripeInv,
           \/ \E s \in Subs, p \in PaidPlans : Purchases(s, p) \/ ChangesPrice(s, p)
           \/ \E s \in Subs : \/ CardFails(s) \/ CardRecovers(s) \/ PeriodEnds(s)
                             \/ \E kind \in {"refunded", "disputed"} : GivesBack(s, kind)
           \/ Cancels
    PROVE  StripeInv'
<1>0. stripe \in [Subs -> [state : Live \cup {"none", "ended"}, plan : Plans]]
  BY DEF StripeInv, EventTypes
<1>1. ASSUME NEW s \in Subs, NEW p \in PaidPlans, Purchases(s, p) PROVE StripeInv'
  <2> DEFINE x == [state |-> "active", plan |-> p]
  <2>1. x \in [state : Live \cup {"ended"}, plan : Plans] /\ x.state = "active" /\ x.plan = p
    BY DEF Live, Plans
  <2>2. Matches(p, x)
    BY DEF Matches
  <2>3. /\ stripe' = [stripe EXCEPT ![s] = x] /\ Sends("checkout", s, p)
        /\ UNCHANGED <<recorded, plan, sub, handled, inOrder>> /\ stripe[s].state = "none"
    BY <1>1 DEF Purchases
  <2> HIDE DEF x
  <2> QED
    BY <2>1, <2>2, <2>3, SendingKeepsStep DEF Sets
<1>2. ASSUME NEW s \in Subs, NEW p \in PaidPlans, ChangesPrice(s, p) PROVE StripeInv'
  <2> DEFINE x == [stripe[s] EXCEPT !.plan = p]
  <2>1. /\ x \in [state : Live \cup {"ended"}, plan : Plans]
        /\ x.state \in {"active", "refunded"} /\ x.plan = p
    BY <1>0, <1>2 DEF Live, Plans, ChangesPrice
  <2>2. Matches(p, x)
    BY <2>1 DEF Matches
  <2>3. /\ stripe' = [stripe EXCEPT ![s] = x] /\ Sends("updated", s, p)
        /\ UNCHANGED <<recorded, plan, sub, handled, inOrder>> /\ stripe[s].state # "none"
    BY <1>0, <1>2 DEF ChangesPrice
  <2> HIDE DEF x
  <2> QED
    BY <2>1, <2>2, <2>3, SendingKeepsStep DEF Sets, PlanSet
<1>3. ASSUME NEW s \in Subs, NEW from \in SUBSET Live, NEW to \in Live \cup {"ended"}, NEW kind,
             Becomes(s, from, to, kind) \/ (s = sub /\ from = {stripe[s].state} /\ Cancels
                                           /\ kind = "ending" /\ to = "ending"),
             kind # "checkout",
             \/ kind = "payment_failed" /\ from = {"active"} /\ to = "past_due"
             \/ kind = "paid" /\ from = {"past_due"} /\ to = "active"
             \/ kind = "deleted" /\ to = "ended"
             \/ kind = "ending" /\ to = "ending"
             \/ kind \in {"refunded", "disputed"} /\ to = "refunded"
      PROVE  StripeInv'
  <2> DEFINE x == [stripe[s] EXCEPT !.state = to]
  <2>1. /\ x \in [state : Live \cup {"ended"}, plan : Plans]
        /\ x.state = to /\ x.plan = stripe[s].plan
    BY <1>0
  <2>2. /\ stripe' = [stripe EXCEPT ![s] = x] /\ Sends(kind, s, stripe[s].plan)
        /\ UNCHANGED <<recorded, plan, sub, handled, inOrder>>
        /\ stripe[s].state \in from /\ stripe[s].state # "none"
    BY <1>0, <1>3 DEF Becomes, Cancels, Live
  <2> DEFINE e == [id |-> lastEvent + 1, kind |-> kind, sub |-> s, plan |-> stripe[s].plan]
  <2>3. e.kind = kind /\ e.plan = stripe[s].plan
    OBVIOUS
  <2>4. IF Sets(e) THEN Matches(PlanSet(e), x)
        ELSE \A q : Matches(q, stripe[s]) => Matches(q, x)
    <3> HIDE DEF x, e
    <3> QED
      BY <1>3, <2>1, <2>2, <2>3 DEF Sets, PlanSet, Matches
  <2> HIDE DEF x
  <2> QED
    BY <1>3, <2>1, <2>2, <2>4, SendingKeepsStep
<1>4. ASSUME NEW s \in Subs, CardFails(s) PROVE StripeInv'
  BY <1>3, <1>4 DEF CardFails, Live
<1>5. ASSUME NEW s \in Subs, CardRecovers(s) PROVE StripeInv'
  BY <1>3, <1>5 DEF CardRecovers, Live
<1>6. ASSUME NEW s \in Subs, PeriodEnds(s) PROVE StripeInv'
  BY <1>3, <1>6 DEF PeriodEnds, Live
<1>7. ASSUME NEW s \in Subs, NEW kind \in {"refunded", "disputed"}, GivesBack(s, kind)
      PROVE  StripeInv'
  BY <1>3, <1>7 DEF GivesBack, Live
<1>8. ASSUME Cancels PROVE StripeInv'
  <2>1. sub \in Subs /\ {stripe[sub].state} \in SUBSET Live
    BY <1>8 DEF Cancels, StripeInv, EventTypes, Live
  <2> QED
    BY <1>3, <1>8, <2>1 DEF Live
<1> QED
  BY <1>1, <1>2, <1>4, <1>5, <1>6, <1>7, <1>8

\* Stripe delivers an event, for the first time or again.
LEMMA DeliveryKeepsStep ==
    ASSUME StripeInv, NEW e \in events, NEW answered \in BOOLEAN,
           Checkout(e, answered) \/ Change(e, answered)
    PROVE  StripeInv'
<1>0. /\ EventTypes /\ Numbered /\ UNCHANGED <<stripe, lastEvent>>
      /\ events' \subseteq events /\ events \ events' \subseteq {e}
      /\ handled' = handled \cup {e.id} /\ e.id \in 1..lastEvent /\ e.sub \in Subs
      /\ inOrder' => inOrder /\ \A f \in events : f.id < e.id => f.id \in handled
      /\ recorded' \in {recorded, recorded \cup {e.id}}
      /\ sub' \in {sub, e.sub}
  BY DEF StripeInv, EventTypes, Checkout, Change, Delivery
<1>1. EventTypes'
  BY <1>0 DEF EventTypes
<1>2. e.kind = "checkout" => e.id \in recorded'
  BY <1>0 DEF Checkout, Change
<1>3. Numbered'
  BY <1>0, <1>2 DEF Numbered
<1>4. \A s \in Subs : Undelivered(s)' = Undelivered(s) \ {e}
  BY <1>0 DEF Undelivered, Numbered
<1>5. ASSUME inOrder' PROVE InStep'
  <2>0. InStep /\ \A f \in events : f.id < e.id => f.id \in handled
    BY <1>0, <1>5 DEF StripeInv
  <2>1. \A f, g \in events' : g.id \in handled' /\ f.id < g.id => f.id \in handled'
    BY <1>0, <2>0 DEF InStep
  <2>2. CASE e.id \in handled
    <3>1. UNCHANGED <<sub, plan, recorded>>
      BY <1>0, <2>0, <2>2 DEF InStep, Numbered, Checkout, Change, Found
    <3>2. \A s \in Subs : Undelivered(s)' = Undelivered(s)
      BY <1>4, <2>2 DEF Undelivered
    <3>3. handled' = handled
      BY <1>0, <2>2
    <3>4. sub' # Nobody => Leads(Undelivered(sub)', plan', stripe'[sub'])
      BY <1>0, <2>0, <3>1, <3>2 DEF InStep, EventTypes
    <3>5. \A f \in events' : f.kind = "checkout" /\ f.id \notin handled' =>
            Leads(Undelivered(f.sub)', f.plan, stripe'[f.sub])
      BY <1>0, <2>0, <3>2, <3>3 DEF InStep, EventTypes
    <3>6. \A f \in events' : f.sub = sub' /\ f.id \in handled' => f.id \in recorded'
      BY <1>0, <2>0, <3>1, <3>3 DEF InStep
    <3> QED
      BY <2>1, <3>1, <3>4, <3>5, <3>6 DEF InStep, Undelivered
  <2>3. CASE e.id \notin handled
    <3>0. /\ e \in Undelivered(e.sub) /\ e.id \notin recorded
          /\ \A f \in Undelivered(e.sub) : f.id \in Nat /\ (f # e => e.id < f.id)
      BY <1>0, <2>0, <2>3 DEF Undelivered, EventTypes, Numbered
    <3>1. \A f \in events' :
            f.kind = "checkout" /\ f.id \notin handled' => f \in events /\ f.sub # e.sub
      BY <1>0, <2>0, <2>3 DEF Numbered, EventTypes
    <3>2. \A f \in events' : f.kind = "checkout" /\ f.id \notin handled' =>
            Leads(Undelivered(f.sub)', f.plan, stripe'[f.sub])
      <4>1. \A s \in Subs \ {e.sub} : Undelivered(s)' = Undelivered(s)
        BY <1>4 DEF Undelivered
      <4> QED
        BY <1>0, <2>0, <3>1, <4>1 DEF InStep, EventTypes
    <3>3. CASE e.kind = "checkout"
      <4>1. sub' = e.sub /\ plan' = e.plan /\ recorded' = recorded \cup {e.id}
        BY <3>0, <3>3 DEF Checkout, Change
      <4>2. Leads(Undelivered(e.sub), e.plan, stripe[e.sub]) /\ ~Sets(e)
        BY <2>0, <2>3, <3>3 DEF InStep, Sets
      <4>3. Leads(Undelivered(e.sub) \ {e}, e.plan, stripe[e.sub])
        BY <3>0, <4>2, OneLessLeads
      <4>4. Leads(Undelivered(e.sub)', plan', stripe'[e.sub])
        BY <1>0, <1>4, <4>1, <4>3
      <4>5. \A f \in events' : f.sub = sub' /\ f.id \in handled' => f.id \in recorded'
        BY <1>0, <2>0, <2>3, <3>3, <4>1 DEF InStep, Numbered, EventTypes
      <4> QED
        BY <2>1, <3>2, <4>1, <4>4, <4>5 DEF InStep, Undelivered
    <3>4. CASE e.kind # "checkout" /\ e.sub = sub
      <4>1. /\ sub' = sub /\ recorded' = recorded \cup {e.id}
            /\ plan' = IF Sets(e) THEN PlanSet(e) ELSE plan
        BY <3>0, <3>4 DEF Checkout, Change, Found, PlanAfter, Sets, PlanSet
      <4>2. Leads(Undelivered(sub), plan, stripe[sub])
        BY <1>0, <2>0, <3>4, BillingAssumption DEF InStep
      <4>3. Leads(Undelivered(sub) \ {e}, plan', stripe[sub])
        BY <3>0, <3>4, <4>1, <4>2, OneLessLeads
      <4>4. Leads(Undelivered(e.sub)', plan', stripe'[e.sub])
        BY <1>0, <1>4, <3>4, <4>3
      <4>5. \A f \in events' : f.sub = sub' /\ f.id \in handled' => f.id \in recorded'
        BY <1>0, <2>0, <4>1 DEF InStep
      <4> QED
        BY <2>1, <3>2, <3>4, <4>1, <4>4, <4>5 DEF InStep, Undelivered
    <3>5. CASE e.kind # "checkout" /\ e.sub # sub
      <4>1. UNCHANGED <<sub, plan, recorded>>
        BY <3>5 DEF Checkout, Change, Found
      <4>2. sub' # Nobody => Undelivered(sub)' = Undelivered(sub) /\ sub \in Subs
        BY <1>0, <1>4, <3>5, <4>1 DEF Undelivered, EventTypes
      <4>3. sub' # Nobody => Leads(Undelivered(sub)', plan', stripe'[sub'])
        BY <1>0, <2>0, <4>1, <4>2 DEF InStep
      <4>4. \A f \in events' : f.sub = sub' /\ f.id \in handled' => f.id \in recorded'
        BY <1>0, <2>0, <3>5, <4>1 DEF InStep, Numbered
      <4> QED
        BY <2>1, <3>2, <4>1, <4>3, <4>4 DEF InStep, Undelivered
    <3> QED
      BY <3>3, <3>4, <3>5
  <2> QED
    BY <2>2, <2>3
<1> QED
  BY <1>1, <1>3, <1>5 DEF StripeInv

\* Events delivered any number of times, but none before an earlier one, leave
\* the account with the plan its subscription pays for, for any number of
\* subscriptions and of events.
THEOREM PlanIsTheOnePaidFor == BillingSpec => []PlanFollowsStripe
<1>1. BillingInit => StripeInv
  BY BillingAssumption DEF BillingInit, StripeInv, EventTypes, Numbered, InStep, Unbought, Plans
<1>2. StripeInv /\ [BillingNext]_billingVars => StripeInv'
  <2> SUFFICES ASSUME StripeInv, [BillingNext]_billingVars PROVE StripeInv'
    OBVIOUS
  <2>1. CASE UNCHANGED <<stripe, events, lastEvent, recorded, plan, sub, handled, inOrder>>
    BY <2>1 DEF StripeInv, EventTypes, Numbered, InStep, Undelivered
  <2>2. CASE BillingNext
    BY <2>1, <2>2, StripeKeepsStep, DeliveryKeepsStep
       DEF BillingNext, Reserves, Releases, Earns, Redeems, GuardianAnswers, NextDay
  <2> QED
    BY <2>1, <2>2 DEF billingVars
<1>3. StripeInv => PlanFollowsStripe
  <2> SUFFICES ASSUME StripeInv, inOrder, events = {}, sub # Nobody
               PROVE  Matches(plan, stripe[sub])
    BY DEF PlanFollowsStripe, Matches
  <2>1. Undelivered(sub) = {} /\ Leads(Undelivered(sub), plan, stripe[sub])
    BY DEF StripeInv, InStep, Undelivered
  <2> QED
    BY <2>1 DEF Leads
<1> QED
  BY <1>1, <1>2, <1>3, PTL DEF BillingSpec

-----------------------------------------------------------------------------
(* The points.                                                             *)

Clip == Clips \cup {Resting.clip}
Verdicts == {"counted", "duplicate", "no_movement"}
Session == [item : Nat, clip : Clip, on : Nat, verdict : Verdicts, paid : BOOLEAN]
UploadStages == {"filed", "judged", "recorded"}
Trainee == [at : {"idle", "toggling", "toggled", "done"} \cup UploadStages,
            item : Nat, clip : Clip, seen : Nat,
            verdict : {"none", "active", "complete"} \cup Verdicts, paid : BOOLEAN]

PaidOn(d) == {s \in DOMAIN trained : trained[s].paid /\ trained[s].on = d}

CampTypes ==
    /\ items \in Seq({"active", "complete"}) /\ trained \in Seq(Session)
    /\ trainee \in [Training -> Trainee] /\ date \in Nat
    /\ \A s \in DOMAIN trained : trained[s].on <= date
    /\ \A q \in Training : trainee[q].at = "judged" => trainee[q].verdict \in Verdicts

\* Every entry is paid for what is recorded, and a session about to be paid is.
Backed ==
    /\ \A e \in ledger : e[1] = "session" => e[2] \in DOMAIN trained /\ trained[e[2]].paid
    /\ \A e \in ledger : e[1] = "mission_done" => Trained(e[2])
    /\ \A q \in Training : trainee[q].at = "recorded" /\ trainee[q].paid =>
         trainee[q].seen \in DOMAIN trained /\ trained[trainee[q].seen].paid

\* Without an overlap one upload is under way, and what it was judged by still
\* holds when it is recorded, on whatever day that is.
JudgedByAll ==
    /\ \A q, r \in Training :
         trainee[q].at \in UploadStages /\ trainee[r].at \in UploadStages => q = r
    /\ \A q \in Training : trainee[q].at = "filed" => trainee[q].seen = Len(trained)
    /\ \A q \in Training : trainee[q].at = "judged" =>
         /\ trainee[q].verdict = "counted" =>
              \A s \in DOMAIN trained : trained[s].clip # trainee[q].clip
         /\ trainee[q].paid => Cardinality(PaidOn(date)) < DailyCap

CampInv == CampTypes /\ Backed /\ (~crowded => JudgedByAll /\ CountedOnce /\ CapIsKept)

\* A handler that goes on, outside an upload or at its last step, changes
\* nothing that the points are counted from.
LEMMA GoingOnKeepsCamp ==
    ASSUME CampInv, NEW q \in Training, NEW t \in Trainee,
           trainee' = [trainee EXCEPT ![q] = t],
           t.at \notin UploadStages,
           items' \in Seq({"active", "complete"}),
           ledger' = ledger, UNCHANGED <<trained, date, crowded>>
    PROVE  CampInv'
<1>1. /\ trainee' \in [Training -> Trainee]
      /\ \A r \in Training : trainee'[r].at \in UploadStages => trainee'[r] = trainee[r]
  BY DEF CampInv, CampTypes
<1>2. CampTypes'
  BY <1>1 DEF CampInv, CampTypes, UploadStages
<1>3. Backed'
  BY <1>1 DEF CampInv, Backed, Trained, UploadStages
<1>4. ~crowded' => JudgedByAll' /\ CountedOnce' /\ CapIsKept'
  <2>1. \A d : PaidOn(d)' = PaidOn(d)
    BY DEF PaidOn
  <2> QED
    BY <1>1, <2>1 DEF CampInv, JudgedByAll, CountedOnce, CapIsKept, UploadStages, PaidOn
<1> QED
  BY <1>2, <1>3, <1>4 DEF CampInv

\* Nobody is at rest on an upload.
LEMMA RestingIsIdle == Resting \in Trainee /\ Resting.at = "idle" /\ Resting.at \notin UploadStages
BY DEF Resting, Trainee, Clip, UploadStages

\* The list of items is extended, ticked and looked at.
LEMMA ItemsKeepCamp ==
    ASSUME CampInv,
           \/ \E q \in Training, i \in DOMAIN items : ReadsStatus(q, i)
           \/ \E q \in Training : WritesStatus(q) \/ FindsDone(q) \/ Breaks(q)
    PROVE  CampInv'
<1>0. items \in Seq({"active", "complete"}) /\ trainee \in [Training -> Trainee]
  BY DEF CampInv, CampTypes
<1>1. ASSUME NEW q \in Training, NEW i \in DOMAIN items, ReadsStatus(q, i) PROVE CampInv'
  <2> DEFINE t == [trainee[q] EXCEPT !.item = i, !.verdict = items[i], !.at = "toggling"]
  <2>1. i \in Nat /\ items[i] \in {"active", "complete"}
    BY <1>0
  <2>2. t \in Trainee /\ t.at = "toggling"
    BY <1>0, <2>1 DEF Trainee
  <2>3. trainee' = [trainee EXCEPT ![q] = t]
    BY <1>0, <1>1 DEF ReadsStatus, Trainee
  <2> HIDE DEF t
  <2> QED
    BY <1>0, <1>1, <2>2, <2>3, GoingOnKeepsCamp DEF ReadsStatus, UploadStages
<1>2. ASSUME NEW q \in Training, WritesStatus(q) PROVE CampInv'
  <2> DEFINE t == [trainee[q] EXCEPT !.at = "toggled", !.verdict = "none"]
  <2>2. t \in Trainee /\ t.at = "toggled"
    BY <1>0 DEF Trainee
  <2>3. trainee' = [trainee EXCEPT ![q] = t]
    BY <1>0, <1>2 DEF WritesStatus, Trainee
  <2>4. items' \in Seq({"active", "complete"})
    <3> DEFINE i == trainee[q].item
               v == IF trainee[q].verdict = "active" THEN "complete" ELSE "active"
    <3>1. items' = [items EXCEPT ![i] = v] /\ v \in {"active", "complete"}
      BY <1>2 DEF WritesStatus
    <3>2. DOMAIN items = 1..Len(items) /\ items \in [1..Len(items) -> {"active", "complete"}]
      BY <1>0, LenProperties
    <3> HIDE DEF i, v
    <3>3. CASE i \in 1..Len(items)
      BY <1>0, <3>1, <3>3, ExceptSeq
    <3>4. CASE i \notin 1..Len(items)
      <4>1. items' = items
        BY <3>1, <3>2, <3>4
      <4> QED
        BY <1>0, <4>1
    <3> QED
      BY <3>3, <3>4
  <2> HIDE DEF t
  <2> QED
    BY <1>2, <2>2, <2>3, <2>4, GoingOnKeepsCamp DEF WritesStatus, UploadStages
<1>3. ASSUME NEW q \in Training, FindsDone(q) \/ Breaks(q) PROVE CampInv'
  <2>1. CASE Rests(q)
    BY <1>0, <1>3, <2>1, RestingIsIdle, GoingOnKeepsCamp DEF FindsDone, Breaks, Rests
  <2>2. CASE Moves(q, "done")
    <3> DEFINE t == [trainee[q] EXCEPT !.at = "done"]
    <3>1. t \in Trainee /\ t.at = "done" /\ trainee' = [trainee EXCEPT ![q] = t]
      BY <1>0, <2>2 DEF Trainee, Moves
    <3> HIDE DEF t
    <3>2. items' = items /\ ledger' = ledger /\ UNCHANGED <<trained, date, crowded>>
      BY <1>3 DEF FindsDone, Breaks
    <3> QED
      BY <1>0, <3>1, <3>2, GoingOnKeepsCamp DEF UploadStages
  <2> QED
    BY <1>3, <2>1, <2>2 DEF FindsDone, Breaks
<1> QED
  BY <1>1, <1>2, <1>3

\* award_points: an item is paid for what was trained, and a session when it
\* is recorded as paid.
LEMMA PayingKeepsCamp ==
    ASSUME CampInv, NEW q \in Training, PaysForItem(q) \/ PaysForSession(q)
    PROVE  CampInv'
<1>1. /\ UNCHANGED <<items, trained, date, crowded>>
      /\ trainee' = [trainee EXCEPT ![q] = Resting]
  BY DEF PaysForItem, PaysForSession, Rests
<1>2. \A e \in ledger' \ ledger :
        \/ e[1] = "mission_done" /\ Trained(e[2])
        \/ e[1] = "session" /\ e[2] \in DOMAIN trained /\ trained[e[2]].paid
  BY DEF PaysForItem, PaysForSession, CampInv, Backed
<1>3. /\ trainee' \in [Training -> Trainee]
      /\ \A r \in Training : trainee'[r].at \in UploadStages => trainee'[r] = trainee[r]
  BY <1>1, RestingIsIdle DEF CampInv, CampTypes
<1>4. CampTypes'
  BY <1>1, <1>3 DEF CampInv, CampTypes, UploadStages
<1>5. Backed'
  BY <1>1, <1>2, <1>3 DEF CampInv, Backed, Trained, UploadStages
<1>6. ~crowded' => JudgedByAll' /\ CountedOnce' /\ CapIsKept'
  BY <1>1, <1>3 DEF CampInv, JudgedByAll, CountedOnce, CapIsKept, UploadStages, PaidOn
<1> QED
  BY <1>4, <1>5, <1>6 DEF CampInv

\* upload_training_session: the clip is filed.
LEMMA FilingKeepsCamp ==
    ASSUME CampInv, NEW q \in Training, NEW i \in DOMAIN items, NEW c \in Clips, Files(q, i, c)
    PROVE  CampInv'
<1> DEFINE t == [Resting EXCEPT !.at = "filed", !.item = i, !.clip = c, !.seen = Len(trained)]
<1>0. CampTypes /\ trainee \in [Training -> Trainee] /\ items \in Seq({"active", "complete"})
      /\ trained \in Seq(Session)
  BY DEF CampInv, CampTypes
<1>1. t \in Trainee /\ t.at = "filed" /\ t.seen = Len(trained)
  <2>1. i \in Nat /\ Len(trained) \in Nat
    BY <1>0
  <2> QED
    BY <2>1, RestingIsIdle DEF Trainee, Clip, UploadStages
<1>2. /\ trainee' = [trainee EXCEPT ![q] = t] /\ UNCHANGED <<items, trained, ledger, date>>
      /\ ~crowded' => ~crowded /\ \A r \in Training \ {q} : trainee[r].at \notin UploadStages
  BY DEF Files, Uploading, UploadStages
<1> HIDE DEF t
<1>3. CampTypes'
  BY <1>0, <1>1, <1>2 DEF CampTypes
<1>4. Backed'
  BY <1>0, <1>1, <1>2 DEF CampInv, Backed, Trained
<1>5. ~crowded' => JudgedByAll' /\ CountedOnce' /\ CapIsKept'
  BY <1>0, <1>1, <1>2 DEF CampInv, JudgedByAll, CountedOnce, CapIsKept, PaidOn, UploadStages
<1> QED
  BY <1>3, <1>4, <1>5 DEF CampInv

\* Judged by all that was recorded before, when nobody else uploads.
LEMMA JudgingKeepsCamp ==
    ASSUME CampInv, NEW q \in Training, Judges(q)
    PROVE  CampInv'
<1> DEFINE t == [trainee[q] EXCEPT !.at = "judged", !.seen = 0, !.verdict = Verdict(q),
                                   !.paid = Verdict(q) = "counted" /\ UnderCap(q)]
<1>0. CampTypes /\ trainee \in [Training -> Trainee]
  BY DEF CampInv, CampTypes
<1>1. /\ t \in Trainee /\ t.at = "judged" /\ t.verdict = Verdict(q) /\ t.clip = trainee[q].clip
      /\ t.verdict \in Verdicts /\ t.paid = (Verdict(q) = "counted" /\ UnderCap(q))
  BY <1>0 DEF Trainee, Verdict, Verdicts, UploadStages
<1>2. /\ trainee' = [trainee EXCEPT ![q] = t] /\ trainee[q].at = "filed"
      /\ UNCHANGED <<items, trained, ledger, date, crowded>>
  BY <1>0 DEF Judges, Trainee
<1> HIDE DEF t
<1>3. CampTypes'
  BY <1>0, <1>1, <1>2 DEF CampTypes
<1>4. Backed'
  BY <1>0, <1>1, <1>2 DEF CampInv, Backed, Trained
<1>5. ASSUME ~crowded PROVE JudgedByAll' /\ CountedOnce' /\ CapIsKept'
  <2>1. trainee[q].seen = Len(trained) /\ DOMAIN trained = 1..Len(trained)
    BY <1>0, <1>2, <1>5 DEF CampInv, JudgedByAll, CampTypes
  <2>2. t.verdict = "counted" => \A s \in DOMAIN trained : trained[s].clip # t.clip
    BY <1>1, <2>1 DEF Verdict, Seen
  <2>3. t.paid => Cardinality(PaidOn(date)) < DailyCap
    BY <1>1, <2>1 DEF UnderCap, PaidToday, PaidOn
  <2> QED
    BY <1>0, <1>1, <1>2, <1>5, <2>2, <2>3
       DEF CampInv, JudgedByAll, CountedOnce, CapIsKept, PaidOn, UploadStages
<1> QED
  BY <1>2, <1>3, <1>4, <1>5 DEF CampInv

\* What a recorded session adds.
LEMMA OneMoreSession ==
    ASSUME trained \in Seq(Session), NEW new \in Session, trained' = Append(trained, new)
    PROVE  /\ Len(trained') = Len(trained) + 1 /\ Len(trained) \in Nat
           /\ DOMAIN trained = 1..Len(trained) /\ DOMAIN trained' = DOMAIN trained \cup {Len(trained')}
           /\ Len(trained') \notin DOMAIN trained
           /\ trained'[Len(trained')] = new /\ \A s \in DOMAIN trained : trained'[s] = trained[s]
           /\ \A d : PaidOn(d)' = IF new.paid /\ new.on = d
                                  THEN PaidOn(d) \cup {Len(trained')} ELSE PaidOn(d)
           /\ \A d : IsFiniteSet(PaidOn(d)) /\ Cardinality(PaidOn(d)) \in Nat
           /\ \A d : Cardinality(PaidOn(d)') =
                       Cardinality(PaidOn(d)) + IF new.paid /\ new.on = d THEN 1 ELSE 0
<1>1. /\ Len(trained') = Len(trained) + 1 /\ Len(trained) \in Nat
      /\ DOMAIN trained = 1..Len(trained) /\ DOMAIN trained' = 1..(Len(trained) + 1)
      /\ trained'[Len(trained) + 1] = new /\ \A s \in 1..Len(trained) : trained'[s] = trained[s]
  BY AppendProperties
<1>2. /\ DOMAIN trained' = DOMAIN trained \cup {Len(trained')}
      /\ Len(trained') \notin DOMAIN trained
  BY <1>1
<1>3. \A d : PaidOn(d)' = IF new.paid /\ new.on = d
                          THEN PaidOn(d) \cup {Len(trained')} ELSE PaidOn(d)
  BY <1>1, <1>2 DEF PaidOn
<1>4. ASSUME NEW d PROVE IsFiniteSet(PaidOn(d)) /\ Cardinality(PaidOn(d)) \in Nat
  <2>1. PaidOn(d) \subseteq 1..Len(trained)
    BY <1>1 DEF PaidOn
  <2>2. IsFiniteSet(1..Len(trained))
    BY <1>1, FS_Interval
  <2>3. IsFiniteSet(PaidOn(d))
    BY <2>1, <2>2, FS_Subset
  <2> QED
    BY <2>3, FS_CardinalityType
<1>5. ASSUME NEW d
      PROVE  Cardinality(PaidOn(d)') =
               Cardinality(PaidOn(d)) + IF new.paid /\ new.on = d THEN 1 ELSE 0
  <2>1. Len(trained') \notin PaidOn(d)
    BY <1>2 DEF PaidOn
  <2> QED
    BY <1>3, <1>4, <2>1, FS_AddElement
<1> QED
  BY <1>1, <1>2, <1>3, <1>4, <1>5

\* record_training_session, dated when it is written.
LEMMA RecordingKeepsCamp ==
    ASSUME CampInv, NEW q \in Training, Records(q)
    PROVE  CampInv'
<1> DEFINE x == trainee[q]
           new == [item |-> x.item, clip |-> x.clip, on |-> date,
                   verdict |-> x.verdict, paid |-> x.paid]
           t == [Resting EXCEPT !.at = "recorded", !.seen = Len(trained'), !.paid = x.paid]
<1>0. CampTypes /\ trainee \in [Training -> Trainee] /\ trained \in Seq(Session) /\ date \in Nat
  BY DEF CampInv, CampTypes
<1>1. /\ x.at = "judged" /\ trained' = Append(trained, new)
      /\ trainee' = [trainee EXCEPT ![q] = t] /\ UNCHANGED <<items, ledger, date, crowded>>
  BY DEF Records
<1>2. /\ new \in Session /\ new.paid = x.paid /\ new.on = date
      /\ new.clip = x.clip /\ new.verdict = x.verdict
  <2>1. x.verdict \in Verdicts
    BY <1>1, <1>0 DEF CampTypes
  <2> QED
    BY <1>0, <2>1 DEF Session, Trainee
<1> HIDE DEF new
<1>3. /\ Len(trained') = Len(trained) + 1 /\ Len(trained) \in Nat
      /\ DOMAIN trained = 1..Len(trained) /\ DOMAIN trained' = DOMAIN trained \cup {Len(trained')}
      /\ Len(trained') \notin DOMAIN trained
      /\ trained'[Len(trained')] = new /\ \A s \in DOMAIN trained : trained'[s] = trained[s]
  BY <1>0, <1>1, <1>2, OneMoreSession
<1>4. /\ t \in Trainee /\ t.at = "recorded" /\ t.seen = Len(trained') /\ t.paid = x.paid
  <2>1. x \in Trainee /\ Len(trained') \in Nat
    BY <1>0, <1>3
  <2>2. x.paid \in BOOLEAN
    BY <2>1 DEF Trainee
  <2>3. \A n \in Nat, b \in BOOLEAN :
          LET y == [Resting EXCEPT !.at = "recorded", !.seen = n, !.paid = b]
          IN  y \in Trainee /\ y.at = "recorded" /\ y.seen = n /\ y.paid = b
    BY RestingIsIdle DEF Trainee, UploadStages
  <2> HIDE DEF x
  <2> QED
    BY <2>1, <2>2, <2>3
<1> HIDE DEF t
<1>5. CampTypes'
  <2>1. trained' \in Seq(Session)
    BY <1>0, <1>1, <1>2, AppendProperties
  <2>2. \A s \in DOMAIN trained' : trained'[s].on <= date'
    BY <1>0, <1>1, <1>2, <1>3 DEF CampTypes
  <2> QED
    BY <1>0, <1>1, <1>4, <2>1, <2>2 DEF CampTypes
<1>6. Backed'
  <2>1. \A i : Trained(i) => Trained(i)'
    BY <1>3 DEF Trained
  <2>2. \A e \in ledger' : e[1] = "mission_done" => Trained(e[2])'
    BY <1>1, <2>1 DEF CampInv, Backed
  <2>3. \A e \in ledger' : e[1] = "session" => e[2] \in DOMAIN trained' /\ trained'[e[2]].paid
    BY <1>1, <1>3 DEF CampInv, Backed
  <2>4. \A r \in Training : trainee'[r].at = "recorded" /\ trainee'[r].paid =>
          trainee'[r].seen \in DOMAIN trained' /\ trained'[trainee'[r].seen].paid
    BY <1>0, <1>1, <1>2, <1>3, <1>4 DEF CampInv, Backed
  <2> QED
    BY <2>2, <2>3, <2>4 DEF Backed, Trained
<1>7. ASSUME ~crowded PROVE JudgedByAll' /\ CountedOnce' /\ CapIsKept'
  <2>0. JudgedByAll /\ CountedOnce /\ CapIsKept
    BY <1>7 DEF CampInv
  <2>1. JudgedByAll'
    <3>1. \A r \in Training \ {q} : trainee'[r] = trainee[r] /\ trainee[r].at \notin UploadStages
      BY <1>0, <1>1, <2>0 DEF JudgedByAll, UploadStages
    <3>2. trainee'[q] = t
      BY <1>0, <1>1
    <3> QED
      BY <1>4, <3>1, <3>2 DEF JudgedByAll, UploadStages
  <2>2. CountedOnce'
    <3>1. x.verdict = "counted" => \A s \in DOMAIN trained : trained[s].clip # x.clip
      BY <1>1, <2>0 DEF JudgedByAll
    <3> QED
      BY <1>2, <1>3, <2>0, <3>1 DEF CountedOnce
  <2>3. CapIsKept'
    <3> SUFFICES ASSUME NEW d \in 1..date PROVE Cardinality(PaidOn(d)') <= DailyCap
      BY <1>1 DEF CapIsKept, PaidOn
    <3>1. /\ Cardinality(PaidOn(d)) \in Nat
          /\ Cardinality(PaidOn(d)') =
               Cardinality(PaidOn(d)) + IF new.paid /\ new.on = d THEN 1 ELSE 0
      BY <1>0, <1>1, <1>2, OneMoreSession
    <3>2. Cardinality(PaidOn(d)) <= DailyCap
      BY <2>0 DEF CapIsKept, PaidOn
    <3>3. x.paid => Cardinality(PaidOn(date)) < DailyCap
      BY <1>1, <2>0 DEF JudgedByAll
    <3> QED
      BY <1>2, <3>1, <3>2, <3>3, CampAssumption
  <2> QED
    BY <2>1, <2>2, <2>3
<1> QED
  BY <1>1, <1>5, <1>6, <1>7 DEF CampInv

\* At midnight nothing is trained yet.
LEMMA MidnightKeepsCamp ==
    ASSUME CampInv, Midnight
    PROVE  CampInv'
<1>0. CampTypes /\ date \in Nat /\ date' = date + 1 /\ trained \in Seq(Session)
      /\ UNCHANGED <<items, trained, ledger, trainee, crowded>>
  BY DEF CampInv, CampTypes, Midnight
<1>1. CampTypes'
  <2>1. ASSUME NEW s \in DOMAIN trained PROVE trained[s].on <= date + 1
    <3>1. trained[s] \in Session /\ trained[s].on <= date
      BY <1>0 DEF CampTypes
    <3>2. trained[s].on \in Nat
      BY <3>1 DEF Session
    <3> QED
      BY <1>0, <3>1, <3>2
  <2> QED
    BY <1>0, <2>1 DEF CampTypes
<1>2. Backed'
  BY <1>0 DEF CampInv, Backed, Trained
<1>3. PaidOn(date + 1) = {}
  BY <1>0 DEF CampTypes, PaidOn, Session
<1>4. ASSUME ~crowded PROVE JudgedByAll' /\ CountedOnce' /\ CapIsKept'
  <2>1. Cardinality(PaidOn(date + 1)) = 0
    BY <1>3, FS_EmptySet
  <2>2. \A d : PaidOn(d)' = PaidOn(d)
    BY <1>0 DEF PaidOn
  <2>3. CapIsKept'
    <3> SUFFICES ASSUME NEW d \in 1..(date + 1) PROVE Cardinality(PaidOn(d)) <= DailyCap
      BY <1>0 DEF CapIsKept, PaidOn
    <3>1. CASE d = date + 1
      BY <2>1, <3>1, CampAssumption
    <3>2. CASE d \in 1..date
      BY <1>4, <3>2 DEF CampInv, CapIsKept, PaidOn
    <3> QED
      BY <1>0, <3>1, <3>2
  <2>4. JudgedByAll' /\ CountedOnce'
    <3>1. Cardinality(PaidOn(date)') < DailyCap
      BY <1>0, <2>1, <2>2, CampAssumption DEF PaidOn
    <3> QED
      BY <1>0, <1>4, <3>1 DEF CampInv, JudgedByAll, CountedOnce
  <2> QED
    BY <2>3, <2>4
<1> QED
  BY <1>0, <1>1, <1>2, <1>4 DEF CampInv

\* "Ticking a box alone earns nothing": every entry of the ledger has a counted
\* session behind it, and unless two uploads overlapped a clip counts once and a
\* day pays no more than its cap, for any number of handlers, items and clips.
THEOREM PointsAreEarnedByTraining == CampSpec => []PointsAreEarned
<1>1. CampInit => CampInv
  <2> SUFFICES ASSUME CampInit PROVE CampInv
    OBVIOUS
  <2>1. CampTypes /\ DOMAIN trained = {}
    BY RestingIsIdle DEF CampInit, CampTypes, UploadStages
  <2>2. Backed /\ JudgedByAll /\ CountedOnce
    BY <2>1, RestingIsIdle DEF CampInit, Backed, JudgedByAll, CountedOnce, UploadStages
  <2>3. CapIsKept
    <3>1. \A d : {s \in DOMAIN trained : trained[s].paid /\ trained[s].on = d} = {}
      BY <2>1
    <3> QED
      BY <3>1, FS_EmptySet, CampAssumption DEF CapIsKept
  <2> QED
    BY <2>1, <2>2, <2>3 DEF CampInv
<1>2. CampInv /\ [CampNext]_campVars => CampInv'
  <2> SUFFICES ASSUME CampInv, [CampNext]_campVars PROVE CampInv'
    OBVIOUS
  <2>1. CASE UNCHANGED campVars
    BY <2>1 DEF campVars, CampInv, CampTypes, Backed, Trained, JudgedByAll, CountedOnce,
       CapIsKept, PaidOn
  <2>2. CASE AddsItem
    <3>1. items' \in Seq({"active", "complete"}) /\ UNCHANGED <<trained, ledger, trainee, date, crowded>>
      BY <2>2 DEF AddsItem, CampInv, CampTypes
    <3> QED
      BY <3>1 DEF CampInv, CampTypes, Backed, Trained, JudgedByAll, CountedOnce, CapIsKept, PaidOn
  <2>3. CASE CampNext /\ ~AddsItem
    BY <2>3, ItemsKeepCamp, PayingKeepsCamp, FilingKeepsCamp, JudgingKeepsCamp,
       RecordingKeepsCamp, MidnightKeepsCamp DEF CampNext
  <2> QED
    BY <2>1, <2>2, <2>3
<1>3. CampInv => PointsAreEarned
  BY DEF CampInv, Backed, PointsAreEarned
<1> QED
  BY <1>1, <1>2, <1>3, PTL DEF CampSpec

-----------------------------------------------------------------------------
(* The accounts.                                                           *)

Doing == {"issue", "link", "reset", "rehash", "delete"}

\* Ids are given out in order, and nothing is about an account still to come.
AccountTypes ==
    /\ created \in 0..MaxAccounts
    /\ accounts \in [Ids -> Row \cup {None}]
    /\ \A a \in Ids : Known(a) => a <= created
    /\ identities \in [Identities -> [account : Ids, late : BOOLEAN] \cup {None}]
    /\ \A i \in Identities : identities[i] # None => identities[i].account <= created
    /\ links \subseteq Link /\ \A l \in links : l.account <= created
    /\ \A s \in sessions : s.account \in Ids
    /\ DOMAIN flight = Browsers
    /\ \A b \in Browsers : flight[b].do \in Doing => flight[b].account \in 1..created
    /\ \A b \in Browsers : flight[b].do = "link" => flight[b].identity \in Vouched

\* In these rows the account still has the address e, or proved the one it has.
Owns(rows, shown, a, e) ==
    rows[a] # None => rows[a].email = e \/ <<a, rows[a].email>> \in shown

\* What will verify an account later was for an address it then had.
VerifiesItsOwn ==
    /\ \A l \in links : l.kind = "verify" => Owns(accounts, proven, l.account, l.to)
    /\ \A i \in Vouched : identities[i] # None => Owns(accounts, proven, identities[i].account, AddressOf[i])
    /\ \A b \in Browsers : flight[b].do = "link" =>
         Owns(accounts, proven, flight[b].account, AddressOf[flight[b].identity])

AccountsInv ==
    /\ AccountTypes /\ VerifiesItsOwn
    /\ OldCredentialsAreOut /\ VerifiedOwnsItsAddress /\ DeletedAccountIsGone

\* What a step may do: a row is new, goes, or keeps its address or proves
\* another; links and identities are of the accounts there are, and a session of
\* one as it is now.
LEMMA StepKeepsAccounts ==
    ASSUME AccountsInv, AccountTypes', proven \subseteq proven',
           OldCredentialsAreOut', VerifiedOwnsItsAddress',
           \A a \in Ids : accounts'[a] # None =>
             \/ a > created
             \/ Known(a) /\ \/ accounts'[a].email = accounts[a].email
                            \/ <<a, accounts'[a].email>> \in proven',
           \A l \in links' :
             /\ accounts'[l.account] # None
             /\ l \in links \/ (l.kind = "verify" => l.to = accounts'[l.account].email),
           \A i \in Identities : identities'[i] # None =>
             \/ /\ identities'[i] = identities[i]
                /\ accounts'[identities[i].account] # None \/ ~Known(identities[i].account)
             \/ /\ identities'[i].late \/ accounts'[identities'[i].account] # None
                /\ i \in Vouched => Owns(accounts', proven', identities'[i].account, AddressOf[i]),
           \A b \in Browsers : flight'[b].do = "link" =>
             flight'[b] = flight[b] \/ Owns(accounts', proven', flight'[b].account, AddressOf[flight'[b].identity])
    PROVE  AccountsInv'
<1>0. /\ AccountTypes /\ VerifiesItsOwn /\ DeletedAccountIsGone /\ created \in Nat
      /\ \A l \in links : l.account \in 1..created
      /\ \A i \in Identities : identities[i] # None => identities[i].account \in 1..created
      /\ \A b \in Browsers : flight[b].do = "link" => flight[b].account \in 1..created
  BY AccountsAssumption DEF AccountsInv, AccountTypes, Link, Ids, Doing
<1>1. \A a \in 1..created : \A e : Owns(accounts, proven, a, e) => Owns(accounts', proven', a, e)
  <2> SUFFICES ASSUME NEW a \in 1..created, NEW e, Owns(accounts, proven, a, e),
                      accounts'[a] # None
               PROVE  accounts'[a].email = e \/ <<a, accounts'[a].email>> \in proven'
    BY DEF Owns
  <2>1. a \in Ids /\ ~(a > created)
    BY <1>0, AccountsAssumption DEF AccountTypes, Ids
  <2>2. /\ accounts[a] # None
        /\ \/ accounts'[a].email = accounts[a].email
           \/ <<a, accounts'[a].email>> \in proven'
    BY <2>1 DEF Known
  <2> QED
    BY <2>2 DEF Owns
<1>2. VerifiesItsOwn'
  <2>1. \A l \in links' : l.kind = "verify" => Owns(accounts', proven', l.account, l.to)
    BY <1>0, <1>1 DEF VerifiesItsOwn, Owns
  <2>2. \A i \in Vouched : identities'[i] # None => Owns(accounts', proven', identities'[i].account, AddressOf[i])
    BY <1>0, <1>1, AccountsAssumption DEF VerifiesItsOwn
  <2>3. \A b \in Browsers : flight'[b].do = "link" =>
          Owns(accounts', proven', flight'[b].account, AddressOf[flight'[b].identity])
    BY <1>0, <1>1 DEF VerifiesItsOwn
  <2> QED
    BY <2>1, <2>2, <2>3 DEF VerifiesItsOwn, Owns, Known
<1>3. DeletedAccountIsGone'
  <2> SUFFICES ASSUME NEW a \in Ids, accounts'[a] = None
               PROVE  /\ ~\E l \in links' : l.account = a
                      /\ \A s \in sessions' : s.account = a => s.late
                      /\ \A i \in Identities :
                           identities'[i] # None /\ identities'[i].account = a
                             => identities'[i].late
    BY DEF DeletedAccountIsGone, Known, LinksOf, SessionsOf, Bound
  <2>1. \A s \in sessions' : s.account = a => s.late
    BY DEF OldCredentialsAreOut, Active, Known
  <2>2. \A i \in Identities :
          identities'[i] # None /\ identities'[i].account = a => identities'[i].late
    <3> SUFFICES ASSUME NEW i \in Identities, identities'[i] # None, identities'[i].account = a
                 PROVE  identities'[i].late
      OBVIOUS
    <3>1. CASE identities'[i].late
      BY <3>1
    <3>2. CASE identities'[i] = identities[i] /\ ~Known(a)
      BY <1>0, <3>2 DEF DeletedAccountIsGone, Bound
    <3> QED
      BY <3>1, <3>2
  <2> QED
    BY <2>1, <2>2 DEF Known
<1> QED
  BY <1>2, <1>3 DEF AccountsInv

\* Handlers that read the rows: they start another step, or write a session, a
\* link or nothing.
LEMMA ReadersKeepAccounts ==
    ASSUME AccountsInv, UNCHANGED <<accounts, created, identities, proven>>,
           \A s \in sessions' : s \in sessions \/
             /\ s.account \in Ids
             /\ s.late \/ (Active(s.account) /\ s.gen = accounts[s.account].gen),
           \A l \in links' : l \in links \/
             /\ l \in Link /\ Known(l.account)
             /\ l.kind = "verify" => l.to = accounts[l.account].email,
           DOMAIN flight' = Browsers,
           \A b \in Browsers : flight'[b] = flight[b] \/
             /\ flight'[b].do \in Doing => flight'[b].account \in 1..created
             /\ flight'[b].do = "link" =>
                  /\ flight'[b].identity \in Vouched
                  /\ Owns(accounts, proven, flight'[b].account, AddressOf[flight'[b].identity])
    PROVE  AccountsInv'
<1>0. AccountTypes /\ created \in Nat
  BY AccountsAssumption DEF AccountsInv, AccountTypes
<1>1. AccountTypes'
  <2>1. links' \subseteq Link /\ \A l \in links' : l.account <= created
    BY <1>0 DEF AccountTypes, Link, Known
  <2>2. \A s \in sessions' : s.account \in Ids
    BY <1>0 DEF AccountTypes
  <2>3. /\ \A b \in Browsers : flight'[b].do \in Doing => flight'[b].account \in 1..created
        /\ \A b \in Browsers : flight'[b].do = "link" => flight'[b].identity \in Vouched
    BY <1>0 DEF AccountTypes
  <2> QED
    BY <1>0, <2>1, <2>2, <2>3 DEF AccountTypes, Known
<1>2. OldCredentialsAreOut' /\ VerifiedOwnsItsAddress'
  BY DEF AccountsInv, OldCredentialsAreOut, VerifiedOwnsItsAddress, Active, Known
<1>3. \A l \in links : Known(l.account)
  BY <1>0 DEF AccountsInv, DeletedAccountIsGone, LinksOf, AccountTypes, Link
<1> QED
  BY <1>0, <1>1, <1>2, <1>3, StepKeepsAccounts DEF Known, AccountTypes

\* Who sent the request has an account that may sign in.
LEMMA ViewersAreKnown ==
    ASSUME AccountTypes, NEW b \in Browsers, NEW a \in Viewer(b)
    PROVE  a \in 1..created /\ a \in Ids /\ Active(a) /\ created \in Nat
BY AccountsAssumption DEF Viewer, AccountTypes, Ids, Active

\* Signing in and out, and sessions that end.
LEMMA SessionsKeepAccounts ==
    ASSUME AccountsInv,
           \/ \E b \in Browsers : \/ Issue(b) \/ Logout(b) \/ RevokesOthers(b)
                               \/ \E a \in Ids : Login(b, a)
           \/ \E s \in sessions : Expires(s)
    PROVE  AccountsInv'
<1>0. AccountTypes /\ DOMAIN flight = Browsers /\ created \in Nat
  BY AccountsAssumption DEF AccountsInv, AccountTypes
<1>1. ASSUME NEW b \in Browsers, Issue(b) PROVE AccountsInv'
  <2>1. flight[b].account \in Ids
    BY <1>0, <1>1, AccountsAssumption DEF Issue, At, AccountTypes, Doing, Ids
  <2>2. \A s \in sessions' : s \in sessions \/
          /\ s.account \in Ids
          /\ s.late \/ (Active(s.account) /\ s.gen = accounts[s.account].gen)
    <3> DEFINE a == flight[b].account
               late == ~Active(a) \/ (Known(a) /\ accounts[a].gen # flight[b].gen)
               new == [token |-> Min(Fresh), account |-> a, gen |-> flight[b].gen, late |-> late]
    <3>1. sessions' = sessions \cup {new}
      BY <1>1 DEF Issue, IssueSession
    <3>2. new.account = a /\ new.gen = flight[b].gen /\ new.late = late
      OBVIOUS
    <3> HIDE DEF new
    <3>3. new.late \/ (Active(a) /\ new.gen = accounts[a].gen)
      BY <3>2 DEF Active
    <3> QED
      BY <2>1, <3>1, <3>2, <3>3
  <2>3. /\ DOMAIN flight' = Browsers
        /\ \A c \in Browsers : flight'[c] = flight[c] \/ flight'[c].do \notin Doing
    BY <1>0, <1>1 DEF Issue, Ends, Idle, Doing
  <2>4. "link" \in Doing
    BY DEF Doing
  <2> QED
    BY <1>1, <2>2, <2>3, <2>4, ReadersKeepAccounts DEF Issue
<1>2. ASSUME NEW b \in Browsers, NEW a \in Ids, Login(b, a) PROVE AccountsInv'
  <2>1. a \in 1..created
    BY <1>0, <1>2 DEF Login, MayLogIn, Active, AccountTypes, Ids
  <2>2. /\ DOMAIN flight' = Browsers
        /\ \A c \in Browsers : flight'[c] = flight[c] \/
             (flight'[c].account \in 1..created /\ flight'[c].do # "link")
    BY <1>0, <1>2, <2>1 DEF Login, Starts
  <2> QED
    BY <1>2, <2>2, ReadersKeepAccounts DEF Login
<1>3. ASSUME UNCHANGED <<accounts, created, identities, links, flight, proven>>,
             sessions' \subseteq sessions
      PROVE  AccountsInv'
  BY <1>0, <1>3, ReadersKeepAccounts
<1> QED
  BY <1>1, <1>2, <1>3 DEF Logout, RevokesOthers, Expires

\* A link is mailed to the address of the account, or to the one it is to have.
LEMMA MailingKeepsAccounts ==
    ASSUME AccountsInv,
           \/ \E a \in Ids : AsksForReset(a) \/ AsksForVerification(a)
           \/ \E b \in Browsers, e \in Emails : AsksForChange(b, e)
           \/ \E l \in links : LinkExpires(l) \/ \E b \in Browsers : OpensReset(b, l)
    PROVE  AccountsInv'
<1>0. /\ AccountTypes /\ DOMAIN flight = Browsers /\ created \in Nat
      /\ \A a \in Ids : Known(a) => accounts[a].email \in Emails
  BY AccountsAssumption DEF AccountsInv, AccountTypes, Known, Row
<1>1. ASSUME NEW kind \in {"reset", "verify", "change"}, NEW a \in Ids, NEW e \in Emails,
             SendLink(kind, a, e), Known(a), kind = "verify" => e = accounts[a].email,
             UNCHANGED <<accounts, created, identities, sessions, proven, flight>>
      PROVE  AccountsInv'
  <2>1. \A l \in links' : l \in links \/
          /\ l \in Link /\ Known(l.account)
          /\ l.kind = "verify" => l.to = accounts[l.account].email
    BY <1>1 DEF SendLink, Replaced, Link
  <2> QED
    BY <1>0, <1>1, <2>1, ReadersKeepAccounts
<1>2. ASSUME NEW a \in Ids, AsksForReset(a) \/ AsksForVerification(a) PROVE AccountsInv'
  BY <1>0, <1>1, <1>2 DEF AsksForReset, AsksForVerification, Active
<1>3. ASSUME NEW b \in Browsers, NEW e \in Emails, AsksForChange(b, e) PROVE AccountsInv'
  BY <1>0, <1>1, <1>3, ViewersAreKnown DEF AsksForChange, Active
<1>4. ASSUME NEW l \in links, LinkExpires(l) PROVE AccountsInv'
  BY <1>0, <1>4, ReadersKeepAccounts DEF LinkExpires
<1>5. ASSUME NEW l \in links, NEW b \in Browsers, OpensReset(b, l) PROVE AccountsInv'
  <2>1. l.account \in 1..created
    BY <1>0 DEF AccountTypes, Link, Ids
  <2>2. /\ DOMAIN flight' = Browsers
        /\ \A c \in Browsers : flight'[c] = flight[c] \/
             (flight'[c].account \in 1..created /\ flight'[c].do # "link")
    BY <1>0, <1>5, <2>1 DEF OpensReset, Starts
  <2> QED
    BY <1>5, <2>2, ReadersKeepAccounts DEF OpensReset
<1> QED
  BY <1>2, <1>3, <1>4, <1>5

\* The first half of a handler that writes the account later.
LEMMA AskingKeepsAccounts ==
    ASSUME AccountsInv, NEW b \in Browsers,
           \/ ChecksPassword(b) \/ AsksToDelete(b)
           \/ \E i \in Identities : SocialFinds(b, i)
    PROVE  AccountsInv'
<1>0. /\ AccountTypes /\ DOMAIN flight = Browsers /\ created \in Nat
  BY AccountsAssumption DEF AccountsInv, AccountTypes
<1>1. CASE ChecksPassword(b) \/ AsksToDelete(b)
  <2>1. /\ DOMAIN flight' = Browsers
        /\ \A c \in Browsers : flight'[c] = flight[c] \/
             (flight'[c].account \in 1..created /\ flight'[c].do # "link")
    BY <1>0, <1>1, ViewersAreKnown DEF ChecksPassword, AsksToDelete, Starts
  <2> QED
    BY <1>1, <2>1, ReadersKeepAccounts DEF ChecksPassword, AsksToDelete
<1>2. ASSUME NEW i \in Identities, SocialFinds(b, i) PROVE AccountsInv'
  <2>1. PICK a \in ByEmail(AddressOf[i]) :
          /\ Active(a) /\ i \in Vouched
          /\ flight' = [flight EXCEPT ![b] = [do |-> "link", account |-> a, identity |-> i]]
    BY <1>2 DEF SocialFinds, Starts
  <2>2. a \in 1..created /\ accounts[a].email = AddressOf[i]
    BY <1>0, <2>1 DEF ByEmail, AccountTypes, Ids
  <2>3. /\ DOMAIN flight' = Browsers
        /\ \A c \in Browsers : flight'[c] = flight[c] \/
             /\ flight'[c].account \in 1..created /\ flight'[c].identity \in Vouched
             /\ Owns(accounts, proven, flight'[c].account, AddressOf[flight'[c].identity])
    BY <1>0, <2>1, <2>2 DEF Owns
  <2> QED
    BY <1>2, <2>3, ReadersKeepAccounts DEF SocialFinds
<1> QED
  BY <1>1, <1>2

\* A provider's sign-in: what it vouches for is marked verified, and proved.
LEMMA GreetingKeepsAccounts ==
    ASSUME AccountsInv, NEW b \in Browsers, NEW i \in Identities, NEW a \in 1..created,
           Active(a), i \in Vouched => Owns(accounts, proven, a, AddressOf[i]),
           Greet(b, i, a, accounts), UNCHANGED <<created, sessions>>,
           identities' \in {identities, [identities EXCEPT ![i] = [account |-> a, late |-> FALSE]]}
    PROVE  AccountsInv'
<1> DEFINE verified == accounts[a].verified \/ i \in Vouched
<1>0. /\ AccountTypes /\ DOMAIN flight = Browsers /\ created \in Nat /\ a \in Ids
      /\ accounts[a] \in Row /\ accounts[a].verified \in BOOLEAN /\ accounts[a].email \in Emails
      /\ accounts[a].status = "active"
  BY AccountsAssumption DEF AccountsInv, AccountTypes, Known, Active, Row, Ids
<1>1. /\ accounts' = [accounts EXCEPT ![a].verified = verified]
      /\ proven' = IF i \in Vouched THEN proven \cup {<<a, AddressOf[i]>>} ELSE proven
      /\ \/ SendLink("verify", a, accounts[a].email) /\ Ends(b)
         \/ /\ flight' = [flight EXCEPT ![b] =
                 [do |-> "issue", account |-> a, gen |-> accounts[a].gen]]
            /\ links' = links
  BY DEF Greet, MarkVerified
<1>2. /\ accounts'[a] \in Row /\ accounts'[a].email = accounts[a].email
      /\ accounts'[a].verified = verified /\ accounts'[a].gen = accounts[a].gen
      /\ accounts'[a].status = "active"
      /\ \A c \in Ids \ {a} : accounts'[c] = accounts[c]
      /\ accounts' \in [Ids -> Row \cup {None}] /\ accounts'[a] # None
  <2>1. \A v \in BOOLEAN :
          LET x == [accounts[a] EXCEPT !.verified = v]
          IN  /\ x \in Row /\ x.verified = v /\ x.email = accounts[a].email
              /\ x.gen = accounts[a].gen /\ x.status = accounts[a].status
    BY <1>0 DEF Row
  <2>2. verified \in BOOLEAN /\ DOMAIN accounts = Ids
    BY <1>0 DEF AccountTypes
  <2> HIDE DEF verified
  <2>3. /\ accounts'[a] = [accounts[a] EXCEPT !.verified = verified]
        /\ \A c \in Ids \ {a} : accounts'[c] = accounts[c]
        /\ DOMAIN accounts' = Ids /\ accounts' = [c \in Ids |-> accounts'[c]]
    BY <1>0, <1>1, <2>2
  <2>4. accounts'[a] \in Row
    BY <2>1, <2>2, <2>3
  <2>5. accounts' \in [Ids -> Row \cup {None}]
    BY <1>0, <2>3, <2>4 DEF AccountTypes
  <2> QED
    BY <1>0, <2>1, <2>2, <2>3, <2>4, <2>5, RowsAssumption
<1> HIDE DEF verified
<1>3. \A l \in links' : l \in links \/ (l \in Link /\ l.account = a /\ l.to = accounts[a].email)
  BY <1>0, <1>1 DEF SendLink, Link
<1>4. /\ DOMAIN flight' = Browsers
      /\ \A c \in Browsers : flight'[c] = flight[c] \/
           (flight'[c].do # "link" /\ (flight'[c].do \in Doing => flight'[c].account = a))
  <2>1. Idle.do = "nothing" /\ "nothing" \notin Doing
    BY DEF Idle, Doing
  <2> QED
    BY <1>0, <1>1, <2>1 DEF Ends
<1>5. \A j \in Identities : identities'[j] = identities[j] \/
        (j = i /\ identities'[j] \in [account : Ids, late : BOOLEAN] /\ identities'[j].account = a)
  <2> DEFINE new == [account |-> a, late |-> FALSE]
  <2>1. new \in [account : Ids, late : BOOLEAN] /\ new.account = a
    BY <1>0
  <2> HIDE DEF new
  <2>2. CASE identities' = [identities EXCEPT ![i] = new]
    BY <1>0, <2>1, <2>2 DEF AccountTypes
  <2> QED
    BY <2>2 DEF new
<1>6. AccountTypes'
  <2>1. links' \subseteq Link /\ \A l \in links' : l.account <= created
    BY <1>0, <1>3 DEF AccountTypes
  <2>2. /\ identities' \in [Identities -> [account : Ids, late : BOOLEAN] \cup {None}]
        /\ \A j \in Identities : identities'[j] # None => identities'[j].account <= created
    BY <1>0, <1>5 DEF AccountTypes
  <2>3. \A c \in Ids : accounts'[c] # None => c <= created
    BY <1>0, <1>2 DEF AccountTypes, Known
  <2>4. \A c \in Browsers :
          /\ flight'[c].do \in Doing => flight'[c].account \in 1..created
          /\ flight'[c].do = "link" => flight'[c].identity \in Vouched
    BY <1>0, <1>4 DEF AccountTypes
  <2> QED
    BY <1>0, <1>2, <1>4, <2>1, <2>2, <2>3, <2>4 DEF AccountTypes, Known
<1>7. OldCredentialsAreOut'
  BY <1>0, <1>2 DEF AccountsInv, AccountTypes, OldCredentialsAreOut, Active, Known
<1>8. VerifiedOwnsItsAddress'
  <2> SUFFICES ASSUME Strict, NEW c \in Ids, accounts'[c] # None, accounts'[c].verified
               PROVE  <<c, accounts'[c].email>> \in proven'
    BY DEF VerifiedOwnsItsAddress, Known
  <2>1. accounts[c] # None /\ accounts'[c].email = accounts[c].email
    BY <1>0, <1>2 DEF Active, Known
  <2>2. CASE accounts[c].verified
    BY <1>1, <2>1, <2>2 DEF AccountsInv, VerifiedOwnsItsAddress, Known
  <2>3. CASE c = a /\ i \in Vouched
    BY <1>1, <2>1, <2>3 DEF Owns
  <2> QED
    BY <1>2, <2>2, <2>3 DEF verified
<1>9. \A l \in links : Known(l.account) /\ l.account \in Ids
  BY <1>0 DEF AccountsInv, DeletedAccountIsGone, LinksOf, AccountTypes, Link
<1>10. \A c \in Ids : Known(c) => accounts'[c] # None /\ accounts'[c].email = accounts[c].email
  BY <1>2 DEF Known
<1>11. i \in Vouched => Owns(accounts', proven', a, AddressOf[i])
  BY <1>0, <1>1, <1>2 DEF Owns, Active, Known
<1>12. /\ \A c \in Ids : accounts'[c] # None => Known(c)
       /\ \A l \in links' : accounts'[l.account] # None /\
            (l \in links \/ l.to = accounts'[l.account].email)
  BY <1>0, <1>2, <1>3, <1>9, <1>10 DEF Active, Known
<1>13. \A j \in Identities : identities'[j] # None =>
          \/ /\ identities'[j] = identities[j]
             /\ accounts'[identities[j].account] # None \/ ~Known(identities[j].account)
          \/ /\ accounts'[identities'[j].account] # None
             /\ j \in Vouched => Owns(accounts', proven', identities'[j].account, AddressOf[j])
  <2> SUFFICES ASSUME NEW j \in Identities, identities'[j] # None
               PROVE  \/ /\ identities'[j] = identities[j]
                         /\ accounts'[identities[j].account] # None \/ ~Known(identities[j].account)
                      \/ /\ accounts'[identities'[j].account] # None
                         /\ j \in Vouched => Owns(accounts', proven', identities'[j].account, AddressOf[j])
    OBVIOUS
  <2>1. CASE identities'[j] = identities[j]
    <3>1. identities[j].account \in Ids
      BY <1>0, <2>1 DEF AccountTypes
    <3> QED
      BY <1>10, <2>1, <3>1
  <2>2. CASE j = i /\ identities'[j].account = a
    BY <1>2, <1>11, <2>2
  <2> QED
    BY <1>5, <2>1, <2>2
<1> QED
  BY <1>1, <1>4, <1>6, <1>7, <1>8, <1>10, <1>12, <1>13, StepKeepsAccounts

\* A new row, of the next id, about which there was nothing.
LEMMA InsertingKeepsAccounts ==
    ASSUME AccountsInv, created < MaxAccounts, NEW n, n = created + 1, NEW x \in Row,
           accounts' = [accounts EXCEPT ![n] = x], created' = n,
           UNCHANGED sessions, proven \subseteq proven',
           Strict /\ x.verified => <<n, x.email>> \in proven',
           \A l \in links' : l \in links \/ (l \in Link /\ l.account = n /\ l.to = x.email),
           identities' \in [Identities -> [account : Ids, late : BOOLEAN] \cup {None}],
           \A j \in Identities : identities'[j] = identities[j] \/
             (identities'[j].account = n /\ (j \in Vouched => AddressOf[j] = x.email)),
           DOMAIN flight' = Browsers,
           \A c \in Browsers : flight'[c] = flight[c] \/
             (flight'[c].do # "link" /\ (flight'[c].do \in Doing => flight'[c].account = n))
    PROVE  AccountsInv'
<1>0. /\ AccountTypes /\ created \in Nat /\ n \in Ids /\ n \in Nat /\ ~Known(n)
      /\ \A l \in links : Known(l.account) /\ l.account \in Ids
  <2>1. AccountTypes /\ created \in Nat /\ n \in Ids /\ n \in Nat
    BY AccountsAssumption DEF AccountsInv, AccountTypes, Ids
  <2>2. ~Known(n)
    BY <2>1 DEF AccountTypes
  <2>3. \A l \in links : Known(l.account) /\ l.account \in Ids
    BY <2>1 DEF AccountsInv, DeletedAccountIsGone, LinksOf, AccountTypes, Link
  <2> QED
    BY <2>1, <2>2, <2>3
<1>1. /\ accounts'[n] = x /\ x # None /\ \A a \in Ids \ {n} : accounts'[a] = accounts[a]
      /\ accounts' \in [Ids -> Row \cup {None}]
  BY <1>0, RowsAssumption DEF AccountTypes
<1>2. AccountTypes'
  <2>1. \A a \in Ids : accounts'[a] # None => a <= created'
    BY <1>0, <1>1 DEF AccountTypes, Known, Ids
  <2>2. /\ links' \subseteq Link /\ \A l \in links' : l.account <= created'
    BY <1>0 DEF AccountTypes, Link, Ids
  <2>3. \A j \in Identities : identities'[j] # None => identities'[j].account <= created'
    <3>1. \A j \in Identities : identities[j] # None => identities[j].account \in Ids
      BY <1>0 DEF AccountTypes
    <3> QED
      BY <1>0, <3>1 DEF AccountTypes, Ids
  <2>4. \A c \in Browsers :
          /\ flight'[c].do \in Doing => flight'[c].account \in 1..created'
          /\ flight'[c].do = "link" => flight'[c].identity \in Vouched
    BY <1>0 DEF AccountTypes
  <2>5. created' \in 0..MaxAccounts
    BY <1>0, AccountsAssumption
  <2> QED
    BY <1>0, <1>1, <2>1, <2>2, <2>3, <2>4, <2>5 DEF AccountTypes, Known
<1>3. OldCredentialsAreOut'
  BY <1>0, <1>1 DEF AccountsInv, AccountTypes, OldCredentialsAreOut, Active, Known
<1>4. VerifiedOwnsItsAddress'
  BY <1>0, <1>1 DEF AccountsInv, VerifiedOwnsItsAddress, Known
<1>5. \A a \in Ids : accounts'[a] # None =>
        a > created \/ (Known(a) /\ accounts'[a].email = accounts[a].email)
  BY <1>0, <1>1 DEF Known
<1>6. \A l \in links' : accounts'[l.account] # None /\
        (l \in links \/ l.to = accounts'[l.account].email)
  BY <1>0, <1>1 DEF Known
<1>7. ASSUME NEW j \in Identities, identities'[j] # None
      PROVE  \/ /\ identities'[j] = identities[j]
                /\ accounts'[identities[j].account] # None \/ ~Known(identities[j].account)
             \/ /\ accounts'[identities'[j].account] # None
                /\ j \in Vouched => Owns(accounts', proven', identities'[j].account, AddressOf[j])
  <2>1. CASE identities'[j] = identities[j]
    <3>1. identities[j].account \in Ids
      BY <1>0, <1>7, <2>1 DEF AccountTypes
    <3> QED
      BY <1>0, <1>1, <2>1, <3>1 DEF Known
  <2>2. CASE identities'[j].account = n /\ (j \in Vouched => AddressOf[j] = x.email)
    BY <1>1, <2>2 DEF Owns
  <2> QED
    BY <2>1, <2>2
<1> QED
  BY <1>2, <1>3, <1>4, <1>5, <1>6, <1>7, StepKeepsAccounts

\* The row of an account there is changes: its address with a proof of the new
\* one, and what its sessions were opened with when they end.
LEMMA ChangingKeepsAccounts ==
    ASSUME AccountsInv, NEW a \in Ids, Known(a), NEW x \in Row,
           accounts' = [accounts EXCEPT ![a] = x], UNCHANGED <<created, identities>>,
           proven \subseteq proven', links' \subseteq links, sessions' \subseteq sessions,
           \/ /\ accounts[a].status = "active" => x.status = "active"
              /\ x.gen = accounts[a].gen
           \/ \A s \in sessions' : s.account # a,
           x.email = accounts[a].email \/ <<a, x.email>> \in proven',
           Strict /\ x.verified => <<a, x.email>> \in proven',
           DOMAIN flight' = Browsers,
           \A c \in Browsers : flight'[c] = flight[c] \/
             (flight'[c].do # "link" /\ (flight'[c].do \in Doing => flight'[c].account \in 1..created))
    PROVE  AccountsInv'
<1>0. /\ AccountTypes /\ created \in Nat
      /\ \A l \in links : Known(l.account) /\ l.account \in Ids
  <2>1. AccountTypes /\ created \in Nat
    BY AccountsAssumption DEF AccountsInv, AccountTypes
  <2> QED
    BY <2>1 DEF AccountsInv, DeletedAccountIsGone, LinksOf, AccountTypes, Link
<1>1. /\ accounts'[a] = x /\ x # None /\ \A c \in Ids \ {a} : accounts'[c] = accounts[c]
      /\ accounts' \in [Ids -> Row \cup {None}]
  BY <1>0, RowsAssumption DEF AccountTypes
<1>2. AccountTypes'
  <2>1. \A c \in Ids : accounts'[c] # None => c <= created
    BY <1>0, <1>1 DEF AccountTypes, Known
  <2>2. \A c \in Browsers :
          /\ flight'[c].do \in Doing => flight'[c].account \in 1..created
          /\ flight'[c].do = "link" => flight'[c].identity \in Vouched
    BY <1>0 DEF AccountTypes
  <2>3. links' \subseteq Link /\ \A l \in links' : l.account <= created
    BY <1>0 DEF AccountTypes
  <2>4. \A s \in sessions' : s.account \in Ids
    BY <1>0 DEF AccountTypes
  <2> QED
    BY <1>0, <1>1, <2>1, <2>2, <2>3, <2>4 DEF AccountTypes, Known
<1>3. OldCredentialsAreOut'
  BY <1>0, <1>1 DEF AccountsInv, AccountTypes, OldCredentialsAreOut, Active, Known
<1>4. VerifiedOwnsItsAddress'
  BY <1>0, <1>1 DEF AccountsInv, VerifiedOwnsItsAddress, Known
<1>5. \A c \in Ids : accounts'[c] # None =>
        Known(c) /\ (accounts'[c].email = accounts[c].email \/ <<c, accounts'[c].email>> \in proven')
  BY <1>1 DEF Known
<1>6. \A l \in links' : accounts'[l.account] # None /\ l \in links
  BY <1>0, <1>1 DEF Known
<1>7. \A j \in Identities : identities'[j] # None =>
        /\ identities'[j] = identities[j]
        /\ accounts'[identities[j].account] # None \/ ~Known(identities[j].account)
  <2>1. \A j \in Identities : identities[j] # None => identities[j].account \in Ids
    BY <1>0 DEF AccountTypes
  <2> QED
    BY <1>1, <2>1 DEF Known
<1> QED
  BY <1>2, <1>3, <1>4, <1>5, <1>6, <1>7, StepKeepsAccounts

\* POST /signup and create_oauth_account.
LEMMA SigningUpKeepsAccounts ==
    ASSUME AccountsInv, NEW b \in Browsers,
           \/ \E e \in Emails : Signup(b, e)
           \/ \E i \in Identities : SocialCreates(b, i)
    PROVE  AccountsInv'
<1> DEFINE n == created + 1
<1>0. /\ AccountTypes /\ created \in Nat /\ DOMAIN flight = Browsers
      /\ Idle.do = "nothing" /\ "nothing" \notin Doing /\ DOMAIN accounts = Ids
  BY AccountsAssumption DEF AccountsInv, AccountTypes, Idle, Doing
<1>1. ASSUME NEW e \in Emails, Signup(b, e) PROVE AccountsInv'
  <2> DEFINE x == NewRow(e, TRUE)
  <2>1. x \in Row /\ x.email = e /\ x.verified = ~Strict
    BY AccountsAssumption DEF NewRow, Row
  <2>2. /\ created < MaxAccounts /\ created' = n /\ accounts' = [accounts EXCEPT ![n] = x]
        /\ UNCHANGED <<identities, sessions, proven>>
        /\ \/ SendLink("verify", n, e) /\ flight' = flight
           \/ /\ flight' = [flight EXCEPT ![b] = [do |-> "issue", account |-> n, gen |-> 0]]
              /\ links' = links
    BY <1>1 DEF Signup, Insert, Starts
  <2> HIDE DEF x
  <2>3. \A l \in links' : l \in links \/ (l \in Link /\ l.account = n /\ l.to = x.email)
    <3>1. n \in Ids
      BY <1>0, <2>2, AccountsAssumption DEF Ids
    <3> QED
      BY <2>1, <2>2, <3>1 DEF SendLink, Link
  <2>4. /\ DOMAIN flight' = Browsers
        /\ \A c \in Browsers : flight'[c] = flight[c] \/
             (flight'[c].do # "link" /\ (flight'[c].do \in Doing => flight'[c].account = n))
    BY <1>0, <2>2
  <2>5. identities' \in [Identities -> [account : Ids, late : BOOLEAN] \cup {None}]
    BY <1>0, <2>2 DEF AccountTypes
  <2> HIDE DEF n
  <2> QED
    BY <2>1, <2>2, <2>3, <2>4, <2>5, InsertingKeepsAccounts DEF n
<1>2. ASSUME NEW i \in Identities, SocialCreates(b, i) PROVE AccountsInv'
  <2> DEFINE row == NewRow(AddressOf[i], FALSE)
             rows == [accounts EXCEPT ![n] = row]
             verified == row.verified \/ i \in Vouched
             x == [row EXCEPT !.verified = verified]
  <2>0. n \in Ids /\ created < MaxAccounts /\ created' = n /\ UNCHANGED sessions
    BY <1>0, <1>2, AccountsAssumption DEF Ids, SocialCreates
  <2>1. /\ row \in Row /\ row.verified = FALSE /\ row.email = AddressOf[i]
        /\ rows[n] = row /\ DOMAIN rows = Ids
    <3>1. \A v \in BOOLEAN :
            LET y == [email |-> AddressOf[i], gen |-> 0, login |-> FALSE, verified |-> v,
                      status |-> "active"]
            IN  y \in Row /\ y.verified = v /\ y.email = AddressOf[i]
      BY AccountsAssumption DEF Row
    <3>2. (~Strict /\ FALSE) = FALSE
      OBVIOUS
    <3>3. row \in Row /\ row.verified = FALSE /\ row.email = AddressOf[i]
      BY <3>1, <3>2 DEF NewRow
    <3> HIDE DEF row
    <3> QED
      BY <1>0, <2>0, <3>3
  <2>2. x \in Row /\ x.email = AddressOf[i] /\ x.verified = verified
    <3>1. \A v \in BOOLEAN : LET y == [row EXCEPT !.verified = v]
                           IN  y \in Row /\ y.email = row.email /\ y.verified = v
      BY <2>1 DEF Row
    <3>2. verified \in BOOLEAN
      OBVIOUS
    <3> HIDE DEF row, verified
    <3> QED
      BY <2>1, <3>1, <3>2
  <2>3. /\ Greet(b, i, n, rows)
        /\ identities' = [identities EXCEPT ![i] = [account |-> n, late |-> FALSE]]
    BY <1>2 DEF SocialCreates, Binding
  <2>4. accounts' = [accounts EXCEPT ![n] = x]
    <3>1. accounts' = [rows EXCEPT ![n].verified = verified]
      BY <2>1, <2>3 DEF Greet, MarkVerified
    <3> HIDE DEF row, verified
    <3> QED
      BY <1>0, <2>0, <2>1, <3>1
  <2>5. /\ proven' = IF i \in Vouched THEN proven \cup {<<n, AddressOf[i]>>} ELSE proven
        /\ \/ SendLink("verify", n, AddressOf[i]) /\ Ends(b)
           \/ /\ flight' = [flight EXCEPT ![b] =
                   [do |-> "issue", account |-> n, gen |-> row.gen]]
              /\ links' = links
    BY <2>1, <2>3 DEF Greet
  <2> HIDE DEF x, rows, row
  <2>6. \A l \in links' : l \in links \/ (l \in Link /\ l.account = n /\ l.to = x.email)
    BY <2>0, <2>2, <2>5, AccountsAssumption DEF SendLink, Link
  <2>7. /\ DOMAIN flight' = Browsers
        /\ \A c \in Browsers : flight'[c] = flight[c] \/
             (flight'[c].do # "link" /\ (flight'[c].do \in Doing => flight'[c].account = n))
    BY <1>0, <2>5 DEF Ends
  <2>8. /\ identities' \in [Identities -> [account : Ids, late : BOOLEAN] \cup {None}]
        /\ \A j \in Identities : identities'[j] = identities[j] \/
             (identities'[j].account = n /\ (j \in Vouched => AddressOf[j] = x.email))
    BY <1>0, <2>0, <2>2, <2>3 DEF AccountTypes
  <2>9. proven \subseteq proven' /\ (x.verified => <<n, x.email>> \in proven')
    BY <2>1, <2>2, <2>5
  <2> HIDE DEF n, verified
  <2> QED
    BY <2>0, <2>2, <2>4, <2>6, <2>7, <2>8, <2>9, InsertingKeepsAccounts DEF n
<1> QED
  BY <1>1, <1>2

\* A known identity signs in, or a found one is bound to its account.
LEMMA SocialKeepsAccounts ==
    ASSUME AccountsInv, NEW b \in Browsers,
           SocialLinks(b) \/ \E i \in Identities : SocialKnown(b, i)
    PROVE  AccountsInv'
<1>0. /\ AccountTypes /\ VerifiesItsOwn /\ created \in Nat /\ DOMAIN flight = Browsers
      /\ Idle.do = "nothing" /\ "nothing" \notin Doing /\ "link" \in Doing
      /\ Vouched \subseteq Identities
  BY AccountsAssumption DEF AccountsInv, AccountTypes, Idle, Doing
<1>1. ASSUME NEW i \in Identities, SocialKnown(b, i) PROVE AccountsInv'
  <2> DEFINE a == identities[i].account
  <2>1. /\ identities[i] # None /\ Active(a) /\ Greet(b, i, a, accounts)
        /\ UNCHANGED <<created, identities, sessions>>
    BY <1>1 DEF SocialKnown, Linked
  <2>2. a \in 1..created
    BY <1>0, <2>1 DEF AccountTypes, Ids
  <2>3. i \in Vouched => Owns(accounts, proven, a, AddressOf[i])
    BY <1>0, <2>1 DEF VerifiesItsOwn
  <2> HIDE DEF a
  <2> QED
    BY <2>1, <2>2, <2>3, GreetingKeepsAccounts
<1>2. ASSUME SocialLinks(b) PROVE AccountsInv'
  <2> DEFINE i == flight[b].identity
             a == flight[b].account
  <2>1. /\ i \in Vouched /\ i \in Identities /\ a \in 1..created
        /\ Owns(accounts, proven, a, AddressOf[i])
    BY <1>0, <1>2 DEF SocialLinks, At, AccountTypes, VerifiesItsOwn
  <2>2. /\ identities' = [identities EXCEPT ![i] = [Binding(a) EXCEPT !.late = ~Known(a)]]
        /\ IF Active(a) THEN Greet(b, i, a, accounts)
           ELSE Ends(b) /\ UNCHANGED <<accounts, links, proven>>
        /\ UNCHANGED <<created, sessions>>
    BY <1>2 DEF SocialLinks
  <2> HIDE DEF a, i
  <2>3. CASE Active(a)
    <3>1. (~Known(a)) = FALSE
      BY <2>3 DEF Active
    <3>2. [Binding(a) EXCEPT !.late = ~Known(a)] = [account |-> a, late |-> FALSE]
      <4>1. \A v \in BOOLEAN : [Binding(a) EXCEPT !.late = v] = [account |-> a, late |-> v]
        BY DEF Binding
      <4> DEFINE lateness == ~Known(a)
      <4>2. lateness = FALSE
        BY <3>1
      <4> HIDE DEF lateness
      <4>3. [Binding(a) EXCEPT !.late = lateness] = [account |-> a, late |-> FALSE]
        BY <4>1, <4>2
      <4> QED
        BY <4>3 DEF lateness
    <3>3. /\ identities' = [identities EXCEPT ![i] = [account |-> a, late |-> FALSE]]
          /\ Greet(b, i, a, accounts)
      BY <2>2, <2>3, <3>2
    <3> QED
      BY <2>1, <2>2, <2>3, <3>3, GreetingKeepsAccounts
  <2>4. CASE ~Active(a)
    <3> DEFINE lateness == ~Known(a)
               new == [Binding(a) EXCEPT !.late = lateness]
    <3>0. a \in Ids
      BY <1>0, <2>1, AccountsAssumption DEF AccountTypes, Ids
    <3>1. /\ new \in [account : Ids, late : BOOLEAN] /\ new.account = a
          /\ new.late = lateness
      <4>1. \A v \in BOOLEAN :
              LET y == [Binding(a) EXCEPT !.late = v]
              IN  y \in [account : Ids, late : BOOLEAN] /\ y.account = a /\ y.late = v
        BY <3>0 DEF Binding
      <4>2. lateness \in BOOLEAN
        OBVIOUS
      <4> HIDE DEF lateness
      <4> QED
        BY <4>1, <4>2
    <3>2. /\ identities' = [identities EXCEPT ![i] = new]
          /\ flight' = [flight EXCEPT ![b] = Idle]
          /\ UNCHANGED <<accounts, links, proven, created, sessions>>
      BY <2>2, <2>4 DEF Ends
    <3> HIDE DEF new
    <3>3. new.late \/ accounts[a] # None
      BY <3>1 DEF Known
    <3> HIDE DEF lateness
    <3>4. \A j \in Identities : identities'[j] = identities[j] \/ identities'[j] = new
      BY <1>0, <3>2 DEF AccountTypes
    <3>5. /\ DOMAIN flight' = Browsers
          /\ \A c \in Browsers : flight'[c] = flight[c] \/ flight'[c].do \notin Doing
      BY <1>0, <3>2
    <3>6. AccountTypes'
      <4>1. \A c \in Browsers :
              /\ flight'[c].do \in Doing => flight'[c].account \in 1..created
              /\ flight'[c].do = "link" => flight'[c].identity \in Vouched
        BY <1>0, <3>5 DEF AccountTypes
      <4>2. identities' \in [Identities -> [account : Ids, late : BOOLEAN] \cup {None}]
        BY <1>0, <3>1, <3>2 DEF AccountTypes
      <4>3. \A j \in Identities : identities'[j] # None => identities'[j].account <= created
        BY <1>0, <2>1, <3>1, <3>4 DEF AccountTypes
      <4> QED
        BY <1>0, <3>2, <3>5, <4>1, <4>2, <4>3 DEF AccountTypes, Known
    <3>7. OldCredentialsAreOut' /\ VerifiedOwnsItsAddress'
      BY <3>2 DEF AccountsInv, OldCredentialsAreOut, VerifiedOwnsItsAddress, Active, Known
    <3>8. \A l \in links : accounts[l.account] # None
      BY <1>0 DEF AccountsInv, DeletedAccountIsGone, LinksOf, AccountTypes, Link, Known
    <3>9. \A j \in Identities : identities'[j] # None =>
            \/ identities'[j] = identities[j]
            \/ /\ identities'[j].late \/ accounts[identities'[j].account] # None
               /\ j \in Vouched => Owns(accounts, proven, identities'[j].account, AddressOf[j])
      <4>1. \A j \in Identities : identities'[j] = identities[j] \/ (j = i /\ identities'[j] = new)
        BY <1>0, <3>2 DEF AccountTypes
      <4> QED
        BY <2>1, <3>1, <3>3, <4>1
    <3> QED
      BY <1>0, <3>2, <3>5, <3>6, <3>7, <3>8, <3>9, StepKeepsAccounts DEF Known
  <2> QED
    BY <2>3, <2>4
<1> QED
  BY <1>1, <1>2

\* A mailed link is opened: it verifies the address it was sent to, or the one
\* the account has proved since.
LEMMA OpeningKeepsAccounts ==
    ASSUME AccountsInv, NEW l \in links, OpensVerification(l) \/ OpensChange(l)
    PROVE  AccountsInv'
<1> DEFINE a == l.account
<1>0. /\ AccountTypes /\ a \in Ids /\ l.to \in Emails /\ Known(a) /\ DOMAIN flight = Browsers
      /\ links' \subseteq links /\ UNCHANGED <<created, identities, sessions, flight>>
      /\ accounts[a] \in Row
  <2>1. AccountTypes /\ a \in Ids /\ l.to \in Emails
    BY DEF AccountsInv, AccountTypes, Link
  <2>2. Known(a)
    BY <2>1 DEF AccountsInv, DeletedAccountIsGone, LinksOf, AccountTypes, Link
  <2> QED
    BY <2>1, <2>2 DEF OpensVerification, OpensChange, AccountTypes, Known
<1>4. CASE OpensVerification(l)
  <2> DEFINE x == [accounts[a] EXCEPT !.verified = TRUE]
  <2>1. /\ x \in Row /\ x.email = accounts[a].email /\ x.gen = accounts[a].gen
        /\ x.status = accounts[a].status
    BY <1>0 DEF Row
  <2>2. accounts' = [accounts EXCEPT ![a] = x] /\ proven' = proven \cup {<<a, l.to>>}
    BY <1>0, <1>4 DEF OpensVerification
  <2>3. <<a, x.email>> \in proven'
    BY <1>0, <1>4, <2>1, <2>2 DEF AccountsInv, VerifiesItsOwn, Owns, OpensVerification, Known
  <2> HIDE DEF x
  <2> QED
    BY <1>0, <2>1, <2>2, <2>3, ChangingKeepsAccounts
<1>5. CASE OpensChange(l) /\ ByEmail(l.to) \subseteq {a}
  <2> DEFINE x == [accounts[a] EXCEPT !.email = l.to, !.verified = TRUE]
  <2>1. x \in Row /\ x.email = l.to /\ x.gen = accounts[a].gen /\ x.status = accounts[a].status
    BY <1>0 DEF Row
  <2>2. accounts' = [accounts EXCEPT ![a] = x] /\ proven' = proven \cup {<<a, l.to>>}
    <3>1. accounts' = [accounts EXCEPT ![a].email = l.to, ![a].verified = TRUE]
      BY <1>0, <1>5 DEF OpensChange
    <3>2. accounts' = [accounts EXCEPT ![a] = x]
      BY <1>0, <3>1 DEF AccountTypes
    <3> QED
      BY <1>0, <1>5, <3>2 DEF OpensChange
  <2> HIDE DEF x
  <2> QED
    BY <1>0, <2>1, <2>2, ChangingKeepsAccounts
<1>6. CASE OpensChange(l) /\ ~(ByEmail(l.to) \subseteq {a})
  <2>1. UNCHANGED <<accounts, proven>>
    BY <1>6 DEF OpensChange
  <2> QED
    BY <1>0, <2>1, ReadersKeepAccounts
<1> QED
  BY <1>4, <1>5, <1>6

\* update_password_hash ends the sessions of the account.
LEMMA RehashingKeepsAccounts ==
    ASSUME AccountsInv, NEW b \in Browsers, ResetsPassword(b) \/ ChangesPassword(b)
    PROVE  AccountsInv'
<1> DEFINE a == flight[b].account
<1>0. /\ AccountTypes /\ a \in 1..created /\ a \in Ids /\ DOMAIN flight = Browsers
      /\ UNCHANGED <<created, identities, links, proven>>
      /\ Idle.do = "nothing" /\ "nothing" \notin Doing
  <2>1. AccountTypes /\ a \in 1..created
    BY DEF AccountsInv, AccountTypes, ResetsPassword, ChangesPassword, At, Doing
  <2> QED
    BY <2>1, AccountsAssumption DEF AccountTypes, Ids, Idle, Doing, ResetsPassword, ChangesPassword
<1>1. /\ DOMAIN flight' = Browsers
      /\ \A c \in Browsers : flight'[c] = flight[c] \/
           (flight'[c].do # "link" /\ (flight'[c].do \in Doing => flight'[c].account \in 1..created))
  <2>1. "link" \in Doing
    BY DEF Doing
  <2> QED
    BY <1>0, <2>1 DEF ResetsPassword, ChangesPassword, Ends
<1>2. CASE Active(a) /\ Rehash(a)
  <2> DEFINE x == [accounts[a] EXCEPT !.gen = accounts[a].gen + 1, !.login = TRUE]
  <2>1. accounts[a] \in Row /\ Known(a) /\ accounts[a].gen < MaxGen
    BY <1>0, <1>2 DEF AccountTypes, Active, Known, Rehash
  <2>2. x \in Row /\ x.email = accounts[a].email /\ x.verified = accounts[a].verified
    <3> DEFINE later == accounts[a].gen + 1
    <3>1. \A g \in 0..MaxGen :
            LET y == [accounts[a] EXCEPT !.gen = g, !.login = TRUE]
            IN  y \in Row /\ y.email = accounts[a].email /\ y.verified = accounts[a].verified
      BY <2>1 DEF Row
    <3>2. accounts[a].gen \in 0..MaxGen
      BY <2>1 DEF Row
    <3>3. later \in 0..MaxGen
      BY <2>1, <3>2, AccountsAssumption
    <3>4. x = [accounts[a] EXCEPT !.gen = later, !.login = TRUE]
      OBVIOUS
    <3> HIDE DEF x, later, a
    <3> QED
      BY <3>1, <3>3, <3>4
  <2>3. accounts' = [accounts EXCEPT ![a] = x]
    BY <1>0, <1>2, <2>1 DEF Rehash, AccountTypes, Row
  <2>4. sessions' \subseteq sessions /\ \A s \in sessions' : s.account # a
    BY <1>2 DEF Rehash, Ended, SessionsOf
  <2>5. Strict /\ x.verified => <<a, x.email>> \in proven'
    BY <1>0, <2>1, <2>2 DEF AccountsInv, VerifiedOwnsItsAddress
  <2> HIDE DEF x, a
  <2> QED
    BY <1>0, <1>1, <2>1, <2>2, <2>3, <2>4, <2>5, ChangingKeepsAccounts
<1>3. CASE ~Active(a)
  <2>1. UNCHANGED <<accounts, sessions>>
    BY <1>3 DEF ResetsPassword, ChangesPassword
  <2> QED
    BY <1>0, <1>1, <2>1, ReadersKeepAccounts
<1> QED
  BY <1>2, <1>3 DEF ResetsPassword, ChangesPassword

\* set_account_status: leaving "active" ends the sessions.
LEMMA StatusKeepsAccounts ==
    ASSUME AccountsInv, NEW a \in Ids, NEW standing \in {"active", "suspended"}, SetStatus(a, standing)
    PROVE  AccountsInv'
<1> DEFINE x == [accounts[a] EXCEPT !.status = standing]
<1>0. /\ AccountTypes /\ accounts[a] \in Row /\ Known(a) /\ DOMAIN flight = Browsers
      /\ accounts' = [accounts EXCEPT ![a] = x]
      /\ UNCHANGED <<created, identities, links, flight, proven>>
  BY DEF AccountsInv, AccountTypes, SetStatus, Known
<1>1. /\ x \in Row /\ x.email = accounts[a].email /\ x.verified = accounts[a].verified
      /\ x.gen = accounts[a].gen /\ x.status = standing
  BY <1>0 DEF Row
<1>2. sessions' \subseteq sessions /\ (standing = "active" \/ \A s \in sessions' : s.account # a)
  BY DEF SetStatus, Ended, SessionsOf
<1>3. Strict /\ x.verified => <<a, x.email>> \in proven'
  BY <1>0, <1>1 DEF AccountsInv, VerifiedOwnsItsAddress
<1> HIDE DEF x
<1> QED
  BY <1>0, <1>1, <1>2, <1>3, ChangingKeepsAccounts

\* delete_account leaves nothing of the account.
LEMMA DeletingKeepsAccounts ==
    ASSUME AccountsInv, NEW b \in Browsers, Deletes(b)
    PROVE  AccountsInv'
<1> DEFINE a == flight[b].account
<1>0. /\ AccountTypes /\ a \in 1..created /\ a \in Ids /\ DOMAIN flight = Browsers
      /\ UNCHANGED <<created, proven>> /\ Idle.do = "nothing" /\ "nothing" \notin Doing
      /\ "link" \in Doing
  <2>1. AccountTypes /\ a \in 1..created
    BY DEF AccountsInv, AccountTypes, Deletes, At, Doing
  <2> QED
    BY <2>1, AccountsAssumption DEF AccountTypes, Ids, Idle, Doing, Deletes
<1>1. /\ DOMAIN flight' = Browsers
      /\ \A c \in Browsers : flight'[c] = flight[c] \/ flight'[c].do \notin Doing
  BY <1>0 DEF Deletes, Ends
<1>2. CASE ~Known(a)
  <2>1. UNCHANGED <<accounts, sessions, links, identities>>
    BY <1>2 DEF Deletes
  <2> QED
    BY <1>0, <1>1, <2>1, ReadersKeepAccounts
<1>3. CASE Known(a)
  <2> HIDE DEF a
  <2>1. /\ accounts' = [accounts EXCEPT ![a] = None]
        /\ sessions' = sessions \ SessionsOf(a)
        /\ links' = links \ LinksOf(a, {"reset", "verify", "change"})
        /\ identities' = [i \in Identities |-> IF i \in Bound(a) THEN None ELSE identities[i]]
    BY <1>3 DEF Deletes, Cleared, a
  <2>2. /\ accounts'[a] = None /\ \A c \in Ids \ {a} : accounts'[c] = accounts[c]
        /\ accounts' \in [Ids -> Row \cup {None}]
    BY <1>0, <2>1 DEF AccountTypes
  <2>3. /\ \A l \in links' : l \in links /\ l.account # a
        /\ \A s \in sessions' : s \in sessions /\ s.account # a
        /\ \A i \in Identities : identities'[i] # None =>
             identities'[i] = identities[i] /\ identities[i].account # a
    BY <1>0, <2>1 DEF LinksOf, SessionsOf, Bound, AccountTypes, Link
  <2>4. AccountTypes'
    <3>1. \A c \in Browsers :
            /\ flight'[c].do \in Doing => flight'[c].account \in 1..created
            /\ flight'[c].do = "link" => flight'[c].identity \in Vouched
      BY <1>0, <1>1 DEF AccountTypes
    <3>2. identities' \in [Identities -> [account : Ids, late : BOOLEAN] \cup {None}]
      BY <1>0, <2>1 DEF AccountTypes
    <3>3. \A j \in Identities : identities'[j] # None => identities'[j].account <= created
      BY <1>0, <2>3 DEF AccountTypes
    <3> QED
      BY <1>0, <1>1, <2>2, <2>3, <3>1, <3>2, <3>3 DEF AccountTypes, Known
  <2>5. OldCredentialsAreOut' /\ VerifiedOwnsItsAddress'
    BY <1>0, <2>2, <2>3
       DEF AccountsInv, AccountTypes, OldCredentialsAreOut, VerifiedOwnsItsAddress, Active, Known
  <2>6. \A c \in Ids : accounts'[c] # None => Known(c) /\ accounts'[c].email = accounts[c].email
    BY <2>2 DEF Known
  <2>7. \A l \in links' : accounts'[l.account] # None
    <3>1. \A l \in links : l.account \in Ids
      BY <1>0 DEF AccountTypes, Link
    <3>2. \A l \in links : l \in Link /\ l.kind \in {"reset", "verify", "change"}
      BY <1>0 DEF AccountTypes, Link
    <3>3. \A l \in links : accounts[l.account] # None
      BY <3>1, <3>2 DEF AccountsInv, DeletedAccountIsGone, LinksOf, Known
    <3> QED
      BY <2>2, <2>3, <3>1, <3>3
  <2>8. \A j \in Identities : identities'[j] # None =>
          /\ identities'[j] = identities[j]
          /\ accounts'[identities[j].account] # None \/ ~Known(identities[j].account)
    BY <1>0, <2>2, <2>3 DEF AccountTypes, Known
  <2> QED
    BY <1>0, <1>1, <2>3, <2>4, <2>5, <2>6, <2>7, <2>8, StepKeepsAccounts
<1> QED
  BY <1>2, <1>3

\* Accounts, sessions, links and identities, for any number of browsers.
LEMMA AccountsInvariant == AccountsSpec => []AccountsInv
<1>1. AccountsInit => AccountsInv
  BY AccountsAssumption
     DEF AccountsInit, AccountsInv, AccountTypes, VerifiesItsOwn, OldCredentialsAreOut,
         VerifiedOwnsItsAddress, DeletedAccountIsGone, Known, LinksOf, SessionsOf, Bound, Idle, Doing
<1>2. AccountsInv /\ [AccountsNext]_accountsVars => AccountsInv'
  <2> SUFFICES ASSUME AccountsInv, [AccountsNext]_accountsVars PROVE AccountsInv'
    OBVIOUS
  <2>1. CASE UNCHANGED accountsVars
    BY <2>1, ReadersKeepAccounts DEF accountsVars, AccountsInv, AccountTypes
  <2>2. CASE AccountsNext
    BY <2>2, SessionsKeepAccounts, MailingKeepsAccounts, AskingKeepsAccounts,
       SigningUpKeepsAccounts, SocialKeepsAccounts, OpeningKeepsAccounts,
       RehashingKeepsAccounts, StatusKeepsAccounts, DeletingKeepsAccounts DEF AccountsNext
  <2> QED
    BY <2>1, <2>2
<1> QED
  BY <1>1, <1>2, PTL DEF AccountsSpec

\* update_password_hash and set_account_status: no session outlives the password
\* it was opened with or opens a suspended or deleted account, but for one a
\* handler that had authenticated before wrote after the change.
THEOREM NoSessionOutlivesItsPassword == AccountsSpec => []OldCredentialsAreOut
<1>1. AccountsInv => OldCredentialsAreOut
  BY DEF AccountsInv
<1> QED
  BY <1>1, AccountsInvariant, PTL

\* With verification required, a verified address was shown to belong to the
\* account, by a link or by a provider, in whatever order they came.
THEOREM VerifiedAddressIsProven == AccountsSpec => []VerifiedOwnsItsAddress
<1>1. AccountsInv => VerifiedOwnsItsAddress
  BY DEF AccountsInv
<1> QED
  BY <1>1, AccountsInvariant, PTL

\* delete_account leaves no session, link or identity of the account, but for
\* the row of a handler under way.
THEOREM DeletionLeavesNothing == AccountsSpec => []DeletedAccountIsGone
<1>1. AccountsInv => DeletedAccountIsGone
  BY DEF AccountsInv
<1> QED
  BY <1>1, AccountsInvariant, PTL
=============================================================================
