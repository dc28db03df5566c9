------------------------------- MODULE Billing -------------------------------
(***************************************************************************)
(* One account's plan, as Stripe's events change it (core/payments.py,     *)
(* apply_checkout_event, apply_subscription_change), and the analyses the  *)
(* plan allows (reserve_analysis, release_analysis), with those bought     *)
(* with Fight Camp points.                                                 *)
(*                                                                         *)
(* Stripe delivers an event again when the answer is lost and promises no  *)
(* order.  Each subscription has a customer of its own: checkout passes an *)
(* address, never a customer.                                              *)
(***************************************************************************)
EXTENDS Integers, FiniteSets, FiniteSetsExt

CONSTANTS
    Subs,         \* subscriptions the account may buy
    Analyses,     \* job ids that may be reserved
    PaidPlans,    \* plans with a price
    LimitOf,      \* LimitOf[p]: analyses a day, NoLimit when unlimited
    NoLimit, Nobody,
    Cost,         \* REDEEM_COST
    MonthlyCap,   \* REDEEM_PER_MONTH
    MaxPoints,    \* bound: points earned
    MaxDay,       \* bound: days
    MaxEvents     \* bound: events Stripe sends

Plans == PaidPlans \cup {"free"}

ASSUME BillingAssumption ==
    /\ LimitOf \in [Plans -> Nat \cup {NoLimit}] /\ LimitOf["free"] \in Nat
    /\ NoLimit \notin Nat /\ Nobody \notin Subs /\ "free" \notin PaidPlans
    /\ Cost \in Nat \ {0}

VARIABLES
    stripe,     \* subscription -> what Stripe holds of it
    events,     \* events Stripe still means to deliver
    lastEvent,  \* the last event's number
    recorded,   \* payment_events
    plan, sub, status,   \* columns of the account row
    guardian,   \* guardian_approval_status
    usage,      \* analysis -> the period its row counts against
    earned,     \* points awarded
    bought,     \* analyses bought with points
    day,
    best,       \* history: the highest limit in force on the current day
    handled,    \* history: events delivered at least once
    inOrder     \* history: no event was delivered before an earlier one

billingVars == <<stripe, events, lastEvent, recorded, plan, sub, status,
                 guardian, usage, earned, bought, day, best, handled, inOrder>>

\* analysis_usage.period_key, NoRow where the analysis has no row.
Period == {<<"day", d>> : d \in 1..MaxDay} \cup {<<"bonus", 0>>, <<"unlimited", 0>>}
NoRow == <<"none", 0>>
Bonus == <<"bonus", 0>>
Today == <<"day", day>>

Unbought == [state |-> "none", plan |-> "free"]

BillingInit ==
    /\ stripe = [s \in Subs |-> Unbought]
    /\ events = {} /\ lastEvent = 0 /\ recorded = {} /\ handled = {}
    /\ plan = "free" /\ sub = Nobody /\ status = "none" /\ inOrder = TRUE
    /\ guardian \in {"not_applicable", "pending"}
    /\ usage = [j \in Analyses |-> NoRow]
    /\ earned = 0 /\ bought = 0 /\ day = 1 /\ best = LimitOf["free"]

-----------------------------------------------------------------------------
(* Stripe.                                                                 *)

Sends(kind, s, p) ==
    /\ lastEvent < MaxEvents
    /\ lastEvent' = lastEvent + 1
    /\ events' = events \cup
         {[id |-> lastEvent + 1, kind |-> kind, sub |-> s, plan |-> p]}

Becomes(s, from, to, kind) ==
    /\ stripe[s].state \in from
    /\ stripe' = [stripe EXCEPT ![s].state = to]
    /\ Sends(kind, s, stripe[s].plan)
    /\ UNCHANGED <<recorded, plan, sub, status, guardian, usage, earned,
                   bought, day, best, handled, inOrder>>

Live == {"active", "past_due", "ending", "refunded"}

\* The checkout page is paid.
Purchases(s, p) ==
    /\ stripe[s].state = "none"
    /\ stripe' = [stripe EXCEPT ![s] = [state |-> "active", plan |-> p]]
    /\ Sends("checkout", s, p)
    /\ UNCHANGED <<recorded, plan, sub, status, guardian, usage, earned,
                   bought, day, best, handled, inOrder>>

\* The price changes, and customer.subscription.updated says so.
ChangesPrice(s, p) ==
    /\ stripe[s].state \in {"active", "refunded"} /\ stripe[s].plan # p
    /\ stripe' = [stripe EXCEPT ![s].plan = p]
    /\ Sends("updated", s, p)
    /\ UNCHANGED <<recorded, plan, sub, status, guardian, usage, earned,
                   bought, day, best, handled, inOrder>>

\* Cards fail and recover, the period ends, Stripe gives up.
CardFails(s) == Becomes(s, {"active"}, "past_due", "payment_failed")
CardRecovers(s) == Becomes(s, {"past_due"}, "active", "paid")
PeriodEnds(s) == Becomes(s, {"ending", "past_due", "refunded"}, "ended",
                         "deleted")

\* A charge is given back in full, or disputed; the subscription lives on.
GivesBack(s, kind) == Becomes(s, {"active"}, "refunded", kind)

\* cancel_subscription: Stripe schedules the end, and only its confirmation
\* is written to the account.
Cancels ==
    /\ sub # Nobody /\ stripe[sub].state \in {"active", "past_due", "refunded"}
    /\ stripe' = [stripe EXCEPT ![sub].state = "ending"]
    /\ Sends("ending", sub, stripe[sub].plan)
    /\ status' = "cancel_at_period_end"
    /\ UNCHANGED <<recorded, plan, sub, guardian, usage, earned, bought, day,
                   best, handled, inOrder>>

-----------------------------------------------------------------------------
(* The webhook.                                                            *)

\* subscription_change: the plan an event sets, and the status it writes.
PlanAfterKept(e) == IF e.kind \in {"updated", "ending"} THEN e.plan ELSE plan
PlanAfter(e) == CASE e.kind \in {"deleted", "refunded", "disputed"} -> "free"
                  [] e.kind \in {"updated", "ending"} -> e.plan
                  [] OTHER -> plan
StatusAfter(e) == CASE e.kind = "deleted" -> "cancelled"
                    [] e.kind = "ending" -> "cancel_at_period_end"
                    [] e.kind = "payment_failed" -> "past_due"
                    [] e.kind \in {"refunded", "disputed"} -> e.kind
                    [] OTHER -> "active"

\* Higher of two limits.
MoreOf(l, m) == IF NoLimit \in {l, m} THEN NoLimit ELSE Max({l, m})

\* A delivery: the answer may be lost, and then the event comes again.
Delivery(e, answered) ==
    /\ events' = IF answered THEN events \ {e} ELSE events
    /\ handled' = handled \cup {e.id}
    /\ inOrder' = (inOrder /\ \A f \in events : f.id < e.id => f.id \in handled)
    /\ best' = MoreOf(best, LimitOf[plan'])

\* checkout.session.completed carries the account's id.
Checkout(e, answered) ==
    /\ e.kind = "checkout"
    /\ IF e.id \in recorded
       THEN UNCHANGED <<recorded, plan, sub, status>>
       ELSE /\ recorded' = recorded \cup {e.id}
            /\ plan' = e.plan /\ sub' = e.sub /\ status' = "active"
    /\ Delivery(e, answered)
    /\ UNCHANGED <<stripe, lastEvent, guardian, usage, earned, bought, day>>

\* Every other event finds the account by its subscription or customer; one
\* that finds none is answered, and not recorded.
Found(e) == e.sub = sub
Change(e, answered) ==
    /\ e.kind # "checkout"
    /\ IF Found(e) /\ e.id \notin recorded
       THEN /\ recorded' = recorded \cup {e.id}
            /\ plan' = PlanAfter(e) /\ status' = StatusAfter(e)
       ELSE UNCHANGED <<recorded, plan, status>>
    /\ Delivery(e, answered)
    /\ UNCHANGED <<stripe, lastEvent, sub, guardian, usage, earned, bought,
                   day>>

-----------------------------------------------------------------------------
(* The allowance.                                                          *)

RowsFor(period) == {j \in Analyses : usage[j] = period}
BonusLeft == bought - Cardinality(RowsFor(Bonus))

\* _usage_period and the count under it: the plan's own allowance first, then
\* an analysis bought with points, then a refusal.
HasRoomAtLimit ==
    LimitOf[plan] # NoLimit => Cardinality(RowsFor(Today)) <= LimitOf[plan]
HasRoom ==
    LimitOf[plan] # NoLimit => Cardinality(RowsFor(Today)) + 1 <= LimitOf[plan]
CountedUnder == CASE LimitOf[plan] = NoLimit -> <<"unlimited", 0>>
                  [] LimitOf[plan] # NoLimit /\ HasRoom -> Today
                  [] OTHER -> Bonus

\* A guardian's answer is awaited before any video is accepted.
Held == guardian \in {"pending", "declined"}

\* reserve_analysis, in one locked transaction; a second call for the same
\* job keeps the row it finds.
Reserves(j) ==
    /\ ~Held /\ usage[j] = NoRow /\ (~HasRoom => BonusLeft > 0)
    /\ usage' = [usage EXCEPT ![j] = CountedUnder]
    /\ UNCHANGED <<stripe, events, lastEvent, recorded, plan, sub, status,
                   guardian, earned, bought, day, best, handled, inOrder>>

\* release_analysis: whatever period the row counted against.
Releases(j) ==
    /\ usage[j] # NoRow
    /\ usage' = [usage EXCEPT ![j] = NoRow]
    /\ UNCHANGED <<stripe, events, lastEvent, recorded, plan, sub, status,
                   guardian, earned, bought, day, best, handled, inOrder>>

\* award_points and redeem_points_for_analysis; the days are in one month.
Earns ==
    /\ earned < MaxPoints /\ earned' = earned + 1
    /\ UNCHANGED <<stripe, events, lastEvent, recorded, plan, sub, status,
                   guardian, usage, bought, day, best, handled, inOrder>>
Redeems ==
    /\ bought < MonthlyCap /\ earned - Cost * bought >= Cost
    /\ bought' = bought + 1
    /\ UNCHANGED <<stripe, events, lastEvent, recorded, plan, sub, status,
                   guardian, usage, earned, day, best, handled, inOrder>>

\* guardian_approve: the link keeps working, so the last answer stands.
GuardianAnswers(answer) ==
    /\ guardian \notin {"not_applicable", answer}
    /\ guardian' = answer
    /\ UNCHANGED <<stripe, events, lastEvent, recorded, plan, sub, status,
                   usage, earned, bought, day, best, handled, inOrder>>

NextDay ==
    /\ day < MaxDay /\ day' = day + 1 /\ best' = LimitOf[plan]
    /\ UNCHANGED <<stripe, events, lastEvent, recorded, plan, sub, status,
                   guardian, usage, earned, bought, handled, inOrder>>

-----------------------------------------------------------------------------
BillingNext ==
    \/ \E s \in Subs, p \in PaidPlans : Purchases(s, p)
    \/ \E s \in Subs, p \in PaidPlans : ChangesPrice(s, p)
    \/ \E s \in Subs : CardFails(s)
    \/ \E s \in Subs : CardRecovers(s)
    \/ \E s \in Subs : PeriodEnds(s)
    \/ \E s \in Subs, kind \in {"refunded", "disputed"} : GivesBack(s, kind)
    \/ Cancels
    \/ \E e \in events, answered \in BOOLEAN : Checkout(e, answered)
    \/ \E e \in events, answered \in BOOLEAN : Change(e, answered)
    \/ \E j \in Analyses : Reserves(j)
    \/ \E j \in Analyses : Releases(j)
    \/ Earns
    \/ Redeems
    \/ \E answer \in {"approved", "declined"} : GuardianAnswers(answer)
    \/ NextDay

BillingSpec == BillingInit /\ [][BillingNext]_billingVars

-----------------------------------------------------------------------------
\* The columns hold what they may hold.
BillingTypeOK ==
    /\ stripe \in [Subs -> [state : Live \cup {"none", "ended"}, plan : Plans]]
    /\ \A e \in events : e.id \in 1..lastEvent /\ e.sub \in Subs
    /\ recorded \subseteq 1..lastEvent /\ handled \subseteq 1..lastEvent
    /\ plan \in Plans /\ sub \in Subs \cup {Nobody}
    /\ status \in {"none", "active", "past_due", "cancel_at_period_end",
                   "cancelled", "refunded", "disputed"}
    /\ guardian \in {"not_applicable", "pending", "approved", "declined"}
    /\ usage \in [Analyses -> Period \cup {NoRow}]
    /\ earned \in 0..MaxPoints /\ bought \in 0..MonthlyCap /\ day \in 1..MaxDay

\* Once every event was delivered, any number of times but none before an
\* earlier one, the account holds the plan its connected subscription pays
\* for, and none when that has ended.  Of a charge given back the account keeps
\* nothing, until the subscription it was for changes.
PlanFollowsStripe ==
    inOrder /\ events = {} /\ sub # Nobody =>
      CASE stripe[sub].state = "ended" -> plan = "free"
        [] stripe[sub].state = "refunded" -> plan \in {"free", stripe[sub].plan}
        [] OTHER -> plan = stripe[sub].plan

\* Reservations, releases, retries, purchases and changes of plan in any order
\* never leave more rows on a day than the best plan of that day allowed, more
\* bought analyses used than were bought, or points spent that were not earned.
WithinAllowance ==
    /\ best # NoLimit => Cardinality(RowsFor(Today)) <= best
    /\ Cardinality(RowsFor(Bonus)) <= bought
    /\ Cost * bought <= earned

=============================================================================
