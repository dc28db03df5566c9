----------------------------- MODULE AthletePage -----------------------------
(***************************************************************************)
(* An athlete's public page and the people who follow it (core/social.py,  *)
(* app/main.py, core/db.py).  Following reads whether the page is public   *)
(* and then writes the answer; the owner may save the page in between.     *)
(***************************************************************************)
EXTENDS Integers, FiniteSets

CONSTANT Visitors

VARIABLES
    minor,       \* the owner needed a guardian's approval
    handle,      \* the page has a username
    visibility,
    follows,     \* visitor -> no row, pending or accepted
    visitor,     \* visitor -> how far its request is, and what it read
    welcome,     \* history: visitors the owner or a public page let in
    crossed      \* history: the owner acted while a request was under way

pageVars == <<minor, handle, visibility, follows, visitor, welcome, crossed>>

Away == [at |-> "idle", accepted |-> FALSE]

PageInit ==
    /\ minor \in BOOLEAN /\ handle = FALSE /\ visibility = "private"
    /\ follows = [v \in Visitors |-> "none"] /\ visitor = [v \in Visitors |-> Away]
    /\ welcome = {} /\ crossed = FALSE

Pending == {v \in Visitors : follows[v] = "pending"}

\* save_public_profile: what the owner wants, as far as it may be; going public
\* accepts everyone who waits (set_public_profile, one transaction).
Wanted(v, named) == IF v = "public" /\ named /\ ~minor THEN "public" ELSE "private"
AcceptsNobody == {}
AcceptsWaiting == Pending
SavesPage(v, named) ==
    /\ handle' = named /\ visibility' = Wanted(v, named)
    /\ LET let == IF visibility' = "public" THEN AcceptsWaiting ELSE {}
       IN /\ follows' = [w \in Visitors |-> IF w \in let THEN "accepted" ELSE follows[w]]
          /\ welcome' = welcome \cup let
    /\ crossed' = (crossed \/ \E w \in Visitors : visitor[w].at = "read")
    /\ UNCHANGED <<minor, visitor>>

\* follow_athlete reads the page ...
CanFollow == handle /\ ~minor
ReadsPage(v) ==
    /\ visitor[v].at = "idle" /\ CanFollow
    /\ visitor' = [visitor EXCEPT ![v] =
         [at |-> "read", accepted |-> visibility = "public"]]
    /\ welcome' = IF visibility = "public" THEN welcome \cup {v} ELSE welcome
    /\ UNCHANGED <<minor, handle, visibility, follows, crossed>>

\* ... and request_follow adds the row unless there is one.
AsksToFollow(v) ==
    /\ visitor[v].at = "read"
    /\ follows' = IF follows[v] # "none" THEN follows
                  ELSE [follows EXCEPT ![v] =
                          IF visitor[v].accepted THEN "accepted" ELSE "pending"]
    /\ visitor' = [visitor EXCEPT ![v] = Away]
    /\ UNCHANGED <<minor, handle, visibility, welcome, crossed>>

\* remove_follow.
TakesOut(v) ==
    /\ follows' = [follows EXCEPT ![v] = "none"] /\ welcome' = welcome \ {v}
    /\ crossed' = (crossed \/ visitor[v].at = "read")

\* unfollow_athlete finds the page by its username.
Unfollows(v) ==
    /\ handle /\ TakesOut(v)
    /\ UNCHANGED <<minor, handle, visibility, visitor>>

\* answer_follower: accept_follow of one who waits, remove_follow of anyone.
Approves(v) ==
    /\ v \in Pending /\ follows' = [follows EXCEPT ![v] = "accepted"]
    /\ welcome' = welcome \cup {v}
    /\ UNCHANGED <<minor, handle, visibility, visitor, crossed>>
Removes(v) ==
    /\ follows[v] # "none" /\ TakesOut(v)
    /\ UNCHANGED <<minor, handle, visibility, visitor>>

-----------------------------------------------------------------------------
PageNext ==
    \/ \E v \in {"private", "public"}, named \in BOOLEAN : SavesPage(v, named)
    \/ \E v \in Visitors : ReadsPage(v)
    \/ \E v \in Visitors : AsksToFollow(v)
    \/ \E v \in Visitors : Unfollows(v)
    \/ \E v \in Visitors : Approves(v)
    \/ \E v \in Visitors : Removes(v)

PageSpec == PageInit /\ [][PageNext]_pageVars

-----------------------------------------------------------------------------
PageTypeOK ==
    /\ minor \in BOOLEAN /\ handle \in BOOLEAN /\ crossed \in BOOLEAN
    /\ visibility \in {"private", "public"} /\ welcome \subseteq Visitors
    /\ follows \in [Visitors -> {"none", "pending", "accepted"}]
    /\ visitor \in [Visitors -> [at : {"idle", "read"}, accepted : BOOLEAN]]

\* set_public_profile and follow_athlete: unless the owner acted in the middle
\* of a request to follow, nobody waits at a public page, and whoever follows
\* was let in by the owner or by a page that was public then - also once it is
\* private again.
FollowersWereLetIn ==
    ~crossed =>
      /\ visibility = "public" => Pending = {}
      /\ \A v \in Visitors : follows[v] = "accepted" => v \in welcome

=============================================================================
