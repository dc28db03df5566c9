----------------------------- MODULE FightLinks -----------------------------
(***************************************************************************)
(* The links that show one saved fight to others (app/main.py, core/db.py):*)
(* private coach links, which expire, and the public link of a fighter's   *)
(* stats, which may also stand on the owner's athlete page.  They are made,*)
(* posted and turned off by handlers that overlap one another and the      *)
(* deletion of the fight; each statement of a handler on its own.          *)
(***************************************************************************)
EXTENDS Integers, Sequences, FiniteSets

CONSTANTS
    Sharing,     \* requests of the fight's owner that may be under way
    MaxShares,    \* bound: links ever made
    Nothing

VARIABLES
    kept,      \* the fight's row is in the library
    onDisk,    \* its report and card can be read
    shares,     \* link -> kind, and whether it is live
    posted,    \* links shown on the athlete page
    owner,     \* request -> what it does and how far it is
    overlapped \* history: a request that publishes the fight overlapped another
               \* such request, or a deletion overlapped any other request

linksVars == <<kept, onDisk, shares, posted, owner, overlapped>>

Kinds == {"coach", "story", "post", "unpost", "off", "coachOff", "delete"}
Publish == {"story", "post"}

ASSUME LinksAssumption == MaxShares \in Nat \ {0} /\ Nothing \notin Kinds

Silent == [kind |-> Nothing, at |-> "idle", link |-> 0]

LinksInit ==
    /\ kept = TRUE /\ onDisk = TRUE /\ shares = <<>> /\ posted = {}
    /\ owner = [q \in Sharing |-> Silent] /\ overlapped = FALSE

LiveLinks(kind) ==
    {l \in DOMAIN shares : shares[l].kind = kind /\ shares[l].live}
Goes(q, at, link) == owner' = [owner EXCEPT ![q].at = at, ![q].link = link]
Answers(q) == owner' = [owner EXCEPT ![q] = Silent]
Makes(kind) ==
    /\ Len(shares) < MaxShares
    /\ shares' = Append(shares, [kind |-> kind, live |-> TRUE])
TurnsOff(kinds) ==
    shares' = [l \in DOMAIN shares |->
        IF shares[l].kind \in kinds THEN [shares[l] EXCEPT !.live = FALSE]
        ELSE shares[l]]

\* Every handler first finds the fight among the owner's; publishing it takes a
\* card to show.  unpost also looks up the link there is.
Finds(q, kind) ==
    /\ owner[q].at = "idle" /\ kept
    /\ kind \in Publish => onDisk
    /\ \E l \in IF kind = "unpost" /\ LiveLinks("story") # {}
              THEN LiveLinks("story") ELSE {0} :
         owner' = [owner EXCEPT ![q] = [kind |-> kind, at |-> "found", link |-> l]]
    /\ overlapped' =
         \/ overlapped
         \/ kind \in Publish /\ \E r \in Sharing \ {q} : owner[r].kind \in Publish
    /\ UNCHANGED <<kept, onDisk, shares, posted>>

\* share_report: a new link every time.
SharesWithCoach(q) ==
    /\ owner[q].at = "found" /\ owner[q].kind = "coach"
    /\ Makes("coach") /\ Answers(q)
    /\ UNCHANGED <<kept, onDisk, posted, overlapped>>

\* story_share, first statement: is there a live link already?
ReusablePosted == LiveLinks("story") \cap posted
Reusable == LiveLinks("story")
LooksUp(q) ==
    /\ owner[q].at = "found" /\ owner[q].kind \in Publish
    /\ \E l \in IF Reusable = {} THEN {0} ELSE Reusable : Goes(q, "looked", l)
    /\ UNCHANGED <<kept, onDisk, shares, posted, overlapped>>

\* ... and the second: renamed, or a new one.  A post goes on from there.
SharesStory(q) ==
    /\ owner[q].at = "looked"
    /\ IF owner[q].link = 0 THEN Makes("story") ELSE UNCHANGED shares
    /\ LET l == IF owner[q].link = 0 THEN Len(shares') ELSE owner[q].link
       IN IF owner[q].kind = "post" THEN Goes(q, "placing", l) ELSE Answers(q)
    /\ UNCHANGED <<kept, onDisk, posted, overlapped>>

\* set_story_on_profile: of a live link only.
Placed(l) == IF l \in LiveLinks("story") THEN posted \cup {l} ELSE posted
Places(q) ==
    /\ owner[q].at = "placing" \/ (owner[q].at = "found" /\ owner[q].kind = "unpost")
    /\ posted' = IF owner[q].kind = "post" THEN Placed(owner[q].link)
                 ELSE posted \ (LiveLinks("story") \cap {owner[q].link})
    /\ Answers(q)
    /\ UNCHANGED <<kept, onDisk, shares, overlapped>>

\* revoke_story_shares and revoke_report_shares.
Revokes(q) ==
    /\ owner[q].at = "found" /\ owner[q].kind \in {"off", "coachOff"}
    /\ TurnsOff(IF owner[q].kind = "off" THEN {"story"} ELSE {"coach"})
    /\ Answers(q)
    /\ UNCHANGED <<kept, onDisk, posted, overlapped>>

\* delete_fight: nothing when the fight is gone by now, else its rows in one
\* transaction and then its files, which may be in use (ignore_errors).
KeepsLinks == {}
TakesAlong == {"coach", "story"}
FindsNoFight(q) ==
    /\ owner[q].at = "found" /\ owner[q].kind = "delete" /\ ~kept /\ Answers(q)
    /\ UNCHANGED <<kept, onDisk, shares, posted, overlapped>>
DeletesRows(q) ==
    /\ owner[q].at = "found" /\ owner[q].kind = "delete"
    /\ kept' = FALSE /\ TurnsOff(TakesAlong) /\ Goes(q, "files", 0)
    /\ overlapped' = (overlapped \/ \E r \in Sharing \ {q} : owner[r].at # "idle")
    /\ UNCHANGED <<onDisk, posted>>
DeletesFiles(q) ==
    /\ owner[q].at = "files" /\ Answers(q)
    /\ onDisk' \in {FALSE, onDisk}
    /\ UNCHANGED <<kept, shares, posted, overlapped>>

CoachLinkExpires(l) ==
    /\ l \in LiveLinks("coach") /\ shares' = [shares EXCEPT ![l].live = FALSE]
    /\ UNCHANGED <<kept, onDisk, posted, owner, overlapped>>

-----------------------------------------------------------------------------
LinksNext ==
    \/ \E q \in Sharing, kind \in Kinds : Finds(q, kind)
    \/ \E q \in Sharing : SharesWithCoach(q)
    \/ \E q \in Sharing : LooksUp(q)
    \/ \E q \in Sharing : SharesStory(q)
    \/ \E q \in Sharing : Places(q)
    \/ \E q \in Sharing : Revokes(q)
    \/ \E q \in Sharing : FindsNoFight(q)
    \/ \E q \in Sharing : DeletesRows(q)
    \/ \E q \in Sharing : DeletesFiles(q)
    \/ \E l \in DOMAIN shares : CoachLinkExpires(l)

LinksSpec == LinksInit /\ [][LinksNext]_linksVars

-----------------------------------------------------------------------------
LinksTypeOK ==
    /\ kept \in BOOLEAN /\ onDisk \in BOOLEAN /\ overlapped \in BOOLEAN
    /\ \A l \in DOMAIN shares : shares[l] \in [kind : {"coach", "story"}, live : BOOLEAN]
    /\ posted \subseteq DOMAIN shares
    /\ \A q \in Sharing : owner[q].kind \in Kinds \cup {Nothing}

\* story_share ("sharing twice posts the same address"): a fight has two live
\* public links of one fighter only if two requests that share it overlapped.
SharingTwiceIsOneLink == Cardinality(LiveLinks("story")) > 1 => overlapped

\* What whoever has a link is shown (shared_report, _live_story), and what the
\* athlete page lists.
Shown == {l \in DOMAIN shares : shares[l].live /\ onDisk}

\* delete_fight and the handlers that share a fight: once a deletion has come to
\* its end no link shows the fight, not one made earlier whose files could not be
\* removed, and not one that a slower request writes afterwards; only the two
\* together leave a link that opens.
DeletedFightShowsNothing ==
    ~kept /\ (\A q \in Sharing : owner[q].at # "files")
      => Shown = {} \/ overlapped

=============================================================================
