---------------------------- MODULE FightsProofs ----------------------------
(***************************************************************************)
(* What a fight leaves behind: the links that show it, the copy and the    *)
(* sequences kept of it for training once it or its video is deleted, what *)
(* the live page showed of it, who was followed as A and as B, and which   *)
(* strikes were counted.  For any number of requests, links, deletions and *)
(* corrections, any people and limbs, and footage of any length.           *)
(***************************************************************************)
EXTENDS Identity, Strikes, FightFootage, FightLinks, TrainingCopies, FiniteSetTheorems, SequenceTheorems,
        WellFoundedInduction, TLAPS

-----------------------------------------------------------------------------
(* The links.                                                              *)

Link == [kind : {"coach", "story"}, live : BOOLEAN]
Steps == {"idle", "found", "looked", "placing", "files"}

LinkTypes ==
    /\ kept \in BOOLEAN /\ overlapped \in BOOLEAN
    /\ shares \in Seq(Link)
    /\ owner \in [Sharing -> [kind : Kinds \cup {Nothing}, at : Steps, link : Nat]]
    /\ \A q \in Sharing : owner[q].kind = Nothing <=> owner[q].at = "idle"
    /\ \A q \in Sharing : owner[q].at = "looked" => owner[q].kind \in Publish

\* Without an overlap one request publishes at a time, and what it looked up of
\* the live links still holds ...
OneLink ==
    /\ \A q, r \in Sharing :
         owner[q].kind \in Publish /\ owner[r].kind \in Publish => q = r
    /\ \A l, m \in LiveLinks("story") : l = m
    /\ \A q \in Sharing :
         owner[q].at = "looked" /\ owner[q].link = 0 => LiveLinks("story") = {}

\* ... and once the rows are gone no link is live and nobody writes another.
NoneLeft ==
    ~kept => /\ \A l \in DOMAIN shares : ~shares[l].live
             /\ \A q \in Sharing : owner[q].at \in {"idle", "files"}

LinksInv == LinkTypes /\ (~overlapped => OneLink /\ NoneLeft)

\* The links stay a sequence of links, which are numbers.
LEMMA LinksAreNumbered ==
    ASSUME LinkTypes
    PROVE  /\ DOMAIN shares = 1..Len(shares) /\ Len(shares) \in Nat
           /\ \A kind : LiveLinks(kind) \subseteq Nat \ {0}
           /\ \A kind, l : l \in LiveLinks(kind) => l \in DOMAIN shares /\ shares[l].live
BY DEF LinkTypes, LiveLinks

\* A request goes on, to a later step or to its end.
LEMMA RequestsStayTyped ==
    ASSUME LinkTypes, NEW q \in Sharing, owner[q].at # "idle",
           \/ Answers(q)
           \/ \E at \in Steps \ {"idle"}, l \in Nat : Goes(q, at, l)
    PROVE  /\ owner' \in [Sharing -> [kind : Kinds \cup {Nothing}, at : Steps, link : Nat]]
           /\ \A r \in Sharing : owner'[r].kind = Nothing <=> owner'[r].at = "idle"
           /\ \A r \in Sharing \ {q} : owner'[r] = owner[r]
           /\ owner'[q].kind \in {owner[q].kind, Nothing}
<1>0. /\ owner \in [Sharing -> [kind : Kinds \cup {Nothing}, at : Steps, link : Nat]]
      /\ \A r \in Sharing : owner[r].kind = Nothing <=> owner[r].at = "idle"
  BY DEF LinkTypes
<1>1. CASE Answers(q)
  <2>1. /\ Silent \in [kind : Kinds \cup {Nothing}, at : Steps, link : Nat]
        /\ Silent.kind = Nothing /\ Silent.at = "idle"
    BY DEF Silent, Steps
  <2> QED
    BY <1>0, <1>1, <2>1 DEF Answers
<1>2. CASE \E at \in Steps \ {"idle"}, l \in Nat : Goes(q, at, l)
  <2>1. PICK at \in Steps \ {"idle"}, l \in Nat :
          owner' = [owner EXCEPT ![q].at = at, ![q].link = l]
    BY <1>2 DEF Goes
  <2>2. /\ owner'[q].kind = owner[q].kind /\ owner'[q].at = at
        /\ owner'[q] \in [kind : Kinds \cup {Nothing}, at : Steps, link : Nat]
    BY <1>0, <2>1
  <2> QED
    BY <1>0, <2>1, <2>2
<1> QED
  BY <1>1, <1>2

\* A request begins: it is the only one, or it says that it overlaps.
LEMMA FindingKeepsLinks ==
    ASSUME LinksInv, NEW q \in Sharing, NEW kind \in Kinds, Finds(q, kind)
    PROVE  LinksInv'
<1>1. PICK l \in Nat :
        owner' = [owner EXCEPT ![q] = [kind |-> kind, at |-> "found", link |-> l]]
  BY LinksAreNumbered DEF Finds, LinksInv
<1>2. LinkTypes'
  BY <1>1, LinksAssumption DEF LinksInv, LinkTypes, Finds, Steps
<1>3. ASSUME ~overlapped' PROVE OneLink' /\ NoneLeft'
  <2>1. /\ ~overlapped /\ kept /\ UNCHANGED <<kept, shares>>
        /\ kind \in Publish => \A r \in Sharing \ {q} : owner[r].kind \notin Publish
    BY <1>3 DEF Finds
  <2>2. LiveLinks("story")' = LiveLinks("story")
    BY <2>1 DEF LiveLinks
  <2>3. \A r, t \in Sharing :
          owner'[r].kind \in Publish /\ owner'[t].kind \in Publish => r = t
    BY <1>1, <2>1 DEF LinksInv, OneLink, LinkTypes
  <2>4. \A r \in Sharing : owner'[r].at = "looked" => owner'[r] = owner[r]
    BY <1>1 DEF LinksInv, LinkTypes
  <2> QED
    BY <2>1, <2>2, <2>3, <2>4 DEF LinksInv, OneLink, NoneLeft
<1> QED
  BY <1>2, <1>3 DEF LinksInv

\* A request goes on without a new link: what was live stays live or goes.
LEMMA GoingOnKeepsLinks ==
    ASSUME LinksInv, NEW q \in Sharing, owner[q].at # "idle", UNCHANGED <<kept, overlapped>>,
           \/ Answers(q)
           \/ \E at \in Steps \ {"idle"}, l \in Nat : Goes(q, at, l),
           ~kept /\ ~overlapped => owner'[q].at \in {"idle", "files"},
           shares' \in Seq(Link),
           LiveLinks("story")' \subseteq LiveLinks("story"),
           \A l \in DOMAIN shares' : shares'[l].live => l \in DOMAIN shares /\ shares[l].live,
           owner'[q].at = "looked" => owner[q].kind \in Publish,
           owner'[q].at = "looked" /\ owner'[q].link = 0 => LiveLinks("story")' = {}
    PROVE  LinksInv'
<1>0. LinkTypes
  BY DEF LinksInv
<1>1. /\ owner' \in [Sharing -> [kind : Kinds \cup {Nothing}, at : Steps, link : Nat]]
      /\ \A r \in Sharing : owner'[r].kind = Nothing <=> owner'[r].at = "idle"
      /\ \A r \in Sharing \ {q} : owner'[r] = owner[r]
      /\ owner'[q].kind \in {owner[q].kind, Nothing}
  BY <1>0, RequestsStayTyped
<1>2. LinkTypes'
  BY <1>0, <1>1 DEF LinkTypes
<1>3. ASSUME ~overlapped PROVE OneLink' /\ NoneLeft'
  <2>1. \A r, t \in Sharing :
          owner'[r].kind \in Publish /\ owner'[t].kind \in Publish => r = t
    BY <1>1, <1>3, LinksAssumption DEF LinksInv, OneLink, Publish, Kinds
  <2>2. \A r \in Sharing :
          owner'[r].at = "looked" /\ owner'[r].link = 0 => LiveLinks("story")' = {}
    BY <1>1, <1>3 DEF LinksInv, OneLink
  <2> QED
    BY <1>1, <1>3, <2>1, <2>2 DEF LinksInv, OneLink, NoneLeft
<1> QED
  BY <1>2, <1>3 DEF LinksInv

\* A function over the first numbers is a sequence.
LEMMA FunctionIsSeq ==
    ASSUME NEW n \in Nat, NEW S, NEW f \in [1..n -> S]
    PROVE  f \in Seq(S)
OBVIOUS

\* Links that are turned off are links as before, fewer of them live.
LEMMA TurningOffKeepsTypes ==
    ASSUME LinkTypes, NEW kinds, TurnsOff(kinds)
    PROVE  /\ shares' \in Seq(Link)
           /\ LiveLinks("story")' \subseteq LiveLinks("story")
           /\ DOMAIN shares' = DOMAIN shares
           /\ \A l \in DOMAIN shares' :
                shares'[l].live => shares[l].live /\ shares[l].kind \notin kinds
<1>1. /\ Len(shares) \in Nat /\ DOMAIN shares = 1..Len(shares)
      /\ \A l \in 1..Len(shares) : shares[l] \in Link
  BY LenProperties DEF LinkTypes
<1>2. /\ DOMAIN shares' = 1..Len(shares)
      /\ shares' \in [1..Len(shares) -> Link]
      /\ \A l \in 1..Len(shares) :
           /\ shares'[l].kind = shares[l].kind
           /\ shares'[l].live => shares[l].live /\ shares[l].kind \notin kinds
  BY <1>1 DEF TurnsOff, Link
<1>3. shares' \in Seq(Link)
  BY <1>1, <1>2, FunctionIsSeq
<1> QED
  BY <1>1, <1>2, <1>3 DEF LiveLinks

\* share_report adds a private link to a fight that is there.
LEMMA CoachLinkKeepsLinks ==
    ASSUME LinksInv, NEW q \in Sharing, SharesWithCoach(q)
    PROVE  LinksInv'
<1>0. LinkTypes /\ shares \in Seq(Link) /\ owner[q].at = "found"
  BY DEF LinksInv, LinkTypes, SharesWithCoach
<1>1. /\ shares' = Append(shares, [kind |-> "coach", live |-> TRUE])
      /\ kept' = kept /\ overlapped' = overlapped /\ Answers(q)
  BY DEF SharesWithCoach, Makes
<1>2. shares' \in Seq(Link) /\ LiveLinks("story")' \subseteq LiveLinks("story")
  BY <1>0, <1>1 DEF LiveLinks, Link
<1>3. /\ LinkTypes' /\ \A r \in Sharing \ {q} : owner'[r] = owner[r]
      /\ owner'[q].kind \in {owner[q].kind, Nothing} /\ owner'[q].at = "idle"
  <2>1. owner'[q] = Silent
    BY <1>0, <1>1 DEF Answers, LinkTypes
  <2> QED
    BY <1>0, <1>1, <1>2, <2>1, RequestsStayTyped DEF LinkTypes, Silent
<1>4. ASSUME ~overlapped PROVE OneLink' /\ NoneLeft'
  <2>1. kept
    BY <1>0, <1>4 DEF LinksInv, NoneLeft
  <2>2. \A r, t \in Sharing :
          owner'[r].kind \in Publish /\ owner'[t].kind \in Publish => r = t
    BY <1>3, <1>4, LinksAssumption DEF LinksInv, OneLink, Publish, Kinds
  <2> QED
    BY <1>1, <1>2, <1>3, <1>4, <2>1, <2>2 DEF LinksInv, OneLink, NoneLeft
<1> QED
  BY <1>1, <1>3, <1>4 DEF LinksInv

\* story_share looks a live link up, renames it or makes one, and a post goes on.
LEMMA PublishingKeepsLinks ==
    ASSUME LinksInv, NEW q \in Sharing, LooksUp(q) \/ SharesStory(q) \/ Places(q)
    PROVE  LinksInv'
<1>0. LinkTypes /\ shares \in Seq(Link)
  BY DEF LinksInv, LinkTypes
<1>1. CASE LooksUp(q)
  <2>1. PICK l \in Nat : Goes(q, "looked", l) /\ (l = 0 => LiveLinks("story") = {})
    BY <1>0, <1>1, LinksAreNumbered DEF LooksUp, Reusable
  <2>2. owner'[q].at = "looked" /\ owner'[q].link = l
    BY <1>0, <2>1 DEF Goes, LinkTypes
  <2>3. /\ UNCHANGED <<kept, overlapped, shares>> /\ owner[q].at = "found"
        /\ ~kept /\ ~overlapped => FALSE
        /\ owner[q].kind \in Publish
    BY <1>1 DEF LooksUp, LinksInv, NoneLeft
  <2>4. LiveLinks("story")' = LiveLinks("story")
    BY <2>3 DEF LiveLinks
  <2> QED
    BY <1>0, <2>1, <2>2, <2>3, <2>4, GoingOnKeepsLinks DEF Steps
<1>2. CASE Places(q)
  <2>1. /\ UNCHANGED <<kept, overlapped, shares>> /\ Answers(q)
        /\ owner[q].at \in {"placing", "found"}
    BY <1>2 DEF Places
  <2>2. LiveLinks("story")' = LiveLinks("story") /\ owner'[q].at = "idle"
    BY <1>0, <2>1 DEF LiveLinks, Answers, Silent, LinkTypes
  <2> QED
    BY <1>0, <2>1, <2>2, GoingOnKeepsLinks
<1>3. CASE SharesStory(q) /\ owner[q].link # 0
  <2>1. /\ UNCHANGED <<kept, overlapped, shares>> /\ owner[q].at = "looked"
        /\ Answers(q) \/ \E l \in Nat : Goes(q, "placing", l)
        /\ ~kept /\ ~overlapped => FALSE
    BY <1>3, <1>0 DEF SharesStory, LinkTypes, LinksInv, NoneLeft
  <2>2. LiveLinks("story")' = LiveLinks("story") /\ owner'[q].at # "looked"
    BY <1>0, <2>1 DEF LiveLinks, Answers, Silent, LinkTypes, Goes
  <2> QED
    BY <1>0, <2>1, <2>2, GoingOnKeepsLinks DEF Steps
<1>4. CASE SharesStory(q) /\ owner[q].link = 0
  <2>1. /\ shares' = Append(shares, [kind |-> "story", live |-> TRUE])
        /\ UNCHANGED <<kept, overlapped>> /\ owner[q].at = "looked"
        /\ Answers(q) \/ Goes(q, "placing", Len(shares'))
    BY <1>4 DEF SharesStory, Makes
  <2>2. /\ shares' \in Seq(Link) /\ Len(shares') \in Nat
        /\ LiveLinks("story")' = LiveLinks("story") \cup {Len(shares')}
    BY <1>0, <2>1 DEF LiveLinks, Link
  <2>3. /\ LinkTypes' /\ \A r \in Sharing \ {q} : owner'[r] = owner[r]
        /\ owner'[q].kind \in {owner[q].kind, Nothing}
        /\ owner'[q].at \in {"idle", "placing"}
    <3>1. owner'[q].at \in {"idle", "placing"}
      BY <1>0, <2>1 DEF Answers, Goes, Silent, LinkTypes
    <3>2. Answers(q) \/ \E at \in Steps \ {"idle"}, l \in Nat : Goes(q, at, l)
      BY <2>1, <2>2 DEF Steps
    <3> QED
      BY <1>0, <2>1, <2>2, <3>1, <3>2, RequestsStayTyped DEF LinkTypes
  <2>4. ASSUME ~overlapped PROVE OneLink' /\ NoneLeft'
    <3>1. kept /\ LiveLinks("story") = {} /\ owner[q].kind \in Publish
      <4>1. kept /\ LiveLinks("story") = {}
        BY <1>4, <2>1, <2>4 DEF LinksInv, NoneLeft, OneLink
      <4>2. owner[q].kind \in Publish
        BY <1>0, <2>1 DEF LinkTypes
      <4> QED
        BY <4>1, <4>2
    <3>2. \A r, t \in Sharing :
            owner'[r].kind \in Publish /\ owner'[t].kind \in Publish => r = t
      BY <2>3, <2>4, LinksAssumption DEF LinksInv, OneLink, Publish, Kinds
    <3>3. \A r \in Sharing : owner'[r].at # "looked"
      <4>1. ASSUME NEW r \in Sharing \ {q} PROVE owner[r].at # "looked"
        <5>1. owner[r].at = "looked" => owner[r].kind \in Publish
          BY <1>0 DEF LinkTypes
        <5> QED
          BY <2>4, <3>1, <5>1 DEF LinksInv, OneLink
      <4> QED
        BY <2>3, <4>1
    <3> QED
      BY <2>1, <2>2, <3>1, <3>2, <3>3 DEF NoneLeft, OneLink
  <2> QED
    BY <2>1, <2>3, <2>4 DEF LinksInv
<1> QED
  BY <1>1, <1>2, <1>3, <1>4

\* Links are turned off, by their owner, with the fight, or by time.
LEMMA EndingKeepsLinks ==
    ASSUME LinksInv,
           \/ \E q \in Sharing : Revokes(q) \/ FindsNoFight(q) \/ DeletesFiles(q)
           \/ \E l \in DOMAIN shares : CoachLinkExpires(l)
    PROVE  LinksInv'
<1>0. LinkTypes /\ shares \in Seq(Link)
  BY DEF LinksInv, LinkTypes
<1>1. ASSUME NEW q \in Sharing, Revokes(q) PROVE LinksInv'
  <2>1. /\ UNCHANGED <<kept, overlapped>> /\ Answers(q) /\ owner[q].at = "found"
        /\ \E kinds : TurnsOff(kinds)
    BY <1>1 DEF Revokes
  <2>2. owner'[q].at = "idle"
    BY <1>0, <2>1 DEF Answers, Silent, LinkTypes
  <2>3. /\ shares' \in Seq(Link) /\ LiveLinks("story")' \subseteq LiveLinks("story")
        /\ \A l \in DOMAIN shares' : shares'[l].live => l \in DOMAIN shares /\ shares[l].live
    BY <1>0, <2>1, TurningOffKeepsTypes
  <2> QED
    BY <1>0, <2>1, <2>2, <2>3, GoingOnKeepsLinks
<1>2. ASSUME NEW q \in Sharing, FindsNoFight(q) \/ DeletesFiles(q) PROVE LinksInv'
  <2>1. /\ UNCHANGED <<kept, overlapped, shares>> /\ Answers(q) /\ owner[q].at # "idle"
    BY <1>2 DEF FindsNoFight, DeletesFiles
  <2>2. LiveLinks("story")' = LiveLinks("story") /\ owner'[q].at = "idle"
    BY <1>0, <2>1 DEF LiveLinks, Answers, Silent, LinkTypes
  <2> QED
    BY <1>0, <2>1, <2>2, GoingOnKeepsLinks
<1>3. ASSUME NEW l \in DOMAIN shares, CoachLinkExpires(l) PROVE LinksInv'
  <2>1. /\ UNCHANGED <<kept, overlapped, owner>> /\ l \in 1..Len(shares)
        /\ shares' = [shares EXCEPT ![l].live = FALSE] /\ shares[l] \in Link
    BY <1>0, <1>3, LenProperties DEF CoachLinkExpires
  <2>2. shares' \in Seq(Link)
    <3>1. [shares[l] EXCEPT !.live = FALSE] \in Link
      BY <2>1 DEF Link
    <3> QED
      BY <1>0, <2>1, <3>1, ExceptSeq
  <2>3. /\ LiveLinks("story")' \subseteq LiveLinks("story") /\ DOMAIN shares' = DOMAIN shares
        /\ \A m \in DOMAIN shares' : shares'[m].live => shares[m].live
    BY <1>0, <2>1 DEF LiveLinks, Link
  <2> QED
    BY <1>0, <2>1, <2>2, <2>3 DEF LinksInv, LinkTypes, OneLink, NoneLeft
<1> QED
  BY <1>1, <1>2, <1>3

\* delete_fight takes every link along, and says when it cut across a request.
LEMMA DeletingKeepsLinks ==
    ASSUME LinksInv, NEW q \in Sharing, DeletesRows(q)
    PROVE  LinksInv'
<1>0. LinkTypes /\ Goes(q, "files", 0) /\ owner[q].at # "idle" /\ kept' = FALSE
  BY DEF LinksInv, DeletesRows
<1>1. /\ shares' \in Seq(Link)
      /\ \A l \in DOMAIN shares' : ~shares'[l].live
  <2>1. /\ shares' \in Seq(Link) /\ DOMAIN shares' = DOMAIN shares
        /\ \A l \in DOMAIN shares' :
             shares'[l].live => shares[l].kind \notin {"coach", "story"}
    BY <1>0, TurningOffKeepsTypes DEF DeletesRows, TakesAlong
  <2>2. \A l \in DOMAIN shares : shares[l].kind \in {"coach", "story"}
    <3>1. shares \in Seq(Link)
      BY <1>0 DEF LinkTypes
    <3>2. \A l \in DOMAIN shares : shares[l] \in Link
      BY <3>1, LenProperties, ElementOfSeq
    <3> QED
      BY <3>2 DEF Link
  <2> QED
    BY <2>1, <2>2
<1>2. /\ \A r \in Sharing \ {q} : owner'[r] = owner[r]
      /\ owner'[q].at = "files"
  BY <1>0 DEF Goes, LinkTypes
<1>3. LinkTypes'
  <2>1. overlapped' \in BOOLEAN
    BY <1>0 DEF DeletesRows, LinkTypes
  <2>2. \E at \in Steps \ {"idle"}, l \in Nat : Goes(q, at, l)
    BY <1>0 DEF Steps
  <2>3. /\ owner' \in [Sharing -> [kind : Kinds \cup {Nothing}, at : Steps, link : Nat]]
        /\ \A r \in Sharing : owner'[r].kind = Nothing <=> owner'[r].at = "idle"
    BY <1>0, <2>2, RequestsStayTyped
  <2> QED
    BY <1>0, <1>1, <1>2, <2>1, <2>3 DEF LinkTypes
<1>4. ASSUME ~overlapped' PROVE OneLink' /\ NoneLeft'
  <2>1. \A r \in Sharing \ {q} : owner'[r].at = "idle"
    BY <1>2, <1>4 DEF DeletesRows
  <2>2. LiveLinks("story")' = {}
    BY <1>1 DEF LiveLinks
  <2>3. \A r \in Sharing : owner'[r].kind \in Publish => r = q
    <3>1. Nothing \notin Publish
      BY LinksAssumption DEF Publish, Kinds
    <3> QED
      BY <1>3, <2>1, <3>1 DEF LinkTypes
  <2> QED
    BY <1>1, <1>2, <2>1, <2>2, <2>3 DEF OneLink, NoneLeft
<1> QED
  BY <1>3, <1>4 DEF LinksInv

\* The invariant of the links.
LEMMA LinksInvariant == LinksSpec => []LinksInv
<1>1. LinksInit => LinksInv
  <2> SUFFICES ASSUME LinksInit PROVE LinksInv
    OBVIOUS
  <2>1. shares \in Seq(Link) /\ LiveLinks("story") = {} /\ DOMAIN shares = {}
    BY DEF LinksInit, LiveLinks
  <2>2. Silent \in [kind : Kinds \cup {Nothing}, at : Steps, link : Nat]
    BY DEF Silent, Steps
  <2>3. Silent.kind = Nothing /\ Silent.at = "idle" /\ Nothing \notin Publish
    BY LinksAssumption DEF Silent, Publish, Kinds
  <2> QED
    BY <2>1, <2>2, <2>3 DEF LinksInit, LinksInv, LinkTypes, OneLink, NoneLeft
<1>2. LinksInv /\ [LinksNext]_linksVars => LinksInv'
  <2> SUFFICES ASSUME LinksInv, [LinksNext]_linksVars PROVE LinksInv'
    OBVIOUS
  <2>1. CASE UNCHANGED linksVars
    BY <2>1 DEF linksVars, LinksInv, LinkTypes, OneLink, NoneLeft, LiveLinks
  <2>2. CASE LinksNext
    BY <2>2, FindingKeepsLinks, CoachLinkKeepsLinks, PublishingKeepsLinks,
       EndingKeepsLinks, DeletingKeepsLinks DEF LinksNext
  <2> QED
    BY <2>1, <2>2
<1> QED
  BY <1>1, <1>2, PTL DEF LinksSpec

\* Once a deletion of the fight has come to its end no link shows it, unless the
\* deletion cut across a request: for any number of requests and links.
THEOREM DeletionEndsTheLinks == LinksSpec => []DeletedFightShowsNothing
<1>1. LinksInv => DeletedFightShowsNothing
  BY DEF LinksInv, NoneLeft, DeletedFightShowsNothing, Shown
<1> QED
  BY <1>1, LinksInvariant, PTL

\* story_share: a fight has two live public links only after two requests that
\* publish it overlapped.
THEOREM SharingAgainIsTheSameLink == LinksSpec => []SharingTwiceIsOneLink
<1>1. LinksInv => SharingTwiceIsOneLink
  <2> SUFFICES ASSUME LinksInv, ~overlapped PROVE ~(Cardinality(LiveLinks("story")) > 1)
    BY DEF SharingTwiceIsOneLink
  <2>1. CASE LiveLinks("story") = {}
    BY <2>1, FS_EmptySet
  <2>2. CASE \E l : LiveLinks("story") = {l}
    BY <2>2, FS_Singleton
  <2> QED
    BY <2>1, <2>2 DEF LinksInv, OneLink
<1> QED
  BY <1>1, LinksInvariant, PTL


-----------------------------------------------------------------------------
(* The copy of the video, and the sequences of the corrections.            *)

Removing == [at : {"forgetting", "listed", "wiping", "unlinking", "dropped", "marking"},
             kind : Deletable, path : BOOLEAN, listed : BOOLEAN]
Fixing == [at : {"saving"}]
            \cup [at : {"exporting", "linking", "clearing"}, id : Nat, backfill : BOOLEAN]

CopyTypes ==
    /\ removal \in [Removals -> {Idle} \cup Removing]
    /\ fix \in [Corrections -> {Idle} \cup Fixing]
    /\ note \in {NoNote} \cup [id : Nat, path : BOOLEAN]
    /\ nextNote \in Nat

DropsFile(d) == removal[d].at \in {"dropped", "marking"}

\* Whoever deletes the video has taken the file away before anything else, and
\* then the copy; a row without a video has no file either.
FileGoesFirst ==
    /\ \A d \in Removals : removal[d].at # "idle" =>
         (removal[d].kind = "video" <=> DropsFile(d))
    /\ \A d \in Removals : DropsFile(d) => ~video
    /\ \A d \in Removals : removal[d].at = "marking" => copy = "none"
    /\ fightRow \in {"none", "whole"} \/ (fightRow = "detached" /\ ~video)
    /\ "video" \in fulfilled => ~video /\ copy = "none"

CopiesInv == CopyTypes /\ FileGoesFirst /\ SequencesAreAccountedFor

\* The saver makes a copy only of a file, or beside what is kept.
LEMMA SaverKeepsCopies ==
    ASSUME CopiesInv,
           SavesRow \/ LooksForVideo \/ PlacesVideo \/ RecordsConsent \/ RecordsSaving
    PROVE  CopiesInv'
<1>1. /\ UNCHANGED <<removal, fix, note, nextNote, sequences, strays, video, fulfilled>>
      /\ ~video /\ copy = "none" => copy' = "none"
      /\ fightRow' \in {fightRow, "whole"}
  BY DEF SavesRow, LooksForVideo, PlacesVideo, RecordsConsent, RecordsSaving,
         fightVars, noteVars
<1>2. CopyTypes' /\ SequencesAreAccountedFor'
  BY <1>1 DEF CopiesInv, CopyTypes, SequencesAreAccountedFor, Annotated
<1>3. FileGoesFirst'
  BY <1>1 DEF CopiesInv, FileGoesFirst, DropsFile
<1> QED
  BY <1>2, <1>3 DEF CopiesInv

\* A deletion that knows of an annotation takes its sequence along.
LEMMA RemovingKeepsSequences ==
    ASSUME CopiesInv, RemovesNote, UNCHANGED fix
    PROVE  SequencesAreAccountedFor' /\ note' = NoNote /\ nextNote' = nextNote
<1>1. ASSUME NEW s \in sequences' \ strays'
      PROVE  \E c \in Corrections : fix[c].at = "linking" /\ fix[c].id = s
  BY <1>1 DEF CopiesInv, SequencesAreAccountedFor, RemovesNote, Annotated
<1> QED
  BY <1>1 DEF SequencesAreAccountedFor, RemovesNote

\* One deletion takes its next step and no other moves.
LEMMA RemovalSteps ==
    ASSUME CopyTypes, NEW d \in Removals, removal[d].at # "idle",
           NEW at \in {"forgetting", "wiping", "unlinking", "marking"}, Removes(d, at)
    PROVE  /\ removal' \in [Removals -> {Idle} \cup Removing]
           /\ \A e \in Removals \ {d} : removal'[e] = removal[e]
           /\ removal'[d].at = at /\ removal'[d].kind = removal[d].kind
<1>1. removal[d] \in Removing /\ d \in DOMAIN removal
  BY DEF CopyTypes, Idle
<1>2. /\ [removal[d] EXCEPT !.at = at] \in Removing
      /\ [removal[d] EXCEPT !.at = at].at = at
      /\ [removal[d] EXCEPT !.at = at].kind = removal[d].kind
  BY <1>1 DEF Removing
<1>3. removal' = [removal EXCEPT ![d] = [removal[d] EXCEPT !.at = at]]
  BY DEF Removes
<1> QED
  BY <1>1, <1>2, <1>3 DEF CopyTypes

\* A deletion begins.
LEMMA RemovalBegins ==
    ASSUME CopyTypes, NEW d \in Removals, NEW kind \in Deletable,
           NEW at \in {"forgetting", "listed", "dropped"}, Deletes(d, kind, at)
    PROVE  /\ removal' \in [Removals -> {Idle} \cup Removing]
           /\ \A e \in Removals \ {d} : removal'[e] = removal[e]
           /\ removal'[d].at = at /\ removal'[d].kind = kind
<1>1. PICK path \in BOOLEAN, listed \in BOOLEAN :
        removal' = [removal EXCEPT ![d] =
                      [at |-> at, kind |-> kind, path |-> path, listed |-> listed]]
  BY DEF Deletes
<1>2. [at |-> at, kind |-> kind, path |-> path, listed |-> listed] \in Removing
  BY DEF Removing
<1> QED
  BY <1>1, <1>2 DEF CopyTypes

\* A deletion ends.
LEMMA RemovalEnds ==
    ASSUME CopyTypes, NEW d \in Removals, Ends(d)
    PROVE  /\ removal' \in [Removals -> {Idle} \cup Removing]
           /\ \A e \in Removals \ {d} : removal'[e] = removal[e]
           /\ removal'[d].at = "idle"
           /\ fulfilled' = fulfilled \cup {removal[d].kind}
BY DEF CopyTypes, Ends, Idle

\* What a deletion's step keeps, whichever it is.
LEMMA RemovalKeepsCopies ==
    ASSUME CopiesInv, NEW d \in Removals, UNCHANGED fix,
           removal' \in [Removals -> {Idle} \cup Removing],
           \A e \in Removals \ {d} : removal'[e] = removal[e],
           removal'[d].at # "idle" => (removal'[d].kind = "video" <=> DropsFile(d)'),
           DropsFile(d)' => ~video',
           removal'[d].at = "marking" => copy' = "none",
           video' => video, copy' \in {copy, "none"},
           fightRow' \in {fightRow, "none"} \/ (fightRow' = "detached" /\ ~video'),
           "video" \in fulfilled' => "video" \in fulfilled \/ removal[d].at = "marking",
           RemovesNote \/ UNCHANGED noteVars
    PROVE  CopiesInv'
<1>1. CopyTypes' /\ SequencesAreAccountedFor'
  <2>1. CASE RemovesNote
    BY <2>1, RemovingKeepsSequences DEF CopiesInv, CopyTypes
  <2>2. CASE UNCHANGED noteVars
    BY <2>2 DEF noteVars, CopiesInv, CopyTypes, SequencesAreAccountedFor, Annotated
  <2> QED
    BY <2>1, <2>2
<1>2. FileGoesFirst'
  BY DEF CopiesInv, FileGoesFirst, DropsFile
<1> QED
  BY <1>1, <1>2 DEF CopiesInv

\* Every step of a deletion.
LEMMA DeletionsKeepCopies ==
    ASSUME CopiesInv, NEW d \in Removals,
           \/ DeletesFight(d) \/ ListsFights(d) \/ DeletesAccount(d) \/ ForgetsCopy(d)
           \/ WipesFolder(d) \/ UnlinksVideo(d)
    PROVE  CopiesInv'
<1>0. CopyTypes /\ FileGoesFirst
  BY DEF CopiesInv
<1>1. CASE DeletesFight(d)
  <2>1. /\ removal' \in [Removals -> {Idle} \cup Removing]
        /\ \A e \in Removals \ {d} : removal'[e] = removal[e]
        /\ removal'[d].at = "forgetting" /\ removal'[d].kind = "fight"
    BY <1>0, <1>1, RemovalBegins DEF DeletesFight, Deletable
  <2> QED
    BY <1>0, <1>1, <2>1, RemovalKeepsCopies DEF DeletesFight, DropsFile
<1>2. CASE ListsFights(d)
  <2>1. /\ removal' \in [Removals -> {Idle} \cup Removing]
        /\ \A e \in Removals \ {d} : removal'[e] = removal[e]
        /\ removal'[d].at = "listed" /\ removal'[d].kind = "account"
    BY <1>0, <1>2, RemovalBegins DEF ListsFights, Deletable
  <2> QED
    BY <1>0, <1>2, <2>1, RemovalKeepsCopies
       DEF ListsFights, DropsFile, fightVars, FileGoesFirst
<1>3. CASE DeletesAccount(d)
  <2>1. /\ removal[d].at = "listed" /\ removal[d].kind # "video"
        /\ UNCHANGED <<video, copy, fix>> /\ fightRow' = "none"
        /\ RemovesNote \/ UNCHANGED noteVars
    BY <1>0, <1>3 DEF DeletesAccount, FileGoesFirst, DropsFile
  <2>2. CASE Removes(d, "forgetting") /\ UNCHANGED fulfilled
    BY <1>0, <2>1, <2>2, RemovalSteps, RemovalKeepsCopies DEF DropsFile
  <2>3. CASE Ends(d)
    BY <1>0, <2>1, <2>3, RemovalEnds, RemovalKeepsCopies DEF DropsFile
  <2> QED
    BY <1>3, <2>2, <2>3 DEF DeletesAccount
<1>4. CASE ForgetsCopy(d) \/ WipesFolder(d)
  <2>1. /\ removal[d].at \in {"forgetting", "wiping"} /\ removal[d].kind # "video"
        /\ UNCHANGED <<video, fightRow, fulfilled, fix, noteVars>>
        /\ copy' \in {copy, "none"}
        /\ Removes(d, "wiping") \/ Removes(d, "unlinking")
    BY <1>0, <1>4 DEF ForgetsCopy, WipesFolder, FileGoesFirst, DropsFile
  <2>2. /\ removal' \in [Removals -> {Idle} \cup Removing]
        /\ \A e \in Removals \ {d} : removal'[e] = removal[e]
        /\ removal'[d].at \in {"wiping", "unlinking"}
        /\ removal'[d].kind = removal[d].kind
    BY <1>0, <2>1, RemovalSteps
  <2> QED
    BY <1>0, <2>1, <2>2, RemovalKeepsCopies DEF DropsFile, FileGoesFirst
<1>5. CASE UnlinksVideo(d)
  <2>1. /\ removal[d].at = "unlinking" /\ removal[d].kind # "video" /\ Ends(d)
        /\ UNCHANGED <<fightRow, copy, fix, noteVars>> /\ (video' => video)
    BY <1>0, <1>5 DEF UnlinksVideo, FileGoesFirst, DropsFile
  <2> QED
    BY <1>0, <2>1, RemovalEnds, RemovalKeepsCopies DEF DropsFile, FileGoesFirst
<1> QED
  BY <1>1, <1>2, <1>3, <1>4, <1>5

\* delete_original_video takes the file, then the copy, then the row.
LEMMA VideoDeletionKeepsCopies ==
    ASSUME CopiesInv, NEW d \in Removals, DropsVideo(d) \/ DropsCopy(d) \/ MarksVideo(d)
    PROVE  CopiesInv'
<1>0. CopyTypes /\ FileGoesFirst
  BY DEF CopiesInv
<1>1. CASE DropsVideo(d)
  <2>1. /\ removal' \in [Removals -> {Idle} \cup Removing]
        /\ \A e \in Removals \ {d} : removal'[e] = removal[e]
        /\ removal'[d].at = "dropped" /\ removal'[d].kind = "video"
    BY <1>0, <1>1, RemovalBegins DEF DropsVideo, Deletable
  <2>2. ~video' /\ UNCHANGED <<fightRow, copy, fix, fulfilled, noteVars>>
    BY <1>0, <1>1 DEF DropsVideo, FileGoesFirst
  <2> QED
    BY <1>0, <2>1, <2>2, RemovalKeepsCopies DEF DropsFile
<1>2. CASE DropsCopy(d)
  <2>1. /\ removal[d].at = "dropped" /\ removal[d].kind = "video" /\ ~video
        /\ UNCHANGED <<video, fightRow, fix, fulfilled, noteVars>> /\ copy' = "none"
        /\ Removes(d, "marking")
    BY <1>0, <1>2 DEF DropsCopy, FileGoesFirst, DropsFile
  <2> QED
    BY <1>0, <2>1, RemovalSteps, RemovalKeepsCopies DEF DropsFile
<1>3. CASE MarksVideo(d)
  <2>1. /\ removal[d].at = "marking" /\ ~video /\ Ends(d)
        /\ UNCHANGED <<video, copy, fix, noteVars>>
        /\ fightRow' \in {"none", "detached"}
    BY <1>0, <1>3 DEF MarksVideo, FileGoesFirst, DropsFile, Detaches
  <2> QED
    BY <1>0, <2>1, RemovalEnds, RemovalKeepsCopies DEF DropsFile
<1> QED
  BY <1>1, <1>2, <1>3

\* A correction takes its next step; only the path of its annotation is told
\* where a sequence of it was written.
LEMMA FixesKeepCopies ==
    ASSUME CopiesInv, NEW c \in Corrections,
           OpensFix(c) \/ SavesNote(c) \/ ListsNote(c) \/ Exports(c) \/ SetsPath(c)
    PROVE  CopiesInv'
<1>0. /\ CopyTypes /\ FileGoesFirst /\ SequencesAreAccountedFor
      /\ fix[c] \in {Idle} \cup Fixing /\ c \in DOMAIN fix /\ Idle.at = "idle"
      /\ NoNote \notin [id : Nat, path : BOOLEAN]
  BY CopiesAssumption DEF CopiesInv, CopyTypes, Idle
<1>1. FileGoesFirst' /\ UNCHANGED removal
  <2>1. UNCHANGED <<fightVars, removal, fulfilled>>
    BY DEF OpensFix, SavesNote, ListsNote, Exports, SetsPath
  <2> QED
    BY <1>0, <2>1 DEF FileGoesFirst, DropsFile, fightVars
<1>2. CASE OpensFix(c) \/ ListsNote(c)
  <2>1. /\ UNCHANGED noteVars /\ fix[c].at = "idle" /\ fix[c] = Idle
        /\ \A e \in Corrections \ {c} : fix'[e] = fix[e]
        /\ fix' \in [Corrections -> {Idle} \cup Fixing]
    <3>1. CASE OpensFix(c)
      <4>1. [fix[c] EXCEPT !.at = "saving"] \in Fixing
        BY <1>0, <3>1 DEF OpensFix, Fixing, Idle
      <4> QED
        BY <1>0, <3>1, <4>1 DEF OpensFix, Fixes, Fixing, CopyTypes, Idle
    <3>2. CASE ListsNote(c)
      BY <1>0, <3>2 DEF ListsNote, Fixing, CopyTypes, Annotated
    <3> QED
      BY <1>2, <3>1, <3>2
  <2>2. SequencesAreAccountedFor'
    BY <1>0, <2>1 DEF SequencesAreAccountedFor, Annotated, noteVars
  <2> QED
    BY <1>0, <1>1, <2>1, <2>2 DEF CopiesInv, CopyTypes, noteVars
<1>3. CASE SavesNote(c)
  <2>1. PICK i \in Nat :
          /\ fix' = [fix EXCEPT ![c] = [at |-> "exporting", id |-> i, backfill |-> FALSE]]
          /\ fix[c].at = "saving"
          /\ \/ UNCHANGED noteVars
             \/ /\ note = NoNote /\ note' = [id |-> i, path |-> FALSE]
                /\ nextNote' = nextNote + 1 /\ UNCHANGED <<sequences, strays>>
    BY <1>0, <1>3 DEF SavesNote, CopyTypes, Annotated
  <2>2. /\ \A e \in Corrections \ {c} : fix'[e] = fix[e]
        /\ fix' \in [Corrections -> {Idle} \cup Fixing]
    BY <1>0, <2>1 DEF CopyTypes, Fixing
  <2>3. /\ note' \in {NoNote} \cup [id : Nat, path : BOOLEAN] /\ nextNote' \in Nat
        /\ UNCHANGED <<sequences, strays>>
    <3>1. note \in {NoNote} \cup [id : Nat, path : BOOLEAN] /\ nextNote \in Nat
      BY <1>0 DEF CopyTypes
    <3>2. [id |-> i, path |-> FALSE] \in [id : Nat, path : BOOLEAN] /\ nextNote + 1 \in Nat
      BY <3>1
    <3> QED
      BY <2>1, <3>1, <3>2 DEF noteVars
  <2>4. SequencesAreAccountedFor'
    BY <1>0, <2>1, <2>2, <2>3 DEF SequencesAreAccountedFor, Annotated, noteVars
  <2> QED
    BY <1>0, <1>1, <2>2, <2>3, <2>4 DEF CopiesInv, CopyTypes
<1>4. CASE Exports(c)
  <2>1. /\ UNCHANGED <<note, nextNote, strays>> /\ fix[c].at = "exporting"
        /\ fix[c].id \in Nat /\ fix[c] \in Fixing
    BY <1>0, <1>4 DEF Exports, Fixing
  <2>2. /\ \A e \in Corrections \ {c} : fix'[e] = fix[e]
        /\ fix' \in [Corrections -> {Idle} \cup Fixing]
        /\ \/ UNCHANGED sequences
           \/ /\ sequences' = sequences \cup {fix[c].id}
              /\ fix'[c].at = "linking" /\ fix'[c].id = fix[c].id
    <3>1. ASSUME NEW at \in {"linking", "clearing"}, Fixes(c, at)
          PROVE  /\ \A e \in Corrections \ {c} : fix'[e] = fix[e]
                 /\ fix' \in [Corrections -> {Idle} \cup Fixing]
                 /\ fix'[c].at = at /\ fix'[c].id = fix[c].id
      <4>1. /\ [fix[c] EXCEPT !.at = at] \in Fixing
            /\ [fix[c] EXCEPT !.at = at].at = at
            /\ [fix[c] EXCEPT !.at = at].id = fix[c].id
        BY <2>1 DEF Fixing
      <4> QED
        BY <1>0, <3>1, <4>1 DEF Fixes, CopyTypes
    <3>2. CASE fix' = [fix EXCEPT ![c] = Idle] /\ UNCHANGED sequences
      BY <1>0, <3>2 DEF CopyTypes
    <3> QED
      BY <1>4, <3>1, <3>2 DEF Exports
  <2>3. SequencesAreAccountedFor'
    BY <1>0, <2>1, <2>2 DEF SequencesAreAccountedFor, Annotated
  <2> QED
    BY <1>0, <1>1, <2>1, <2>2, <2>3 DEF CopiesInv, CopyTypes
<1>5. CASE SetsPath(c)
  <2> DEFINE here == Annotated /\ note.id = fix[c].id
             linked == fix[c].at = "linking"
  <2>1. /\ UNCHANGED <<nextNote, sequences>> /\ fix' = [fix EXCEPT ![c] = Idle]
        /\ note' = IF here THEN [note EXCEPT !.path = linked] ELSE note
        /\ strays' = IF here /\ linked THEN strays \ {fix[c].id}
                     ELSE strays \cup (sequences \cap {fix[c].id})
    BY <1>5 DEF SetsPath
  <2>2. /\ \A e \in Corrections \ {c} : fix'[e] = fix[e]
        /\ fix' \in [Corrections -> {Idle} \cup Fixing]
    BY <1>0, <2>1 DEF CopyTypes
  <2>3. here => /\ note' \in [id : Nat, path : BOOLEAN] /\ note' # NoNote
                /\ note' = [id |-> fix[c].id, path |-> linked]
    BY <1>0, <2>1 DEF CopyTypes, Annotated
  <2>4. ASSUME NEW s \in sequences' \ strays'
        PROVE  \/ Annotated' /\ note' = [id |-> s, path |-> TRUE]
               \/ \E e \in Corrections : fix'[e].at = "linking" /\ fix'[e].id = s
    <3>1. CASE s = fix[c].id
      BY <2>1, <2>3, <2>4, <3>1 DEF Annotated
    <3>2. CASE s # fix[c].id
      <4>1. s \in sequences \ strays
        BY <2>1, <2>4, <3>2
      <4>2. CASE Annotated /\ note = [id |-> s, path |-> TRUE]
        BY <2>1, <3>2, <4>2 DEF Annotated
      <4>3. CASE \E e \in Corrections : fix[e].at = "linking" /\ fix[e].id = s
        BY <2>2, <3>2, <4>3
      <4> QED
        BY <1>0, <4>1, <4>2, <4>3 DEF SequencesAreAccountedFor
    <3> QED
      BY <3>1, <3>2
  <2>5. SequencesAreAccountedFor'
    BY <2>4 DEF SequencesAreAccountedFor
  <2>6. note' \in {NoNote} \cup [id : Nat, path : BOOLEAN]
    BY <1>0, <2>1, <2>3 DEF CopyTypes
  <2> QED
    BY <1>0, <1>1, <2>1, <2>2, <2>5, <2>6 DEF CopiesInv, CopyTypes
<1> QED
  BY <1>2, <1>3, <1>4, <1>5

\* The invariant of what is kept for training.
LEMMA CopiesInvariant == CopiesSpec => []CopiesInv
<1>1. CopiesInit => CopiesInv
  <2> SUFFICES ASSUME CopiesInit PROVE CopiesInv
    OBVIOUS
  <2>1. CopyTypes
    BY DEF CopiesInit, CopyTypes
  <2>2. FileGoesFirst /\ SequencesAreAccountedFor
    BY DEF CopiesInit, FileGoesFirst, DropsFile, SequencesAreAccountedFor, Idle
  <2> QED
    BY <2>1, <2>2 DEF CopiesInv
<1>2. CopiesInv /\ [CopiesNext]_copiesVars => CopiesInv'
  <2> SUFFICES ASSUME CopiesInv, [CopiesNext]_copiesVars PROVE CopiesInv'
    OBVIOUS
  <2>1. CASE UNCHANGED <<fightVars, removal, fulfilled, noteVars, fix>>
    BY <2>1 DEF fightVars, noteVars, CopiesInv, CopyTypes, FileGoesFirst, DropsFile,
                SequencesAreAccountedFor, Annotated
  <2>2. CASE ExpiresVideo
    <3>1. /\ ~video' /\ copy' = copy /\ fightRow' = "detached"
          /\ UNCHANGED <<removal, fulfilled, note, nextNote, sequences, strays, fix>>
      BY <2>2 DEF ExpiresVideo, Detaches, noteVars
    <3> QED
      BY <3>1 DEF CopiesInv, CopyTypes, FileGoesFirst, DropsFile,
                  SequencesAreAccountedFor, Annotated
  <2>3. CASE CopiesNext /\ ~ExpiresVideo /\ ~SetsSharing
    BY <2>3, SaverKeepsCopies, DeletionsKeepCopies, VideoDeletionKeepsCopies,
       FixesKeepCopies DEF CopiesNext
  <2> QED
    BY <2>1, <2>2, <2>3 DEF SetsSharing, copiesVars
<1> QED
  BY <1>1, <1>2, PTL DEF CopiesSpec

\* delete_original_video: once the owner has had the video deleted nothing of it
\* is kept for training, for any number of deletions, copies and corrections.
THEOREM DeletedVideoIsForgotten == CopiesSpec => []VideoDeletionForgets
<1>1. CopiesInv => VideoDeletionForgets
  BY DEF CopiesInv, FileGoesFirst, VideoDeletionForgets
<1> QED
  BY <1>1, CopiesInvariant, PTL

\* The sequence of a correction is found from its row, or is about to be, unless
\* the code lost it in one of the two ways the history strays records.
THEOREM SequencesAreFound == CopiesSpec => []SequencesAreAccountedFor
<1>1. CopiesInv => SequencesAreAccountedFor
  BY DEF CopiesInv
<1> QED
  BY <1>1, CopiesInvariant, PTL


-----------------------------------------------------------------------------
(* The strikes on the page.                                                *)

\* A window that was shown is one of the fight, or a pause next to it: one whose
\* end is a fight now, or was thought to be one while it was analysed.
ShownInFight(p) ==
    fights[p] \/ \E before, after \in Windows :
                   /\ Around(p, before, after) /\ fights[before]
                   /\ fights[after] \/ after <= reached

FootageInv ==
    /\ reached \in {0} \cup Windows /\ fights \in [Windows -> BOOLEAN]
    /\ peaks \subseteq Windows
    /\ everSeen \subseteq {p \in peaks : p < reached /\ ShownInFight(p)}
    /\ report # Pending => report = {p \in peaks : IsFight(p)}

\* Another frame changes the verdict on its own window, which is not over.
LEMMA FramesKeepFootage ==
    ASSUME FootageInv, NEW w \in Windows, AnalysesFrame(w)
    PROVE  FootageInv'
<1>0. Length \in Nat \ {0} /\ Bridged \in Nat
  BY FootageAssumption
<1>1. PICK fight \in BOOLEAN : fights' = [fights EXCEPT ![w] = fight]
  BY DEF AnalysesFrame
<1>2. /\ reached' = w /\ reached <= w /\ UNCHANGED <<onPage, everSeen, report>>
      /\ report = Pending
      /\ peaks \subseteq peaks' /\ peaks' \subseteq Windows
  <2>1. 1..w \subseteq Windows
    BY <1>0 DEF Windows
  <2>2. peaks' = peaks \/ \E p \in 1..w : peaks' = peaks \cup {p}
    BY DEF AnalysesFrame
  <2>3. reached' = w /\ reached <= w /\ UNCHANGED <<onPage, everSeen, report>>
        /\ report = Pending
    BY DEF AnalysesFrame
  <2> QED
    BY <2>1, <2>2, <2>3 DEF FootageInv
<1>3. ASSUME NEW p \in everSeen
      PROVE  p < w /\ ShownInFight(p)'
  <2>1. p \in Windows /\ p < reached /\ ShownInFight(p)
    BY DEF FootageInv
  <2>2. p < w /\ fights'[p] = fights[p]
    BY <1>0, <1>1, <1>2, <2>1 DEF FootageInv, Windows
  <2>3. ASSUME NEW before \in Windows, NEW after \in Windows,
               Around(p, before, after), fights[before],
               fights[after] \/ after <= reached
        PROVE  ShownInFight(p)'
    <3>1. before # w
      BY <1>0, <2>1, <2>2, <2>3 DEF Windows, Around
    <3>2. fights'[before] = fights[before]
      BY <1>1, <3>1 DEF FootageInv
    <3>3. fights'[after] \/ after <= reached'
      BY <1>0, <1>1, <1>2, <2>3 DEF FootageInv, Windows
    <3> QED
      BY <2>3, <3>2, <3>3 DEF ShownInFight, Around
  <2> QED
    BY <2>1, <2>2, <2>3 DEF ShownInFight
<1> QED
  BY <1>1, <1>2, <1>3 DEF FootageInv

\* What is shown is of windows that are over.
LEMMA ShowingKeepsFootage ==
    ASSUME FootageInv, EmitsProgress \/ Reports
    PROVE  FootageInv'
<1>1. /\ UNCHANGED <<reached, fights, peaks>>
      /\ everSeen' \subseteq everSeen \cup {p \in peaks : Decided(p) /\ IsFight(p)}
      /\ report' = report \/ report' = {p \in peaks : IsFight(p)}
  BY DEF EmitsProgress, Reports
<1>2. \A p \in peaks : Decided(p) /\ IsFight(p) => p < reached /\ ShownInFight(p)
  BY DEF Decided, IsFight, IsPause, ShownInFight
<1>3. \A p : /\ IsFight(p)' <=> IsFight(p)
             /\ ShownInFight(p)' <=> ShownInFight(p)
  BY <1>1 DEF IsFight, IsPause, ShownInFight, Around
<1> QED
  BY <1>1, <1>2, <1>3 DEF FootageInv

\* analyzer.py: a strike that was ever on the live page is in the report, unless
\* its window is a pause whose other end turned out to be one too: for footage of
\* any length and pauses of any length.
THEOREM LivePageIsReported == FootageSpec => []ShownLiveIsReported
<1>1. FootageInit => FootageInv
  BY FootageAssumption DEF FootageInit, FootageInv, Windows, Pending
<1>2. FootageInv /\ [FootageNext]_footageVars => FootageInv'
  <2> SUFFICES ASSUME FootageInv, [FootageNext]_footageVars PROVE FootageInv'
    OBVIOUS
  <2>1. CASE UNCHANGED footageVars
    BY <2>1 DEF footageVars, FootageInv, ShownInFight, IsFight, IsPause, Around
  <2>2. CASE FootageNext
    BY <2>2, FramesKeepFootage, ShowingKeepsFootage DEF FootageNext
  <2> QED
    BY <2>1, <2>2
<1>3. FootageInv => ShownLiveIsReported
  <2> SUFFICES ASSUME FootageInv, report # Pending, NEW p \in everSeen \ report
               PROVE  /\ ~fights[p]
                      /\ \E before \in Windows, after \in 1..reached :
                           Around(p, before, after) /\ fights[before] /\ ~fights[after]
    BY DEF ShownLiveIsReported
  <2>1. p \in Windows /\ ~IsFight(p) /\ ShownInFight(p)
    BY DEF FootageInv
  <2>2. PICK before \in Windows, after \in Windows :
          /\ Around(p, before, after) /\ fights[before]
          /\ fights[after] \/ after <= reached
    BY <2>1 DEF IsFight, ShownInFight
  <2>3. ~fights[p] /\ ~fights[after]
    BY <2>1, <2>2 DEF IsFight, IsPause
  <2>4. after \in 1..reached
    BY <2>2, <2>3, FootageAssumption DEF Windows, FootageInv
  <2> QED
    BY <2>2, <2>3, <2>4
<1> QED
  BY <1>1, <1>2, <1>3, PTL DEF FootageSpec

-----------------------------------------------------------------------------
(* Who is who.                                                             *)

FighterState ==
    [track : Candidates \cup {Untracked}, held : Candidates \cup {Untracked},
     last : People \cup {Untracked}, placed : BOOLEAN, missing : 0..Patience,
     entry : {"own", "mask", "recovery"}]

\* A fighter is followed as TracksAreFollowed says, and the track they are
\* followed on, also while it is not seen, is no chair that was taken up again
\* by itself.
IsFollowed(x, chairs) ==
    /\ x.held \in People => x.track = x.held /\ x.last \in {x.held, Untracked}
    /\ x.track # Untracked => x.placed
    /\ x.held # Untracked <=> x.missing = 0
    /\ x.held # Untracked => x.track # Untracked
    /\ x.track \in chairs \cap People => x.entry # "own"

AreFollowed(w, chairs) ==
    w \in [Corners -> FighterState] /\ \A f \in Corners : IsFollowed(w[f], chairs)

IdentityInv == IdentityTypeOK /\ AreFollowed(fighter, furniture)

\* The fighters are two.
LEMMA TwoCorners ==
    ASSUME NEW f \in Corners
    PROVE  /\ "A" \in Corners /\ "B" \in Corners
           /\ Opponent(f) \in Corners /\ Opponent(f) # f
           /\ Opponent(Opponent(f)) = f
           /\ \A g \in Corners : g = f \/ g = Opponent(f)
BY DEF Corners, Opponent

\* _commit: only the fighter it is about changes.
LEMMA FollowKeepsFollowed ==
    ASSUME NEW w, NEW chairs, AreFollowed(w, chairs), NEW f \in Corners,
           NEW p \in Candidates \cup {Untracked}, NEW how \in {"own", "mask", "recovery"},
           p \in chairs \cap People /\ p # w[f].track => how # "own"
    PROVE  /\ AreFollowed(Follow(w, f, p, how), chairs)
           /\ \A g \in Corners \ {f} : Follow(w, f, p, how)[g] = w[g]
<1>0. w \in [Corners -> FighterState] /\ IsFollowed(w[f], chairs)
  BY DEF AreFollowed
<1>1. CASE p = Untracked
  BY <1>1 DEF Follow
<1>2. CASE p # Untracked
  <2> DEFINE moves == p \in People \/ w[f].track = Untracked
             x == [track |-> IF moves THEN p ELSE w[f].track, held |-> p,
                   last |-> IF p \in People THEN p ELSE w[f].last,
                   placed |-> TRUE, missing |-> 0,
                   entry |-> IF moves /\ p # w[f].track THEN how ELSE w[f].entry]
  <2>1. Follow(w, f, p, how) = [w EXCEPT ![f] = x]
    BY <1>2 DEF Follow
  <2>2. x \in FighterState
    BY <1>0, <1>2, IdentityAssumption DEF FighterState
  <2>3. IsFollowed(x, chairs)
    BY <1>0, <1>2, IdentityAssumption DEF FighterState, IsFollowed, Candidates
  <2> HIDE DEF x
  <2> QED
    BY <1>0, <2>1, <2>2, <2>3 DEF AreFollowed
<1> QED
  BY <1>1, <1>2

\* A frame without them: their track stays theirs.
LEMMA LoseKeepsFollowed ==
    ASSUME NEW w, NEW chairs, AreFollowed(w, chairs), NEW f \in Corners
    PROVE  /\ AreFollowed(Lose(w, f), chairs)
           /\ \A g \in Corners : Lose(w, f)[g].track = w[g].track
           /\ \A g \in Corners \ {f} : Lose(w, f)[g] = w[g]
<1>0. w \in [Corners -> FighterState] /\ IsFollowed(w[f], chairs)
  BY DEF AreFollowed
<1> DEFINE x == [w[f] EXCEPT !.held = Untracked,
                             !.missing = IF w[f].missing < Patience
                                         THEN w[f].missing + 1 ELSE w[f].missing]
<1>1. Lose(w, f) = [w EXCEPT ![f] = x]
  BY <1>0 DEF Lose, FighterState
<1>2. x \in FighterState /\ x.track = w[f].track
  <2>1. w[f] \in FighterState
    BY <1>0
  <2>2. (IF w[f].missing < Patience THEN w[f].missing + 1 ELSE w[f].missing) \in 0..Patience
    BY <2>1, IdentityAssumption DEF FighterState
  <2> QED
    BY <2>1, <2>2 DEF FighterState
<1>3. IsFollowed(x, chairs)
  BY <1>0, IdentityAssumption DEF FighterState, IsFollowed, Candidates
<1> HIDE DEF x
<1> QED
  BY <1>0, <1>1, <1>2, <1>3 DEF AreFollowed

\* _release_if_furniture: a fighter without a track is followed nowhere.
LEMMA ReleaseKeepsFollowed ==
    ASSUME NEW w, NEW chairs, AreFollowed(w, chairs), NEW f \in Corners, NEW let
    PROVE  /\ AreFollowed(Release(w, f, let), chairs)
           /\ \A g \in Corners \ {f} : Release(w, f, let)[g] = w[g]
           /\ Release(w, f, let)[f].track =
                IF let = {} THEN w[f].track ELSE Untracked
<1>1. CASE let = {}
  BY <1>1 DEF Release
<1>2. CASE let # {}
  <2> DEFINE v == Lose(w, f)
             x == [v[f] EXCEPT !.track = Untracked, !.placed = FALSE, !.entry = "own"]
  <2>1. AreFollowed(v, chairs) /\ \A g \in Corners \ {f} : v[g] = w[g]
    BY LoseKeepsFollowed
  <2>2. v \in [Corners -> FighterState] /\ IsFollowed(v[f], chairs) /\ v[f].held = Untracked
    <3>1. Lose(w, f)[f].held = Untracked
      BY DEF Lose, AreFollowed, FighterState
    <3> QED
      BY <2>1, <3>1 DEF AreFollowed
  <2>3. Release(w, f, let) = [v EXCEPT ![f] = x]
    BY <1>2, <2>2 DEF Release
  <2> HIDE DEF v
  <2>4. x \in FighterState /\ x.track = Untracked
    BY <2>2 DEF FighterState
  <2>5. IsFollowed(x, chairs)
    BY <2>2, IdentityAssumption DEF FighterState, IsFollowed, Candidates
  <2> HIDE DEF x
  <2> QED
    BY <1>2, <2>1, <2>2, <2>3, <2>4, <2>5 DEF AreFollowed
<1> QED
  BY <1>1, <1>2

\* What stood still before and has not moved is fewer chairs.
LEMMA FewerChairs ==
    ASSUME NEW w, NEW chairs, NEW still \in SUBSET chairs, AreFollowed(w, chairs)
    PROVE  AreFollowed(w, still)
BY DEF AreFollowed, IsFollowed

\* A candidate no gate refuses, or whom the mask overlaps, is no chair that
\* nobody was followed on.
LEMMA WaysKnowChairs ==
    ASSUME NEW w, NEW f \in Corners, NEW p, NEW still, NEW how \in Ways(w, f, p, still),
           p \in still, p # w[f].track
    PROVE  how # "own"
BY DEF Ways, Refused

\* A frame without people, and one in which A and B are assigned.
LEMMA FramesKeepIdentity ==
    ASSUME IdentityInv, SeesNobody \/ AssignsBoth
    PROVE  AreFollowed(fighter', furniture')
<1>0. AreFollowed(fighter, furniture) /\ "A" \in Corners /\ "B" \in Corners
  BY DEF IdentityInv, Corners
<1>1. CASE SeesNobody
  <2>1. AreFollowed(Lose(Lose(fighter, "A"), "B"), furniture)
    BY <1>0, LoseKeepsFollowed
  <2> QED
    BY <1>1, <2>1 DEF SeesNobody
<1>2. CASE AssignsBoth
  <2> DEFINE lost == Lose(Lose(fighter, "A"), "B")
  <2>1. PICK moved \in SUBSET (furniture \cap inFrame'),
             a \in inFrame' \cup {Untracked}, b \in inFrame' \cup {Untracked} :
          /\ furniture' = furniture \ moved
          /\ \E how \in Ways(fighter, "A", a, furniture'),
                other \in Ways(fighter, "B", b, furniture') :
               fighter' = Follow(Follow(lost, "A", a, how), "B", b, other)
    BY <1>2 DEF AssignsBoth
  <2>2. PICK how \in Ways(fighter, "A", a, furniture'),
             other \in Ways(fighter, "B", b, furniture') :
          fighter' = Follow(Follow(lost, "A", a, how), "B", b, other)
    BY <2>1
  <2>3. /\ a \in Candidates \cup {Untracked} /\ b \in Candidates \cup {Untracked}
        /\ how \in {"own", "mask", "recovery"} /\ other \in {"own", "mask", "recovery"}
    BY <1>2 DEF AssignsBoth, Ways
  <2>4. /\ AreFollowed(lost, furniture')
        /\ \A g \in Corners : lost[g].track = fighter[g].track
    <3>1. /\ AreFollowed(Lose(fighter, "A"), furniture)
          /\ \A g \in Corners : Lose(fighter, "A")[g].track = fighter[g].track
      BY <1>0, LoseKeepsFollowed
    <3>2. /\ AreFollowed(lost, furniture)
          /\ \A g \in Corners : lost[g].track = Lose(fighter, "A")[g].track
      BY <1>0, <3>1, LoseKeepsFollowed
    <3> QED
      BY <2>1, <3>1, <3>2, FewerChairs
  <2> HIDE DEF lost
  <2> DEFINE one == Follow(lost, "A", a, how)
  <2>5. AreFollowed(one, furniture') /\ one["B"] = lost["B"]
    <3>1. a \in furniture' /\ a # lost["A"].track => how # "own"
      BY <1>0, <2>4, WaysKnowChairs
    <3> QED
      BY <1>0, <2>3, <2>4, <3>1, FollowKeepsFollowed
  <2>6. AreFollowed(Follow(one, "B", b, other), furniture')
    <3>1. b \in furniture' /\ b # one["B"].track => other # "own"
      BY <1>0, <2>4, <2>5, WaysKnowChairs
    <3> HIDE DEF one
    <3> QED
      BY <1>0, <2>3, <2>5, <3>1, FollowKeepsFollowed
  <2> QED
    BY <2>2, <2>6
<1> QED
  BY <1>1, <1>2

\* A chair is let go of by everybody who is followed on it.
LEMMA LettingGoKeepsIdentity ==
    ASSUME IdentityInv, LetsGo
    PROVE  AreFollowed(fighter', furniture') /\ furniture' \subseteq Candidates
<1>0. /\ AreFollowed(fighter, furniture) /\ "A" \in Corners /\ "B" \in Corners
      /\ furniture \subseteq Candidates /\ fighter \in [Corners -> FighterState]
      /\ Opponent("A") = "B" /\ Opponent("B") = "A" /\ Corners = {"A", "B"}
  BY DEF IdentityInv, Corners, Opponent, AreFollowed, IdentityTypeOK
<1>1. PICK still \in SUBSET {fighter[f].track : f \in Corners}, together \in BOOLEAN :
        LET a == Chairs(fighter, "A", still \ {Untracked}, together)
            without == Release(fighter, "A", a)
            b == Chairs(without, "B", still \ {Untracked}, together)
        IN  fighter' = Release(without, "B", b) /\ furniture' = furniture \cup a \cup b
  BY DEF LetsGo
<1> DEFINE a == Chairs(fighter, "A", still \ {Untracked}, together)
           without == Release(fighter, "A", a)
           b == Chairs(without, "B", still \ {Untracked}, together)
<1>2. fighter' = Release(without, "B", b) /\ furniture' = furniture \cup a \cup b
  BY <1>1
<1>3. /\ AreFollowed(without, furniture) /\ without["B"] = fighter["B"]
      /\ without["A"].track = IF a = {} THEN fighter["A"].track ELSE Untracked
  <2> HIDE DEF a
  <2>1. "B" \in Corners \ {"A"}
    BY <1>0
  <2> QED
    BY <1>0, <2>1, ReleaseKeepsFollowed
<1>4. /\ AreFollowed(fighter', furniture) /\ fighter'["A"] = without["A"]
      /\ fighter'["B"].track = IF b = {} THEN fighter["B"].track ELSE Untracked
  <2> HIDE DEF b, without
  <2>1. "A" \in Corners \ {"B"}
    BY <1>0
  <2> QED
    BY <1>0, <1>2, <1>3, <2>1, ReleaseKeepsFollowed
<1>5. /\ a \subseteq {fighter["A"].track} \ {Untracked}
      /\ b \subseteq {fighter["B"].track} \ {Untracked}
  BY <1>3 DEF Chairs
<1>6. a \cup b \subseteq Candidates
  BY <1>0, <1>5 DEF FighterState
<1>7. \A f \in Corners : fighter'[f].track \notin a \cup b
  <2>1. CASE fighter["A"].track # fighter["B"].track
    BY <1>0, <1>3, <1>4, <1>5, <2>1
  <2>2. CASE fighter["A"].track = fighter["B"].track
    <3>1. a = b
      BY <1>0, <1>3, <2>2 DEF Chairs
    <3> QED
      BY <1>0, <1>3, <1>4, <1>5, <2>2, <3>1
  <2> QED
    BY <2>1, <2>2
<1>8. \A f \in Corners : IsFollowed(fighter'[f], furniture')
  <2> HIDE DEF a, b, without
  <2> QED
    BY <1>2, <1>4, <1>7 DEF IsFollowed, AreFollowed
<1> QED
  BY <1>0, <1>2, <1>4, <1>6, <1>8 DEF AreFollowed

\* The two are put the right way round with all that is known of each.
LEMMA SwapKeepsIdentity ==
    ASSUME IdentityInv, CorrectsSwap
    PROVE  AreFollowed(fighter', furniture')
<1>1. AreFollowed(Exchanged(fighter), furniture)
  BY TwoCorners DEF Exchanged, IdentityInv, AreFollowed
<1> QED
  BY <1>1 DEF CorrectsSwap, IdentityInv

\* A recovery may take up a chair, and says that it did.
LEMMA RecoveryKeepsIdentity ==
    ASSUME IdentityInv, NEW f \in Corners, RecoversFighter(f)
    PROVE  AreFollowed(fighter', furniture')
<1>1. CASE UNCHANGED fighter
  BY <1>1 DEF RecoversFighter, IdentityInv
<1>2. ASSUME NEW p \in inFrame, fighter' = Follow(fighter, f, p, "recovery")
      PROVE  AreFollowed(fighter', furniture')
  <2>1. p \in Candidates /\ AreFollowed(fighter, furniture) /\ furniture' = furniture
    BY DEF RecoversFighter, IdentityInv, IdentityTypeOK
  <2>2. AreFollowed(Follow(fighter, f, p, "recovery"), furniture)
    BY <2>1, FollowKeepsFollowed
  <2> QED
    BY <1>2, <2>1, <2>2
<1> QED
  BY <1>1, <1>2 DEF RecoversFighter

\* The judge takes whom no gate refuses.
LEMMA JudgeKeepsIdentity ==
    ASSUME IdentityInv, Judges
    PROVE  AreFollowed(fighter', furniture')
<1>0. AreFollowed(fighter, furniture) /\ "A" \in Corners /\ "B" \in Corners
  BY DEF IdentityInv, Corners
<1>1. furniture' \subseteq furniture /\ AreFollowed(fighter, furniture')
  BY <1>0, FewerChairs DEF Judges
<1>2. ASSUME NEW a \in inFrame, NEW b \in inFrame,
             ~Refused(fighter, "A", a, furniture'), ~Refused(fighter, "B", b, furniture'),
             fighter' = Follow(Follow(fighter, "A", a, "own"), "B", b, "own")
      PROVE  AreFollowed(fighter', furniture')
  <2> DEFINE one == Follow(fighter, "A", a, "own")
  <2>1. /\ a \in Candidates /\ b \in Candidates
        /\ a \in furniture' => a = fighter["A"].track
        /\ b \in furniture' => b = fighter["B"].track
    BY <1>2 DEF IdentityInv, IdentityTypeOK, Refused
  <2>2. AreFollowed(one, furniture') /\ one["B"] = fighter["B"]
    <3>1. "B" \in Corners \ {"A"}
      BY <1>0
    <3>2. /\ a \in Candidates \cup {Untracked}
          /\ ~(a \in furniture' \cap People /\ a # fighter["A"].track)
      BY <2>1
    <3>3. /\ AreFollowed(one, furniture')
          /\ \A g \in Corners \ {"A"} : one[g] = fighter[g]
      BY <1>0, <1>1, <3>2, FollowKeepsFollowed
    <3> QED
      BY <3>1, <3>3
  <2> HIDE DEF one
  <2>3. AreFollowed(Follow(one, "B", b, "own"), furniture')
    BY <1>0, <2>1, <2>2, FollowKeepsFollowed
  <2> QED
    BY <1>2, <2>3 DEF one
<1> QED
  BY <1>1, <1>2 DEF Judges

\* Who is followed on which track, for any number of people and of frames.
LEMMA IdentityInvariant == IdentitySpec => []IdentityInv
<1>1. IdentityInit => IdentityInv
  <2> SUFFICES ASSUME IdentityInit PROVE IdentityInv
    OBVIOUS
  <2>1. PICK pick \in [Corners -> People] :
          fighter = [f \in Corners |->
                      [track |-> pick[f], held |-> pick[f], last |-> Untracked,
                       placed |-> TRUE, missing |-> 0, entry |-> "own"]]
    BY DEF IdentityInit
  <2>2. fighter \in [Corners -> FighterState]
    BY <2>1, IdentityAssumption DEF FighterState, Candidates
  <2>3. \A f \in Corners : IsFollowed(fighter[f], furniture)
    BY <2>1, IdentityAssumption DEF IsFollowed, Candidates, IdentityInit
  <2> QED
    BY <2>2, <2>3, IdentityAssumption
       DEF IdentityInv, IdentityTypeOK, AreFollowed, FighterState, IdentityInit, Candidates
<1>2. IdentityInv /\ [IdentityNext]_identityVars => IdentityInv'
  <2> SUFFICES ASSUME IdentityInv, [IdentityNext]_identityVars PROVE IdentityInv'
    OBVIOUS
  <2>1. CASE UNCHANGED identityVars
    BY <2>1 DEF identityVars, IdentityInv, IdentityTypeOK, AreFollowed
  <2>2. ASSUME IdentityNext PROVE AreFollowed(fighter', furniture')
    <3>1. ASSUME LetsGo PROVE AreFollowed(fighter', furniture')
      BY <3>1, LettingGoKeepsIdentity
    <3> QED
      BY <2>2, <3>1, FramesKeepIdentity, SwapKeepsIdentity,
         RecoveryKeepsIdentity, JudgeKeepsIdentity DEF IdentityNext
  <2>3. ASSUME IdentityNext
        PROVE  /\ crossed' \in 0..(CrossedFor - 1)
               /\ furniture' \subseteq Candidates /\ inFrame' \subseteq Candidates
    <3>0. IdentityTypeOK /\ CrossedFor \in Nat \ {0}
      BY IdentityAssumption DEF IdentityInv
    <3>1. LetsGo => furniture' \subseteq Candidates
      BY LettingGoKeepsIdentity
    <3>2. furniture' \subseteq Candidates
      BY <2>3, <3>0, <3>1 DEF IdentityTypeOK, IdentityNext, SeesNobody, AssignsBoth,
         CorrectsSwap, RecoversFighter, Judges
    <3>3. inFrame' \subseteq Candidates
      BY <2>3, <3>0 DEF IdentityTypeOK, IdentityNext, SeesNobody, AssignsBoth,
         LetsGo, CorrectsSwap, RecoversFighter, Judges
    <3>4. crossed' \in 0..(CrossedFor - 1)
      BY <2>3, <3>0 DEF IdentityTypeOK, IdentityNext, SeesNobody, AssignsBoth,
         LetsGo, CorrectsSwap, RecoversFighter, Judges
    <3> QED
      BY <3>2, <3>3, <3>4
  <2>4. CASE IdentityNext
    BY <2>2, <2>3, <2>4 DEF IdentityInv, IdentityTypeOK, AreFollowed, FighterState
  <2> QED
    BY <2>1, <2>4
<1> QED
  BY <1>1, <1>2, PTL DEF IdentitySpec

\* core/identity.py, _commit, _correct_swap, _release_if_furniture: a fighter
\* held is followed on the track they are held on, and the track hand-offs are
\* counted against is theirs, whatever the pictures say.
THEOREM HeldFightersAreFollowed == IdentitySpec => []TracksAreFollowed
<1>1. IdentityInv => TracksAreFollowed
  BY DEF IdentityInv, AreFollowed, IsFollowed, TracksAreFollowed
<1> QED
  BY <1>1, IdentityInvariant, PTL

\* _furniture: a chair that was let go of is followed again only on a mask's
\* word, until it moves.
THEOREM ChairsAreNotTakenUp == IdentitySpec => []ChairsStayEmpty
<1>1. IdentityInv => ChairsStayEmpty
  BY DEF IdentityInv, AreFollowed, IsFollowed, ChairsStayEmpty
<1> QED
  BY <1>1, IdentityInvariant, PTL

-----------------------------------------------------------------------------
(* The strikes of one fighter.                                             *)

\* The greatest of a bounded set of numbers: that they are well-founded is the
\* induction behind it.
LEMMA GreatestPeak ==
    ASSUME NEW b \in Nat, NEW S, S \subseteq 0..b, S # {}
    PROVE  Max(S) \in S /\ \A n \in S : n <= Max(S)
<1> DEFINE T == {m \in 0..b : \A n \in S : n <= m}
<1>1. T \subseteq Nat /\ b \in T
  OBVIOUS
<1>2. PICK m \in T : \A n \in T : ~ (<<n, m>> \in OpToRel(<, Nat))
  <2>1. T # {}
    BY <1>1
  <2> HIDE DEF T
  <2> QED
    BY <1>1, <2>1, NatLessThanWellFounded, WFMin, Zenon
<1>3. \A n \in T : ~ (n < m)
  BY <1>1, <1>2 DEF OpToRel
<1>0. m \in 0..b /\ \A n \in S : n \in 0..b /\ n <= m
  BY <1>2
<1>4. m \in S
  <2> SUFFICES ASSUME m \notin S PROVE FALSE
    OBVIOUS
  <2>1. \A n \in S : n < m
    BY <1>0
  <2>2. PICK some \in S : TRUE
    OBVIOUS
  <2>3. m - 1 \in 0..b /\ \A n \in S : n <= m - 1
    BY <2>1, <2>2, <1>0
  <2> QED
    BY <2>3, <1>3, <1>0
<1> QED
  BY <1>4, <1>0 DEF Max

\* While the fighter is in sight, the last sample is of the last frame and of the
\* round in view.
InSight ==
    /\ view.since <= clock
    /\ sample # Never => sample.time = clock /\ view.round = sample.round

\* An action under way was seen from its start on.
SeenFromTheStart ==
    \A l \in Limbs : action[l] # Never =>
       /\ sample # Never
       /\ view.since <= action[l].start
       /\ action[l].start < action[l].peak /\ action[l].peak <= clock

\* What counted did not come after the last of its family.
NoneAfterTheLast ==
    \A e \in struck : peaked[e.family] # Never /\ e.peak <= peaked[e.family]

StrikesInv ==
    StrikesTypeOK /\ InSight /\ SeenFromTheStart /\ NoneAfterTheLast /\ StrikesAreSeenOnce

Moment == 0..MaxTime
Moved == [start : Moment, peak : Moment, frames : 1..Longest]

\* What a limb does with a sample: its action goes on or starts in view, and what
\* ends was seen whole.
LEMMA DoingIsSeen ==
    ASSUME StrikesInv, sample # Never, NEW l \in Limbs,
           NEW time \in Moment, time > clock,
           NEW d \in Doings(l, sample, time)
    PROVE  /\ d.now # Never => /\ d.now \in Moved /\ view.since <= d.now.start
                               /\ d.now.start < d.now.peak /\ d.now.peak <= time
           /\ d.event # Never =>
                /\ d.event \in [limb : Limbs, family : Families, start : Moment, peak : Moment]
                /\ view.since <= d.event.start /\ d.event.start < d.event.peak
<1> USE StrikesAssumption DEF Moment
<1>1. /\ sample.time = clock /\ clock \in Moment /\ view.since <= clock
      /\ view.since \in Moment
  BY DEF StrikesInv, StrikesTypeOK, InSight
<1>2. CASE action[l] = Never
  <2>1. d.now \in {Never} \cup Starts(l, sample, time) /\ d.event = Never
    BY <1>2 DEF Doings
  <2>2. CASE d.now = Never
    BY <2>1, <2>2
  <2>3. CASE d.now # Never
    <3>1. d.now = [start |-> clock, peak |-> time, frames |-> 1]
      BY <2>1, <2>3, <1>1 DEF Starts
    <3> QED
      BY <3>1, <2>1, <1>1 DEF Moved
  <2> QED
    BY <2>2, <2>3
<1>3. CASE action[l] # Never
  <2>1. /\ action[l] \in Moved
        /\ view.since <= action[l].start
        /\ action[l].start < action[l].peak /\ action[l].peak <= clock
    BY <1>3 DEF StrikesInv, StrikesTypeOK, SeenFromTheStart, Moved
  <2>2. PICK a \in Followed(action[l], time) :
          \/ d.now = a /\ d.event = Never /\ ~TimedOut(a)
          \/ /\ d.now = Never
             /\ d.event = Never \/ \E f \in TakenFor(FamilyOf[l]) :
                  d.event = [limb |-> l, family |-> f, start |-> a.start, peak |-> a.peak]
    BY <1>3 DEF Doings
  <2>3. /\ a.start = action[l].start /\ a.frames = action[l].frames + 1
        /\ a.peak \in {action[l].peak, time}
        /\ a = [start |-> a.start, peak |-> a.peak, frames |-> a.frames]
    BY <2>1 DEF Followed, Moved
  <2>4. /\ a.start \in Moment /\ a.peak \in Moment /\ a.frames \in Nat /\ a.frames >= 1
        /\ view.since <= a.start /\ a.start < a.peak /\ a.peak <= time
    BY <2>1, <2>3, <1>1 DEF Moved
  <2>5. ~TimedOut(a) => a \in Moved
    BY <2>3, <2>4 DEF TimedOut, Moved
  <2>6. TakenFor(FamilyOf[l]) \subseteq Families
    BY DEF TakenFor, Families
  <2>7. CASE d.now = a /\ d.event = Never /\ ~TimedOut(a)
    BY <2>4, <2>5, <2>7
  <2>8. CASE d.now = Never /\ d.event = Never
    BY <2>8
  <2>9. ASSUME d.now = Never, NEW f \in TakenFor(FamilyOf[l]),
               d.event = [limb |-> l, family |-> f, start |-> a.start, peak |-> a.peak]
        PROVE  /\ d.event \in [limb : Limbs, family : Families, start : Moment, peak : Moment]
               /\ view.since <= d.event.start /\ d.event.start < d.event.peak
    BY <2>4, <2>6, <2>9
  <2> QED
    BY <2>2, <2>7, <2>8, <2>9
<1> QED
  BY <1>2, <1>3

\* An interruption leaves no action, and counts nothing.
LEMMA InterruptionKeepsStrikes ==
    ASSUME StrikesInv, NEW time \in Moment, time >= clock,
           NEW round \in {Never} \cup Rounds, NEW since \in Moment, since <= time,
           \A l \in Limbs : action'[l] = Never, action' = Interrupted,
           sample' \in {Never} \cup {[time |-> time, round |-> r] : r \in {round} \cap Rounds},
           clock' = time, view' = [round |-> round, since |-> since],
           UNCHANGED <<rested, peaked, struck>>
    PROVE  StrikesInv'
<1> USE StrikesAssumption DEF Moment
<1>1. StrikesTypeOK'
  BY DEF StrikesInv, StrikesTypeOK, Interrupted
<1>2. InSight' /\ SeenFromTheStart'
  BY DEF InSight, SeenFromTheStart
<1>3. NoneAfterTheLast' /\ StrikesAreSeenOnce'
  BY DEF StrikesInv, NoneAfterTheLast, StrikesAreSeenOnce
<1> QED
  BY <1>1, <1>2, <1>3 DEF StrikesInv

\* What counted is what its family was last counted for, or came before it.
LEMMA LatestIsLast ==
    ASSUME NEW f \in Families, NEW events, \A e \in events : e.peak \in Moment,
           peaked[f] \in {Never} \cup Moment
    PROVE  LET p == Latest(f, events)
           IN  /\ p \in {Never} \cup Moment
               /\ \A e \in events : e.family = f => p # Never /\ e.peak <= p
               /\ /\ peaked[f] # Never
                  /\ \A e \in events : e.family = f => peaked[f] <= e.peak
                  => p # Never /\ peaked[f] <= p
<1> DEFINE mine == {e \in events : e.family = f}
           tops == {e.peak : e \in mine}
<1> USE StrikesAssumption DEF Moment
<1>1. tops \subseteq 0..MaxTime /\ \A e \in mine : e.peak \in tops
  OBVIOUS
<1>2. CASE tops = {}
  BY <1>1, <1>2 DEF Latest
<1>3. CASE tops # {}
  <2> DEFINE p == Max(tops)
  <2>1. p \in tops /\ \A n \in tops : n <= p
    <3> HIDE DEF tops, mine
    <3> QED
      BY <1>1, <1>3, GreatestPeak
  <2>2. Latest(f, events) = p
    BY <1>3 DEF Latest
  <2>3. PICK e \in mine : p = e.peak
    BY <2>1
  <2> HIDE DEF p
  <2> QED
    BY <1>1, <2>1, <2>2, <2>3
<1> QED
  BY <1>2, <1>3

\* A sample that does not interrupt: what counts of it was seen whole, after all
\* of its family that counted before.
LEMMA SampleKeepsStrikes ==
    ASSUME StrikesInv, NEW time \in Moment, time >= clock, NEW round \in Rounds,
           Sees(time, round)
    PROVE  StrikesInv'
<1> USE StrikesAssumption
<1> USE DEF Moment
<1>0. /\ clock \in Moment /\ view.since \in Moment /\ sample # Never /\ sample.time = clock
      /\ view.round = sample.round /\ peaked \in [Families -> {Never} \cup Moment]
      /\ rested \in [Limbs -> {Never} \cup Moment]
      /\ sample' = [time |-> time, round |-> round] /\ clock' = time
      /\ view' = [round |-> round, since |-> Steady(time, round)]
  BY DEF StrikesInv, StrikesTypeOK, InSight, Sees
<1>1. time > clock /\ view'.since = view.since /\ view' = [round |-> round, since |-> view.since]
  BY <1>0 DEF Sees, Breaks, Steady
<1>2. PICK doing \in [Limbs -> UNION {Doings(l, sample, time) : l \in Limbs}] :
        /\ \A l \in Limbs : doing[l] \in Doings(l, sample, time)
        /\ action' = [l \in Limbs |-> doing[l].now]
        /\ rested' = [l \in Limbs |-> IF doing[l].event = Never THEN rested[l] ELSE time]
        /\ \E order \in SetToSeqs({doing[l].event : l \in Limbs} \ {Never}) :
           \E counted \in SUBSET (DOMAIN order) :
             LET events == {order[i] : i \in counted}
             IN  /\ Accepted(order, counted)
                 /\ peaked' = [f \in Families |-> Latest(f, events)]
                 /\ struck' = struck \cup
                      {[limb |-> e.limb, family |-> e.family, start |-> e.start,
                        peak |-> e.peak, since |-> view'.since] : e \in events}
  BY DEF Sees
<1>3. \A l \in Limbs :
        /\ doing[l].now # Never =>
             /\ doing[l].now \in Moved /\ view.since <= doing[l].now.start
             /\ doing[l].now.start < doing[l].now.peak /\ doing[l].now.peak <= time
        /\ doing[l].event # Never =>
             /\ doing[l].event \in [limb : Limbs, family : Families, start : Moment, peak : Moment]
             /\ view.since <= doing[l].event.start /\ doing[l].event.start < doing[l].event.peak
  BY <1>0, <1>1, <1>2, DoingIsSeen
<1> DEFINE happened == {doing[l].event : l \in Limbs} \ {Never}
<1>4. \A e \in happened :
        /\ e \in [limb : Limbs, family : Families, start : Moment, peak : Moment]
        /\ view.since <= e.start /\ e.start < e.peak
  BY <1>3
<1>5a. PICK order \in SetToSeqs(happened) : \E counted \in SUBSET (DOMAIN order) :
        /\ Accepted(order, counted)
        /\ peaked' = [f \in Families |-> Latest(f, {order[i] : i \in counted})]
        /\ struck' = struck \cup
             {[limb |-> e.limb, family |-> e.family, start |-> e.start,
               peak |-> e.peak, since |-> view'.since] : e \in {order[i] : i \in counted}}
  BY <1>2
<1>5. PICK counted \in SUBSET (DOMAIN order) :
        /\ Accepted(order, counted)
        /\ peaked' = [f \in Families |-> Latest(f, {order[i] : i \in counted})]
        /\ struck' = struck \cup
             {[limb |-> e.limb, family |-> e.family, start |-> e.start,
               peak |-> e.peak, since |-> view'.since] : e \in {order[i] : i \in counted}}
  BY <1>5a
<1>6. /\ DOMAIN order \subseteq Nat
      /\ \A i \in DOMAIN order : order[i] \in happened
  BY DEF SetToSeqs
<1> DEFINE events == {order[i] : i \in counted}
<1>7. \A e \in events :
        /\ e \in [limb : Limbs, family : Families, start : Moment, peak : Moment]
        /\ view.since <= e.start /\ e.start < e.peak
  BY <1>4, <1>6
<1>8. \A i \in counted :
        /\ order[i].family \in Families
        /\ Since(order[i].peak, peaked[order[i].family]) >= Apart
        /\ \A k \in counted : k < i /\ order[k].family = order[i].family
                            => Since(order[i].peak, order[k].peak) >= Apart
  BY <1>5, <1>7 DEF Accepted, Counts
<1>9. \A i \in counted : peaked[order[i].family] # Never =>
        order[i].peak - peaked[order[i].family] >= Apart
  BY <1>8 DEF Since
<1>10. \A i, k \in counted : k < i /\ order[k].family = order[i].family
                            => order[i].peak - order[k].peak >= Apart
  BY <1>7, <1>8 DEF Since
<1> HIDE DEF happened
<1> DEFINE fresh == {[limb |-> e.limb, family |-> e.family, start |-> e.start,
                     peak |-> e.peak, since |-> view.since] : e \in events}
<1>11. struck' = struck \cup fresh
  BY <1>1, <1>5
<1>12. \A e \in fresh : \E i \in counted : e.family = order[i].family /\ e.peak = order[i].peak
                                          /\ e.start = order[i].start
  OBVIOUS
<1>13. \A i, k \in counted : [limb |-> order[i].limb, family |-> order[i].family,
           start |-> order[i].start, peak |-> order[i].peak, since |-> view.since] #
         [limb |-> order[k].limb, family |-> order[k].family,
           start |-> order[k].start, peak |-> order[k].peak, since |-> view.since] => i # k
  OBVIOUS
<1>14. fresh \subseteq [limb : Limbs, family : Families, start : Moment, peak : Moment,
                        since : Moment]
       /\ \A e \in fresh : e.since <= e.start /\ e.start < e.peak
  BY <1>7, <1>0
<1>15. \A f \in Families :
        /\ peaked'[f] \in {Never} \cup Moment
        /\ \A e \in events : e.family = f => peaked'[f] # Never /\ e.peak <= peaked'[f]
        /\ peaked[f] # Never => peaked'[f] # Never /\ peaked[f] <= peaked'[f]
  <2> TAKE f \in Families
  <2>1. \A e \in events : e.family = f /\ peaked[f] # Never => peaked[f] <= e.peak
    BY <1>9, <1>7, <1>0
  <2>2. /\ \A e \in events : e.peak \in Moment
        /\ peaked[f] \in {Never} \cup Moment /\ peaked'[f] = Latest(f, events)
    BY <1>7, <1>0, <1>5
  <2> HIDE DEF events
  <2> QED
    BY <2>1, <2>2, LatestIsLast
<1>16. StrikesTypeOK'
  <2>1. action' \in [Limbs -> {Never} \cup Moved]
    BY <1>2, <1>3
  <2>2. rested' \in [Limbs -> {Never} \cup Moment]
    BY <1>2, <1>0
  <2>3. peaked' \in [Families -> {Never} \cup Moment]
    BY <1>5, <1>15
  <2>4. struck' \subseteq [limb : Limbs, family : Families, start : Moment, peak : Moment,
                           since : Moment]
    BY <1>11, <1>14 DEF StrikesInv, StrikesTypeOK
  <2> QED
    BY <2>1, <2>2, <2>3, <2>4, <1>0, <1>1 DEF StrikesTypeOK, Moved
<1>17. InSight'
  BY <1>0, <1>1 DEF InSight, StrikesInv
<1>18. SeenFromTheStart'
  BY <1>0, <1>1, <1>2, <1>3 DEF SeenFromTheStart
<1>19. NoneAfterTheLast'
  <2>1. \A e \in struck : /\ e.family \in Families /\ e.peak \in Moment
                          /\ peaked[e.family] # Never /\ e.peak <= peaked[e.family]
    BY DEF StrikesInv, NoneAfterTheLast, StrikesTypeOK
  <2>2. \A e \in struck : peaked'[e.family] # Never /\ e.peak <= peaked'[e.family]
    BY <2>1, <1>15, <1>0
  <2>3. \A e \in fresh : peaked'[e.family] # Never /\ e.peak <= peaked'[e.family]
    BY <1>7, <1>15
  <2> QED
    BY <2>2, <2>3, <1>11 DEF NoneAfterTheLast
<1>20. StrikesAreSeenOnce'
  <2>1. \A e, f \in struck : e # f /\ e.family = f.family => e.peak - f.peak \notin (1 - Apart)..(Apart - 1)
    BY DEF StrikesInv, StrikesAreSeenOnce
  <2>2. \A e \in struck : e.since <= e.start /\ e.start < e.peak
    BY DEF StrikesInv, StrikesAreSeenOnce
  <2>3. \A e \in fresh, f \in struck : e.family = f.family => e.peak - f.peak >= Apart
    <3> TAKE e \in fresh, f \in struck
    <3>1. PICK i \in counted : e.family = order[i].family /\ e.peak = order[i].peak
      BY <1>12
    <3>2. e.family \in Families /\ e.peak \in Moment /\ f.peak \in Moment
      BY <1>14 DEF StrikesInv, StrikesTypeOK
    <3>3. peaked[f.family] # Never /\ f.peak <= peaked[f.family]
      BY DEF StrikesInv, NoneAfterTheLast
    <3> QED
      BY <3>1, <3>2, <3>3, <1>9, <1>0
  <2>4. \A e, f \in fresh : e # f /\ e.family = f.family => e.peak - f.peak \notin (1 - Apart)..(Apart - 1)
    <3> SUFFICES ASSUME NEW e \in fresh, NEW f \in fresh, e # f, e.family = f.family
                 PROVE  e.peak - f.peak \notin (1 - Apart)..(Apart - 1)
      OBVIOUS
    <3>1. PICK i \in counted : e = [limb |-> order[i].limb, family |-> order[i].family,
             start |-> order[i].start, peak |-> order[i].peak, since |-> view.since]
      OBVIOUS
    <3>2. PICK k \in counted : f = [limb |-> order[k].limb, family |-> order[k].family,
             start |-> order[k].start, peak |-> order[k].peak, since |-> view.since]
      OBVIOUS
    <3>3. i # k /\ i \in Nat /\ k \in Nat
      BY <3>1, <3>2, <1>6
    <3>4. /\ e.peak \in Moment /\ f.peak \in Moment /\ e.peak = order[i].peak /\ f.peak = order[k].peak
          /\ order[i].family = order[k].family
      BY <3>1, <3>2, <1>14
    <3> HIDE DEF fresh, events
    <3> QED
      BY <3>3, <3>4, <1>10
  <2>5. \A e \in fresh : e.since <= e.start /\ e.start < e.peak
    BY <1>14
  <2>6. \A e \in struck \cup fresh : e.peak \in Moment
    BY <1>14 DEF StrikesInv, StrikesTypeOK
  <2> HIDE DEF fresh, events
  <2>7. \A e, f \in struck' : e # f /\ e.family = f.family => e.peak - f.peak \notin (1 - Apart)..(Apart - 1)
    BY <2>1, <2>3, <2>4, <2>6, <1>11
  <2> QED
    BY <2>2, <2>5, <2>7, <1>11 DEF StrikesAreSeenOnce
<1> QED
  BY <1>16, <1>17, <1>18, <1>19, <1>20 DEF StrikesInv

\* core/action.py, ActionEngine: a strike that is counted was seen from its start
\* to its end, in one round and without a gap, and one movement is counted once,
\* for any limbs, lengths of action, gaps and steps of the sampler.
THEOREM StrikesAreSeenWhole == StrikesSpec => []StrikesAreSeenOnce
<1> USE StrikesAssumption DEF Moment
<1>1. StrikesInit => StrikesInv
  BY DEF StrikesInit, StrikesInv, StrikesTypeOK, InSight, SeenFromTheStart,
         NoneAfterTheLast, StrikesAreSeenOnce
<1>2. StrikesInv /\ [StrikesNext]_strikesVars => StrikesInv'
  <2> SUFFICES ASSUME StrikesInv, [StrikesNext]_strikesVars PROVE StrikesInv'
    OBVIOUS
  <2>0. clock \in Moment /\ view.since \in Moment /\ view.since <= clock
    BY DEF StrikesInv, StrikesTypeOK, InSight
  <2>1. CASE UNCHANGED strikesVars
    BY <2>1 DEF strikesVars, StrikesInv, StrikesTypeOK, InSight, SeenFromTheStart,
                NoneAfterTheLast, StrikesAreSeenOnce
  <2>2. CASE StrikesNext
    <3>1. PICK time \in Moment :
            /\ time >= clock
            /\ LosesSight(time) \/ \E round \in Rounds : SeesAfresh(time, round) \/ Sees(time, round)
      BY <2>2, <2>0 DEF StrikesNext
    <3>2. CASE LosesSight(time)
      <4>1. \A l \in Limbs : action'[l] = Never
        BY <3>2 DEF LosesSight, Interrupted
      <4> QED
        BY <3>1, <3>2, <4>1, InterruptionKeepsStrikes DEF LosesSight
    <3>3. ASSUME NEW round \in Rounds, SeesAfresh(time, round) PROVE StrikesInv'
      <4>1. action' = Interrupted
        BY <3>3 DEF SeesAfresh, Interrupted, StrikesInv, SeenFromTheStart, StrikesTypeOK
      <4>2. \A l \in Limbs : action'[l] = Never
        BY <4>1 DEF Interrupted
      <4>3. Steady(time, round) \in Moment /\ Steady(time, round) <= time
        BY <3>1, <2>0 DEF Steady
      <4> QED
        BY <3>1, <3>3, <4>1, <4>2, <4>3, InterruptionKeepsStrikes DEF SeesAfresh
    <3>4. ASSUME NEW round \in Rounds, Sees(time, round) PROVE StrikesInv'
      BY <3>1, <3>4, SampleKeepsStrikes
    <3> QED
      BY <3>1, <3>2, <3>3, <3>4
  <2> QED
    BY <2>1, <2>2
<1>3. StrikesInv => StrikesAreSeenOnce
  BY DEF StrikesInv
<1> QED
  BY <1>1, <1>2, <1>3, PTL DEF StrikesSpec
=============================================================================
