------------------------------- MODULE Uploads -------------------------------
(***************************************************************************)
(* A fight video on its way in: admission (core/upload_security.py), the   *)
(* chunked upload (core/chunked_upload.py and its handlers in app/main.py),*)
(* the single request it falls back to, and the release of what abandoned  *)
(* uploads hold.  Each upload is driven by its page                        *)
(* (app/templates/analyze.html), whose requests may be answered late, be   *)
(* lost, or go on in the server after the page gave up on them.            *)
(*                                                                         *)
(* A video is the sequence of its bytes 1 .. Size, sent in pieces of up to *)
(* Chunk of them.  A clock is replaced by what the code compares it with:  *)
(* whether a session's files have been quiet for IDLE_SESSION_SECONDS, and *)
(* whether a lease ran out.                                                *)
(***************************************************************************)
EXTENDS Naturals, Sequences, FiniteSets

CONSTANTS
    Uploads,        \* the job ids minted for uploads
    Chunked,        \* those whose page knows the chunked path
    Accounts,
    Owners,         \* who may own which upload
    Size,           \* bytes of a video, in units of what a crash may cut off
    Chunk,          \* SETTINGS.upload_chunk_bytes, in the same units
    Slots,          \* requests of one upload the server may run at once
    Absent,         \* no such file
    Allowance,      \* analyses an account may reserve
    MaxPending,     \* SETTINGS.max_pending_uploads
    Storage,        \* videos an account may store (account_storage_bytes)
    MaxTrouble      \* bound: lost answers, late failures and crashes

ASSUME UploadsAssumption ==
    /\ Owners \subseteq [Uploads -> Accounts]
    /\ Size \in Nat \ {0} /\ Chunk \in Nat \ {0}
    /\ Slots \in Nat \ {0}
    /\ Allowance \in Nat
    /\ MaxPending \in Nat \ {0} /\ MaxTrouble \in Nat
    /\ Absent \notin Seq(1 .. Size)

VARIABLES
    owner,      \* the account of an upload
    lease,      \* upload_leases: "none", "live" or "lapsed"
    usage,      \* uploads with a row in analysis_usage
    part,       \* the bytes in <job>.part, or Absent
    meta,       \* uploads with a <job>.part.json
    video,      \* the bytes of the assembled video, or Absent
    jobs,       \* uploads that became a job
    quiet,      \* sessions with no new bytes for the idle time
    found,      \* sessions the maintenance sweep is about to discard
    page,       \* the page that drives the upload
    req,        \* the requests the server is running
    overlapped, \* uploads of which two pieces were handled at once
    undone,     \* uploads whose reservation was given back under them
    trouble     \* lost answers, late failures and crashes so far

vars == <<owner, lease, usage, part, meta, video, jobs, quiet, found, page, req,
          overlapped, undone, trouble>>
held   == <<lease, usage>>
files  == <<part, meta, video, quiet>>
marks  == <<overlapped, undone>>

NoRequest == [op |-> "none", at |-> "idle", offset |-> 0, current |-> 0]
Slot == 1 .. Slots
Minimum(a, b) == IF a < b THEN a ELSE b

\* A slice that starts one byte late.
PieceLate(offset) == [i \in 1 .. Minimum(Chunk, Size - offset) |-> offset + i + 1]

\* The bytes of the piece that starts at offset.
Piece(offset) == [i \in 1 .. Minimum(Chunk, Size - offset) |-> offset + i]
Bytes(file) == IF file = Absent THEN 0 ELSE Len(file)
HasFiles(u) == u \in meta \/ part[u] # Absent
Of(account) == {u \in Uploads : owner[u] = account}
Trouble == trouble < MaxTrouble /\ trouble' = trouble + 1

TypeOK ==
    /\ owner \in [Uploads -> Accounts]
    /\ lease \in [Uploads -> {"none", "live", "lapsed"}]
    /\ usage \subseteq Uploads /\ meta \subseteq Uploads /\ jobs \subseteq Uploads
    /\ quiet \subseteq Uploads /\ found \subseteq Uploads
    /\ overlapped \subseteq Uploads /\ undone \subseteq Uploads
    /\ part \in [Uploads -> Seq(1 .. Size) \cup {Absent}]
    /\ video \in [Uploads -> Seq(1 .. Size) \cup {Absent}]
    /\ page \in [Uploads -> [at : {"new", "sending", "waiting", "ended"},
                             offset : Nat, slot : Slot]]
    /\ req \in [Uploads -> [Slot -> [
                  op : {"none", "begin", "post", "chunk", "finish", "abort"},
                  at : {"idle", "admit", "reserve", "open", "load", "append", "write",
                        "extend", "seal", "pipeline", "settle", "release"},
                  offset : Nat, current : Nat]]]
    /\ trouble \in 0 .. MaxTrouble

Init ==
    /\ owner \in Owners
    /\ lease = [u \in Uploads |-> "none"]
    /\ usage = {} /\ meta = {} /\ jobs = {} /\ quiet = {} /\ found = {}
    /\ part = [u \in Uploads |-> Absent] /\ video = [u \in Uploads |-> Absent]
    /\ page = [u \in Uploads |-> [at |-> "new", offset |-> 0, slot |-> 1]]
    /\ req = [u \in Uploads |-> [s \in Slot |-> NoRequest]]
    /\ overlapped = {} /\ undone = {} /\ trouble = 0

-----------------------------------------------------------------------------
(* The page.                                                               *)

Awaits(u, s) == page[u].at = "waiting" /\ page[u].slot = s

Post(u, s, op, at, offset) ==
    req' = [req EXCEPT ![u][s] =
              [op |-> op, at |-> at, offset |-> offset, current |-> 0]]

\* The chunked path, or the single request when the chunked one is off.
PageBegin(u) ==
    /\ page[u].at = "new"
    /\ \E op \in IF u \in Chunked THEN {"begin", "post"} ELSE {"post"} :
          Post(u, 1, op, "admit", 0)
    /\ page' = [page EXCEPT ![u].at = "waiting"]
    /\ UNCHANGED <<owner, held, files, jobs, found, marks, trouble>>

\* The next piece, or finish once the server said it has them all.
PageSend(u) ==
    /\ page[u].at = "sending"
    /\ \E s \in Slot :
        /\ req[u][s] = NoRequest
        /\ IF page[u].offset < Size
           THEN /\ Post(u, s, "chunk", "load", page[u].offset)
                /\ overlapped' = IF \E t \in Slot : req[u][t].op = "chunk"
                                 THEN overlapped \cup {u} ELSE overlapped
           ELSE Post(u, s, "finish", "load", 0) /\ UNCHANGED overlapped
        /\ page' = [page EXCEPT ![u].at = "waiting", ![u].slot = s]
    /\ UNCHANGED <<owner, held, files, jobs, found, undone, trouble>>

\* giveBack: the page hands the reservation back and does not wait.
GiveBack(u) ==
    IF \E s \in Slot : req[u][s] = NoRequest
    THEN \E s \in Slot : req[u][s] = NoRequest /\ Post(u, s, "abort", "load", 0)
    ELSE UNCHANGED req

\* The answer is lost: a piece is sent again, anything else ends the upload.
PageLoses(u) ==
    /\ page[u].at = "waiting" /\ Trouble
    /\ LET op == req[u][page[u].slot].op IN
       \/ /\ op = "chunk" /\ UNCHANGED req
          /\ page' = [page EXCEPT ![u].at = "sending"]
       \/ /\ op \in {"chunk", "finish"} /\ GiveBack(u)
          /\ page' = [page EXCEPT ![u].at = "ended"]
       \/ /\ op \in {"begin", "post"} /\ UNCHANGED req
          /\ page' = [page EXCEPT ![u].at = "ended"]
    /\ UNCHANGED <<owner, held, files, jobs, found, marks>>

\* The tab is closed.
PageLeaves(u) ==
    /\ page[u].at \in {"sending", "waiting"}
    /\ page' = [page EXCEPT ![u].at = "ended"]
    /\ UNCHANGED <<owner, held, files, jobs, found, req, marks, trouble>>

\* A request the page no longer waits for never arrived.
Vanishes(u, s) ==
    /\ req[u][s].at \in {"load", "admit"} /\ ~Awaits(u, s)
    /\ req' = [req EXCEPT ![u][s] = NoRequest]
    /\ UNCHANGED <<owner, held, files, jobs, found, page, marks, trouble>>

-----------------------------------------------------------------------------
(* How a request ends: the page hears it, unless it gave up waiting.       *)

\* The page goes on from offset.
Continue(u, s, offset) ==
    /\ req' = [req EXCEPT ![u][s] = NoRequest]
    /\ page' = IF Awaits(u, s)
               THEN [page EXCEPT ![u].at = "sending", ![u].offset = offset] ELSE page

\* The upload is over for the page.
Finish(u, s) ==
    /\ req' = [req EXCEPT ![u][s] = NoRequest]
    /\ page' = IF Awaits(u, s) THEN [page EXCEPT ![u].at = "ended"] ELSE page

\* A refused piece or finish: the page hands the reservation back and ends.
Refuse(u, s) ==
    /\ req' = [req EXCEPT ![u][s] =
                 IF Awaits(u, s) THEN [NoRequest EXCEPT !.op = "abort", !.at = "load"]
                                 ELSE NoRequest]
    /\ page' = IF Awaits(u, s) THEN [page EXCEPT ![u].at = "ended"] ELSE page

At(u, s, op, at) == req[u][s].op = op /\ req[u][s].at = at
Goto(u, s, at) == req' = [req EXCEPT ![u][s].at = at] /\ UNCHANGED page

-----------------------------------------------------------------------------
(* What admission takes and what gives it back.                            *)

\* Sessions that never received a byte are forgotten.
IdleNonEmpty(account) ==
    {u \in Of(account) : u \in quiet /\ lease[u] # "none" /\ Bytes(part[u]) > 0}

\* Sessions of the account that release_idle_sessions hands back.
Idle(account) == {u \in Of(account) : u \in quiet /\ lease[u] # "none" /\ HasFiles(u)}

\* Leases that ran out, and those of them whose upload became no job.
Lapsed(account) == {u \in Uploads \ Idle(account) : lease[u] = "lapsed"}
\* The check for a session file is missing.
ReapedAll(account) == Lapsed(account)


Reaped(account) == Lapsed(account) \ jobs

\* Bytes of the account: its stored videos, and three times each lease.
Stored(account) == Cardinality(Of(account) \cap jobs)
Reserved(account, gone) ==
    3 * Cardinality({u \in Of(account) \ gone : lease[u] # "none"})

\* reserve_upload_storage: idle sessions and lapsed leases go first, then the
\* waiting fights and the storage of the account are counted.
Admit(u, s, op) ==
    /\ At(u, s, op, "admit")
    /\ LET idle   == Idle(owner[u])
           lapsed == Lapsed(owner[u])
           gone   == idle \cup lapsed
           full   == \/ Cardinality(Of(owner[u]) \cap jobs) >= MaxPending
                     \/ Stored(owner[u]) + Reserved(owner[u], gone) + 2 > Storage
           reaped == Reaped(owner[u])
       IN /\ part' = [v \in Uploads |-> IF v \in idle THEN Absent ELSE part[v]]
          /\ meta' = meta \ idle
          /\ quiet' = quiet \ idle
          /\ usage' = usage \ (idle \cup reaped)
          /\ undone' = undone \cup (usage \cap (idle \cup (reaped \ jobs)))
          /\ lease' = [v \in Uploads |-> IF v \in gone THEN "none"
                                         ELSE IF v = u /\ ~full THEN "live" ELSE lease[v]]
          /\ IF full THEN Finish(u, s) ELSE Goto(u, s, "reserve")
    /\ UNCHANGED <<owner, video, jobs, found, overlapped, trouble>>

\* reserve_analysis; a refusal gives the lease back.
Reserve(u, s, op, next) ==
    /\ At(u, s, op, "reserve")
    /\ IF Cardinality(usage \cap Of(owner[u])) < Allowance
       THEN usage' = usage \cup {u} /\ Goto(u, s, next) /\ UNCHANGED lease
       ELSE lease' = [lease EXCEPT ![u] = "none"] /\ Finish(u, s) /\ UNCHANGED usage
    /\ UNCHANGED <<owner, files, jobs, found, marks, trouble>>

\* begin: an empty part file and its sidecar.
Open(u, s) ==
    /\ At(u, s, "begin", "open")
    /\ part' = [part EXCEPT ![u] = <<>>]
    /\ meta' = meta \cup {u}
    /\ Continue(u, s, 0)
    /\ UNCHANGED <<owner, held, video, quiet, jobs, found, marks, trouble>>

\* _release_chunked: the files of the session, its reservation and its lease.
Released(u) ==
    /\ part' = [part EXCEPT ![u] = Absent]
    /\ meta' = meta \ {u}
    /\ quiet' = quiet \ {u}
    /\ usage' = usage \ {u}
    /\ lease' = [lease EXCEPT ![u] = "none"]
    /\ undone' = undone \cup ({u} \cap usage)

-----------------------------------------------------------------------------
(* A piece.                                                                *)

\* load: the session is checked before the body is read.
Load(u, s, op, next) ==
    /\ At(u, s, op, "load")
    /\ IF u \in meta THEN Goto(u, s, next) ELSE Refuse(u, s)
    /\ UNCHANGED <<owner, held, files, jobs, found, marks, trouble>>

\* Only a piece ahead of the file is refused.
AppendCheckAhead(u, s) ==
    /\ At(u, s, "chunk", "append")
    /\ LET current == Bytes(part[u]) IN
       IF req[u][s].offset > current THEN Continue(u, s, current)
       ELSE IF current + Len(Piece(req[u][s].offset)) > Size THEN Refuse(u, s)
       ELSE /\ req' = [req EXCEPT ![u][s].at = "write", ![u][s].current = current]
            /\ UNCHANGED page
    /\ UNCHANGED <<owner, held, files, jobs, found, marks, trouble>>

\* append, up to the write: the size the part file has now decides.
AppendCheck(u, s) ==
    /\ At(u, s, "chunk", "append")
    /\ LET current == Bytes(part[u]) IN
       IF req[u][s].offset # current THEN Continue(u, s, current)
       ELSE IF current + Len(Piece(req[u][s].offset)) > Size THEN Refuse(u, s)
       ELSE \/ /\ req' = [req EXCEPT ![u][s].at = "write", ![u][s].current = current]
               /\ UNCHANGED page
            \/ Refuse(u, s)                           \* _guard_disk
    /\ UNCHANGED <<owner, held, files, jobs, found, marks, trouble>>

\* append, the write: at the end of whatever the file holds by then.
Appended(u, piece) ==
    part' = [part EXCEPT ![u] = IF @ = Absent THEN piece ELSE @ \o piece]

AppendWrite(u, s) ==
    /\ At(u, s, "chunk", "write")
    /\ Appended(u, Piece(req[u][s].offset))
    /\ quiet' = quiet \ {u}
    /\ Goto(u, s, "extend")
    /\ UNCHANGED <<owner, held, meta, video, jobs, found, marks, trouble>>

\* extend_lease: an UPDATE, which brings no lease back.
Extended(u) == lease' = [lease EXCEPT ![u] = IF @ = "none" THEN @ ELSE "live"]

\* The answer to a piece is the end append computed, not what is there.
Extend(u, s) ==
    /\ At(u, s, "chunk", "extend")
    /\ Extended(u)
    /\ Continue(u, s, req[u][s].current + Len(Piece(req[u][s].offset)))
    /\ UNCHANGED <<owner, usage, files, jobs, found, marks, trouble>>

-----------------------------------------------------------------------------
(* Abort, finish and the single request.                                   *)

Abort(u, s) ==
    /\ At(u, s, "abort", "release")
    /\ Released(u)
    /\ Finish(u, s)
    /\ UNCHANGED <<owner, video, jobs, found, overlapped, trouble>>

\* finalise: the part file of the declared size becomes the video.
Seal(u, s) ==
    /\ At(u, s, "finish", "seal")
    /\ IF Bytes(part[u]) = Size
       THEN /\ video' = [video EXCEPT ![u] = part[u]]
            /\ part' = [part EXCEPT ![u] = Absent]
            /\ meta' = meta \ {u} /\ quiet' = quiet \ {u}
            /\ Goto(u, s, "pipeline")
       ELSE Refuse(u, s) /\ UNCHANGED files
    /\ UNCHANGED <<owner, held, jobs, found, marks, trouble>>

\* upload() refuses the file, and most refusals unlink it.
PipelineRefuses(u, s) ==
    /\ At(u, s, "finish", "pipeline")
    /\ video' \in {video, [video EXCEPT ![u] = Absent]}
    /\ Released(u)
    /\ Refuse(u, s)
    /\ UNCHANGED <<owner, jobs, found, overlapped, trouble>>

\* upload() creates the job.
PipelineAccepts(u, s) ==
    /\ At(u, s, "finish", "pipeline")
    /\ jobs' = jobs \cup {u}
    /\ Goto(u, s, "settle")
    /\ UNCHANGED <<owner, held, files, found, marks, trouble>>

\* The lease goes, the job keeps the reservation.
Settle(u, s) ==
    /\ At(u, s, "finish", "settle")
    /\ lease' = [lease EXCEPT ![u] = "none"]
    /\ Finish(u, s)
    /\ UNCHANGED <<owner, usage, files, jobs, found, marks, trouble>>

\* The failure also unlinks the video.
FailsAfterJobUnlinks(u, s) ==
    /\ At(u, s, "finish", "settle") /\ Trouble
    /\ video' = [video EXCEPT ![u] = Absent]
    /\ Released(u)
    /\ Refuse(u, s)
    /\ UNCHANGED <<owner, jobs, found, overlapped>>

\* upload() fails after create_job: everything but the job is given back.
FailsAfterJob(u, s) ==
    /\ At(u, s, "finish", "settle") /\ Trouble
    /\ Released(u)
    /\ Refuse(u, s)
    /\ UNCHANGED <<owner, video, jobs, found, overlapped>>

\* The single request: the whole body, then the same pipeline.  Its finally
\* keeps the reservation only if the job was accepted, and deletes the job too.
PostAccepts(u, s) ==
    /\ At(u, s, "post", "pipeline")
    /\ video' = [video EXCEPT ![u] = [i \in 1 .. Size |-> i]]
    /\ jobs' = jobs \cup {u}
    /\ lease' = [lease EXCEPT ![u] = "none"]
    /\ Finish(u, s)
    /\ UNCHANGED <<owner, usage, part, meta, quiet, found, marks, trouble>>

PostRefuses(u, s) ==
    /\ At(u, s, "post", "pipeline")
    /\ lease' = [lease EXCEPT ![u] = "none"]
    /\ usage' = usage \ {u}
    /\ Finish(u, s)
    /\ UNCHANGED <<owner, files, jobs, found, marks, trouble>>

-----------------------------------------------------------------------------
(* Time, the maintenance sweep, and a death of the process.                *)

\* No new bytes for the idle time.
GoesQuiet(u) ==
    /\ HasFiles(u) /\ u \notin quiet
    /\ quiet' = quiet \cup {u}
    /\ UNCHANGED <<owner, held, part, meta, video, jobs, found, page, req, marks, trouble>>

\* A lease outlasts the idle time, and a begin is done long before it ends.
Lapse(u) ==
    /\ lease[u] = "live" /\ (HasFiles(u) => u \in quiet)
    /\ \A s \in Slot : req[u][s].op # "begin"
    /\ lease' = [lease EXCEPT ![u] = "lapsed"]
    /\ UNCHANGED <<owner, usage, files, jobs, found, page, req, marks, trouble>>

\* release_idle_sessions in the sweep: it looks at a session ...
SweepFinds(u) ==
    /\ u \in Idle(owner[u]) \ found
    /\ found' = found \cup {u}
    /\ UNCHANGED <<owner, held, files, jobs, page, req, marks, trouble>>

\* ... and discards it.
SweepReleases(u) ==
    /\ u \in found
    /\ found' = found \ {u}
    /\ Released(u)
    /\ UNCHANGED <<owner, video, jobs, page, req, overlapped, trouble>>

\* The process dies with every request in it; a piece may be half written.
Crash ==
    /\ Trouble
    /\ \/ UNCHANGED <<part, quiet>>
       \/ \E u \in Uploads, s \in Slot, n \in 1 .. Chunk :
            /\ At(u, s, "chunk", "write") /\ n < Len(Piece(req[u][s].offset))
            /\ Appended(u, SubSeq(Piece(req[u][s].offset), 1, n))
            /\ quiet' = quiet \ {u}
    /\ req' = [u \in Uploads |-> [s \in Slot |-> NoRequest]]
    /\ found' = {}
    /\ page' = [u \in Uploads |->
                  IF page[u].at # "waiting" THEN page[u]
                  ELSE [page[u] EXCEPT !.at = IF req[u][page[u].slot].op = "chunk"
                                              THEN "sending" ELSE "ended"]]
    /\ UNCHANGED <<owner, held, meta, video, jobs, marks>>

-----------------------------------------------------------------------------
Serve(u, s) ==
    \/ \E op \in {"begin", "post"} : Admit(u, s, op)
    \/ Reserve(u, s, "begin", "open") \/ Reserve(u, s, "post", "pipeline") \/ Open(u, s)
    \/ Load(u, s, "chunk", "append") \/ AppendCheck(u, s) \/ AppendWrite(u, s) \/ Extend(u, s)
    \/ Load(u, s, "abort", "release") \/ Abort(u, s)
    \/ Load(u, s, "finish", "seal") \/ Seal(u, s)
    \/ PipelineRefuses(u, s) \/ PipelineAccepts(u, s) \/ Settle(u, s) \/ FailsAfterJob(u, s)
    \/ PostAccepts(u, s) \/ PostRefuses(u, s)

Next ==
    \/ \E u \in Uploads :
        \/ PageBegin(u) \/ PageSend(u) \/ PageLoses(u) \/ PageLeaves(u)
        \/ GoesQuiet(u) \/ Lapse(u) \/ SweepFinds(u) \/ SweepReleases(u)
        \/ \E s \in Slot : Serve(u, s) \/ Vanishes(u, s)
    \/ Crash

Spec == Init /\ [][Next]_vars

\* The server runs its requests, time passes, and visitors keep the periodic
\* maintenance going.
Fairness ==
    \A u \in Uploads :
        /\ WF_vars(GoesQuiet(u)) /\ WF_vars(SweepFinds(u)) /\ WF_vars(SweepReleases(u))
        /\ \A s \in Slot : WF_vars(Serve(u, s))

FairSpec == Spec /\ Fairness

-----------------------------------------------------------------------------
(* Properties.                                                             *)

\* A fight is analysed from the file its owner has: whatever answers were lost
\* and pieces sent again, the video of a job is every byte once and in order,
\* unless the server was handling two pieces of it at the same time (append
\* reads the size and writes without a lock).
VideoIsTheFile ==
    \A u \in jobs \ overlapped : video[u] = [i \in 1 .. Size |-> i]

\* A fight waiting for its fighters has a reservation behind it, unless the
\* reservation was given back while the upload that became the fight still ran.
JobIsPaidFor == jobs \subseteq usage \cup undone

\* Nothing in the upload machinery - a second finish, a late abort, a sweep, a
\* retried piece - takes a video away from the fight made of it.
AcceptedKeepsItsVideo ==
    [][\A u \in jobs : u \in jobs' /\ video'[u] = video[u]]_vars

\* What a page that went away was holding is given back, without a new upload
\* having to ask for it, unless its finish had already assembled the video.
IdleSessionIsReleased ==
    \A u \in Uploads :
        (u \in meta /\ lease[u] # "none" /\ page[u].at = "ended")
            ~> ((lease[u] = "none" /\ u \notin usage) \/ video[u] # Absent)
=============================================================================
