---------------------------- MODULE UploadsProofs ----------------------------
(***************************************************************************)
(* A fight made of an upload keeps its video, and has a reservation behind *)
(* it, for any number of uploads, accounts and requests at a time.  The    *)
(* invariant is about one upload at a time: its page, its requests and its *)
(* files.  Nearly every step is one upload's, and what other uploads see of*)
(* it is Untouched.                                                        *)
(***************************************************************************)
EXTENDS Uploads, Integers, SequenceTheorems, TLAPS

Page == [at : {"new", "sending", "waiting", "ended"}, offset : Nat, slot : Slot]
Request ==
    [op : {"none", "begin", "post", "chunk", "finish", "abort"},
     at : {"idle", "admit", "reserve", "open", "load", "append", "write",
           "extend", "seal", "pipeline", "settle", "release"},
     offset : Nat, current : Nat]

-----------------------------------------------------------------------------
(* Types.                                                                  *)

\* The pieces of a video, and what of it a crash may leave.
LEMMA PieceShape ==
    ASSUME NEW n \in Nat
    PROVE  /\ Piece(n) \in Seq(1..Size)
           /\ Len(Piece(n)) = IF n < Size THEN Minimum(Chunk, Size - n) ELSE 0
           /\ \A i \in 1..Len(Piece(n)) : Piece(n)[i] = n + i
<1> DEFINE m == Minimum(Chunk, Size - n)
           k == IF n < Size THEN m ELSE 0
<1>1. m \in Int /\ k \in Nat /\ 1..m = 1..k /\ (n < Size => n + m <= Size)
  BY UploadsAssumption DEF Minimum
<1>2. Piece(n) = [i \in 1..k |-> n + i]
  BY <1>1 DEF Piece
<1>3. \A i \in 1..k : n + i \in 1..Size
  BY <1>1, UploadsAssumption
<1> HIDE DEF k
<1>4. Piece(n) \in Seq(1..Size) /\ Len(Piece(n)) = k
  BY <1>1, <1>2, <1>3
<1> QED
  BY <1>1, <1>2, <1>4 DEF k

\* A request and its page go on: nothing else is looked at.
LEMMA ServedTypes ==
    ASSUME TypeOK, NEW u \in Uploads, NEW s \in Slot, NEW r \in Request, NEW p \in Page,
           req' = [req EXCEPT ![u][s] = r], page' = [page EXCEPT ![u] = p]
    PROVE  /\ req' \in [Uploads -> [Slot -> Request]] /\ page' \in [Uploads -> Page]
           /\ page'[u] = p /\ req'[u][s] = r
           /\ \A t \in Slot \ {s} : req'[u][t] = req[u][t]
           /\ \A v \in Uploads \ {u} : page'[v] = page[v] /\ req'[v] = req[v]
BY DEF TypeOK, Page, Request

-----------------------------------------------------------------------------
(* The invariant.                                                          *)

StepsOf(op) ==
    CASE op = "begin"  -> {"admit", "reserve", "open"}
      [] op = "post"   -> {"admit", "reserve", "pipeline"}
      [] op = "chunk"  -> {"load", "append", "write", "extend"}
      [] op = "finish" -> {"load", "seal", "pipeline", "settle"}
      [] op = "abort"  -> {"load", "release"}
      [] OTHER         -> {"idle"}

Served(u, op) == \E s \in Slot : req[u][s].op = op

\* A page waits for a request that is there, and asks for nothing while it
\* waits for its begin, its finish or its single request.
PageKeepsTime(u) ==
    /\ page[u].at = "new" => /\ page[u].slot = 1 /\ u \notin meta \cup jobs
                            /\ \A s \in Slot : req[u][s].op = "none"
    /\ page[u].at = "waiting" =>
         req[u][page[u].slot].op \in {"begin", "post", "chunk", "finish"}
    /\ \A s \in Slot : req[u][s].op \in {"begin", "post", "finish"} =>
         page[u].at = "ended" \/ Awaits(u, s)

\* A begin or a single request is the first of its upload, a finish the last.
RequestsInOrder(u) ==
    /\ \A s \in Slot : req[u][s].at \in StepsOf(req[u][s].op)
    /\ \A s \in Slot : req[u][s].op \in {"begin", "post"} =>
         u \notin meta \cup jobs /\ \A t \in Slot \ {s} : req[u][t].op = "none"
    /\ \A s, t \in Slot : req[u][s].op = "finish" /\ req[u][t].op = "finish" => s = t
    /\ u \in jobs =>
         /\ page[u].at = "ended" \/ (page[u].at = "waiting" /\ req[u][page[u].slot].op = "finish")
         /\ \A s \in Slot : req[u][s].op = "finish" => req[u][s].at = "settle"

\* What got past reserve_analysis holds a reservation, or lost it since.
Granted(u) == u \in usage \cup undone
Reserves(u) ==
    (u \in meta \cup jobs \/ \E s \in Slot : req[u][s].at \notin {"idle", "admit", "reserve", "load"})
       => Granted(u)

Orderly(u) == PageKeepsTime(u) /\ RequestsInOrder(u) /\ Reserves(u)

\* Of an upload whose pieces came one at a time: the piece under way is the one
\* the page means, the part file of a session is a beginning of the video, and
\* a finish sees no other piece.
OneAtATime(u) ==
    /\ \A s, t \in Slot : req[u][s].op = "chunk" =>
         /\ req[u][t].op = "chunk" => s = t
         /\ req[u][t].op # "finish"
         /\ req[u][s].offset = page[u].offset /\ req[u][s].offset < Size

Whole(n) == [i \in 1..n |-> i]
BeginsWell(file) == file # Absent /\ Len(file) <= Size /\ file = Whole(Len(file))

PartIsABeginning(u) ==
    /\ u \in meta => BeginsWell(part[u])
    /\ \A s \in Slot : At(u, s, "chunk", "write") /\ u \in meta =>
         req[u][s].offset = Len(part[u])
    /\ \A s \in Slot : At(u, s, "finish", "seal") => u \in meta \/ part[u] = Absent

VideoIsWhole(u) ==
    u \in jobs \/ (\E s \in Slot : At(u, s, "finish", "pipeline")) => video[u] = Whole(Size)

InOnePiece(u) ==
    u \notin overlapped => OneAtATime(u) /\ PartIsABeginning(u) /\ VideoIsWhole(u)

UploadsInv == TypeOK /\ \A u \in Uploads : Orderly(u) /\ InOnePiece(u)

KeepsJobs == \A u \in jobs : u \in jobs' /\ video'[u] = video[u]

\* All that one upload's step may do to another: discard its session.
SessionStays(u) ==
    \/ part'[u] = part[u] /\ (u \in meta' <=> u \in meta)
    \/ part'[u] = Absent /\ u \notin meta'

Spared(u) ==
    /\ video'[u] = video[u] /\ SessionStays(u)
    /\ (u \in jobs' <=> u \in jobs) /\ (u \in overlapped' <=> u \in overlapped)
    /\ Granted(u) => Granted(u)'

Untouched(u) == page'[u] = page[u] /\ req'[u] = req[u] /\ Spared(u)

\* The variables but page and req keep their types.
RestTyped ==
    /\ owner' \in [Uploads -> Accounts]
    /\ lease' \in [Uploads -> {"none", "live", "lapsed"}]
    /\ usage' \subseteq Uploads /\ meta' \subseteq Uploads /\ jobs' \subseteq Uploads
    /\ quiet' \subseteq Uploads /\ found' \subseteq Uploads
    /\ overlapped' \subseteq Uploads /\ undone' \subseteq Uploads
    /\ part' \in [Uploads -> Seq(1 .. Size) \cup {Absent}]
    /\ video' \in [Uploads -> Seq(1 .. Size) \cup {Absent}]
    /\ trouble' \in 0..MaxTrouble

\* What is untouched stays in order.
LEMMA BystanderKeeps ==
    ASSUME TypeOK, NEW u \in Uploads, Orderly(u), InOnePiece(u), Untouched(u)
    PROVE  Orderly(u)' /\ InOnePiece(u)'
<1>1. Orderly(u)'
  BY DEF Orderly, PageKeepsTime, RequestsInOrder, Reserves, Untouched, Spared, SessionStays, Awaits, Granted
<1>2. InOnePiece(u)'
  BY DEF InOnePiece, OneAtATime, PartIsABeginning, VideoIsWhole, BeginsWell, Untouched, Spared, SessionStays, At
<1> QED
  BY <1>1, <1>2

\* A step of one upload's request, or of its page.
LEMMA ServedKeeps ==
    ASSUME UploadsInv, NEW u \in Uploads, NEW s \in Slot, NEW r \in Request, NEW p \in Page,
           req' = [req EXCEPT ![u][s] = r], page' = [page EXCEPT ![u] = p],
           RestTyped, \A v \in Uploads \ {u} : Spared(v),
           Orderly(u)', InOnePiece(u)',
           u \in jobs => u \in jobs' /\ video'[u] = video[u]
    PROVE  UploadsInv' /\ KeepsJobs
<1>1. TypeOK'
  BY ServedTypes DEF UploadsInv, TypeOK, RestTyped, Page, Request
<1>2. \A v \in Uploads : Orderly(v)' /\ InOnePiece(v)'
  <2>1. \A v \in Uploads \ {u} : Untouched(v)
    BY ServedTypes DEF UploadsInv, Untouched
  <2> QED
    BY <2>1, BystanderKeeps DEF UploadsInv
<1>3. KeepsJobs
  BY DEF KeepsJobs, Untouched, Spared, UploadsInv, TypeOK
<1> QED
  BY <1>1, <1>2, <1>3 DEF UploadsInv

\* A page or a request that moves while everything the server keeps stays.
LEMMA TalkKeeps ==
    ASSUME UploadsInv, NEW u \in Uploads, NEW s \in Slot, NEW r \in Request, NEW p \in Page,
           req' = [req EXCEPT ![u][s] = r], page' = [page EXCEPT ![u] = p],
           UNCHANGED <<owner, held, files, jobs, found, undone>>, trouble' \in 0..MaxTrouble,
           overlapped' \subseteq Uploads,
           \A v \in Uploads \ {u} : v \in overlapped' <=> v \in overlapped,
           Orderly(u)', InOnePiece(u)'
    PROVE  UploadsInv' /\ KeepsJobs
<1>1. RestTyped
  BY DEF UploadsInv, TypeOK, RestTyped, held, files
<1>2. \A v \in Uploads \ {u} : Spared(v)
  BY DEF Spared, SessionStays, Granted, held, files
<1>3. u \in jobs => u \in jobs' /\ video'[u] = video[u]
  BY DEF files
<1> QED
  BY <1>1, <1>2, <1>3, ServedKeeps

-----------------------------------------------------------------------------
(* The page.                                                               *)

\* The types of one upload's page and requests.
LEMMA UploadTypes ==
    ASSUME UploadsInv, NEW u \in Uploads
    PROVE  /\ TypeOK /\ Orderly(u) /\ InOnePiece(u)
           /\ page[u] \in Page /\ page[u].slot \in Slot /\ page[u].offset \in Nat
           /\ \A s \in Slot : req[u][s] \in Request /\ req[u][s].offset \in Nat /\ req[u][s].current \in Nat
           /\ 1 \in Slot /\ NoRequest \in Request
BY UploadsAssumption DEF UploadsInv, TypeOK, Page, Request, Slot, NoRequest

\* The page asks for the upload.
LEMMA BeginKeeps ==
    ASSUME UploadsInv, NEW u \in Uploads, PageBegin(u)
    PROVE  UploadsInv' /\ KeepsJobs
<1>1. PICK op \in {"begin", "post"} : Post(u, 1, op, "admit", 0)
  BY DEF PageBegin
<1> DEFINE r == [op |-> op, at |-> "admit", offset |-> 0, current |-> 0]
           p == [page[u] EXCEPT !.at = "waiting"]
<1>2. /\ r \in Request /\ r.op \in {"begin", "post"} /\ r.at = "admit"
      /\ p \in Page /\ p.at = "waiting" /\ p.slot = 1
  BY UploadTypes DEF Request, Page, PageBegin, Orderly, PageKeepsTime
<1>3. req' = [req EXCEPT ![u][1] = r] /\ page' = [page EXCEPT ![u] = p]
  BY <1>1, UploadTypes DEF Post, PageBegin, TypeOK
<1>4. /\ UNCHANGED <<owner, held, files, jobs, found, undone, overlapped>>
      /\ trouble' \in 0..MaxTrouble
  BY UploadTypes DEF PageBegin, marks, TypeOK
<1> HIDE DEF r, p
<1>5. /\ page'[u] = p /\ req'[u][1] = r
      /\ \A t \in Slot \ {1} : req'[u][t] = req[u][t]
  BY <1>3, UploadTypes DEF TypeOK
<1>6. /\ u \notin meta \cup jobs /\ \A s \in Slot : req[u][s].op = "none"
      /\ \A s \in Slot : req[u][s].at = "idle"
  BY UploadTypes DEF Orderly, PageKeepsTime, RequestsInOrder, PageBegin, StepsOf
<1>7. Orderly(u)'
  BY <1>2, <1>4, <1>5, <1>6, UploadTypes
     DEF Orderly, PageKeepsTime, RequestsInOrder, Reserves, Awaits, files, StepsOf
<1>8. InOnePiece(u)'
  BY <1>2, <1>4, <1>5, <1>6, UploadTypes
     DEF InOnePiece, OneAtATime, PartIsABeginning, VideoIsWhole, At, files
<1> QED
  BY <1>2, <1>3, <1>4, <1>7, <1>8, UploadTypes, TalkKeeps DEF TypeOK

\* The page sends a piece or its finish.
LEMMA SendKeeps ==
    ASSUME UploadsInv, NEW u \in Uploads, PageSend(u)
    PROVE  UploadsInv' /\ KeepsJobs
<1>1. PICK s \in Slot :
        /\ req[u][s] = NoRequest
        /\ IF page[u].offset < Size
           THEN /\ Post(u, s, "chunk", "load", page[u].offset)
                /\ overlapped' = IF \E t \in Slot : req[u][t].op = "chunk"
                                 THEN overlapped \cup {u} ELSE overlapped
           ELSE Post(u, s, "finish", "load", 0) /\ UNCHANGED overlapped
        /\ page' = [page EXCEPT ![u].at = "waiting", ![u].slot = s]
  BY DEF PageSend
<1> DEFINE op == IF page[u].offset < Size THEN "chunk" ELSE "finish"
           r == [op |-> op, at |-> "load", current |-> 0,
                 offset |-> IF page[u].offset < Size THEN page[u].offset ELSE 0]
           p == [page[u] EXCEPT !.at = "waiting", !.slot = s]
<1>2. /\ r \in Request /\ r.op = op /\ op \in {"chunk", "finish"} /\ r.at = "load"
      /\ op = "chunk" => page[u].offset < Size /\ r.offset = page[u].offset
      /\ op = "finish" => ~(page[u].offset < Size)
      /\ p \in Page /\ p.at = "waiting" /\ p.slot = s /\ p.offset = page[u].offset
  <2>1. op \in {"chunk", "finish"} /\ (op = "chunk" <=> page[u].offset < Size)
    OBVIOUS
  <2>2. p \in Page /\ p.at = "waiting" /\ p.slot = s /\ p.offset = page[u].offset
    BY UploadTypes DEF Page
  <2>3. r.offset = IF op = "chunk" THEN page[u].offset ELSE 0
    OBVIOUS
  <2>4. r \in Request /\ r.op = op /\ r.at = "load"
    BY <2>1, UploadTypes DEF Request
  <2> QED
    BY <2>1, <2>2, <2>3, <2>4
<1>3. req' = [req EXCEPT ![u][s] = r] /\ page' = [page EXCEPT ![u] = p]
  BY <1>1, UploadTypes DEF Post, TypeOK
<1>4. /\ UNCHANGED <<owner, held, files, jobs, found, undone>>
      /\ trouble' \in 0..MaxTrouble
      /\ overlapped \subseteq overlapped' /\ overlapped' \subseteq overlapped \cup {u}
      /\ op = "chunk" /\ u \notin overlapped' => \A t \in Slot : req[u][t].op # "chunk"
  BY <1>1, UploadTypes DEF PageSend, TypeOK
<1> HIDE DEF op, r, p
<1>5. /\ page'[u] = p /\ req'[u][s] = r
      /\ \A t \in Slot \ {s} : req'[u][t] = req[u][t]
  BY <1>3, UploadTypes DEF TypeOK
<1>6. /\ page[u].at = "sending" /\ u \notin jobs
      /\ \A t \in Slot : req[u][t].op \notin {"begin", "post", "finish"}
  BY UploadTypes DEF Orderly, PageKeepsTime, RequestsInOrder, PageSend, Awaits
<1>7. Orderly(u)'
  BY <1>2, <1>4, <1>5, <1>6, UploadTypes
     DEF Orderly, PageKeepsTime, RequestsInOrder, Reserves, Granted, Awaits, files, held, StepsOf
<1>8. InOnePiece(u)'
  <2> SUFFICES ASSUME u \notin overlapped' PROVE (OneAtATime(u) /\ PartIsABeginning(u) /\ VideoIsWhole(u))'
    BY DEF InOnePiece
  <2>1. OneAtATime(u) /\ PartIsABeginning(u) /\ VideoIsWhole(u)
    BY <1>4, UploadTypes DEF InOnePiece
  <2>2. OneAtATime(u)'
    BY <1>2, <1>4, <1>5, <1>6, <2>1, UploadTypes DEF OneAtATime
  <2>3. PartIsABeginning(u)' /\ VideoIsWhole(u)'
    BY <1>2, <1>4, <1>5, <2>1, UploadTypes DEF PartIsABeginning, VideoIsWhole, BeginsWell, At, files
  <2> QED
    BY <2>2, <2>3
<1> QED
  BY <1>2, <1>3, <1>4, <1>7, <1>8, UploadTypes, TalkKeeps DEF TypeOK

\* A request that ends, or that the page turns into an abort, and a page that
\* ends with it: whatever the server gives back with it, the rest is in order.
LEMMA EndingKeeps ==
    ASSUME UploadsInv, NEW u \in Uploads, NEW s \in Slot, NEW r \in Request, NEW p \in Page,
           req' = [req EXCEPT ![u][s] = r], page' = [page EXCEPT ![u] = p],
           \/ r = req[u][s]
           \/ r.op = "none" /\ r.at = "idle"
           \/ /\ r.op = "abort" /\ r.at = "load" /\ p.at = "ended"
              /\ \A t \in Slot : req[u][t].op \notin {"begin", "post"},
           \/ p.at = "ended" /\ p.offset = page[u].offset /\ p.slot = page[u].slot
           \/ p = page[u] /\ ~Awaits(u, s),
           RestTyped, \A v \in Uploads \ {u} : Spared(v),
           UNCHANGED <<jobs, overlapped>>, SessionStays(u),
           (Granted(u) => Granted(u)') \/ (req[u][s].op = "post" /\ r.op = "none"),
           video'[u] = video[u] \/ (At(u, s, "finish", "pipeline") /\ r.op # "finish")
    PROVE  UploadsInv' /\ KeepsJobs
<1>1. /\ page'[u] = p /\ req'[u][s] = r
      /\ \A t \in Slot \ {s} : req'[u][t] = req[u][t]
  BY UploadTypes DEF TypeOK
<1>2. PageKeepsTime(u)'
  BY <1>1, UploadTypes DEF Orderly, PageKeepsTime, RequestsInOrder, Awaits, SessionStays
<1>3. RequestsInOrder(u)'
  <2>1. RequestsInOrder(u)
    BY UploadTypes DEF Orderly
  <2>2. \A t \in Slot : \/ req'[u][t] = req[u][t]
                        \/ req'[u][t].op = "none" /\ req'[u][t].at = "idle"
                        \/ req'[u][t].op = "abort" /\ req'[u][t].at = "load"
    <3>1. \/ req'[u][s] = req[u][s]
          \/ req'[u][s].op = "none" /\ req'[u][s].at = "idle"
          \/ req'[u][s].op = "abort" /\ req'[u][s].at = "load"
      BY <1>1
    <3>2. \A t \in Slot : t = s \/ req'[u][t] = req[u][t]
      BY <1>1
    <3> QED
      BY <3>1, <3>2
  <2>3. \A t \in Slot : req'[u][t].at \in StepsOf(req'[u][t].op)
    BY <2>1, <2>2 DEF RequestsInOrder, StepsOf
  <2>4. \A t \in Slot : req'[u][t].op \in {"begin", "post"} =>
          u \notin meta' \cup jobs' /\ \A o \in Slot \ {t} : req'[u][o].op = "none"
    <3> SUFFICES ASSUME NEW t \in Slot, req'[u][t].op \in {"begin", "post"}
                 PROVE  u \notin meta' \cup jobs' /\ \A o \in Slot \ {t} : req'[u][o].op = "none"
      OBVIOUS
    <3>1. req'[u][t] = req[u][t]
      BY <2>2
    <3>2. u \notin meta \cup jobs /\ \A o \in Slot \ {t} : req[u][o].op = "none"
      BY <2>1, <3>1 DEF RequestsInOrder
    <3>3. \A o \in Slot : req'[u][o] = req[u][o] \/ req'[u][o].op = "none"
      BY <1>1, <3>1
    <3> QED
      BY <3>2, <3>3 DEF SessionStays
  <2>5. \A t, o \in Slot : req'[u][t].op = "finish" /\ req'[u][o].op = "finish" => t = o
    BY <2>1, <2>2 DEF RequestsInOrder
  <2>6. u \in jobs' =>
         /\ page'[u].at = "ended" \/ (page'[u].at = "waiting" /\ req'[u][page'[u].slot].op = "finish")
         /\ \A t \in Slot : req'[u][t].op = "finish" => req'[u][t].at = "settle"
    BY <1>1, <2>1, <2>2, UploadTypes DEF RequestsInOrder, Awaits
  <2> QED
    BY <2>3, <2>4, <2>5, <2>6 DEF RequestsInOrder
<1>4. Reserves(u)'
  <2>1. CASE Granted(u) => Granted(u)'
    BY <1>1, <2>1, UploadTypes DEF Orderly, Reserves, SessionStays
  <2>2. CASE req[u][s].op = "post" /\ r.op = "none"
    <3>1. u \notin meta' \cup jobs' /\ \A t \in Slot : req'[u][t].op = "none"
      BY <1>1, <2>2, UploadTypes DEF Orderly, RequestsInOrder, SessionStays
    <3>2. \A t \in Slot : req'[u][t].at = "idle"
      BY <1>3, <3>1 DEF RequestsInOrder, StepsOf
    <3> QED
      BY <3>1, <3>2 DEF Reserves
  <2> QED
    BY <2>1, <2>2
<1>5. InOnePiece(u)'
  <2> SUFFICES ASSUME u \notin overlapped' PROVE (OneAtATime(u) /\ PartIsABeginning(u) /\ VideoIsWhole(u))'
    BY DEF InOnePiece
  <2>1. OneAtATime(u) /\ PartIsABeginning(u) /\ VideoIsWhole(u)
    BY UploadTypes DEF InOnePiece
  <2>2. OneAtATime(u)'
    BY <1>1, <2>1, UploadTypes DEF OneAtATime
  <2>3. PartIsABeginning(u)'
    BY <1>1, <2>1, UploadTypes DEF PartIsABeginning, BeginsWell, At, SessionStays
  <2>4. VideoIsWhole(u)'
    BY <1>1, <2>1, UploadTypes DEF VideoIsWhole, Orderly, RequestsInOrder, At
  <2> QED
    BY <2>2, <2>3, <2>4
<1>6. u \in jobs => u \in jobs' /\ video'[u] = video[u]
  BY UploadTypes DEF Orderly, RequestsInOrder, At
<1> QED
  BY <1>2, <1>3, <1>4, <1>5, <1>6, ServedKeeps DEF Orderly

\* The answer is lost, the tab is closed.
LEMMA LosingKeeps ==
    ASSUME UploadsInv, NEW u \in Uploads, PageLoses(u) \/ PageLeaves(u)
    PROVE  UploadsInv' /\ KeepsJobs
<1>1. /\ UNCHANGED <<owner, held, files, jobs, found, marks>> /\ trouble' \in 0..MaxTrouble
      /\ page[u].at \in {"sending", "waiting"}
  BY UploadTypes, UploadsAssumption DEF PageLoses, PageLeaves, Trouble, TypeOK
<1>2. RestTyped /\ \A v \in Uploads : Spared(v)
  BY <1>1, UploadTypes DEF TypeOK, RestTyped, Spared, SessionStays, Granted, held, files, marks
<1> DEFINE p == [page[u] EXCEPT !.at = "ended"]
<1>3. p \in Page /\ p.at = "ended" /\ p.offset = page[u].offset /\ p.slot = page[u].slot
  BY UploadTypes DEF Page
<1>4. ASSUME NEW s \in Slot, NEW r \in Request, req' = [req EXCEPT ![u][s] = r],
             page' = [page EXCEPT ![u].at = "ended"],
             \/ r = req[u][s]
             \/ /\ r.op = "abort" /\ r.at = "load"
                /\ \A t \in Slot : req[u][t].op \notin {"begin", "post"}
      PROVE  UploadsInv' /\ KeepsJobs
  <2>1. page' = [page EXCEPT ![u] = p]
    BY <1>4
  <2> HIDE DEF p
  <2>3. /\ UNCHANGED <<jobs, overlapped>> /\ SessionStays(u) /\ (Granted(u) => Granted(u)')
        /\ video'[u] = video[u]
    BY <1>1 DEF held, files, marks, SessionStays, Granted
  <2> QED
    BY <1>2, <1>3, <1>4, <2>1, <2>3, EndingKeeps
<1>5. ASSUME page' = [page EXCEPT ![u].at = "ended"], UNCHANGED req
      PROVE  UploadsInv' /\ KeepsJobs
  <2>1. req' = [req EXCEPT ![u][1] = req[u][1]] /\ 1 \in Slot /\ req[u][1] \in Request
    BY <1>5, UploadTypes DEF TypeOK
  <2> QED
    BY <1>4, <1>5, <2>1
<1>6. ASSUME page' = [page EXCEPT ![u].at = "ended"], GiveBack(u),
             \A t \in Slot : req[u][t].op \notin {"begin", "post"}
      PROVE  UploadsInv' /\ KeepsJobs
  <2>1. CASE UNCHANGED req
    BY <1>5, <1>6, <2>1
  <2>2. ASSUME NEW s \in Slot, Post(u, s, "abort", "load", 0)
        PROVE  UploadsInv' /\ KeepsJobs
    <3> DEFINE r == [op |-> "abort", at |-> "load", offset |-> 0, current |-> 0]
    <3>1. r \in Request /\ r.op = "abort" /\ r.at = "load"
      BY DEF Request
    <3>2. req' = [req EXCEPT ![u][s] = r]
      BY <2>2 DEF Post
    <3> HIDE DEF r
    <3> QED
      BY <1>4, <1>6, <3>1, <3>2
  <2> QED
    BY <1>6, <2>1, <2>2 DEF GiveBack
<1>7. CASE /\ PageLoses(u) /\ req[u][page[u].slot].op = "chunk" /\ UNCHANGED req
           /\ page' = [page EXCEPT ![u].at = "sending"]
  <2> DEFINE q == [page[u] EXCEPT !.at = "sending"]
             c == page[u].slot
  <2>1. q \in Page /\ q.at = "sending" /\ q.offset = page[u].offset
    BY UploadTypes DEF Page
  <2>2. req' = [req EXCEPT ![u][c] = req[u][c]] /\ c \in Slot /\ req[u][c] \in Request
    BY <1>7, UploadTypes DEF TypeOK
  <2>3. page' = [page EXCEPT ![u] = q]
    BY <1>7
  <2> HIDE DEF q
  <2>4. page'[u] = q /\ req'[u] = req[u]
    BY <1>7, <2>3, UploadTypes DEF TypeOK
  <2>5. /\ page[u].at = "waiting" /\ u \notin jobs
        /\ \A s \in Slot : req[u][s].op \notin {"begin", "post", "finish"}
    BY <1>7, UploadTypes DEF Orderly, PageKeepsTime, RequestsInOrder, PageLoses, Awaits
  <2>6. Orderly(u)'
    BY <1>1, <2>1, <2>4, <2>5, UploadTypes
       DEF Orderly, PageKeepsTime, RequestsInOrder, Reserves, Granted, Awaits, files, held, marks
  <2>7. InOnePiece(u)'
    BY <1>1, <2>1, <2>4, UploadTypes
       DEF InOnePiece, OneAtATime, PartIsABeginning, VideoIsWhole, BeginsWell, At, files, marks
  <2> QED
    BY <1>1, <2>1, <2>2, <2>3, <2>6, <2>7, UploadTypes, TalkKeeps DEF TypeOK, marks
<1>8. CASE PageLeaves(u)
  BY <1>5, <1>8 DEF PageLeaves
<1>9. CASE PageLoses(u) /\ page' = [page EXCEPT ![u].at = "ended"]
  <2>1. CASE GiveBack(u) /\ req[u][page[u].slot].op \in {"chunk", "finish"}
    <3>1. \A t \in Slot : req[u][t].op \in {"begin", "post"} => Awaits(u, t)
      BY <1>9, UploadTypes DEF PageLoses, Orderly, PageKeepsTime
    <3>2. \A t \in Slot : req[u][t].op \notin {"begin", "post"}
      BY <2>1, <3>1 DEF Awaits
    <3> QED
      BY <1>6, <1>9, <2>1, <3>2
  <2>2. CASE UNCHANGED req
    BY <1>5, <1>9, <2>2
  <2> QED
    BY <1>9, <2>1, <2>2 DEF PageLoses
<1> QED
  BY <1>7, <1>8, <1>9 DEF PageLoses

\* A request that nobody waits for never arrives.
LEMMA VanishingKeeps ==
    ASSUME UploadsInv, NEW u \in Uploads, NEW s \in Slot, Vanishes(u, s)
    PROVE  UploadsInv' /\ KeepsJobs
<1>1. /\ req' = [req EXCEPT ![u][s] = NoRequest] /\ page' = [page EXCEPT ![u] = page[u]]
      /\ NoRequest.op = "none" /\ NoRequest.at = "idle" /\ page[u] \in Page
  BY UploadTypes DEF Vanishes, NoRequest, TypeOK
<1>2. RestTyped /\ \A v \in Uploads : Spared(v)
  BY UploadTypes DEF Vanishes, TypeOK, RestTyped, Spared, SessionStays, Granted, held, files, marks
<1>3. /\ UNCHANGED <<jobs, overlapped>> /\ SessionStays(u) /\ (Granted(u) => Granted(u)')
      /\ video'[u] = video[u] /\ ~Awaits(u, s)
  BY DEF Vanishes, held, files, marks, SessionStays, Granted
<1> QED
  BY <1>1, <1>2, <1>3, UploadTypes, EndingKeeps

-----------------------------------------------------------------------------
(* How a request ends, and how it goes on.                                 *)

\* The request ends, refused or not.
LEMMA FinishKeeps ==
    ASSUME UploadsInv, NEW u \in Uploads, NEW s \in Slot,
           \/ Finish(u, s)
           \/ Refuse(u, s) /\ req[u][s].op \in {"chunk", "finish", "abort"},
           req[u][s].op # "none",
           RestTyped, \A v \in Uploads \ {u} : Spared(v),
           UNCHANGED <<jobs, overlapped>>, SessionStays(u),
           (Granted(u) => Granted(u)') \/ (req[u][s].op = "post" /\ Finish(u, s)),
           video'[u] = video[u] \/ At(u, s, "finish", "pipeline")
    PROVE  UploadsInv' /\ KeepsJobs
<1> DEFINE e == [page[u] EXCEPT !.at = "ended"]
           p == IF Awaits(u, s) THEN e ELSE page[u]
           a == [NoRequest EXCEPT !.op = "abort", !.at = "load"]
           r == IF Awaits(u, s) /\ ~Finish(u, s) THEN a ELSE NoRequest
<1>1. /\ e \in Page /\ e.at = "ended" /\ e.offset = page[u].offset /\ e.slot = page[u].slot
  BY UploadTypes DEF Page
<1>2. /\ a \in Request /\ a.op = "abort" /\ a.at = "load"
      /\ NoRequest \in Request /\ NoRequest.op = "none" /\ NoRequest.at = "idle"
  BY DEF Request, NoRequest
<1>3. req' = [req EXCEPT ![u][s] = r] /\ page' = [page EXCEPT ![u] = p]
  <2>1. page = [page EXCEPT ![u] = page[u]]
    BY UploadTypes DEF TypeOK
  <2>2. CASE Finish(u, s)
    BY <2>1, <2>2 DEF Finish
  <2>3. CASE ~Finish(u, s) /\ Refuse(u, s)
    BY <2>1, <2>3 DEF Refuse
  <2> QED
    BY <2>2, <2>3
<1>4. /\ p \in Page /\ r \in Request
      /\ \/ p.at = "ended" /\ p.offset = page[u].offset /\ p.slot = page[u].slot
         \/ p = page[u] /\ ~Awaits(u, s)
      /\ r.op # "finish" /\ (Finish(u, s) => r.op = "none")
  BY <1>1, <1>2, UploadTypes
<1>5. \/ r.op = "none" /\ r.at = "idle"
      \/ /\ r.op = "abort" /\ r.at = "load" /\ p.at = "ended"
         /\ \A t \in Slot : req[u][t].op \notin {"begin", "post"}
  <2>1. CASE Awaits(u, s) /\ ~Finish(u, s)
    <3>1. \A t \in Slot : req[u][t].op \notin {"begin", "post"}
      BY <2>1, UploadTypes DEF Orderly, RequestsInOrder
    <3> QED
      BY <1>1, <1>2, <2>1, <3>1
  <2>2. CASE ~(Awaits(u, s) /\ ~Finish(u, s))
    BY <1>2, <2>2
  <2> QED
    BY <2>1, <2>2
<1> HIDE DEF p, r
<1> QED
  BY <1>3, <1>4, <1>5, EndingKeeps

\* The request goes on to its next step, and the page waits as it did.
LEMMA GoingOnKeeps ==
    ASSUME UploadsInv, NEW u \in Uploads, NEW s \in Slot, NEW r \in Request,
           req' = [req EXCEPT ![u][s] = r], UNCHANGED page,
           r.op = req[u][s].op, r.offset = req[u][s].offset, r.at \in StepsOf(r.op),
           r.op # "none",
           RestTyped, \A v \in Uploads \ {u} : Spared(v), UNCHANGED overlapped,
           u \in meta' => u \in meta,
           u \in jobs => u \in jobs' /\ video'[u] = video[u],
           u \in jobs' => u \in jobs \/ r.op = "finish",
           u \in jobs' /\ r.op = "finish" => r.at = "settle",
           \/ Granted(u)'
           \/ (Granted(u) => Granted(u)') /\ (u \in jobs' => u \in jobs)
              /\ (\/ r.at \in {"admit", "reserve", "load"}
                  \/ req[u][s].at \notin {"idle", "admit", "reserve", "load"}),
           u \notin overlapped /\ OneAtATime(u) /\ PartIsABeginning(u) /\ VideoIsWhole(u)
               => PartIsABeginning(u)' /\ VideoIsWhole(u)'
    PROVE  UploadsInv' /\ KeepsJobs
<1>1. req'[u][s] = r /\ \A t \in Slot : t = s \/ req'[u][t] = req[u][t]
  BY UploadTypes DEF TypeOK
<1>2. \A t \in Slot : req'[u][t].op = req[u][t].op /\ req'[u][t].offset = req[u][t].offset
  BY <1>1
<1>3. PageKeepsTime(u)'
  <2>1. req[u][s].op # "none" /\ PageKeepsTime(u)
    BY UploadTypes DEF Orderly
  <2> QED
    BY <1>2, <2>1, UploadTypes DEF PageKeepsTime, Awaits
<1>4. RequestsInOrder(u)'
  <2>1. RequestsInOrder(u) /\ PageKeepsTime(u)
    BY UploadTypes DEF Orderly
  <2>2. \A t \in Slot : req'[u][t].at \in StepsOf(req'[u][t].op)
    BY <1>1, <2>1 DEF RequestsInOrder
  <2>3. \A t, o \in Slot : req'[u][t].op = "finish" /\ req'[u][o].op = "finish" => t = o
    BY <1>2, <2>1 DEF RequestsInOrder
  <2>4. \A t \in Slot : req'[u][t].op \in {"begin", "post"} =>
          u \notin meta' \cup jobs' /\ \A o \in Slot \ {t} : req'[u][o].op = "none"
    <3>1. \A t \in Slot : req'[u][t].op \in {"begin", "post"} =>
            u \notin meta \cup jobs /\ \A o \in Slot \ {t} : req'[u][o].op = "none"
      BY <1>2, <2>1 DEF RequestsInOrder
    <3>2. \A t \in Slot : req'[u][t].op \in {"begin", "post"} => r.op \in {"begin", "post"}
      BY <1>1, <3>1
    <3> QED
      BY <3>1, <3>2
  <2>5. u \in jobs' =>
         /\ page[u].at = "ended" \/ (page[u].at = "waiting" /\ req[u][page[u].slot].op = "finish")
         /\ \A t \in Slot : req'[u][t].op = "finish" => req'[u][t].at = "settle"
    <3>1. CASE u \in jobs /\ u \in jobs'
      BY <1>1, <2>1, <3>1 DEF RequestsInOrder
    <3>2. CASE u \in jobs' /\ r.op = "finish"
      <4>1. page[u].at = "ended" \/ Awaits(u, s)
        BY <2>1, <3>2 DEF PageKeepsTime
      <4>2. \A t \in Slot : req'[u][t].op = "finish" => req'[u][t].at = "settle"
        BY <1>1, <2>3, <3>2
      <4> QED
        BY <3>2, <4>1, <4>2 DEF Awaits
    <3> QED
      BY <3>1, <3>2
  <2> QED
    BY <1>2, <2>2, <2>3, <2>4, <2>5, UploadTypes DEF RequestsInOrder
<1>5. Reserves(u)'
  BY <1>1, UploadTypes DEF Reserves, Orderly
<1>6. InOnePiece(u)'
  <2> SUFFICES ASSUME u \notin overlapped PROVE (OneAtATime(u) /\ PartIsABeginning(u) /\ VideoIsWhole(u))'
    BY DEF InOnePiece
  <2>1. OneAtATime(u) /\ PartIsABeginning(u) /\ VideoIsWhole(u)
    BY UploadTypes DEF InOnePiece
  <2>2. OneAtATime(u)'
    BY <1>2, <2>1, UploadTypes DEF OneAtATime
  <2> QED
    BY <2>1, <2>2
<1>7. page' = [page EXCEPT ![u] = page[u]] /\ page[u] \in Page
  BY UploadTypes DEF TypeOK
<1> QED
  BY <1>3, <1>4, <1>5, <1>6, <1>7, ServedKeeps DEF Orderly

\* Goto only moves the step of the request.
LEMMA GotoShape ==
    ASSUME UploadsInv, NEW u \in Uploads, NEW s \in Slot, NEW at,
           at \in {"reserve", "open", "append", "write", "extend", "seal", "pipeline",
                   "settle", "release"},
           Goto(u, s, at)
    PROVE  \E r \in Request :
              /\ req' = [req EXCEPT ![u][s] = r] /\ UNCHANGED page
              /\ r.op = req[u][s].op /\ r.offset = req[u][s].offset /\ r.at = at
<1> DEFINE r == [req[u][s] EXCEPT !.at = at]
<1>1. r \in Request /\ r.op = req[u][s].op /\ r.offset = req[u][s].offset /\ r.at = at
  BY UploadTypes DEF Request
<1>2. req' = [req EXCEPT ![u][s] = r] /\ UNCHANGED page
  BY DEF Goto
<1> QED
  BY <1>1, <1>2

-----------------------------------------------------------------------------
(* Admission.                                                              *)

\* What is handed back is remembered as undone.
LEMMA ReleasedShape ==
    ASSUME UploadsInv, NEW u \in Uploads, Released(u), UNCHANGED <<owner, jobs, overlapped>>,
           found' \subseteq Uploads, trouble' \in 0..MaxTrouble,
           video' \in [Uploads -> Seq(1..Size) \cup {Absent}]
    PROVE  /\ RestTyped
           /\ \A v \in Uploads : SessionStays(v) /\ (Granted(v) => Granted(v)')
<1>1. part' \in [Uploads -> Seq(1..Size) \cup {Absent}]
  BY DEF UploadsInv, TypeOK, Released
<1>2. RestTyped
  BY <1>1 DEF UploadsInv, TypeOK, RestTyped, Released
<1>3. \A v \in Uploads : v = u \/ part'[v] = part[v]
  BY DEF Released, UploadsInv, TypeOK
<1> QED
  BY <1>2, <1>3 DEF UploadsInv, TypeOK, Released, SessionStays, Granted

\* reserve_upload_storage discards idle sessions and lapsed leases.
LEMMA AdmitKeeps ==
    ASSUME UploadsInv, NEW u \in Uploads, NEW s \in Slot, NEW op \in {"begin", "post"},
           Admit(u, s, op)
    PROVE  UploadsInv' /\ KeepsJobs
<1> DEFINE idle == Idle(owner[u])
           gone == idle \cup Lapsed(owner[u])
           reaped == Reaped(owner[u])
<1>1. PICK full \in BOOLEAN :
         /\ part' = [v \in Uploads |-> IF v \in idle THEN Absent ELSE part[v]]
         /\ meta' = meta \ idle /\ quiet' = quiet \ idle
         /\ usage' = usage \ (idle \cup reaped)
         /\ undone' = undone \cup (usage \cap (idle \cup (reaped \ jobs)))
         /\ lease' = [v \in Uploads |-> IF v \in gone THEN "none"
                                        ELSE IF v = u /\ ~full THEN "live" ELSE lease[v]]
         /\ IF full THEN Finish(u, s) ELSE Goto(u, s, "reserve")
  BY DEF Admit
<1>2. reaped \cap jobs = {} /\ req[u][s].op = op /\ req[u][s].at = "admit"
  BY DEF Reaped, Admit, At
<1> HIDE DEF idle, gone, reaped
<1>3. RestTyped
  BY <1>1, UploadTypes DEF Admit, TypeOK, RestTyped
<1>4. \A v \in Uploads : Spared(v)
  BY <1>1, <1>2 DEF Admit, Spared, SessionStays, Granted
<1>5. UNCHANGED <<jobs, overlapped>>
  BY DEF Admit
<1>6. CASE Finish(u, s)
  BY <1>2, <1>3, <1>4, <1>5, <1>6, FinishKeeps DEF Spared
<1>7. CASE Goto(u, s, "reserve")
  <2>1. PICK r \in Request :
          /\ req' = [req EXCEPT ![u][s] = r] /\ UNCHANGED page
          /\ r.op = op /\ r.offset = req[u][s].offset /\ r.at = "reserve"
    BY <1>2, <1>7, GotoShape
  <2>2. r.at \in StepsOf(r.op)
    BY <2>1 DEF StepsOf
  <2>3. OneAtATime(u) /\ PartIsABeginning(u) /\ VideoIsWhole(u)
          => PartIsABeginning(u)' /\ VideoIsWhole(u)'
    <3>1. \A t \in Slot : req'[u][t] = req[u][t] \/ req'[u][t].op = op
      BY <2>1, UploadTypes DEF TypeOK
    <3> QED
      BY <1>4, <1>5, <3>1 DEF PartIsABeginning, VideoIsWhole, BeginsWell, At, Spared, SessionStays
  <2> QED
    BY <1>2, <1>3, <1>4, <1>5, <2>1, <2>2, <2>3, GoingOnKeeps DEF Spared, SessionStays
<1> QED
  BY <1>1, <1>6, <1>7

\* reserve_analysis.
LEMMA ReserveKeeps ==
    ASSUME UploadsInv, NEW u \in Uploads, NEW s \in Slot,
           Reserve(u, s, "begin", "open") \/ Reserve(u, s, "post", "pipeline")
    PROVE  UploadsInv' /\ KeepsJobs
<1>1. PICK op \in {"begin", "post"} : Reserve(u, s, op, IF op = "begin" THEN "open" ELSE "pipeline")
  OBVIOUS
<1> DEFINE next == IF op = "begin" THEN "open" ELSE "pipeline"
<1>2. req[u][s].op = op /\ req[u][s].at = "reserve" /\ next \in StepsOf(op)
      /\ next \in {"open", "pipeline"}
  BY <1>1 DEF Reserve, At, StepsOf
<1>3. RestTyped /\ (\A v \in Uploads : Spared(v)) /\ UNCHANGED <<jobs, overlapped, files>>
  BY <1>1, UploadTypes DEF Reserve, TypeOK, RestTyped, Spared, SessionStays, Granted, files, marks
<1>4. Finish(u, s) \/ (usage' = usage \cup {u} /\ Goto(u, s, next))
  BY <1>1 DEF Reserve
<1> HIDE DEF next
<1>5. CASE Finish(u, s)
  BY <1>2, <1>3, <1>5, FinishKeeps DEF Spared
<1>6. CASE usage' = usage \cup {u} /\ Goto(u, s, next)
  <2>1. PICK r \in Request :
          /\ req' = [req EXCEPT ![u][s] = r] /\ UNCHANGED page
          /\ r.op = op /\ r.offset = req[u][s].offset /\ r.at = next
    BY <1>2, <1>6, GotoShape
  <2>2. OneAtATime(u) /\ PartIsABeginning(u) /\ VideoIsWhole(u)
          => PartIsABeginning(u)' /\ VideoIsWhole(u)'
    <3>1. \A t \in Slot : req'[u][t] = req[u][t] \/ req'[u][t].op = op
      BY <2>1, UploadTypes DEF TypeOK
    <3> QED
      BY <1>3, <3>1 DEF PartIsABeginning, VideoIsWhole, BeginsWell, At, files
  <2>3. Granted(u)'
    BY <1>6 DEF Granted
  <2> QED
    BY <1>2, <1>3, <2>1, <2>2, <2>3, GoingOnKeeps DEF files, Spared
<1> QED
  BY <1>4, <1>5, <1>6

\* begin makes an empty part file.
LEMMA OpenKeeps ==
    ASSUME UploadsInv, NEW u \in Uploads, NEW s \in Slot, Open(u, s)
    PROVE  UploadsInv' /\ KeepsJobs
<1> DEFINE c == [page[u] EXCEPT !.at = "sending", !.offset = 0]
           p == IF Awaits(u, s) THEN c ELSE page[u]
<1>1. /\ req[u][s].op = "begin" /\ req[u][s].at = "open"
      /\ u \notin meta \cup jobs /\ \A t \in Slot \ {s} : req[u][t].op = "none"
      /\ page[u].at = "ended" \/ Awaits(u, s)
  BY UploadTypes DEF Open, At, Orderly, RequestsInOrder, PageKeepsTime
<1>2. Granted(u)
  BY <1>1, UploadTypes DEF Orderly, Reserves
<1>3. /\ p \in Page /\ (p.at = "ended" \/ p.at = "sending")
      /\ NoRequest.op = "none" /\ NoRequest.at = "idle"
  <2>1. c \in Page /\ c.at = "sending"
    BY UploadTypes DEF Page
  <2> QED
    BY <1>1, <2>1, UploadTypes DEF NoRequest
<1>4. req' = [req EXCEPT ![u][s] = NoRequest] /\ page' = [page EXCEPT ![u] = p]
  BY UploadTypes DEF Open, Continue, TypeOK
<1> HIDE DEF p
<1>5. page'[u] = p /\ \A t \in Slot : req'[u][t].op = "none"
  BY <1>1, <1>3, <1>4, UploadTypes DEF TypeOK
<1>6. RestTyped /\ \A v \in Uploads \ {u} : Spared(v)
  <2>1. part' \in [Uploads -> Seq(1..Size) \cup {Absent}]
    BY UploadTypes, EmptySeq DEF Open, TypeOK
  <2>2. RestTyped
    BY <2>1, UploadTypes DEF Open, TypeOK, RestTyped, held, marks
  <2> QED
    BY <2>2 DEF Open, Spared, SessionStays, Granted, held, marks
<1>7. /\ part'[u] = <<>> /\ UNCHANGED <<jobs, overlapped, video>> /\ Granted(u)'
  BY <1>2, UploadTypes DEF Open, TypeOK, Granted, held, marks
<1>8. Orderly(u)'
  <2>1. \A t \in Slot : req'[u][t].at = "idle"
    <3>1. \A t \in Slot : t = s \/ req'[u][t] = req[u][t]
      BY <1>4, UploadTypes DEF TypeOK
    <3>2. req'[u][s] = NoRequest
      BY <1>4, UploadTypes DEF TypeOK
    <3>3. \A t \in Slot \ {s} : req[u][t].at = "idle"
      BY <1>1, UploadTypes DEF Orderly, RequestsInOrder, StepsOf
    <3> QED
      BY <1>3, <3>1, <3>2, <3>3
  <2> QED
    BY <1>1, <1>3, <1>5, <1>7, <2>1
       DEF Orderly, PageKeepsTime, RequestsInOrder, Reserves, StepsOf
<1>9. InOnePiece(u)'
  <2>1. BeginsWell(part[u])'
    <3> DEFINE e == <<>>
    <3>1. e \in Seq(1..Size) /\ Len(e) = 0 /\ e = [i \in 1..0 |-> i]
      OBVIOUS
    <3> HIDE DEF e
    <3>2. e # Absent
      BY <3>1, UploadsAssumption
    <3>4. 0 <= Size
      BY UploadsAssumption
    <3>3. part'[u] = e
      BY <1>7 DEF e
    <3> QED
      BY <3>1, <3>2, <3>3, <3>4 DEF BeginsWell, Whole
  <2> QED
    BY <1>1, <1>5, <1>7, <2>1
       DEF InOnePiece, OneAtATime, PartIsABeginning, VideoIsWhole, At
<1> QED
  BY <1>1, <1>3, <1>4, <1>6, <1>8, <1>9, UploadTypes, ServedKeeps

-----------------------------------------------------------------------------
(* A piece.                                                                *)

\* A piece put to a beginning of the video gives a longer one.
LEMMA LongerBeginning ==
    ASSUME NEW file \in Seq(1..Size), BeginsWell(file), NEW piece \in Seq(1..Size),
           Len(file) + Len(piece) <= Size,
           \A i \in 1..Len(piece) : piece[i] = Len(file) + i
    PROVE  BeginsWell(file \o piece)
<1> DEFINE both == file \o piece
<1>1. /\ both \in Seq(1..Size) /\ Len(both) = Len(file) + Len(piece)
      /\ Len(file) \in Nat /\ Len(piece) \in Nat
      /\ \A i \in 1..(Len(file) + Len(piece)) :
           both[i] = IF i <= Len(file) THEN file[i] ELSE piece[i - Len(file)]
  BY ConcatProperties, LenProperties
<1>2. \A i \in 1..Len(both) : both[i] = i
  <2>1. \A i \in 1..Len(file) : file[i] = i
    BY DEF BeginsWell, Whole
  <2>2. \A i \in 1..Len(both) : i <= Len(file) => both[i] = i
    BY <1>1, <2>1
  <2>3. \A i \in 1..Len(both) : ~(i <= Len(file)) => both[i] = i
    <3> SUFFICES ASSUME NEW i \in 1..Len(both), ~(i <= Len(file)) PROVE both[i] = i
      OBVIOUS
    <3>1. i - Len(file) \in 1..Len(piece) /\ both[i] = piece[i - Len(file)]
      BY <1>1
    <3>2. piece[i - Len(file)] = Len(file) + (i - Len(file))
      BY <3>1
    <3> QED
      BY <1>1, <3>1, <3>2
  <2> QED
    BY <2>2, <2>3
<1>3. both # Absent
  BY <1>1, UploadsAssumption
<1>4. both = [i \in 1..Len(both) |-> both[i]]
  BY <1>1, LenProperties
<1> HIDE DEF both
<1>5. both = Whole(Len(both))
  BY <1>2, <1>4 DEF Whole
<1> QED
  BY <1>1, <1>3, <1>5 DEF BeginsWell, both

\* What append and a crash in the middle of it put into the part file.
LEMMA AppendedShape ==
    ASSUME UploadsInv, NEW u \in Uploads, NEW piece \in Seq(1..Size), Appended(u, piece)
    PROVE  /\ part' \in [Uploads -> Seq(1..Size) \cup {Absent}]
           /\ \A v \in Uploads \ {u} : part'[v] = part[v]
           /\ part[u] # Absent => part'[u] = part[u] \o piece /\ part[u] \in Seq(1..Size)
<1> DEFINE file == IF part[u] = Absent THEN piece ELSE part[u] \o piece
<1>1. part[u] \in Seq(1..Size) \cup {Absent} /\ part \in [Uploads -> Seq(1..Size) \cup {Absent}]
  BY UploadTypes DEF TypeOK
<1>2. file \in Seq(1..Size) /\ (part[u] # Absent => file = part[u] \o piece)
  <2>1. CASE part[u] = Absent
    BY <2>1
  <2>2. CASE part[u] # Absent
    <3>1. part[u] \in Seq(1..Size)
      BY <1>1, <2>2
    <3>2. part[u] \o piece \in Seq(1..Size)
      BY <3>1, ConcatProperties
    <3> QED
      BY <2>2, <3>2
  <2> QED
    BY <2>1, <2>2
<1>3. part' = [part EXCEPT ![u] = file]
  BY DEF Appended
<1> HIDE DEF file
<1> QED
  BY <1>1, <1>2, <1>3

\* The page hears how far a piece got and goes on from there.
LEMMA ContinueKeeps ==
    ASSUME UploadsInv, NEW u \in Uploads, NEW s \in Slot, NEW n \in Nat,
           req[u][s].op = "chunk", Continue(u, s, n),
           RestTyped, \A v \in Uploads : Spared(v)
    PROVE  UploadsInv' /\ KeepsJobs
<1> DEFINE c == [page[u] EXCEPT !.at = "sending", !.offset = n]
           p == IF Awaits(u, s) THEN c ELSE page[u]
<1>1. /\ c \in Page /\ c.at = "sending" /\ c.offset = n /\ p \in Page
      /\ NoRequest.op = "none" /\ NoRequest.at = "idle"
  BY UploadTypes DEF Page, NoRequest
<1>2. req' = [req EXCEPT ![u][s] = NoRequest] /\ page' = [page EXCEPT ![u] = p]
  BY UploadTypes DEF Continue, TypeOK
<1>3. CASE ~Awaits(u, s)
  <2>1. p = page[u]
    BY <1>3
  <2> HIDE DEF p
  <2>2. UNCHANGED <<jobs, overlapped>>
    BY DEF Spared, UploadsInv, TypeOK, RestTyped
  <2>3. /\ SessionStays(u) /\ (Granted(u) => Granted(u)') /\ video'[u] = video[u]
        /\ \A v \in Uploads \ {u} : Spared(v)
    BY DEF Spared
  <2>4. p \in Page /\ NoRequest \in Request
    BY <1>1, UploadTypes
  <2> QED
    BY <1>1, <1>2, <1>3, <2>1, <2>2, <2>3, <2>4, EndingKeeps
<1>4. CASE Awaits(u, s)
  <2>1. p = c
    BY <1>4
  <2> HIDE DEF p, c
  <2>2. /\ page'[u] = c /\ req'[u][s] = NoRequest
        /\ \A t \in Slot : t = s \/ req'[u][t] = req[u][t]
    BY <1>2, <2>1, UploadTypes DEF TypeOK
  <2>3. /\ u \notin jobs' /\ u \notin jobs
        /\ \A t \in Slot : req'[u][t].op \notin {"begin", "post", "finish"}
    <3>1. PageKeepsTime(u) /\ RequestsInOrder(u)
      BY UploadTypes DEF Orderly
    <3>2. u \notin jobs /\ \A t \in Slot : req[u][t].op \notin {"begin", "post", "finish"}
      BY <1>4, <3>1 DEF PageKeepsTime, RequestsInOrder, Awaits
    <3> QED
      BY <1>1, <2>2, <3>2 DEF Spared
  <2>4. Orderly(u)'
    <3>1. \A t \in Slot : req'[u][t].at \in StepsOf(req'[u][t].op)
      BY <1>1, <2>2, UploadTypes DEF Orderly, RequestsInOrder, StepsOf
    <3>2. Reserves(u)'
      BY <1>1, <2>2, <2>3, UploadTypes DEF Orderly, Reserves, Spared, SessionStays
    <3> QED
      BY <1>1, <2>2, <2>3, <3>1, <3>2 DEF Orderly, PageKeepsTime, RequestsInOrder
  <2>5. InOnePiece(u)'
    <3> SUFFICES ASSUME u \notin overlapped'
                 PROVE  (OneAtATime(u) /\ PartIsABeginning(u) /\ VideoIsWhole(u))'
      BY DEF InOnePiece
    <3>1. OneAtATime(u) /\ PartIsABeginning(u) /\ VideoIsWhole(u)
      BY UploadTypes DEF InOnePiece, Spared
    <3>2. \A t \in Slot : req'[u][t].op # "chunk"
      BY <1>1, <2>2, <3>1 DEF OneAtATime
    <3>3. OneAtATime(u)' /\ VideoIsWhole(u)'
      BY <2>3, <3>2 DEF OneAtATime, VideoIsWhole, At
    <3>4. PartIsABeginning(u)'
      BY <2>3, <3>1, <3>2 DEF PartIsABeginning, BeginsWell, At, Spared, SessionStays
    <3> QED
      BY <3>3, <3>4
  <2> QED
    BY <1>1, <1>2, <2>1, <2>3, <2>4, <2>5, UploadTypes, ServedKeeps DEF Spared
<1> QED
  BY <1>3, <1>4

\* load looks the session up.
LEMMA LoadKeeps ==
    ASSUME UploadsInv, NEW u \in Uploads, NEW s \in Slot,
           \/ Load(u, s, "chunk", "append") \/ Load(u, s, "abort", "release")
           \/ Load(u, s, "finish", "seal")
    PROVE  UploadsInv' /\ KeepsJobs
<1>1. PICK op \in {"chunk", "abort", "finish"}, next \in {"append", "release", "seal"} :
        Load(u, s, op, next) /\ next \in StepsOf(op)
  BY DEF StepsOf
<1>2. req[u][s].op = op /\ req[u][s].at = "load"
  BY <1>1 DEF Load, At
<1>3. /\ RestTyped /\ \A v \in Uploads : Spared(v)
      /\ UNCHANGED <<jobs, overlapped, files>>
  BY <1>1, UploadTypes DEF Load, TypeOK, RestTyped, Spared, SessionStays, Granted, held, files, marks
<1>4. CASE Refuse(u, s)
  BY <1>2, <1>3, <1>4, FinishKeeps DEF Spared
<1>5. CASE u \in meta /\ Goto(u, s, next)
  <2>1. PICK r \in Request :
          /\ req' = [req EXCEPT ![u][s] = r] /\ UNCHANGED page
          /\ r.op = op /\ r.offset = req[u][s].offset /\ r.at = next
    BY <1>2, <1>5, GotoShape
  <2>2. Granted(u)' /\ (u \in jobs => op # "finish")
    BY <1>2, <1>3, <1>5, UploadTypes DEF Orderly, Reserves, RequestsInOrder, Spared
  <2>3. OneAtATime(u) /\ PartIsABeginning(u) /\ VideoIsWhole(u)
          => PartIsABeginning(u)' /\ VideoIsWhole(u)'
    <3>1. \A t \in Slot : req'[u][t] = req[u][t] \/ req'[u][t].at = next
      BY <2>1, UploadTypes DEF TypeOK
    <3> QED
      BY <1>3, <1>5, <3>1 DEF PartIsABeginning, VideoIsWhole, BeginsWell, At, files
  <2> QED
    BY <1>1, <1>2, <1>3, <2>1, <2>2, <2>3, GoingOnKeeps DEF files, Spared
<1> QED
  BY <1>1, <1>4, <1>5 DEF Load

\* append compares the piece with the size of the file.
LEMMA AppendCheckKeeps ==
    ASSUME UploadsInv, NEW u \in Uploads, NEW s \in Slot, AppendCheck(u, s)
    PROVE  UploadsInv' /\ KeepsJobs
<1> DEFINE current == Bytes(part[u])
           r == [req[u][s] EXCEPT !.at = "write", !.current = current]
<1>1. current \in Nat /\ req[u][s].op = "chunk" /\ req[u][s].at = "append"
  BY UploadTypes DEF AppendCheck, At, Bytes, TypeOK
<1>2. /\ RestTyped /\ \A v \in Uploads : Spared(v)
      /\ UNCHANGED <<jobs, overlapped, files>>
  BY UploadTypes DEF AppendCheck, TypeOK, RestTyped, Spared, SessionStays, Granted, held, files, marks
<1>3. CASE Continue(u, s, current)
  <2> HIDE DEF current
  <2> QED
    BY <1>1, <1>2, <1>3, ContinueKeeps
<1>4. CASE Refuse(u, s)
  BY <1>1, <1>2, <1>4, FinishKeeps DEF Spared
<1>5. CASE /\ req[u][s].offset = current
           /\ req' = [req EXCEPT ![u][s].at = "write", ![u][s].current = current]
           /\ UNCHANGED page
  <2>1. r \in Request /\ r.op = "chunk" /\ r.offset = req[u][s].offset /\ r.at = "write"
    <3>1. \A n \in Nat : LET x == [req[u][s] EXCEPT !.at = "write", !.current = n]
                         IN  x \in Request /\ x.op = req[u][s].op /\ x.at = "write"
                             /\ x.offset = req[u][s].offset
      BY UploadTypes DEF Request
    <3> QED
      BY <1>1, <3>1
  <2>2. req' = [req EXCEPT ![u][s] = r]
    BY <1>5
  <2>3. Granted(u)' /\ r.at \in StepsOf(r.op)
    BY <1>1, <1>2, <2>1, UploadTypes DEF Orderly, Reserves, Spared, StepsOf
  <2> HIDE DEF r
  <2>4. OneAtATime(u) /\ PartIsABeginning(u) /\ VideoIsWhole(u)
          => PartIsABeginning(u)' /\ VideoIsWhole(u)'
    <3>1. \A t \in Slot : req'[u][t] = req[u][t] \/ (t = s /\ req'[u][t].op = "chunk")
      BY <2>1, <2>2, UploadTypes DEF TypeOK
    <3>2. req'[u][s].offset = current
      BY <1>5, <2>1, <2>2, UploadTypes DEF TypeOK
    <3>3. u \in meta /\ PartIsABeginning(u) => current = Len(part[u])
      BY DEF Bytes, PartIsABeginning, BeginsWell
    <3> QED
      BY <1>2, <3>1, <3>2, <3>3 DEF PartIsABeginning, VideoIsWhole, BeginsWell, At, files
  <2>5. /\ UNCHANGED <<page, overlapped>> /\ RestTyped /\ \A v \in Uploads \ {u} : Spared(v)
        /\ u \in meta' => u \in meta
        /\ u \in jobs => u \in jobs' /\ video'[u] = video[u]
        /\ u \in jobs' => u \in jobs
    BY <1>2, <1>5 DEF files
  <2>6. /\ r.op = req[u][s].op /\ r.op # "none" /\ r.offset = req[u][s].offset
        /\ ~(r.op = "finish")
    BY <1>1, <2>1
  <2> QED
    BY <2>1, <2>2, <2>3, <2>4, <2>5, <2>6, GoingOnKeeps
<1> QED
  BY <1>3, <1>4, <1>5 DEF AppendCheck

\* A piece of the file that is not behind its end.
LEMMA PieceFits ==
    ASSUME NEW n \in Nat, n < Size
    PROVE  /\ Len(Piece(n)) \in Nat /\ n + Len(Piece(n)) <= Size
           /\ \A i \in 1..Len(Piece(n)) : Piece(n)[i] = n + i
<1>1. Size \in Nat /\ Chunk \in Nat
  BY UploadsAssumption
<1>2. \A c, d \in Nat : Minimum(c, d) \in Nat /\ Minimum(c, d) <= d
  BY DEF Minimum
<1>3. Size - n \in Nat
  BY <1>1
<1>4. Len(Piece(n)) \in Nat /\ Len(Piece(n)) <= Size - n
  <2>1. Len(Piece(n)) = Minimum(Chunk, Size - n)
    BY PieceShape
  <2> QED
    BY <1>1, <1>2, <1>3, <2>1
<1>5. n + Len(Piece(n)) <= Size
  BY <1>1, <1>4
<1> QED
  BY <1>4, <1>5, PieceShape

\* So is the beginning of one.
LEMMA BeginningFits ==
    ASSUME NEW n \in Nat, NEW size \in Nat, NEW p, NEW q,
           Len(p) \in Nat, Len(q) \in Nat, n + Len(p) <= size, Len(q) <= Len(p),
           \A i \in 1..Len(p) : p[i] = n + i,
           \A i \in 1..Len(q) : q[i] = p[i]
    PROVE  n + Len(q) <= size /\ \A i \in 1..Len(q) : q[i] = n + i
OBVIOUS

\* What a piece under way, or the beginning of it, makes of the part file.
LEMMA WrittenBegins ==
    ASSUME UploadsInv, NEW u \in Uploads, NEW s \in Slot, At(u, s, "chunk", "write"),
           NEW piece \in Seq(1..Size), Appended(u, piece),
           Len(piece) <= Len(Piece(req[u][s].offset)),
           \A i \in 1..Len(piece) : piece[i] = Piece(req[u][s].offset)[i],
           u \notin overlapped, u \in meta
    PROVE  BeginsWell(part'[u])
<1> DEFINE n == req[u][s].offset
<1>1. n \in Nat /\ OneAtATime(u) /\ PartIsABeginning(u)
  BY UploadTypes DEF InOnePiece
<1>2. n < Size /\ n = Len(part[u]) /\ BeginsWell(part[u])
  BY <1>1 DEF OneAtATime, PartIsABeginning, At
<1>3. part[u] # Absent /\ part'[u] = part[u] \o piece /\ part[u] \in Seq(1..Size)
  BY <1>2, AppendedShape DEF BeginsWell
<1> HIDE DEF n
<1>4. /\ Len(Piece(n)) \in Nat /\ n + Len(Piece(n)) <= Size
      /\ \A i \in 1..Len(Piece(n)) : Piece(n)[i] = n + i
  BY <1>1, <1>2, PieceFits
<1>5. Len(piece) \in Nat /\ Len(piece) <= Len(Piece(n)) /\ Size \in Nat
  BY LenProperties, UploadsAssumption DEF n
<1>6. \A i \in 1..Len(piece) : piece[i] = Piece(n)[i]
  BY DEF n
<1>7. n + Len(piece) <= Size /\ \A i \in 1..Len(piece) : piece[i] = n + i
  BY <1>1, <1>4, <1>5, <1>6, BeginningFits
<1> QED
  BY <1>2, <1>3, <1>7, LongerBeginning

\* append, the write.
LEMMA AppendWriteKeeps ==
    ASSUME UploadsInv, NEW u \in Uploads, NEW s \in Slot, AppendWrite(u, s)
    PROVE  UploadsInv' /\ KeepsJobs
<1> DEFINE piece == Piece(req[u][s].offset)
<1>1. /\ piece \in Seq(1..Size) /\ Appended(u, piece)
      /\ req[u][s].op = "chunk" /\ req[u][s].at = "write" /\ At(u, s, "chunk", "write")
  BY UploadTypes, PieceShape DEF AppendWrite, At
<1>2. UNCHANGED <<owner, held, meta, video, jobs, found, marks, trouble>>
  BY DEF AppendWrite
<1>3. u \notin overlapped /\ u \in meta => BeginsWell(part'[u])
  <2>1. Len(piece) <= Len(piece)
    BY <1>1, LenProperties
  <2> QED
    BY <1>1, <2>1, WrittenBegins
<1> HIDE DEF piece
<1>4. /\ part' \in [Uploads -> Seq(1..Size) \cup {Absent}]
      /\ \A v \in Uploads \ {u} : part'[v] = part[v]
  BY <1>1, AppendedShape
<1>5. RestTyped
  BY <1>4, UploadTypes DEF AppendWrite, TypeOK, RestTyped, held, marks
<1>6. \A v \in Uploads \ {u} : Spared(v)
  BY <1>2, <1>4 DEF Spared, SessionStays, Granted, held, marks
<1>7. Granted(u)'
  BY <1>1, <1>2, UploadTypes DEF Orderly, Reserves, Granted, held, marks
<1>8. PICK r \in Request :
        /\ req' = [req EXCEPT ![u][s] = r] /\ UNCHANGED page
        /\ r.op = "chunk" /\ r.offset = req[u][s].offset /\ r.at = "extend"
  BY <1>1, GotoShape DEF AppendWrite
<1>9. u \notin overlapped /\ OneAtATime(u) /\ PartIsABeginning(u) /\ VideoIsWhole(u)
        => PartIsABeginning(u)' /\ VideoIsWhole(u)'
  <2> SUFFICES ASSUME u \notin overlapped, OneAtATime(u), PartIsABeginning(u), VideoIsWhole(u)
               PROVE  PartIsABeginning(u)' /\ VideoIsWhole(u)'
    OBVIOUS
  <2>1. \A t \in Slot : IF t = s THEN req'[u][t] = r ELSE req'[u][t] = req[u][t]
    BY <1>8, UploadTypes DEF TypeOK
  <2>2. \A t \in Slot : ~At(u, t, "chunk", "write")' /\ ~At(u, t, "finish", "seal")'
    BY <1>1, <1>8, <2>1 DEF OneAtATime, At
  <2>3. PartIsABeginning(u)'
    BY <1>2, <1>3, <2>2 DEF PartIsABeginning
  <2>4. VideoIsWhole(u)'
    BY <1>2, <1>8, <2>1 DEF VideoIsWhole, At
  <2> QED
    BY <2>3, <2>4
<1>10. r.at \in StepsOf(r.op)
  BY <1>8 DEF StepsOf
<1> QED
  BY <1>1, <1>2, <1>5, <1>6, <1>7, <1>8, <1>9, <1>10, GoingOnKeeps DEF marks

\* extend_lease, and the answer.
LEMMA ExtendKeeps ==
    ASSUME UploadsInv, NEW u \in Uploads, NEW s \in Slot, Extend(u, s)
    PROVE  UploadsInv' /\ KeepsJobs
<1> DEFINE n == req[u][s].current + Len(Piece(req[u][s].offset))
<1>1. n \in Nat
  BY UploadTypes, PieceShape, LenProperties
<1>2. req[u][s].op = "chunk" /\ Continue(u, s, n)
  BY DEF Extend, At
<1>3. /\ RestTyped /\ \A v \in Uploads : Spared(v)
  BY UploadTypes DEF Extend, Extended, TypeOK, RestTyped, Spared, SessionStays, Granted, files, marks
<1> HIDE DEF n
<1> QED
  BY <1>1, <1>2, <1>3, ContinueKeeps

-----------------------------------------------------------------------------
(* Abort, finish and the single request.                                   *)

\* What gives the session back and ends.
LEMMA ReleasingKeeps ==
    ASSUME UploadsInv, NEW u \in Uploads, NEW s \in Slot,
           Abort(u, s) \/ PipelineRefuses(u, s) \/ FailsAfterJob(u, s)
    PROVE  UploadsInv' /\ KeepsJobs
<1>1. /\ req[u][s].op \in {"abort", "finish"} /\ (Finish(u, s) \/ Refuse(u, s))
      /\ Released(u) /\ UNCHANGED <<owner, jobs, found, overlapped>>
  BY DEF Abort, PipelineRefuses, FailsAfterJob, At
<1>2. /\ video' \in [Uploads -> Seq(1..Size) \cup {Absent}] /\ trouble' \in 0..MaxTrouble
      /\ found' \subseteq Uploads
  <2>1. video' \in {video, [video EXCEPT ![u] = Absent]}
    BY DEF Abort, PipelineRefuses, FailsAfterJob
  <2>2. video' \in [Uploads -> Seq(1..Size) \cup {Absent}] /\ found' \subseteq Uploads
    BY <1>1, <2>1, UploadTypes DEF TypeOK
  <2>3. trouble' = trouble \/ Trouble
    BY DEF Abort, PipelineRefuses, FailsAfterJob
  <2>4. trouble' \in 0..MaxTrouble
    BY <2>3, UploadTypes, UploadsAssumption DEF TypeOK, Trouble
  <2> QED
    BY <2>2, <2>4
<1>3. /\ \A v \in Uploads \ {u} : video'[v] = video[v]
      /\ video'[u] = video[u] \/ At(u, s, "finish", "pipeline")
  BY UploadTypes DEF Abort, PipelineRefuses, FailsAfterJob, TypeOK
<1>4. /\ RestTyped
      /\ \A v \in Uploads : SessionStays(v) /\ (Granted(v) => Granted(v)')
  BY <1>1, <1>2, ReleasedShape
<1>5. \A v \in Uploads \ {u} : Spared(v)
  BY <1>1, <1>3, <1>4 DEF Spared
<1> QED
  BY <1>1, <1>3, <1>4, <1>5, FinishKeeps

\* What ends with the lease and, for the single request, with its reservation.
LEMMA SettlingKeeps ==
    ASSUME UploadsInv, NEW u \in Uploads, NEW s \in Slot, Settle(u, s) \/ PostRefuses(u, s)
    PROVE  UploadsInv' /\ KeepsJobs
<1>1. /\ req[u][s].op \in {"post", "finish"} /\ Finish(u, s)
      /\ UNCHANGED <<jobs, overlapped>> /\ video'[u] = video[u]
  BY DEF Settle, PostRefuses, At, files, marks
<1>2. RestTyped
  BY UploadTypes DEF Settle, PostRefuses, TypeOK, RestTyped, files, marks
<1>3. /\ SessionStays(u) /\ \A v \in Uploads \ {u} : Spared(v)
      /\ (Granted(u) => Granted(u)') \/ req[u][s].op = "post"
  BY DEF Settle, PostRefuses, At, Spared, SessionStays, Granted, files, marks
<1> QED
  BY <1>1, <1>2, <1>3, FinishKeeps

\* finalise: a part file of the declared size is the video.
LEMMA SealKeeps ==
    ASSUME UploadsInv, NEW u \in Uploads, NEW s \in Slot, Seal(u, s)
    PROVE  UploadsInv' /\ KeepsJobs
<1>1. /\ req[u][s].op = "finish" /\ req[u][s].at = "seal" /\ At(u, s, "finish", "seal")
      /\ UNCHANGED <<owner, held, jobs, found, marks, trouble>>
  BY DEF Seal, At
<1>2. u \notin jobs /\ Granted(u)
  BY <1>1, UploadTypes DEF Orderly, RequestsInOrder, Reserves
<1>3. CASE Refuse(u, s) /\ UNCHANGED files
  <2>1. RestTyped /\ \A v \in Uploads : Spared(v)
    BY <1>1, <1>3, UploadTypes
       DEF TypeOK, RestTyped, Spared, SessionStays, Granted, held, files, marks
  <2> QED
    BY <1>1, <1>3, <2>1, FinishKeeps DEF Spared, marks
<1>4. CASE Bytes(part[u]) = Size /\ ~(Refuse(u, s) /\ UNCHANGED files)
  <2>1. /\ video' = [video EXCEPT ![u] = part[u]] /\ part' = [part EXCEPT ![u] = Absent]
        /\ meta' = meta \ {u} /\ quiet' = quiet \ {u} /\ Goto(u, s, "pipeline")
    BY <1>4 DEF Seal
  <2>2. PICK r \in Request :
          /\ req' = [req EXCEPT ![u][s] = r] /\ UNCHANGED page
          /\ r.op = "finish" /\ r.offset = req[u][s].offset /\ r.at = "pipeline"
    BY <1>1, <2>1, GotoShape
  <2>3. RestTyped
    BY <1>1, <2>1, UploadTypes DEF TypeOK, RestTyped, held, marks
  <2>4. \A v \in Uploads \ {u} : Spared(v)
    BY <1>1, <2>1, UploadTypes DEF TypeOK, Spared, SessionStays, Granted, held, marks
  <2>5. u \notin overlapped /\ PartIsABeginning(u) => part[u] = Whole(Size)
    <3>1. part[u] # Absent
      BY <1>4, UploadsAssumption DEF Bytes
    <3>2. Len(part[u]) = Size
      BY <1>4, <3>1 DEF Bytes
    <3> QED
      BY <1>1, <3>1, <3>2 DEF PartIsABeginning, BeginsWell
  <2>6. u \notin overlapped /\ OneAtATime(u) /\ PartIsABeginning(u) /\ VideoIsWhole(u)
          => PartIsABeginning(u)' /\ VideoIsWhole(u)'
    <3>1. u \notin meta' /\ part'[u] = Absent /\ video'[u] = part[u]
      BY <2>1, UploadTypes DEF TypeOK
    <3> QED
      BY <2>5, <3>1 DEF PartIsABeginning, VideoIsWhole
  <2>7. r.at \in StepsOf(r.op)
    BY <2>2 DEF StepsOf
  <2> QED
    BY <1>1, <1>2, <2>1, <2>2, <2>3, <2>4, <2>6, <2>7, GoingOnKeeps DEF Granted, held, marks
<1> QED
  BY <1>3, <1>4 DEF Seal

\* The upload becomes a job.
LEMMA AcceptKeeps ==
    ASSUME UploadsInv, NEW u \in Uploads, NEW s \in Slot, PipelineAccepts(u, s)
    PROVE  UploadsInv' /\ KeepsJobs
<1>1. /\ req[u][s].op = "finish" /\ req[u][s].at = "pipeline" /\ At(u, s, "finish", "pipeline")
      /\ UNCHANGED <<owner, held, files, found, marks, trouble>>
      /\ jobs' = jobs \cup {u}
  BY DEF PipelineAccepts, At
<1>2. Granted(u)
  BY <1>1, UploadTypes DEF Orderly, Reserves
<1>3. PICK r \in Request :
        /\ req' = [req EXCEPT ![u][s] = r] /\ UNCHANGED page
        /\ r.op = "finish" /\ r.offset = req[u][s].offset /\ r.at = "settle"
  BY <1>1, GotoShape DEF PipelineAccepts
<1>4. RestTyped
  BY <1>1, UploadTypes DEF TypeOK, RestTyped, held, files, marks
<1>5. \A v \in Uploads \ {u} : Spared(v)
  BY <1>1 DEF Spared, SessionStays, Granted, held, files, marks
<1>6. OneAtATime(u) /\ PartIsABeginning(u) /\ VideoIsWhole(u)
        => PartIsABeginning(u)' /\ VideoIsWhole(u)'
  <2>1. \A t \in Slot : req'[u][t] = req[u][t] \/ req'[u][t].at = "settle"
    BY <1>3, UploadTypes DEF TypeOK
  <2> QED
    BY <1>1, <2>1 DEF PartIsABeginning, VideoIsWhole, BeginsWell, At, files
<1>7. r.at \in StepsOf(r.op) /\ Granted(u)'
  BY <1>1, <1>2, <1>3 DEF StepsOf, Granted, held, marks
<1> QED
  BY <1>1, <1>3, <1>4, <1>5, <1>6, <1>7, GoingOnKeeps DEF files, marks

\* The single request brings the whole file.
LEMMA PostAcceptKeeps ==
    ASSUME UploadsInv, NEW u \in Uploads, NEW s \in Slot, PostAccepts(u, s)
    PROVE  UploadsInv' /\ KeepsJobs
<1> DEFINE e == [page[u] EXCEPT !.at = "ended"]
<1>1. /\ req[u][s].op = "post" /\ req[u][s].at = "pipeline"
      /\ u \notin meta \cup jobs /\ \A t \in Slot \ {s} : req[u][t].op = "none"
      /\ page[u].at = "ended" \/ Awaits(u, s)
      /\ Granted(u)
  BY UploadTypes DEF PostAccepts, At, Orderly, RequestsInOrder, PageKeepsTime, Reserves
<1>2. e \in Page /\ e.at = "ended" /\ NoRequest.op = "none" /\ NoRequest.at = "idle"
  BY UploadTypes DEF Page, NoRequest
<1>3. PICK p \in Page : p.at = "ended" /\ page' = [page EXCEPT ![u] = p]
  <2>1. page = [page EXCEPT ![u] = page[u]]
    BY UploadTypes DEF TypeOK
  <2>2. CASE Awaits(u, s)
    BY <1>2, <2>2 DEF PostAccepts, Finish
  <2>3. CASE ~Awaits(u, s)
    BY <1>1, <2>1, <2>3, UploadTypes DEF PostAccepts, Finish
  <2> QED
    BY <2>2, <2>3
<1>4. req' = [req EXCEPT ![u][s] = NoRequest]
  BY DEF PostAccepts, Finish
<1>5. /\ page'[u] = p /\ req'[u][s] = NoRequest
      /\ \A t \in Slot : t = s \/ req'[u][t] = req[u][t]
  BY <1>3, <1>4, UploadTypes DEF TypeOK
<1>6. \A t \in Slot : req'[u][t].op = "none" /\ req'[u][t].at = "idle"
  BY <1>1, <1>2, <1>5, UploadTypes DEF Orderly, RequestsInOrder, StepsOf
<1>7. /\ jobs' = jobs \cup {u} /\ UNCHANGED <<owner, usage, part, meta, overlapped, undone>>
      /\ video'[u] = Whole(Size) /\ \A v \in Uploads \ {u} : video'[v] = video[v]
  BY UploadTypes DEF PostAccepts, TypeOK, Whole, marks
<1>8. RestTyped
  <2> DEFINE w == [i \in 1..Size |-> i]
  <2>1. w \in Seq(1..Size)
    BY UploadsAssumption
  <2>2. video' = [video EXCEPT ![u] = w]
    BY DEF PostAccepts
  <2> HIDE DEF w
  <2>3. video' \in [Uploads -> Seq(1..Size) \cup {Absent}]
    BY <2>1, <2>2, UploadTypes DEF TypeOK
  <2>4. lease' \in [Uploads -> {"none", "live", "lapsed"}] /\ jobs' \subseteq Uploads
    BY UploadTypes DEF PostAccepts, TypeOK
  <2> QED
    BY <2>3, <2>4, UploadTypes DEF PostAccepts, TypeOK, RestTyped, marks
<1>9. \A v \in Uploads \ {u} : Spared(v)
  BY <1>7 DEF Spared, SessionStays, Granted
<1>10. Orderly(u)'
  BY <1>1, <1>3, <1>5, <1>6, <1>7
     DEF Orderly, PageKeepsTime, RequestsInOrder, Reserves, Granted, StepsOf
<1>11. InOnePiece(u)'
  BY <1>1, <1>5, <1>6, <1>7 DEF InOnePiece, OneAtATime, PartIsABeginning, VideoIsWhole, At
<1> QED
  BY <1>1, <1>3, <1>4, <1>8, <1>9, <1>10, <1>11, UploadTypes, ServedKeeps

-----------------------------------------------------------------------------
(* Time, the maintenance sweep, and a death of the process.                *)

\* Nothing here touches a page, a request or a job.
LEMMA TimeKeeps ==
    ASSUME UploadsInv, NEW u \in Uploads,
           GoesQuiet(u) \/ Lapse(u) \/ SweepFinds(u) \/ SweepReleases(u)
    PROVE  UploadsInv' /\ KeepsJobs
<1>1. UNCHANGED <<page, req, jobs, overlapped, video>>
  BY DEF GoesQuiet, Lapse, SweepFinds, SweepReleases, files, marks
<1>2. /\ RestTyped
      /\ \A v \in Uploads : SessionStays(v) /\ (Granted(v) => Granted(v)')
  <2>1. CASE SweepReleases(u)
    BY <2>1, UploadTypes, ReleasedShape DEF SweepReleases, TypeOK
  <2>2. CASE GoesQuiet(u) \/ Lapse(u) \/ SweepFinds(u)
    BY <2>2, UploadTypes
       DEF GoesQuiet, Lapse, SweepFinds, TypeOK, RestTyped, SessionStays, Granted, held, files, marks
  <2> QED
    BY <2>1, <2>2
<1>3. \A v \in Uploads : Untouched(v)
  BY <1>1, <1>2 DEF Untouched, Spared
<1>4. page' = [page EXCEPT ![u] = page[u]] /\ req' = [req EXCEPT ![u][1] = req[u][1]]
  BY <1>1, UploadTypes DEF TypeOK
<1>5. Orderly(u)' /\ InOnePiece(u)'
  BY <1>3, UploadTypes, BystanderKeeps
<1> QED
  BY <1>1, <1>2, <1>3, <1>4, <1>5, UploadTypes, ServedKeeps DEF Untouched

\* No request survives the process: a piece is sent again, the rest is over.
LEMMA CrashKeeps ==
    ASSUME UploadsInv, Crash
    PROVE  UploadsInv' /\ KeepsJobs
<1>1. /\ UNCHANGED <<owner, held, meta, video, jobs, marks>> /\ found' = {}
      /\ req' = [u \in Uploads |-> [s \in Slot |-> NoRequest]]
  BY DEF Crash
<1>2. /\ part' \in [Uploads -> Seq(1..Size) \cup {Absent}] /\ quiet' \subseteq Uploads
      /\ \A u \in Uploads : part'[u] = part[u] \/ (u \notin overlapped /\ u \in meta => BeginsWell(part'[u]))
  <2>1. CASE UNCHANGED <<part, quiet>>
    BY <2>1, UploadTypes DEF UploadsInv, TypeOK
  <2>2. ASSUME NEW u \in Uploads, NEW s \in Slot, NEW n \in 1..Chunk,
               At(u, s, "chunk", "write"), n < Len(Piece(req[u][s].offset)),
               Appended(u, SubSeq(Piece(req[u][s].offset), 1, n)), quiet' = quiet \ {u}
        PROVE  /\ part' \in [Uploads -> Seq(1..Size) \cup {Absent}] /\ quiet' \subseteq Uploads
               /\ \A v \in Uploads : part'[v] = part[v] \/
                    (v \notin overlapped /\ v \in meta => BeginsWell(part'[v]))
    <3> DEFINE whole == Piece(req[u][s].offset)
               piece == SubSeq(whole, 1, n)
    <3>1. whole \in Seq(1..Size) /\ Len(whole) \in Nat /\ n \in 1..Len(whole)
      <4>1. whole \in Seq(1..Size)
        BY UploadTypes, PieceShape
      <4>2. Len(whole) \in Nat
        BY <4>1, LenProperties
      <4>3. n \in Int /\ 1 <= n /\ n < Len(whole)
        BY <2>2, UploadsAssumption
      <4> HIDE DEF whole
      <4> QED
        BY <4>1, <4>2, <4>3
    <3> HIDE DEF whole
    <3>2. piece \in Seq(1..Size) /\ Len(piece) = n /\ \A i \in 1..n : piece[i] = whole[i]
      <4>1. /\ 1 \in Int /\ n \in Int /\ 1 <= n /\ n - 1 + 1 = n /\ \A i \in 1..n : 1 + i - 1 = i
            /\ \A i \in 1..n : i \in 1..Len(whole)
        BY <3>1
      <4>2. \A i \in 1..n : whole[i] \in 1..Size
        BY <3>1, <4>1, ElementOfSeq
      <4>3. /\ SubSeq(whole, 1, n) \in Seq(1..Size)
            /\ Len(SubSeq(whole, 1, n)) = IF 1 <= n THEN n - 1 + 1 ELSE 0
            /\ \A i \in 1..(n - 1 + 1) : SubSeq(whole, 1, n)[i] = whole[1 + i - 1]
        BY <4>1, <4>2, SubSeqProperties
      <4> QED
        BY <4>1, <4>3
    <3>3. Appended(u, piece) /\ Len(piece) <= Len(whole) /\ \A i \in 1..Len(piece) : piece[i] = whole[i]
      <4>1. Appended(u, piece)
        BY <2>2 DEF whole
      <4> QED
        BY <3>1, <3>2, <4>1
    <3> HIDE DEF piece
    <3>4. u \notin overlapped /\ u \in meta => BeginsWell(part'[u])
      BY <2>2, <3>2, <3>3, WrittenBegins DEF whole
    <3>5. /\ part' \in [Uploads -> Seq(1..Size) \cup {Absent}]
          /\ \A v \in Uploads \ {u} : part'[v] = part[v]
      BY <3>2, <3>3, AppendedShape
    <3> QED
      BY <2>2, <3>4, <3>5, UploadTypes DEF TypeOK
  <2> QED
    BY <2>1, <2>2 DEF Crash
<1>3. ASSUME NEW u \in Uploads
      PROVE  /\ page'[u] \in Page
             /\ page'[u].at # "waiting"
             /\ page'[u].at = "new" => page[u].at = "new"
             /\ page'[u].at = "new" => page'[u].slot = page[u].slot
             /\ page'[u].at = "sending" => page[u].at = "sending" \/
                  (page[u].at = "waiting" /\ req[u][page[u].slot].op = "chunk")
  <2> DEFINE q == [page[u] EXCEPT !.at = "sending"]
             e == [page[u] EXCEPT !.at = "ended"]
  <2>1. q \in Page /\ q.at = "sending" /\ e \in Page /\ e.at = "ended"
    BY UploadTypes DEF Page
  <2>2. CASE page[u].at # "waiting"
    BY <2>2, UploadTypes DEF Crash
  <2>3. CASE page[u].at = "waiting"
    <3>1. page'[u] = IF req[u][page[u].slot].op = "chunk" THEN q ELSE e
      BY <2>3 DEF Crash
    <3> HIDE DEF q, e
    <3> QED
      BY <2>1, <2>3, <3>1
  <2> QED
    BY <2>2, <2>3
<1>4. TypeOK'
  <2>1. page' \in [Uploads -> Page]
    BY <1>3 DEF Crash
  <2>2. req' \in [Uploads -> [Slot -> Request]]
    BY <1>1 DEF NoRequest, Request
  <2>3. trouble' \in 0..MaxTrouble
    BY UploadsAssumption DEF Crash, Trouble, UploadsInv, TypeOK
  <2> QED
    BY <1>1, <1>2, <2>1, <2>2, <2>3 DEF UploadsInv, TypeOK, held, marks, Page, Request
<1>5. ASSUME NEW u \in Uploads
      PROVE  Orderly(u)' /\ InOnePiece(u)'
  <2>1. \A s \in Slot : req'[u][s].op = "none" /\ req'[u][s].at = "idle"
    BY <1>1 DEF NoRequest
  <2>2. PageKeepsTime(u)'
    BY <1>1, <1>3, <2>1, UploadTypes DEF PageKeepsTime, Orderly
  <2>3. u \in jobs => page'[u].at = "ended"
    BY <1>3, UploadTypes DEF Orderly, RequestsInOrder, PageKeepsTime, Page
  <2>4. RequestsInOrder(u)' /\ Reserves(u)'
    BY <1>1, <2>1, <2>3, UploadTypes
       DEF RequestsInOrder, Reserves, Granted, Orderly, StepsOf, held, marks
  <2>5. InOnePiece(u)'
    BY <1>1, <1>2, <2>1, UploadTypes
       DEF InOnePiece, OneAtATime, PartIsABeginning, VideoIsWhole, BeginsWell, At, marks
  <2> QED
    BY <2>2, <2>4, <2>5 DEF Orderly
<1> QED
  BY <1>1, <1>4, <1>5 DEF UploadsInv, KeepsJobs

-----------------------------------------------------------------------------
(* What the uploads keep.                                                  *)

\* At the start there is nothing to keep.
LEMMA UploadsInitGood == Init => UploadsInv
<1> SUFFICES ASSUME Init PROVE UploadsInv
  OBVIOUS
<1>1. TypeOK
  BY UploadsAssumption DEF Init, TypeOK, NoRequest, Slot
<1>2. ASSUME NEW u \in Uploads
      PROVE  Orderly(u) /\ InOnePiece(u)
  <2>1. /\ \A s \in Slot : req[u][s].op = "none" /\ req[u][s].at = "idle"
        /\ page[u].at = "new" /\ page[u].slot = 1 /\ u \notin meta \cup jobs
    BY DEF Init, NoRequest
  <2> QED
    BY <2>1 DEF Orderly, PageKeepsTime, RequestsInOrder, Reserves, StepsOf,
                InOnePiece, OneAtATime, PartIsABeginning, VideoIsWhole, At
<1> QED
  BY <1>1, <1>2 DEF UploadsInv

\* Every step keeps the invariant, and the video of every job.
LEMMA UploadsStep ==
    ASSUME UploadsInv, [Next]_vars
    PROVE  UploadsInv' /\ KeepsJobs
<1>1. CASE UNCHANGED vars
  <2>1. TypeOK' /\ (\A u \in Uploads : Untouched(u)) /\ KeepsJobs
    BY <1>1 DEF vars, UploadsInv, TypeOK, Untouched, Spared, SessionStays, Granted, KeepsJobs
  <2> QED
    BY <2>1, BystanderKeeps DEF UploadsInv
<1>2. ASSUME NEW u \in Uploads, NEW s \in Slot, Serve(u, s)
      PROVE  UploadsInv' /\ KeepsJobs
  BY <1>2, AdmitKeeps, ReserveKeeps, OpenKeeps, LoadKeeps, AppendCheckKeeps, AppendWriteKeeps,
     ExtendKeeps, ReleasingKeeps, SettlingKeeps, SealKeeps, AcceptKeeps, PostAcceptKeeps DEF Serve
<1> QED
  BY <1>1, <1>2, BeginKeeps, SendKeeps, LosingKeeps, VanishingKeeps, TimeKeeps, CrashKeeps DEF Next

\* The uploads' invariant holds whatever is lost, late or dead.
LEMMA UploadsInvariant == Spec => []UploadsInv
<1>1. Init => UploadsInv
  BY UploadsInitGood
<1>2. UploadsInv /\ [Next]_vars => UploadsInv'
  BY UploadsStep
<1> QED
  BY <1>1, <1>2, PTL DEF Spec

\* The fields of every upload, its page and its requests (core/chunked_upload.py,
\* core/upload_security.py) keep their types.
THEOREM UploadsTypes == Spec => []TypeOK
<1>1. UploadsInv => TypeOK
  BY DEF UploadsInv
<1> QED
  BY <1>1, UploadsInvariant, PTL

\* finalise, append: the video of a job is the file its owner sent, every byte
\* once and in order, unless two of its pieces were handled at the same time.
THEOREM AcceptedVideoIsTheFile == Spec => []VideoIsTheFile
<1>1. UploadsInv => VideoIsTheFile
  BY DEF UploadsInv, TypeOK, InOnePiece, VideoIsWhole, Whole, VideoIsTheFile
<1> QED
  BY <1>1, UploadsInvariant, PTL

\* reserve_analysis: a job has a reservation behind it, unless it was given back
\* while the upload it was made of still ran.
THEOREM AcceptedJobIsPaidFor == Spec => []JobIsPaidFor
<1>1. UploadsInv => JobIsPaidFor
  BY DEF UploadsInv, TypeOK, Orderly, Reserves, Granted, JobIsPaidFor
<1> QED
  BY <1>1, UploadsInvariant, PTL

\* No second finish, late abort, sweep or retried piece takes a job its video.
THEOREM AcceptedVideoStays == Spec => AcceptedKeepsItsVideo
<1>1. UploadsInv /\ [Next]_vars => [\A u \in jobs : u \in jobs' /\ video'[u] = video[u]]_vars
  BY UploadsStep DEF KeepsJobs
<1> QED
  BY <1>1, UploadsInvariant, PTL DEF Spec, AcceptedKeepsItsVideo
=============================================================================
