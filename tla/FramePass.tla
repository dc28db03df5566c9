----------------------------- MODULE FramePass -----------------------------
(***************************************************************************)
(* The analyzer's frame pass as it runs: a helper thread decodes ahead of  *)
(* the analysis loop (core/frame_feed.py), and the mask sweep runs on a    *)
(* thread beside it (SweepInBackground, core/sam_recovery.py).             *)
(*                                                                         *)
(* Numbered from the start frame, which is 0 and analysed before the loop. *)
(***************************************************************************)
EXTENDS Integers, Sequences

CONSTANTS
    End, Strides, HistoryStep, ConvertAll, SweepStride, NoGuide, Lengths, MaxBad,
    Depth    \* frames decoded ahead at most

VARIABLES
    length, bad, found, sweepFate, pos, gate, analysed,   \* as in SequentialPass
    loopAt,      \* where the analysis loop is
    decoderAt,   \* where the decoding thread is
    item,        \* what it is putting into the queue
    queue,
    feedNext,    \* the frame it decodes next
    feedGate,    \* the frame it may not read past
    feedHist,    \* the next frame for the referee's history
    stopped,
    swept,       \* frames the sweep has finished
    sweepDone

film == <<length, bad, found, sweepFate>>
feedVars == <<decoderAt, item, queue, feedNext, feedGate, feedHist, stopped>>
loopVars == <<loopAt, pos, gate, analysed>>
sweepVars == <<swept, sweepDone>>
passVars == <<film, feedVars, loopVars, sweepVars>>

ASSUME PassAssumption ==
    /\ End \in Nat \ {0} /\ Strides \subseteq Nat \ {0} /\ Strides # {}
    /\ HistoryStep \in Nat /\ ConvertAll \in BOOLEAN
    /\ SweepStride \in Nat \ {0} /\ NoGuide \notin Int
    /\ Lengths \subseteq Nat /\ MaxBad \in Nat
    /\ Depth \in Nat \ {0}

\* The promise: a frame is due while the loop waits for its guidance.
Sequential == INSTANCE SequentialPass
    WITH due <- loopAt = "guiding",
         over <- loopAt \in {"closing", "joining", "done"}

TheEnd == [frame |-> 0, image |-> FALSE]

PassInit ==
    /\ Sequential!FilmInit
    /\ pos = 0 /\ gate \in Strides /\ analysed = <<>>
    /\ loopAt = "reading" /\ decoderAt = "deciding" /\ item = TheEnd
    /\ queue = <<>> /\ feedNext = 1 /\ feedGate = gate
    /\ feedHist = HistoryStep /\ stopped = FALSE
    /\ swept = -1 /\ sweepDone = FALSE

-----------------------------------------------------------------------------
(* The decoding thread.                                                    *)

\* _decode_one: grab, and convert what somebody will look at.
FeedWants(n) ==
    ConvertAll \/ n >= feedGate \/ (HistoryStep > 0 /\ n >= feedHist)

DecodesFrame ==
    /\ feedNext <= length
    /\ item' = [frame |-> feedNext,
                image |-> FeedWants(feedNext) /\ feedNext \notin bad]
    /\ feedNext' = feedNext + 1
    /\ feedHist' = IF HistoryStep > 0 /\ feedNext >= feedHist
                   THEN feedNext + HistoryStep ELSE feedHist
DecodesEnd ==
    /\ feedNext > length /\ item' = TheEnd /\ UNCHANGED <<feedNext, feedHist>>

\* Never past the next frame to analyse, until the loop has chosen another.
MayDecode == feedNext <= feedGate
Decodes ==
    /\ decoderAt = "deciding" /\ ~stopped /\ MayDecode
    /\ DecodesFrame \/ DecodesEnd
    /\ decoderAt' = "putting"
    /\ UNCHANGED <<film, loopVars, sweepVars, queue, feedGate, stopped>>

\* The queue holds so many and no more.
Unlimited == TRUE
QueueHasRoom == Len(queue) < Depth
Puts ==
    /\ decoderAt = "putting" /\ ~stopped /\ QueueHasRoom
    /\ queue' = Append(queue, item)
    /\ decoderAt' = IF item = TheEnd THEN "ended" ELSE "deciding"
    /\ UNCHANGED <<film, loopVars, sweepVars, item, feedNext, feedGate,
                   feedHist, stopped>>

\* Both waits give up once the loop has closed the feed.
NoticesNever == FALSE
Notices == stopped
GivesUp ==
    /\ decoderAt \in {"deciding", "putting"} /\ Notices
    /\ decoderAt' = "ended"
    /\ UNCHANGED <<film, loopVars, sweepVars, item, queue, feedNext, feedGate,
                   feedHist, stopped>>

-----------------------------------------------------------------------------
(* The analysis loop.                                                      *)

\* feed.next(), and for a frame to analyse the choice of the one after it,
\* made before the frame is analysed (allow_through).
NextFrame ==
    /\ loopAt = "reading" /\ pos < End
    /\ queue # <<>> /\ Head(queue) # TheEnd
    /\ queue' = Tail(queue) /\ pos' = pos + 1
    /\ LET fed == Head(queue)
           lost == Sequential!Wanted(pos + 1) /\ ~fed.image
           infer == pos + 1 >= gate /\ ~lost
       IN  /\ loopAt' = CASE lost -> "closing" [] infer -> "guiding"
                          [] OTHER -> "reading"
           /\ IF infer THEN \E stride \in Strides : gate' = pos + 1 + stride
              ELSE UNCHANGED gate
           /\ feedGate' = gate'
    /\ UNCHANGED <<film, sweepVars, analysed, decoderAt, item, feedNext,
                   feedHist, stopped>>

VideoEnds ==
    /\ loopAt = "reading" /\ (pos >= End \/ (queue # <<>> /\ Head(queue) = TheEnd))
    /\ loopAt' = "closing"
    /\ UNCHANGED <<film, feedVars, sweepVars, pos, gate, analysed>>

\* guidance(): wait for every frame that could be the answer.
ReadySoon == sweepDone \/ swept >= pos
Ready == sweepDone \/ swept >= pos + SweepStride
Tracks == IF ~sweepDone THEN {n \in found : n <= swept}
          ELSE IF sweepFate = "whole" THEN found ELSE {}
Analyse ==
    /\ loopAt = "guiding" /\ Ready
    /\ analysed' = Append(analysed, [frame |-> pos,
                                     guide |-> Sequential!Guidance(Tracks, pos)])
    /\ loopAt' = IF pos >= End - 1 THEN "closing" ELSE "reading"
    /\ UNCHANGED <<film, feedVars, sweepVars, pos, gate>>

\* A step of the analysis raises: the run was lost, or a model failed.
Raises ==
    /\ loopAt = "guiding" /\ loopAt' = "closing"
    /\ UNCHANGED <<film, feedVars, sweepVars, pos, gate, analysed>>

\* feed.close(), then background_sweep.join().
Closes ==
    /\ loopAt = "closing" /\ stopped' = TRUE /\ loopAt' = "joining"
    /\ UNCHANGED <<film, sweepVars, pos, gate, analysed, decoderAt,
                   item, queue, feedNext, feedGate, feedHist>>
Joins ==
    /\ loopAt = "joining" /\ sweepDone /\ loopAt' = "done"
    /\ UNCHANGED <<film, feedVars, sweepVars, pos, gate, analysed>>

-----------------------------------------------------------------------------
(* The sweep.                                                              *)

Sweeps ==
    /\ ~sweepDone
    /\ \E n \in Sequential!Sampled : /\ n > swept /\ n <= swept + SweepStride + 1
                          /\ \A m \in Sequential!Sampled : m > swept => m >= n
                          /\ swept' = n
    /\ UNCHANGED <<film, feedVars, loopVars, sweepDone>>

SweepEnds ==
    /\ ~sweepDone
    /\ sweepFate = "whole" => \A n \in Sequential!Sampled : n <= swept
    /\ sweepDone' = TRUE
    /\ UNCHANGED <<film, feedVars, loopVars, swept>>

-----------------------------------------------------------------------------
DecoderStep == Decodes \/ Puts \/ GivesUp
LoopStep == NextFrame \/ VideoEnds \/ Analyse \/ Closes \/ Joins
SweepStep == Sweeps \/ SweepEnds

PassNext == DecoderStep \/ LoopStep \/ Raises \/ SweepStep

\* Each thread goes on while it can.
PassFairness ==
    WF_passVars(DecoderStep) /\ WF_passVars(LoopStep) /\ WF_passVars(SweepStep)

PassSpec == PassInit /\ [][PassNext]_passVars /\ PassFairness

-----------------------------------------------------------------------------
\* The queue holds at most Depth frames, in order, none past the gate.
PassTypeOK ==
    /\ loopAt \in {"reading", "guiding", "closing", "joining", "done"}
    /\ decoderAt \in {"deciding", "putting", "ended"}
    /\ queue \in Seq([frame : 0..length, image : BOOLEAN])
    /\ Len(queue) <= Depth
    /\ feedNext \in 1..(length + 1) /\ stopped \in BOOLEAN
    /\ swept \in {-1} \cup Sequential!Sampled /\ sweepDone \in BOOLEAN

\* frame_feed.py ("the results must not change") and SweepInBackground ("the
\* frame pass gets exactly the guidance it would have got"): with decoding and
\* the sweep on threads of their own, the loop sees the frames, images and
\* guidance it would see with neither, and stops where it would stop.
SameAsSequential == Sequential!SequentialSpec

\* No thread waits for another for good, whatever the loop gives up on: the
\* pass ends, and the decoder with it.
PassEnds == <>(loopAt = "done" /\ decoderAt = "ended")

=============================================================================
