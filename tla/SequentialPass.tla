--------------------------- MODULE SequentialPass ---------------------------
(***************************************************************************)
(* What the frame pass of the analyzer promises to see: the frames of the  *)
(* video one after the other, those it asked for converted, and with each  *)
(* frame it analyses the identity guidance of a sweep that had already     *)
(* covered the whole video.  This is the pass with decode_ahead and        *)
(* sam_overlap_sweep off (core/frame_feed.py, core/analyzer.py).           *)
(***************************************************************************)
EXTENDS Integers, Sequences, FiniteSets, FiniteSetsExt

CONSTANTS
    End,           \* end_frame: the pass analyses up to the frame before it
    Strides,       \* frames between two analysed ones, as chosen on the way
    HistoryStep,   \* one frame in so many for the referee; 0: no referee
    ConvertAll,    \* the recovery buffer wants every frame
    SweepStride,   \* the sweep samples one frame in so many
    NoGuide,
    Lengths,       \* bound: how long the files are
    MaxBad         \* bound: frames of a file that cannot be converted

VARIABLES
    length,     \* frames the file really has after the first one
    bad,        \* frames that cannot be converted
    found,      \* sampled frames on which the sweep finds a fighter
    sweepFate,  \* "whole", or "fails" part-way
    pos,        \* the frame last taken
    due,        \* it is to be analysed
    gate,       \* the next frame to analyse
    analysed,   \* frames analysed with their guidance
    over

film == <<length, bad, found, sweepFate>>
sequentialVars == <<film, pos, due, gate, analysed, over>>

Sampled == {n \in 0..(End - 1) : n % SweepStride = 0}

FilmInit ==
    /\ length \in Lengths
    /\ bad \in {b \in SUBSET (1..End) : Cardinality(b) <= MaxBad}
    /\ found \in SUBSET Sampled
    /\ sweepFate \in {"whole", "fails"}

SequentialInit ==
    /\ FilmInit /\ pos = 0 /\ due = FALSE /\ gate \in Strides
    /\ analysed = <<>> /\ over = FALSE

\* Frames the referee's history wants: HistoryStep apart.
ForHistory(n) == HistoryStep > 0 /\ n % HistoryStep = 0
Wanted(n) == ConvertAll \/ n >= gate \/ ForHistory(n)

\* nearest_guidance: the closest swept frame, the earlier of two, unless even
\* that is too far.
Distance(m, n) == IF m < n THEN n - m ELSE m - n
Guidance(tracks, n) ==
    LET near == {m \in tracks : Distance(m, n) <= SweepStride}
    IN  IF near = {} THEN NoGuide
        ELSE Min({m \in near : \A k \in near : Distance(m, n) <= Distance(k, n)})

Takes ==
    /\ ~over /\ ~due /\ pos < End /\ pos < length
    /\ pos' = pos + 1
    /\ over' = (Wanted(pos + 1) /\ pos + 1 \in bad)
    /\ due' = (pos + 1 >= gate /\ pos + 1 \notin bad)
    /\ IF due' THEN \E stride \in Strides : gate' = pos + 1 + stride
       ELSE UNCHANGED gate
    /\ UNCHANGED <<film, analysed>>

\* A sweep that fails part-way has guided frames before that, as a whole one
\* would have, and guides no others.
Analyses ==
    /\ due /\ ~over
    /\ \E tracks \in IF sweepFate = "whole" THEN {found} ELSE {found, {}} :
         analysed' = Append(analysed, [frame |-> pos, guide |-> Guidance(tracks, pos)])
    /\ due' = FALSE /\ over' = (pos >= End - 1)
    /\ UNCHANGED <<film, pos, gate>>

\* The video ends, or a step of the analysis raises.
Ends == ~over /\ ~due /\ (pos = End \/ pos = length)
Stops ==
    /\ Ends \/ (due /\ ~over)
    /\ over' = TRUE /\ due' = FALSE
    /\ UNCHANGED <<film, pos, gate, analysed>>

SequentialNext == Takes \/ Analyses \/ Stops
SequentialSpec == SequentialInit /\ [][SequentialNext]_sequentialVars
=============================================================================
