------------------------------ MODULE MCMedia ------------------------------
(* The pipeline never reads what the clock puts out: each is explored while *)
(* the other rests in an initial state.                                     *)
EXTENDS FlvPipeline, FlvTimestamps

CONSTANTS
    a1, a2, v1, v2, v3,
    MaxHeld               \* bound: tags remembered or pending

MCLengthSize == [avc \in AvcHeader |-> IF avc = v3 THEN 2 ELSE 4]

MCSymmetry == Permutations({a1, a2}) \cup Permutations({v1, v2})

PipelineRests == recorder = NewRecorder /\ closed = NothingClosed
ClockRests == clock = NewClock /\ written = 0

Held ==
    FoldLeft(LAMBDA held, group : held + Len(group), Len(recorder.pending), recorder.history)

MCInit == PipelineInit /\ ClockInit

MCNext ==
    \/ PipelineNext /\ Held' =< MaxHeld /\ ClockRests /\ UNCHANGED clockVars
    \/ ClockNext /\ PipelineRests /\ UNCHANGED pipelineVars

MCSpec == MCInit /\ [][MCNext]_<<pipelineVars, clockVars>>
=============================================================================
