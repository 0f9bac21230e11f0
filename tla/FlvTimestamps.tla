--------------------------- MODULE FlvTimestamps ---------------------------
(***************************************************************************)
(* The output clock of a recorder (TimestampNormalizer in                   *)
(* src/recorder/flv_pipeline.rs): the 32-bit timestamps a server sends,     *)
(* which wrap, jump and run backwards, become a timeline that starts at 0   *)
(* in every file.  The raw timestamps are external: any may follow any.     *)
(***************************************************************************)
EXTENDS Integers

CONSTANTS
    MaxTime,          \* u32::MAX
    JumpThreshold,    \* a larger difference of raw timestamps is a jump
    AudioFrame,       \* time given to an audio tag after a jump
    VideoFrame        \* time given to a video tag after a jump

ASSUME ClockAssumption ==
    /\ MaxTime \in Nat /\ JumpThreshold \in Nat
    /\ AudioFrame \in 0..JumpThreshold /\ VideoFrame \in 0..JumpThreshold

VARIABLES
    clock,     \* the TimestampNormalizer
    written    \* timestamp of the last tag of the file, 0 in a new file

clockVars == <<clock, written>>

Timestamp == 0..MaxTime

AtMost_Unchecked(limit, value) == value
AtMost(limit, value) == IF value > limit THEN limit ELSE value
AtLeast(limit, value) == IF value < limit THEN limit ELSE value

NewClock == [initialized |-> FALSE, offset |-> 0, lastOriginal |-> 0, lastOutput |-> 0]

(* fallback_delta_for_tag; script data never gets here. *)
FrameDuration == {AudioFrame, VideoFrame}

IsJump(original) ==
    LET diff == original - clock.lastOriginal
    IN ~(-JumpThreshold <= diff /\ diff <= JumpThreshold)

-----------------------------------------------------------------------------
ClockInit == clock = NewClock /\ written = 0

(* start_new_file, when a segment is opened. *)
StartFile == clock' = NewClock /\ written' = 0

FirstTag(original) ==
    /\ ~clock.initialized
    /\ clock' = [initialized |-> TRUE, offset |-> original, lastOriginal |-> original,
                 lastOutput |-> 0]
    /\ written' = 0

(* The offset after a jump puts the tag one frame after the latest one.     *)
Rebased_KeepsOffset(original, frame) == clock.offset

Rebased(original, frame) ==
    IF IsJump(original)
    THEN original - AtMost(MaxTime, clock.lastOutput + frame)
    ELSE clock.offset

(* A tag that would come before the start of the file is put there, and so  *)
(* is what follows.                                                         *)
Restarted_KeepsOffset(original, rebased) == rebased

Restarted(original, rebased) == IF original < rebased THEN original ELSE rebased

NextTag(original, frame) ==
    LET rebased == Rebased(original, frame)
        output == AtMost(MaxTime, AtLeast(0, original - rebased))
    IN
    /\ clock.initialized
    /\ clock' = [clock EXCEPT !.offset = Restarted(original, rebased), 
                              !.lastOriginal = original,
                              !.lastOutput = AtLeast(@, output)]
    /\ written' = output

Normalize(original) ==
    FirstTag(original) \/ \E frame \in FrameDuration : NextTag(original, frame)

ClockNext == StartFile \/ \E original \in Timestamp : Normalize(original)

ClockSpec == ClockInit /\ [][ClockNext]_clockVars

-----------------------------------------------------------------------------
ClockTypeOK ==
    /\ clock \in [initialized : BOOLEAN, offset : -MaxTime..MaxTime,
                  lastOriginal : Timestamp, lastOutput : Timestamp]
    /\ written \in Timestamp

(* What the offset means: it takes the last raw timestamp to the last one   *)
(* written, except where the end of the 32-bit range cut that off. The file *)
(* is never shorter than its last tag, and a new one starts at 0.           *)
OffsetLeadsToWritten ==
    /\ clock.offset <= clock.lastOriginal
    /\ written = AtMost(MaxTime, clock.lastOriginal - clock.offset)
    /\ written <= clock.lastOutput
    /\ ~clock.initialized => written = 0

(* However the raw timestamps jump or wrap, a tag extends the duration of   *)
(* its file by at most the threshold and goes back by at most that.         *)
TimelineHasNoGaps ==
    [][clock'.initialized =>
         /\ clock'.lastOutput <= clock.lastOutput + JumpThreshold
         /\ written' >= written - JumpThreshold]_clockVars

(* Between jumps the distance of two tags is the server's: the output does  *)
(* not drift, whatever jumps came before, unless it meets an end of the     *)
(* range.                                                                   *)
SmallStepsAreKept ==
    [][clock.initialized /\ clock'.initialized =>
         LET diff == clock'.lastOriginal - clock.lastOriginal
         IN (/\ -JumpThreshold <= diff /\ diff <= JumpThreshold
             /\ written < MaxTime /\ written + diff \in Timestamp)
            => written' = written + diff]_clockVars
=============================================================================
