---------------------------- MODULE FlvPipeline ----------------------------
(***************************************************************************)
(* One connection of a recorder (FlvRecorder in src/recorder/mod.rs with    *)
(* FlvNormalizer and MediaGroupBuffer in src/recorder/flv_pipeline.rs): the *)
(* tags of a live FLV stream become segment files.  The recorder caches the *)
(* sequence headers, opens a file at a keyframe once it has them, collects  *)
(* media tags into groups, drops groups the server repeats, and rotates to  *)
(* a new file at a keyframe when a header changed or a limit is reached.    *)
(*                                                                         *)
(* Handling one tag is one step: the recorder awaits nothing but its file.  *)
(* The stream is external.  A media tag is what a group's fingerprint reads *)
(* of it: its kind, its content and its raw timestamp; the content is told  *)
(* apart by the sequence header its encoder worked with.                    *)
(***************************************************************************)
EXTENDS Integers, Sequences, SequencesExt

CONSTANTS
    AvcHeader,            \* AVC sequence headers the stream may send
    AacHeader,            \* AAC sequence headers the stream may send
    NoHeader,             \* none has been received
    LengthSize,           \* AVC sequence header -> its NALU length size
    Time,                 \* raw timestamps
    GroupGap,             \* a group ends where raw timestamps differ by more
    HistoryLimit,         \* groups the deduplicator remembers
    DuplicateThreshold,   \* repeats in a row that are only dropped
    Confirmations,        \* in-band parameter sets that are believed
    SizeLimit,            \* a file of this size is rotated
    MinSize,              \* a smaller file is filtered
    MaxGroup              \* bound: tags in a group

ASSUME HeaderAssumption ==
    /\ NoHeader \notin AvcHeader \cup AacHeader
    /\ AvcHeader \cap AacHeader = {}
    /\ DOMAIN LengthSize = AvcHeader
ASSUME PipelineAssumption ==
    /\ Time \subseteq Nat /\ GroupGap \in Nat
    /\ {HistoryLimit, DuplicateThreshold, Confirmations, SizeLimit, MinSize, MaxGroup}
           \subseteq Nat
    /\ Confirmations # 0

VARIABLES
    recorder,   \* the FlvRecorder
    closed,     \* the file it closed last
    encoder     \* external: the header the stream's video is encoded with

pipelineVars == <<recorder, closed, encoder>>

IsVideo(tag) == tag.kind # "Audio"
HasVideo(group) == \E n \in DOMAIN group : IsVideo(group[n])
HasKeyframe(group) == \E n \in DOMAIN group : group[n].kind = "Key"

-----------------------------------------------------------------------------
(* Files. avc and aac are the headers it begins with; decoder is the        *)
(* parameter set a player has after the tags written so far, the header or  *)
(* what a keyframe carried in band; sets, whether that is what the stream   *)
(* announced last: "Refreshed" once a changed header was taken over without *)
(* rotation, "Missed" when a keyframe of it brought no sets of its own;     *)
(* lost, that a keyframe was dropped since the last one written. The last   *)
(* three fields record what the properties ask of the file.                 *)

NoFile == [avc |-> NoHeader, aac |-> NoHeader, decoder |-> NoHeader, sets |-> "Known",
           lost |-> FALSE, size |-> 0, starts |-> "None", fits |-> TRUE, hidden |-> FALSE]

(* write_initial_segment_headers: the cached headers come first.            *)
NewFile(r) == [NoFile EXCEPT !.avc = r.avc, !.aac = r.aac, !.decoder = r.avc]

Capped(size) == IF size > SizeLimit THEN SizeLimit ELSE size

(* What a player knows once it has read a tag's parameter sets.             *)
Told(file, tag) ==
    LET decoder == IF tag.inBand THEN tag.content ELSE file.decoder
    IN [file EXCEPT
          !.decoder = decoder,
          !.sets = CASE tag.kind = "Key" /\ tag.content = decoder -> "Known"
                     [] tag.kind = "Key" /\ tag.content # decoder /\ @ = "Refreshed" -> "Missed"
                     [] OTHER -> @,
          !.lost = @ /\ tag.kind # "Key"]

(* In-band parameter sets replace the header's, not its NALU length size.   *)
(* What follows a keyframe that was dropped, or that missed its parameter   *)
(* sets, has lost its reference with it.                                    *)
Decodes(file, tag) ==
    IF IsVideo(tag)
    THEN /\ LengthSize[tag.content] = LengthSize[file.avc]
         /\ ~file.lost /\ file.sets # "Missed" => tag.content = file.decoder
    ELSE tag.content = file.aac

WriteTag(file, tag) ==
    LET told == Told(file, tag)
    IN [told EXCEPT
          !.size = Capped(@ + 1),
          !.starts = IF @ = "None" /\ IsVideo(tag) THEN tag.kind ELSE @,
          !.fits = @ /\ Decodes(told, tag)]

(* write_media_tag for every tag of a group, the earliest first.            *)
WriteGroup(file, group) ==
    LET written[n \in 0 .. Len(group)] ==
          IF n = 0 THEN file ELSE WriteTag(written[n - 1], group[n])
    IN written[Len(group)]

(* A group that is not written; it may be the one the file was opened for.  *)
HideGroup(file, group) ==
    [file EXCEPT !.lost = @ \/ HasKeyframe(group),
                 !.hidden = @ \/ (file.starts = "None" /\ HasKeyframe(group))]

-----------------------------------------------------------------------------
(* The recorder. Pending: the group being collected. Repeats: groups in a   *)
(* row that were duplicates. "Ended": record_flv has returned.              *)

NewRecorder ==
    [phase |-> "WaitSync", metadata |-> FALSE, avc |-> NoHeader, aac |-> NoHeader,
     seen |-> 0, headerChange |-> FALSE, pending |-> <<>>, history |-> <<>>,
     repeats |-> 0, file |-> NoFile]

IsSynced(r) == r.metadata /\ r.avc # NoHeader /\ r.aac # NoHeader
InBandConfirmed(r) == r.seen >= Confirmations

(* MediaGroupDeduplicator::observe. *)
GroupFate(r) ==
    CASE r.pending = <<>> -> "Empty"
      [] r.pending # <<>> /\ ~Contains(r.history, r.pending) -> "Unique"
      [] OTHER -> IF r.repeats + 1 > DuplicateThreshold THEN "Reconnect" ELSE "Duplicate"

Remember(history, group) ==
    LET longer == Append(history, group)
    IN IF Len(longer) > HistoryLimit THEN Tail(longer) ELSE longer

(* flush_pending_media_group. What "Reconnect" does is up to the caller.    *)
Flush(r) ==
    CASE GroupFate(r) = "Empty" -> r
      [] GroupFate(r) = "Unique" ->
            [r EXCEPT !.file = WriteGroup(@, r.pending), !.pending = <<>>,
                      !.history = Remember(@, r.pending), !.repeats = 0]
      [] OTHER ->
            [r EXCEPT !.file = HideGroup(@, r.pending), !.pending = <<>>,
                      !.repeats = IF @ < DuplicateThreshold THEN @ + 1 ELSE @]

FlushReconnects(r) == GroupFate(r) = "Reconnect"

(* should_start_new_group: the range is half open, as in the code.          *)
StartsNewGroup(r, tag) ==
    /\ r.pending # <<>>
    /\ \/ tag.kind = "Key" /\ HasVideo(r.pending)
       \/ LET diff == tag.time - Last(r.pending).time
          IN ~(-GroupGap <= diff /\ diff < GroupGap)

Push(r, tag) == [r EXCEPT !.pending = Append(@, tag)]

(* open_new_segment.                                                        *)
OpenSegment(r) ==
    [r EXCEPT !.phase = "Recording", !.headerChange = FALSE, !.file = NewFile(r)]

(* finalize_current_segment: a file that is too small is filtered.          *)
Closing(file, outcome) ==
    [outcome |-> IF outcome = "Kept" /\ file.size < MinSize THEN "Filtered" ELSE outcome,
     starts |-> file.starts, fits |-> file.fits, hidden |-> file.hidden]

NothingClosed == Closing(NoFile, "None")

ClosedBy(r, outcome) ==
    IF r.phase = "Recording" THEN Closing(r.file, outcome) ELSE closed

(* record_flv returns: what is still pending of a failed recording is lost, *)
(* a recording that ends otherwise has flushed it.                          *)
End(r) == [NewRecorder EXCEPT !.phase = "Ended"]

EndWith(r, outcome) ==
    /\ recorder' = End(r)
    /\ closed' = ClosedBy(r, outcome)

-----------------------------------------------------------------------------
PipelineInit ==
    /\ recorder = NewRecorder
    /\ closed = NothingClosed
    /\ encoder = NoHeader

Live == recorder.phase # "Ended"

(* A cache tag: the pending group was encoded under the headers known so    *)
(* far and is flushed before the tag is observed.                           *)
FlushFirst_Skipped(r) == r
FlushFirst(r) == Flush(r)

Observe(observed) ==
    /\ Live
    /\ IF FlushReconnects(recorder)
       THEN EndWith(Flush(recorder), "Kept")
       ELSE recorder' = observed /\ UNCHANGED closed
    /\ UNCHANGED encoder

Changed(r, old, new) == r.phase = "Recording" /\ old # NoHeader /\ old # new

ReceiveMetadata == Observe([FlushFirst(recorder) EXCEPT !.metadata = TRUE])

(* In-band parameter sets are taken to make a refreshed header harmless,    *)
(* unless it changes how NALUs are framed.                                  *)
ForcesRotation(r, avc) ==
    /\ Changed(r, r.avc, avc)
    /\ InBandConfirmed(r) => LengthSize[r.avc] # LengthSize[avc]

TakenOver(r, avc) == Changed(r, r.avc, avc) /\ ~ForcesRotation(r, avc)

ReceiveAvcHeader(avc) ==
    Observe([FlushFirst(recorder) EXCEPT
               !.avc = avc, !.headerChange = @ \/ ForcesRotation(recorder, avc),
               !.file.sets = IF @ = "Known" /\ TakenOver(recorder, avc)
                             THEN "Refreshed" ELSE @])

ReceiveAacHeader(aac) ==
    Observe([FlushFirst(recorder) EXCEPT
               !.aac = aac, !.headerChange = @ \/ Changed(recorder, recorder.aac, aac)])

(* The stream's encoder takes up a header it announced with a keyframe,     *)
(* which carries its parameter sets in band or does not, each as it likes.  *)
Sent(kind, time, inBand) ==
    [kind |-> kind, time |-> time, inBand |-> inBand,
     content |-> CASE kind = "Audio" -> recorder.aac
                   [] kind = "Inter" -> encoder
                   [] kind = "Key"   -> recorder.avc]

(* note_in_band_parameter_sets, on every keyframe of known framing.         *)
NoteInBand(r, tag) ==
    IF tag.inBand /\ r.avc # NoHeader /\ ~InBandConfirmed(r)
    THEN [r EXCEPT !.seen = @ + 1] ELSE r

(* push_chunk drops a tag while it waits for a keyframe.                    *)
Dropped(r, tag) ==
    \/ r.phase = "WaitSync" /\ ~(IsSynced(r) /\ tag.kind = "Key")
    \/ r.headerChange /\ tag.kind # "Key"

(* rotate_before_keyframe_if_needed. *)
MustRotate_AnyTag(r, tag, timeUp) ==
    r.headerChange \/ r.file.size >= SizeLimit \/ timeUp

MustRotate(r, tag, timeUp) ==
    tag.kind = "Key" /\ (r.headerChange \/ r.file.size >= SizeLimit \/ timeUp)

Rotated(r) ==
    LET reset == IF r.headerChange THEN [r EXCEPT !.history = <<>>, !.repeats = 0] ELSE r
    IN OpenSegment(reset)

(* One media tag. timeUp: the file has reached segment_time, which is asked *)
(* at keyframes only.                                                       *)
ReceiveMedia(kind, time, inBand, timeUp) ==
    LET tag == Sent(kind, time, inBand)
        r == NoteInBand(recorder, tag)
        cut == StartsNewGroup(r, tag)
        flushed == IF cut THEN Flush(r) ELSE r
    IN
    /\ Live
    /\ inBand \/ timeUp => kind = "Key"
    /\ Len(recorder.pending) < MaxGroup \/ cut
    /\ encoder' = IF kind = "Key" THEN recorder.avc ELSE encoder
    /\ \/ /\ Dropped(r, tag)
          /\ recorder' = r /\ UNCHANGED closed
       \/ /\ r.phase = "WaitSync" /\ ~Dropped(r, tag)
          /\ recorder' = Push(OpenSegment(r), tag) /\ UNCHANGED closed
       \/ /\ r.phase = "Recording" /\ ~Dropped(r, tag)
          /\ IF cut /\ FlushReconnects(r) THEN EndWith(flushed, "Kept")
             ELSE IF MustRotate(flushed, tag, timeUp)
             THEN /\ recorder' = Push(Rotated(flushed), tag)
                  /\ closed' = ClosedBy(flushed, "Kept")
             ELSE /\ recorder' = Push(flushed, tag)
                  /\ UNCHANGED closed

(* Another codec, a malformed tag, or an I/O error: mark_failed.            *)
RecordingFails ==
    /\ Live
    /\ EndWith(recorder, "Failed")
    /\ UNCHANGED encoder

(* The stream ends, is dropped or idles, or the program shuts down:         *)
(* finalize drops a last repeated group without another reconnect.          *)
RecordingEnds ==
    /\ Live
    /\ EndWith(Flush(recorder), "Kept")
    /\ UNCHANGED encoder

(* The room's supervisor connects again, with a recorder of its own.        *)
Connect ==
    /\ recorder.phase = "Ended"
    /\ recorder' = NewRecorder
    /\ encoder' = NoHeader
    /\ UNCHANGED closed

PipelineNext ==
    \/ ReceiveMetadata
    \/ \E avc \in AvcHeader : ReceiveAvcHeader(avc)
    \/ \E aac \in AacHeader : ReceiveAacHeader(aac)
    \/ \E kind \in {"Key", "Inter", "Audio"}, time \in Time,
          inBand \in BOOLEAN, timeUp \in BOOLEAN : ReceiveMedia(kind, time, inBand, timeUp)
    \/ RecordingFails
    \/ RecordingEnds
    \/ Connect

PipelineSpec == PipelineInit /\ [][PipelineNext]_pipelineVars

-----------------------------------------------------------------------------
(* Every tag written to a file can be decoded with what the file holds: the *)
(* sequence headers it begins with, or the parameter sets its keyframes     *)
(* carry. No header change, however it falls into a group, puts a tag into  *)
(* a file of the other header. Two things are excepted, and of them only    *)
(* the framing is asked: what follows a keyframe dropped as a repeat, and   *)
(* what a stream sends without parameter sets after a refreshed header that *)
(* two keyframes with theirs had made the recorder take over.               *)
TagsFitTheirFile == recorder.file.fits /\ closed.fits

(* A file begins with a keyframe, unless the keyframe it was opened for     *)
(* came in a group that turned out to be a repeat.                          *)
OnlyARepeatHidesTheKeyframe ==
    /\ recorder.file.starts = "Inter" => recorder.file.hidden
    /\ closed.starts = "Inter" => closed.hidden

(* What docs/release-article.md promises of every segment.                  *)
SegmentsStartWithAKeyframe == closed.outcome = "Kept" => closed.starts # "Inter"

(* The second exception is one of the documents', which say that headers    *)
(* are written again where they are needed, so that a segment plays alone:  *)
(* no keyframe is written for which a player was not told its sets.         *)
SegmentsPlayAlone == recorder.file.sets # "Missed"
=============================================================================
