------------------------- MODULE FlvPipeline_proofs -------------------------
(***************************************************************************)
(* What the recorder writes, for every set of headers, every history of     *)
(* groups and every limit; and, below it, the output clock.                 *)
(*                                                                         *)
(* A file's properties follow from what its pending group is made of: tags  *)
(* of the encoder's last keyframe, that keyframe before all other video.    *)
(* Such a group is written tag by tag; FileAwaits is what stays true of the *)
(* file in between.                                                        *)
(***************************************************************************)
EXTENDS FlvPipeline, FlvTimestamps, WellFoundedInduction, TLAPS

-----------------------------------------------------------------------------
(* The types of the pipeline.                                               *)
Header == AvcHeader \cup AacHeader \cup {NoHeader}
Tag == [kind : {"Key", "Inter", "Audio"}, time : Time, inBand : BOOLEAN, content : Header]
File == [avc : Header, aac : Header, decoder : Header,
         sets : {"Known", "Refreshed", "Missed"}, lost : BOOLEAN, size : Nat,
         starts : {"None", "Key", "Inter"}, fits : BOOLEAN, hidden : BOOLEAN]
Recorder == [phase : {"WaitSync", "Recording", "Ended"}, metadata : BOOLEAN,
             avc : Header, aac : Header, seen : Nat, headerChange : BOOLEAN,
             pending : Seq(Tag), history : Seq(Seq(Tag)), repeats : Nat, file : File]

(* A group as the stream sent it: a keyframe comes before all other video,  *)
(* and all video is of the encoder's last keyframe.                         *)
GroupIsOf(group, aac, e) ==
    \A n \in 1 .. Len(group) :
       /\ group[n].kind = "Audio" => group[n].content = aac
       /\ group[n].kind # "Audio" => group[n].content = e
       /\ group[n].inBand => group[n].kind = "Key"
       /\ group[n].kind = "Key" => \A m \in 1 .. n - 1 : group[m].kind = "Audio"

(* The group holds a keyframe after its first n tags.                       *)
KeyframeAfter(group, n) == \E m \in n + 1 .. Len(group) : group[m].kind = "Key"

(* A file that can take the rest of a group, avc being the header announced *)
(* last: the file decodes the encoder's video unless a keyframe was dropped,*)
(* missed its parameter sets or is still to come, and its first video is a  *)
(* keyframe unless one was hidden.                                          *)
FileAwaits(file, group, n, e, avc) ==
    /\ file.fits
    /\ LengthSize[e] = LengthSize[file.avc]
    /\ file.sets = "Known" => file.decoder = avc
    /\ KeyframeAfter(group, n) => e = avc
    /\ file.decoder = e \/ file.lost \/ file.sets = "Missed" \/ KeyframeAfter(group, n)
    /\ file.starts = "None" => file.hidden \/ KeyframeAfter(group, n)
    /\ file.starts = "Inter" => file.hidden

(* What holds of a file that is being recorded to. Until a change that      *)
(* forces a rotation the recorder's headers are the file's, but for an AVC  *)
(* header taken over; from then on nothing is pending and nothing is        *)
(* written to it.                                                           *)
FileIsInOrder(r, e) ==
    /\ r.avc # NoHeader /\ r.aac # NoHeader
    /\ r.headerChange =>
          /\ r.pending = <<>>
          /\ r.file.fits
          /\ r.file.starts # "Key" => r.file.hidden
    /\ ~r.headerChange =>
          /\ r.aac = r.file.aac
          /\ LengthSize[r.avc] = LengthSize[r.file.avc]
          /\ GroupIsOf(r.pending, r.file.aac, e)
          /\ FileAwaits(r.file, r.pending, 0, e, r.avc)

RecorderIsInOrder(r, e) ==
    /\ r \in Recorder
    /\ r.phase = "Recording" => FileIsInOrder(r, e)
    /\ r.phase # "Recording" => r.pending = <<>> /\ r.file = NoFile /\ ~r.headerChange

ClosedIsInOrder(file) == file.fits /\ (file.starts = "Inter" => file.hidden)

PipelineInv ==
    /\ encoder \in Header
    /\ RecorderIsInOrder(recorder, encoder)
    /\ ClosedIsInOrder(closed)

-----------------------------------------------------------------------------
(* Writing a group. A set of numbers has a least one, which is what takes   *)
(* the place of induction on the tags.                                      *)

LEMMA LeastNumber ==
    ASSUME NEW S \in SUBSET Nat, S # {}
    PROVE  \E n \in S : \A m \in S : n <= m
<1>1. PICK n \in S : \A m \in S : ~ (<<m, n>> \in OpToRel(<, Nat))
  BY WFMin, NatLessThanWellFounded
<1>2. \A m \in S : ~ (m < n)
  BY <1>1 DEF OpToRel
<1> QED
  BY <1>2

(* The files that the tags of a group leave behind, one after the other.    *)
Writes(w, file, group, n) ==
    w = [m \in 0 .. n |-> IF m = 0 THEN file ELSE WriteTag(w[m - 1], group[m])]

LEMMA WritesExist ==
    ASSUME NEW file, NEW group, NEW len \in Nat
    PROVE  \E w : Writes(w, file, group, len)
<1> DEFINE Bad == {n \in Nat : ~ \E w : Writes(w, file, group, n)}
<1>1. SUFFICES ASSUME Bad # {} PROVE FALSE
  OBVIOUS
<1>2. PICK n \in Bad : \A m \in Bad : n <= m
  BY <1>1, LeastNumber
<1>3. CASE n = 0
  <2>1. Writes([m \in 0 .. 0 |-> file], file, group, 0)
    BY DEF Writes
  <2> QED
    BY <1>3, <2>1
<1>4. CASE n # 0
  <2>1. n - 1 \in Nat /\ n - 1 \notin Bad
    BY <1>2, <1>4
  <2>2. PICK w : Writes(w, file, group, n - 1)
    BY <2>1
  <2> DEFINE longer == [m \in 0 .. n |-> IF m = n THEN WriteTag(w[n - 1], group[n]) ELSE w[m]]
  <2>3. \A m \in 0 .. n - 1 : longer[m] = w[m]
    BY <2>1
  <2>4. \A m \in 0 .. n - 1 : w[m] = IF m = 0 THEN file ELSE WriteTag(w[m - 1], group[m])
    BY <2>2 DEF Writes
  <2>5. \A m \in 0 .. n :
           longer[m] = IF m = 0 THEN file ELSE WriteTag(longer[m - 1], group[m])
    <3> TAKE m \in 0 .. n
    <3>1. CASE m = n
      BY <3>1, <2>1, <2>3, <1>4
    <3>2. CASE m # n /\ m = 0
      BY <3>2, <2>1, <2>4
    <3>3. CASE m # n /\ m # 0
      <4>1. m \in 0 .. n - 1 /\ m - 1 \in 0 .. n - 1
        BY <3>3, <2>1
      <4>2. longer[m] = WriteTag(w[m - 1], group[m])
        BY <4>1, <2>3, <2>4, <3>3
      <4> QED
        BY <4>1, <4>2, <2>3, <3>3
    <3> QED
      BY <3>1, <3>2, <3>3
  <2> HIDE DEF longer
  <2>6. longer = [m \in 0 .. n |-> longer[m]]
    BY DEF longer
  <2>7. Writes(longer, file, group, n)
    BY <2>5, <2>6 DEF Writes
  <2> QED
    BY <2>7
<1> QED
  BY <1>3, <1>4

(* WriteGroup is where those files end.                                     *)
LEMMA GroupIsWrittenTagByTag ==
    ASSUME NEW file, NEW group \in Seq(Tag)
    PROVE  \E w : /\ w[0] = file
                  /\ \A n \in 1 .. Len(group) : w[n] = WriteTag(w[n - 1], group[n])
                  /\ w[Len(group)] = WriteGroup(file, group)
<1> DEFINE after == CHOOSE w : Writes(w, file, group, Len(group))
<1>1. Len(group) \in Nat
  OBVIOUS
<1>2. Writes(after, file, group, Len(group))
  BY <1>1, WritesExist
<1>3. WriteGroup(file, group) = after[Len(group)]
  BY DEF WriteGroup, Writes
<1> HIDE DEF after
<1>4. /\ after[0] = file
      /\ \A n \in 1 .. Len(group) : after[n] = WriteTag(after[n - 1], group[n])
  BY <1>1, <1>2 DEF Writes
<1> QED
  BY <1>3, <1>4

LEMMA WriteTagFields ==
    ASSUME NEW file \in File, NEW tag \in Tag
    PROVE  LET next == WriteTag(file, tag)
           IN /\ next \in File
              /\ next.avc = file.avc
              /\ next.aac = file.aac
              /\ next.hidden = file.hidden
              /\ next.lost = (file.lost /\ tag.kind # "Key")
              /\ next.decoder = IF tag.inBand THEN tag.content ELSE file.decoder
              /\ tag.kind # "Key" => next.sets = file.sets
              /\ tag.kind = "Key" =>
                    next.sets = IF tag.content = next.decoder THEN "Known"
                                ELSE IF file.sets = "Refreshed" THEN "Missed" ELSE file.sets
              /\ next.starts =
                    IF file.starts = "None" /\ tag.kind # "Audio" THEN tag.kind ELSE file.starts
              /\ next.fits =
                    (file.fits /\ IF tag.kind # "Audio"
                                  THEN /\ LengthSize[tag.content] = LengthSize[file.avc]
                                       /\ ~next.lost /\ next.sets # "Missed" =>
                                             tag.content = next.decoder
                                  ELSE tag.content = file.aac)
<1> DEFINE told == Told(file, tag)
           size == Capped(told.size + 1)
           starts == IF told.starts = "None" /\ IsVideo(tag) THEN tag.kind ELSE told.starts
           fits == told.fits /\ Decodes(told, tag)
<1>1. /\ told \in File
      /\ told.avc = file.avc /\ told.aac = file.aac /\ told.hidden = file.hidden
      /\ told.starts = file.starts /\ told.fits = file.fits
      /\ told.lost = (file.lost /\ tag.kind # "Key")
      /\ told.decoder = IF tag.inBand THEN tag.content ELSE file.decoder
      /\ tag.kind # "Key" => told.sets = file.sets
      /\ tag.kind = "Key" =>
            told.sets = IF tag.content = told.decoder THEN "Known"
                        ELSE IF file.sets = "Refreshed" THEN "Missed" ELSE file.sets
  <2> DEFINE decoder == IF tag.inBand THEN tag.content ELSE file.decoder
             sets == CASE tag.kind = "Key" /\ tag.content = decoder -> "Known"
                       [] tag.kind = "Key" /\ tag.content # decoder
                             /\ file.sets = "Refreshed" -> "Missed"
                       [] OTHER -> file.sets
             lost == file.lost /\ tag.kind # "Key"
  <2>1. decoder \in Header /\ lost \in BOOLEAN /\ sets \in {"Known", "Refreshed", "Missed"}
    BY DEF File, Tag
  <2>2. /\ tag.kind # "Key" => sets = file.sets
        /\ tag.kind = "Key" => sets = IF tag.content = decoder THEN "Known"
                                      ELSE IF file.sets = "Refreshed" THEN "Missed"
                                      ELSE file.sets
    OBVIOUS
  <2>3. told = [file EXCEPT !.decoder = decoder, !.sets = sets, !.lost = lost]
    BY DEF Told, File
  <2> HIDE DEF told, decoder, sets, lost
  <2>4. /\ told \in File
        /\ told.avc = file.avc /\ told.aac = file.aac /\ told.hidden = file.hidden
        /\ told.starts = file.starts /\ told.fits = file.fits
        /\ told.lost = lost /\ told.decoder = decoder /\ told.sets = sets
    BY <2>1, <2>3 DEF File
  <2> QED
    BY <2>2, <2>4 DEF decoder, lost
<1>2. WriteTag(file, tag) = [told EXCEPT !.size = size, !.starts = starts, !.fits = fits]
  BY <1>1 DEF WriteTag, File
<1>3. Decodes(told, tag) = IF tag.kind # "Audio"
                           THEN /\ LengthSize[tag.content] = LengthSize[told.avc]
                                /\ ~told.lost /\ told.sets # "Missed" =>
                                      tag.content = told.decoder
                           ELSE tag.content = told.aac
  BY DEF Decodes, IsVideo
<1> HIDE DEF told
<1>4. size \in Nat /\ fits \in BOOLEAN /\ starts \in {"None", "Key", "Inter"}
  BY <1>1, <1>3, PipelineAssumption DEF Capped, File, Tag, IsVideo
<1> HIDE DEF size, starts, fits
<1>5. /\ WriteTag(file, tag) \in File
      /\ WriteTag(file, tag).avc = told.avc
      /\ WriteTag(file, tag).aac = told.aac
      /\ WriteTag(file, tag).hidden = told.hidden
      /\ WriteTag(file, tag).lost = told.lost
      /\ WriteTag(file, tag).decoder = told.decoder
      /\ WriteTag(file, tag).sets = told.sets
      /\ WriteTag(file, tag).starts = starts
      /\ WriteTag(file, tag).fits = fits
  BY <1>1, <1>2, <1>4 DEF File
<1> QED
  BY <1>1, <1>3, <1>5 DEF starts, fits, IsVideo

(* A tag of such a group fits the file that awaits it.                      *)
LEMMA TagFits ==
    ASSUME NEW file \in File, NEW group \in Seq(Tag), NEW e, NEW avc,
           NEW n \in 1 .. Len(group),
           GroupIsOf(group, file.aac, e), FileAwaits(file, group, n - 1, e, avc)
    PROVE  FileAwaits(WriteTag(file, group[n]), group, n, e, avc)
<1> DEFINE tag == group[n]
           next == WriteTag(file, tag)
<1>1. tag \in Tag /\ (tag.inBand => tag.kind = "Key")
  BY DEF GroupIsOf
<1>2. /\ next.avc = file.avc
      /\ next.aac = file.aac
      /\ next.hidden = file.hidden
      /\ next.lost = (file.lost /\ tag.kind # "Key")
      /\ next.decoder = IF tag.inBand THEN tag.content ELSE file.decoder
      /\ tag.kind # "Key" => next.sets = file.sets
      /\ tag.kind = "Key" =>
            next.sets = IF tag.content = next.decoder THEN "Known"
                        ELSE IF file.sets = "Refreshed" THEN "Missed" ELSE file.sets
      /\ next.starts =
            IF file.starts = "None" /\ tag.kind # "Audio" THEN tag.kind ELSE file.starts
      /\ next.fits =
            (file.fits /\ IF tag.kind # "Audio"
                          THEN /\ LengthSize[tag.content] = LengthSize[file.avc]
                               /\ ~next.lost /\ next.sets # "Missed" =>
                                     tag.content = next.decoder
                          ELSE tag.content = file.aac)
  BY <1>1, WriteTagFields
<1> HIDE DEF next
<1> SUFFICES FileAwaits(next, group, n, e, avc)
  BY DEF next
<1>3. KeyframeAfter(group, n - 1) <=> (tag.kind = "Key" \/ KeyframeAfter(group, n))
  BY DEF KeyframeAfter
<1>4. CASE tag.kind = "Audio"
  <2>1. tag.content = file.aac
    BY <1>4 DEF GroupIsOf
  <2> QED
    BY <1>1, <1>2, <1>3, <1>4, <2>1 DEF FileAwaits
<1>5. CASE tag.kind = "Inter"
  <2>1. ~ KeyframeAfter(group, n)
    <3> SUFFICES ASSUME NEW m \in n + 1 .. Len(group), group[m].kind = "Key"
                 PROVE  FALSE
      BY DEF KeyframeAfter
    <3>1. m \in 1 .. Len(group) /\ n \in 1 .. m - 1
      OBVIOUS
    <3> QED
      BY <3>1, <1>5 DEF GroupIsOf
  <2>2. tag.content = e
    BY <1>5 DEF GroupIsOf
  <2> QED
    BY <1>1, <1>2, <1>3, <1>5, <2>1, <2>2 DEF FileAwaits
<1>6. CASE tag.kind = "Key"
  <2>1. tag.content = e /\ e = avc
    BY <1>3, <1>6 DEF GroupIsOf, FileAwaits
  <2>2. CASE next.decoder = e
    BY <1>2, <1>3, <1>6, <2>1, <2>2 DEF FileAwaits
  <2>3. CASE next.decoder # e
    <3>1. next.decoder = file.decoder /\ file.sets # "Known"
      BY <1>2, <2>1, <2>3 DEF FileAwaits
    <3>2. next.sets = "Missed"
      BY <1>2, <1>6, <2>1, <2>3, <3>1 DEF File
    <3> QED
      BY <1>2, <1>3, <1>6, <2>1, <3>2 DEF FileAwaits
  <2> QED
    BY <2>2, <2>3
<1> QED
  BY <1>1, <1>4, <1>5, <1>6 DEF Tag

(* A file that took a whole group.                                          *)
LEMMA GroupFits ==
    ASSUME NEW file \in File, NEW group \in Seq(Tag), NEW e, NEW avc,
           GroupIsOf(group, file.aac, e), FileAwaits(file, group, 0, e, avc)
    PROVE  /\ WriteGroup(file, group) \in File
           /\ WriteGroup(file, group).avc = file.avc
           /\ WriteGroup(file, group).aac = file.aac
           /\ FileAwaits(WriteGroup(file, group), <<>>, 0, e, avc)
<1>1. PICK w : /\ w[0] = file
               /\ \A n \in 1 .. Len(group) : w[n] = WriteTag(w[n - 1], group[n])
               /\ w[Len(group)] = WriteGroup(file, group)
  BY GroupIsWrittenTagByTag
<1> DEFINE InOrder(n) == /\ w[n] \in File
                         /\ w[n].avc = file.avc /\ w[n].aac = file.aac
                         /\ FileAwaits(w[n], group, n, e, avc)
           Bad == {n \in 0 .. Len(group) : ~ InOrder(n)}
<1> HIDE DEF InOrder
<1>2. Bad = {}
  <2>1. SUFFICES ASSUME Bad # {} PROVE FALSE
    OBVIOUS
  <2> Bad \in SUBSET Nat
    OBVIOUS
  <2>2. PICK n \in Bad : \A m \in Bad : n <= m
    <3> HIDE DEF Bad
    <3> QED
      BY <2>1, LeastNumber
  <2>3. InOrder(0)
    BY <1>1 DEF InOrder
  <2>4. n \in 1 .. Len(group) /\ n - 1 \in 0 .. Len(group) /\ InOrder(n - 1)
    BY <2>2, <2>3
  <2>5. group[n] \in Tag /\ w[n] = WriteTag(w[n - 1], group[n])
    BY <1>1, <2>4
  <2> USE DEF InOrder
  <2>6. GroupIsOf(group, w[n - 1].aac, e)
    BY <2>4
  <2>7. FileAwaits(w[n], group, n, e, avc)
    BY <2>4, <2>5, <2>6, TagFits
  <2>8. w[n] \in File /\ w[n].avc = w[n - 1].avc /\ w[n].aac = w[n - 1].aac
    <3>1. w[n - 1] \in File
      BY <2>4
    <3>2. \A f \in File, tag \in Tag : /\ WriteTag(f, tag) \in File
                                        /\ WriteTag(f, tag).avc = f.avc
                                        /\ WriteTag(f, tag).aac = f.aac
      BY WriteTagFields
    <3> QED
      BY <2>5, <3>1, <3>2
  <2> QED
    BY <2>2, <2>4, <2>7, <2>8
<1>3. InOrder(Len(group))
  BY <1>2
<1>4. ~ KeyframeAfter(group, Len(group)) /\ ~ KeyframeAfter(<<>>, 0)
  BY DEF KeyframeAfter
<1> QED
  BY <1>1, <1>3, <1>4 DEF FileAwaits, InOrder

-----------------------------------------------------------------------------
(* The recorder's helpers keep it in order.                                 *)

(* Flushing changes the file and the deduplicator; nothing is pending then. *)
LEMMA FlushKeepsOrder ==
    ASSUME NEW r, NEW e \in Header, RecorderIsInOrder(r, e)
    PROVE  /\ RecorderIsInOrder(Flush(r), e)
           /\ Flush(r).pending = <<>>
           /\ Flush(r).phase = r.phase
           /\ Flush(r).avc = r.avc /\ Flush(r).aac = r.aac
           /\ Flush(r).seen = r.seen
           /\ Flush(r).headerChange = r.headerChange
           /\ Flush(r).file.avc = r.file.avc /\ Flush(r).file.aac = r.file.aac
<1>1. r \in Recorder /\ r.pending \in Seq(Tag) /\ r.file \in File
  BY DEF RecorderIsInOrder, Recorder
<1>2. CASE r.pending = <<>>
  BY <1>2 DEF Flush, GroupFate
<1>3. CASE r.pending # <<>>
  <2>1. /\ r.phase = "Recording" /\ ~r.headerChange /\ FileIsInOrder(r, e)
        /\ GroupIsOf(r.pending, r.file.aac, e) /\ FileAwaits(r.file, r.pending, 0, e, r.avc)
    BY <1>3 DEF RecorderIsInOrder, FileIsInOrder
  <2> DEFINE Flushed(file, history, repeats) ==
               [r EXCEPT !.file = file, !.pending = <<>>, !.history = history,
                         !.repeats = repeats]
  <2>2. \E history \in Seq(Seq(Tag)), repeats \in Nat :
           \/ Flush(r) = Flushed(WriteGroup(r.file, r.pending), history, repeats)
           \/ Flush(r) = Flushed(HideGroup(r.file, r.pending), history, repeats)
    <3>1. CASE GroupFate(r) = "Unique"
      <4>1. Remember(r.history, r.pending) \in Seq(Seq(Tag))
        <5>1. Append(r.history, r.pending) \in Seq(Seq(Tag))
          BY <1>1 DEF Recorder
        <5>2. Append(r.history, r.pending) # <<>>
          <6>1. Len(Append(r.history, r.pending)) = Len(r.history) + 1 /\ Len(r.history) \in Nat
            BY <1>1 DEF Recorder
          <6> QED
            BY <6>1
        <5> QED
          BY <5>1, <5>2 DEF Remember
      <4>2. Flush(r) = Flushed(WriteGroup(r.file, r.pending),
                               Remember(r.history, r.pending), 0)
        BY <3>1, <1>1 DEF Flush, Recorder
      <4> QED
        BY <4>1, <4>2
    <3>2. CASE GroupFate(r) # "Unique"
      <4>1. GroupFate(r) # "Empty"
        BY <1>3 DEF GroupFate
      <4> DEFINE repeats == IF r.repeats < DuplicateThreshold THEN r.repeats + 1 ELSE r.repeats
      <4>2. repeats \in Nat /\ r.history \in Seq(Seq(Tag))
        BY <1>1 DEF Recorder
      <4>3. Flush(r) = Flushed(HideGroup(r.file, r.pending), r.history, repeats)
        BY <3>2, <4>1, <1>1 DEF Flush, Recorder
      <4> QED
        BY <4>2, <4>3
    <3> QED
      BY <3>1, <3>2
  <2>3. \A file \in {WriteGroup(r.file, r.pending), HideGroup(r.file, r.pending)} :
           /\ file \in File /\ file.avc = r.file.avc /\ file.aac = r.file.aac
           /\ FileAwaits(file, <<>>, 0, e, r.avc)
    <3>1. /\ KeyframeAfter(r.pending, 0) <=> HasKeyframe(r.pending)
          /\ ~KeyframeAfter(<<>>, 0)
      BY <1>1 DEF KeyframeAfter, HasKeyframe
    <3> DEFINE hiding == HideGroup(r.file, r.pending)
    <3>2. /\ hiding \in File /\ hiding.avc = r.file.avc /\ hiding.aac = r.file.aac
          /\ hiding.fits = r.file.fits /\ hiding.decoder = r.file.decoder
          /\ hiding.sets = r.file.sets /\ hiding.starts = r.file.starts
          /\ hiding.lost = (r.file.lost \/ HasKeyframe(r.pending))
          /\ hiding.hidden =
                (r.file.hidden \/ (r.file.starts = "None" /\ HasKeyframe(r.pending)))
      <4>1. HasKeyframe(r.pending) \in BOOLEAN
        BY DEF HasKeyframe
      <4> QED
        BY <1>1, <4>1 DEF HideGroup, File
    <3> HIDE DEF hiding
    <3>3. FileAwaits(hiding, <<>>, 0, e, r.avc)
      BY <3>1, <3>2, <2>1 DEF FileAwaits
    <3> QED
      BY <1>1, <2>1, <3>2, <3>3, GroupFits DEF hiding
  <2>4. PICK file \in {WriteGroup(r.file, r.pending), HideGroup(r.file, r.pending)},
             history \in Seq(Seq(Tag)), repeats \in Nat :
                Flush(r) = Flushed(file, history, repeats)
    BY <2>2
  <2>5. /\ file \in File /\ file.avc = r.file.avc /\ file.aac = r.file.aac
        /\ FileAwaits(file, <<>>, 0, e, r.avc)
    BY <2>3
  <2>6. /\ Flush(r) \in Recorder
        /\ Flush(r).pending = <<>>
        /\ Flush(r).phase = r.phase
        /\ Flush(r).avc = r.avc /\ Flush(r).aac = r.aac
        /\ Flush(r).seen = r.seen
        /\ Flush(r).headerChange = r.headerChange
        /\ Flush(r).file = file
    <3>1. <<>> \in Seq(Tag)
      OBVIOUS
    <3>2. Flush(r) = Flushed(file, history, repeats)
      BY <2>4
    <3> QED
      BY <1>1, <2>5, <3>1, <3>2 DEF Recorder
  <2>7. GroupIsOf(<<>>, file.aac, e)
    BY DEF GroupIsOf
  <2>8. FileIsInOrder(Flush(r), e)
    BY <2>1, <2>5, <2>6, <2>7 DEF FileIsInOrder
  <2> QED
    BY <2>1, <2>5, <2>6, <2>8 DEF RecorderIsInOrder
<1> QED
  BY <1>2, <1>3

(* A recorder that is new or has ended suits every stream.                  *)
LEMMA FreshIsInOrder ==
    ASSUME NEW e \in Header
    PROVE  /\ RecorderIsInOrder(NewRecorder, e)
           /\ \A r : RecorderIsInOrder(End(r), e)
<1>1. NoFile \in File /\ NoHeader \in Header
  BY DEF NoFile, File, Header
<1>2. <<>> \in Seq(Tag) /\ <<>> \in Seq(Seq(Tag))
  OBVIOUS
<1>3. NewRecorder \in Recorder /\ NewRecorder.phase = "WaitSync"
         /\ NewRecorder.pending = <<>> /\ NewRecorder.file = NoFile /\ ~NewRecorder.headerChange
  BY <1>1, <1>2 DEF NewRecorder, Recorder
<1> HIDE DEF NewRecorder
<1>4. \A r : /\ End(r) \in Recorder /\ End(r).phase = "Ended"
             /\ End(r).pending = <<>> /\ End(r).file = NoFile /\ ~End(r).headerChange
  BY <1>3 DEF End, Recorder
<1> QED
  BY <1>3, <1>4 DEF RecorderIsInOrder

(* What a recorder in order closes is in order.                             *)
LEMMA ClosingIsInOrder ==
    ASSUME NEW r, NEW e \in Header, NEW outcome,
           RecorderIsInOrder(r, e), ClosedIsInOrder(closed)
    PROVE  ClosedIsInOrder(ClosedBy(r, outcome))
<1>1. CASE r.phase = "Recording"
  <2>1. r.file.fits /\ (r.file.starts = "Inter" => r.file.hidden)
    BY <1>1 DEF RecorderIsInOrder, FileIsInOrder, FileAwaits
  <2> QED
    BY <1>1, <2>1 DEF ClosedBy, Closing, ClosedIsInOrder
<1>2. CASE r.phase # "Recording"
  BY <1>2 DEF ClosedBy
<1> QED
  BY <1>1, <1>2

LEMMA EndingIsInOrder ==
    ASSUME PipelineInv, NEW r, NEW e \in Header, NEW outcome, RecorderIsInOrder(r, e),
           EndWith(r, outcome), encoder' \in Header
    PROVE  PipelineInv'
BY FreshIsInOrder, ClosingIsInOrder DEF PipelineInv, EndWith

-----------------------------------------------------------------------------
(* Headers and metadata. What was pending is flushed first, and a file that *)
(* knows of a change is in order whatever the headers are.                  *)

LEMMA ObservingIsInOrder ==
    ASSUME PipelineInv, NEW observed, RecorderIsInOrder(observed, encoder), Observe(observed)
    PROVE  PipelineInv'
<1>1. encoder' = encoder /\ encoder \in Header /\ RecorderIsInOrder(recorder, encoder)
  BY DEF Observe, PipelineInv
<1>2. CASE FlushReconnects(recorder)
  <2>1. RecorderIsInOrder(Flush(recorder), encoder)
    BY <1>1, FlushKeepsOrder
  <2>2. EndWith(Flush(recorder), "Kept")
    BY <1>2 DEF Observe
  <2> QED
    BY <1>1, <2>1, <2>2, EndingIsInOrder
<1>3. CASE ~FlushReconnects(recorder)
  BY <1>1, <1>3 DEF Observe, PipelineInv
<1> QED
  BY <1>2, <1>3

LEMMA MetadataIsInOrder ==
    ASSUME PipelineInv, ReceiveMetadata
    PROVE  PipelineInv'
<1> DEFINE f == FlushFirst(recorder)
           observed == [f EXCEPT !.metadata = TRUE]
<1>1. RecorderIsInOrder(f, encoder)
  BY FlushKeepsOrder DEF PipelineInv, FlushFirst
<1>2. f \in Recorder
  BY <1>1 DEF RecorderIsInOrder
<1> HIDE DEF f
<1>3. /\ observed \in Recorder
      /\ observed.phase = f.phase /\ observed.avc = f.avc /\ observed.aac = f.aac
      /\ observed.seen = f.seen /\ observed.headerChange = f.headerChange
      /\ observed.pending = f.pending /\ observed.file = f.file
  BY <1>2 DEF Recorder
<1> HIDE DEF observed
<1>4. RecorderIsInOrder(observed, encoder)
  BY <1>1, <1>3 DEF RecorderIsInOrder, FileIsInOrder
<1> QED
  BY <1>4, ObservingIsInOrder DEF ReceiveMetadata, f, observed

LEMMA AacHeaderIsInOrder ==
    ASSUME PipelineInv, NEW aac \in AacHeader, ReceiveAacHeader(aac)
    PROVE  PipelineInv'
<1> DEFINE f == FlushFirst(recorder)
           changed == Changed(recorder, recorder.aac, aac)
           observed == [f EXCEPT !.aac = aac, !.headerChange = @ \/ changed]
<1>1. /\ RecorderIsInOrder(f, encoder) /\ f.pending = <<>>
      /\ f.phase = recorder.phase /\ f.aac = recorder.aac
  BY FlushKeepsOrder DEF PipelineInv, FlushFirst
<1>2. f \in Recorder /\ aac \in Header /\ aac # NoHeader /\ changed \in BOOLEAN
  BY <1>1, HeaderAssumption DEF RecorderIsInOrder, Header, Changed
<1>3. changed = (f.phase = "Recording" /\ f.aac # NoHeader /\ f.aac # aac)
  BY <1>1 DEF Changed
<1> HIDE DEF f, changed
<1>4. /\ observed \in Recorder
      /\ observed.phase = f.phase /\ observed.avc = f.avc /\ observed.aac = aac
      /\ observed.seen = f.seen /\ observed.headerChange = (f.headerChange \/ changed)
      /\ observed.pending = <<>> /\ observed.file = f.file
  BY <1>1, <1>2 DEF Recorder
<1> HIDE DEF observed
<1>5. f.phase = "Recording" => FileIsInOrder(observed, encoder)
  <2> SUFFICES ASSUME f.phase = "Recording" PROVE FileIsInOrder(observed, encoder)
    OBVIOUS
  <2>1. FileIsInOrder(f, encoder)
    BY <1>1 DEF RecorderIsInOrder
  <2>2. CASE observed.headerChange
    <3>1. f.file.fits /\ (f.file.starts # "Key" => f.file.hidden)
      BY <2>1, <1>1, <1>2 DEF FileIsInOrder, FileAwaits, KeyframeAfter, Recorder, File
    <3> QED
      BY <2>1, <2>2, <3>1, <1>2, <1>4 DEF FileIsInOrder
  <2>3. CASE ~observed.headerChange
    BY <2>1, <2>3, <1>1, <1>2, <1>3, <1>4 DEF FileIsInOrder
  <2> QED
    BY <2>2, <2>3
<1>6. RecorderIsInOrder(observed, encoder)
  BY <1>1, <1>3, <1>4, <1>5 DEF RecorderIsInOrder
<1> QED
  BY <1>6, ObservingIsInOrder DEF ReceiveAacHeader, f, changed, observed

LEMMA AvcHeaderIsInOrder ==
    ASSUME PipelineInv, NEW avc \in AvcHeader, ReceiveAvcHeader(avc)
    PROVE  PipelineInv'
<1> DEFINE f == FlushFirst(recorder)
           forced == ForcesRotation(recorder, avc)
           taken == TakenOver(recorder, avc)
           sets == IF f.file.sets = "Known" /\ taken THEN "Refreshed" ELSE f.file.sets
           file == [f.file EXCEPT !.sets = sets]
           observed == [f EXCEPT !.avc = avc, !.headerChange = @ \/ forced,
                                 !.file.sets = IF @ = "Known" /\ taken
                                               THEN "Refreshed" ELSE @]
<1>1. /\ RecorderIsInOrder(f, encoder) /\ f.pending = <<>>
      /\ f.phase = recorder.phase /\ f.avc = recorder.avc /\ f.seen = recorder.seen
  BY FlushKeepsOrder DEF PipelineInv, FlushFirst
<1>2. f \in Recorder /\ avc \in Header /\ avc # NoHeader /\ forced \in BOOLEAN
  BY <1>1, HeaderAssumption DEF RecorderIsInOrder, Header, ForcesRotation, Changed
<1>3. /\ f.phase = "Recording" /\ f.avc # NoHeader /\ f.avc # avc => forced \/ taken
      /\ taken => ~forced /\ f.avc # avc /\ LengthSize[f.avc] = LengthSize[avc]
      /\ taken => f.phase = "Recording"
  BY <1>1 DEF TakenOver, ForcesRotation, Changed, InBandConfirmed
<1> HIDE DEF f, forced, taken
<1>4. /\ file \in File /\ f.file \in File
      /\ file.avc = f.file.avc /\ file.aac = f.file.aac /\ file.decoder = f.file.decoder
      /\ file.lost = f.file.lost /\ file.starts = f.file.starts /\ file.fits = f.file.fits
      /\ file.hidden = f.file.hidden /\ file.sets = sets
      /\ ~taken => file = f.file
  BY <1>2 DEF Recorder, File
<1>5. observed = [f EXCEPT !.avc = avc, !.headerChange = f.headerChange \/ forced,
                           !.file = file]
  BY <1>2 DEF Recorder, File
<1> HIDE DEF sets, file, observed
<1>6. /\ observed \in Recorder
      /\ observed.phase = f.phase /\ observed.aac = f.aac /\ observed.avc = avc
      /\ observed.headerChange = (f.headerChange \/ forced)
      /\ observed.pending = <<>> /\ observed.file = file
  <2>1. file \in File /\ f \in Recorder /\ f.pending = <<>>
    BY <1>1, <1>2, <1>4
  <2> QED
    BY <2>1, <1>2, <1>5 DEF Recorder
<1>7. f.phase = "Recording" => FileIsInOrder(observed, encoder)
  <2> SUFFICES ASSUME f.phase = "Recording" PROVE FileIsInOrder(observed, encoder)
    OBVIOUS
  <2>1. FileIsInOrder(f, encoder)
    BY <1>1 DEF RecorderIsInOrder
  <2>2. CASE observed.headerChange
    <3>1. f.file.fits /\ (f.file.starts # "Key" => f.file.hidden)
      BY <2>1, <1>1, <1>2 DEF FileIsInOrder, FileAwaits, KeyframeAfter, Recorder, File
    <3> QED
      BY <2>1, <2>2, <3>1, <1>2, <1>4, <1>6 DEF FileIsInOrder
  <2>3. CASE ~observed.headerChange
    <3>1. /\ ~f.headerChange /\ ~forced
          /\ f.avc = avc \/ taken
      BY <2>1, <2>3, <1>3, <1>6 DEF FileIsInOrder
    <3>2. /\ f.aac = f.file.aac /\ LengthSize[f.avc] = LengthSize[f.file.avc]
          /\ GroupIsOf(<<>>, f.file.aac, encoder)
          /\ FileAwaits(f.file, <<>>, 0, encoder, f.avc)
      BY <2>1, <3>1, <1>1 DEF FileIsInOrder
    <3>3. ~KeyframeAfter(<<>>, 0)
      BY DEF KeyframeAfter
    <3>4. FileAwaits(file, <<>>, 0, encoder, avc)
      <4>1. CASE taken
        BY <4>1, <3>2, <3>3, <1>4 DEF FileAwaits, sets
      <4>2. CASE ~taken
        <5>1. f.avc = avc
          BY <4>2, <3>1
        <5> QED
          BY <4>2, <5>1, <3>2, <1>4
      <4> QED
        BY <4>1, <4>2
    <3>5. LengthSize[avc] = LengthSize[file.avc]
      BY <3>1, <3>2, <1>3, <1>4
    <3> QED
      BY <2>1, <2>3, <3>2, <3>4, <3>5, <1>2, <1>4, <1>6 DEF FileIsInOrder
  <2> QED
    BY <2>2, <2>3
<1>8. RecorderIsInOrder(observed, encoder)
  <2>1. CASE f.phase = "Recording"
    BY <2>1, <1>6, <1>7 DEF RecorderIsInOrder
  <2>2. CASE f.phase # "Recording"
    <3>1. ~taken /\ ~forced
      BY <2>2, <1>1, <1>3 DEF forced, ForcesRotation, Changed
    <3> QED
      BY <2>2, <3>1, <1>1, <1>4, <1>6 DEF RecorderIsInOrder
  <2> QED
    BY <2>1, <2>2
<1> QED
  BY <1>8, ObservingIsInOrder DEF ReceiveAvcHeader, f, forced, taken, observed

-----------------------------------------------------------------------------
(* Media tags.                                                              *)

LEMMA PushFields ==
    ASSUME NEW r \in Recorder, NEW tag \in Tag
    PROVE  /\ Push(r, tag) \in Recorder
           /\ Push(r, tag).phase = r.phase /\ Push(r, tag).seen = r.seen
           /\ Push(r, tag).avc = r.avc /\ Push(r, tag).aac = r.aac
           /\ Push(r, tag).headerChange = r.headerChange
           /\ Push(r, tag).file = r.file
           /\ Push(r, tag).pending = Append(r.pending, tag)
<1>1. Append(r.pending, tag) \in Seq(Tag)
  BY DEF Recorder
<1> QED
  BY <1>1 DEF Push, Recorder

(* A tag that is not a keyframe joins the group of its file.                *)
LEMMA PushingIsInOrder ==
    ASSUME NEW r, NEW e \in Header, RecorderIsInOrder(r, e), NEW tag \in Tag,
           r.phase = "Recording", ~r.headerChange, tag.kind # "Key",
           tag.content = IF tag.kind = "Audio" THEN r.aac ELSE e, ~tag.inBand
    PROVE  RecorderIsInOrder(Push(r, tag), e)
<1>1. r \in Recorder /\ r.pending \in Seq(Tag) /\ FileIsInOrder(r, e)
  BY DEF RecorderIsInOrder, Recorder
<1>2. GroupIsOf(r.pending, r.file.aac, e) /\ FileAwaits(r.file, r.pending, 0, e, r.avc)
         /\ r.aac = r.file.aac
  BY <1>1 DEF FileIsInOrder
<1> DEFINE group == Append(r.pending, tag)
<1>3. /\ Len(group) = Len(r.pending) + 1
      /\ \A n \in 1 .. Len(r.pending) : group[n] = r.pending[n]
      /\ group[Len(r.pending) + 1] = tag
      /\ Len(r.pending) \in Nat
  BY <1>1
<1> HIDE DEF group
<1>4. GroupIsOf(group, r.file.aac, e)
  <2> SUFFICES ASSUME NEW n \in 1 .. Len(group)
               PROVE  /\ group[n].kind = "Audio" => group[n].content = r.file.aac
                      /\ group[n].kind # "Audio" => group[n].content = e
                      /\ group[n].inBand => group[n].kind = "Key"
                      /\ group[n].kind = "Key" =>
                            \A m \in 1 .. n - 1 : group[m].kind = "Audio"
    BY DEF GroupIsOf
  <2>1. CASE n = Len(r.pending) + 1
    BY <2>1, <1>2, <1>3
  <2>2. CASE n \in 1 .. Len(r.pending)
    <3>1. \A m \in 1 .. n - 1 : group[m] = r.pending[m]
      BY <2>2, <1>3
    <3> QED
      BY <2>2, <3>1, <1>2, <1>3 DEF GroupIsOf
  <2> QED
    BY <2>1, <2>2, <1>3
<1>5. KeyframeAfter(r.pending, 0) <=> KeyframeAfter(group, 0)
  BY <1>3 DEF KeyframeAfter
<1>6. FileAwaits(r.file, group, 0, e, r.avc)
  BY <1>2, <1>5 DEF FileAwaits
<1> QED
  BY <1>1, <1>4, <1>6, PushFields DEF RecorderIsInOrder, FileIsInOrder, group

(* A keyframe takes up the recorder's header. It joins a group of nothing   *)
(* but audio, in a file that begins with the headers of now or was told of  *)
(* others since.                                                            *)
LEMMA KeyframeIsInOrder ==
    ASSUME NEW r \in Recorder, NEW e \in Header, NEW tag \in Tag,
           r.phase = "Recording", ~r.headerChange, r.avc # NoHeader, r.aac # NoHeader,
           r.file.sets = "Known" => r.file.decoder = r.avc,
           r.aac = r.file.aac, LengthSize[r.avc] = LengthSize[r.file.avc],
           r.file.fits, r.file.starts = "Inter" => r.file.hidden,
           \A n \in 1 .. Len(r.pending) :
              /\ r.pending[n].kind = "Audio" /\ r.pending[n].content = r.aac
              /\ ~r.pending[n].inBand,
           e = r.avc, tag.kind = "Key", tag.content = e
    PROVE  RecorderIsInOrder(Push(r, tag), e)
<1>1. r.pending \in Seq(Tag)
  BY DEF Recorder
<1> DEFINE group == Append(r.pending, tag)
<1>2. /\ Len(group) = Len(r.pending) + 1
      /\ \A n \in 1 .. Len(r.pending) : group[n] = r.pending[n]
      /\ group[Len(r.pending) + 1] = tag
      /\ Len(r.pending) \in Nat
  BY <1>1
<1> HIDE DEF group
<1>3. GroupIsOf(group, r.file.aac, e)
  <2> SUFFICES ASSUME NEW n \in 1 .. Len(group)
               PROVE  /\ group[n].kind = "Audio" => group[n].content = r.file.aac
                      /\ group[n].kind # "Audio" => group[n].content = e
                      /\ group[n].inBand => group[n].kind = "Key"
                      /\ group[n].kind = "Key" =>
                            \A m \in 1 .. n - 1 : group[m].kind = "Audio"
    BY DEF GroupIsOf
  <2>1. CASE n = Len(r.pending) + 1
    BY <2>1, <1>2
  <2>2. CASE n \in 1 .. Len(r.pending)
    BY <2>2, <1>2
  <2> QED
    BY <2>1, <2>2, <1>2
<1>4. KeyframeAfter(group, 0)
  BY <1>2 DEF KeyframeAfter
<1>5. FileAwaits(r.file, group, 0, e, r.avc)
  BY <1>4 DEF FileAwaits
<1>6. /\ Push(r, tag) \in Recorder
      /\ Push(r, tag).phase = r.phase /\ Push(r, tag).seen = r.seen
      /\ Push(r, tag).avc = r.avc /\ Push(r, tag).aac = r.aac
      /\ Push(r, tag).headerChange = r.headerChange
      /\ Push(r, tag).file = r.file
      /\ Push(r, tag).pending = group
  BY PushFields DEF group
<1>7. FileIsInOrder(Push(r, tag), e)
  BY <1>3, <1>5, <1>6 DEF FileIsInOrder
<1> QED
  BY <1>6, <1>7 DEF RecorderIsInOrder

(* Opening a file, of whatever the recorder has cached.                     *)
LEMMA OpeningFields ==
    ASSUME NEW r \in Recorder
    PROVE  /\ OpenSegment(r) \in Recorder
           /\ OpenSegment(r).phase = "Recording" /\ ~OpenSegment(r).headerChange
           /\ OpenSegment(r).avc = r.avc /\ OpenSegment(r).aac = r.aac
           /\ OpenSegment(r).seen = r.seen /\ OpenSegment(r).pending = r.pending
           /\ OpenSegment(r).file.avc = r.avc /\ OpenSegment(r).file.decoder = r.avc
           /\ OpenSegment(r).file.sets = "Known"
           /\ OpenSegment(r).file.aac = r.aac
           /\ OpenSegment(r).file.fits /\ OpenSegment(r).file.starts = "None"
<1> DEFINE file == NewFile(r)
<1>1. /\ file \in File /\ file.avc = r.avc /\ file.aac = r.aac /\ file.decoder = r.avc
      /\ file.sets = "Known" /\ file.fits /\ file.starts = "None"
  BY DEF NewFile, NoFile, File, Recorder, Header
<1> HIDE DEF file
<1>2. OpenSegment(r) = [r EXCEPT !.phase = "Recording", !.headerChange = FALSE, !.file = file]
  BY DEF OpenSegment, file
<1> QED
  BY <1>1, <1>2 DEF Recorder

LEMMA MediaIsInOrder ==
    ASSUME PipelineInv, NEW kind \in {"Key", "Inter", "Audio"}, NEW time \in Time,
           NEW inBand \in BOOLEAN, NEW timeUp \in BOOLEAN,
           ReceiveMedia(kind, time, inBand, timeUp)
    PROVE  PipelineInv'
<1> DEFINE tag == Sent(kind, time, inBand)
           r == NoteInBand(recorder, tag)
           cut == StartsNewGroup(r, tag)
           flushed == IF cut THEN Flush(r) ELSE r
<1>1. /\ encoder \in Header /\ RecorderIsInOrder(recorder, encoder)
      /\ recorder \in Recorder /\ ClosedIsInOrder(closed)
  BY DEF PipelineInv, RecorderIsInOrder
<1>2. /\ tag \in Tag /\ tag.kind = kind
      /\ tag.inBand => kind = "Key"
      /\ tag.content = IF kind = "Audio" THEN recorder.aac
                       ELSE IF kind = "Key" THEN recorder.avc ELSE encoder
  BY <1>1 DEF Sent, Tag, Recorder, ReceiveMedia
<1>3. /\ r \in Recorder /\ r.phase = recorder.phase /\ r.avc = recorder.avc
      /\ r.aac = recorder.aac /\ r.headerChange = recorder.headerChange
      /\ r.pending = recorder.pending /\ r.file = recorder.file
  <2>1. CASE r = recorder
    BY <2>1, <1>1
  <2>2. CASE r # recorder
    <3>1. r = [recorder EXCEPT !.seen = @ + 1]
      BY <2>2 DEF NoteInBand
    <3>3. recorder \in Recorder /\ recorder.seen + 1 \in Nat
      BY <1>1 DEF Recorder
    <3> DEFINE noted == [recorder EXCEPT !.seen = recorder.seen + 1]
    <3>4. /\ noted \in Recorder /\ noted.phase = recorder.phase /\ noted.avc = recorder.avc
          /\ noted.aac = recorder.aac /\ noted.headerChange = recorder.headerChange
          /\ noted.pending = recorder.pending /\ noted.file = recorder.file
      BY <3>3 DEF Recorder
    <3>5. r = noted
      BY <3>1
    <3> HIDE DEF noted, r
    <3> QED
      BY <3>4, <3>5
  <2> QED
    BY <2>1, <2>2
<1>4. /\ encoder' \in Header 
      /\ kind = "Key" => encoder' = recorder.avc
      /\ kind # "Key" => encoder' = encoder
  BY <1>1 DEF ReceiveMedia, Recorder
<1>5. \/ Dropped(r, tag) /\ recorder' = r /\ UNCHANGED closed
      \/ /\ r.phase = "WaitSync" /\ ~Dropped(r, tag)
         /\ recorder' = Push(OpenSegment(r), tag) /\ UNCHANGED closed
      \/ /\ r.phase = "Recording" /\ ~Dropped(r, tag)
         /\ IF cut /\ FlushReconnects(r) THEN EndWith(flushed, "Kept")
            ELSE IF MustRotate(flushed, tag, timeUp)
            THEN recorder' = Push(Rotated(flushed), tag) /\ closed' = ClosedBy(flushed, "Kept")
            ELSE recorder' = Push(flushed, tag) /\ UNCHANGED closed
  BY DEF ReceiveMedia
<1> HIDE DEF tag, r
<1>6. RecorderIsInOrder(r, encoder)
  BY <1>1, <1>3 DEF RecorderIsInOrder, FileIsInOrder
<1>7. CASE Dropped(r, tag) /\ recorder' = r /\ UNCHANGED closed
  <2>1. CASE kind = "Key"
    <3>1. r.phase # "Recording"
      BY <1>2, <1>7, <2>1 DEF Dropped
    <3>2. RecorderIsInOrder(r, encoder')
      BY <3>1, <1>4, <1>6 DEF RecorderIsInOrder
    <3> QED
      BY <3>2, <1>1, <1>4, <1>7 DEF PipelineInv
  <2>2. CASE kind # "Key"
    BY <2>2, <1>1, <1>4, <1>6, <1>7 DEF PipelineInv
  <2> QED
    BY <2>1, <2>2
<1>8. CASE /\ r.phase = "WaitSync" /\ ~Dropped(r, tag)
           /\ recorder' = Push(OpenSegment(r), tag) /\ UNCHANGED closed
  <2>1. r.avc # NoHeader /\ r.aac # NoHeader /\ tag.kind = "Key" /\ r.pending = <<>>
    BY <1>6, <1>8 DEF Dropped, IsSynced, RecorderIsInOrder
  <2> DEFINE opened == OpenSegment(r)
  <2>2. /\ opened \in Recorder /\ opened.phase = "Recording" /\ ~opened.headerChange
        /\ opened.avc = r.avc /\ opened.aac = r.aac
        /\ opened.seen = r.seen /\ opened.pending = r.pending
        /\ opened.file.avc = r.avc /\ opened.file.decoder = r.avc /\ opened.file.aac = r.aac
        /\ opened.file.sets = "Known"
        /\ opened.file.fits /\ opened.file.starts = "None"
    BY <1>3, OpeningFields
  <2> HIDE DEF opened
  <2>3. tag.content = encoder' /\ encoder' = opened.avc
    BY <1>2, <1>3, <1>4, <2>1, <2>2
  <2>4. RecorderIsInOrder(Push(opened, tag), encoder')
    BY <1>2, <1>4, <2>1, <2>2, <2>3, KeyframeIsInOrder
  <2> QED
    BY <2>4, <1>1, <1>4, <1>8 DEF PipelineInv, opened
<1>9. CASE /\ r.phase = "Recording" /\ ~Dropped(r, tag)
           /\ IF cut /\ FlushReconnects(r) THEN EndWith(flushed, "Kept")
              ELSE IF MustRotate(flushed, tag, timeUp)
              THEN recorder' = Push(Rotated(flushed), tag) /\ closed' = ClosedBy(flushed, "Kept")
              ELSE recorder' = Push(flushed, tag) /\ UNCHANGED closed
  <2>1. /\ RecorderIsInOrder(flushed, encoder) /\ flushed.phase = "Recording"
        /\ flushed.avc = r.avc /\ flushed.aac = r.aac /\ flushed.seen = r.seen
        /\ flushed.headerChange = r.headerChange
        /\ cut => flushed.pending = <<>>
        /\ ~cut => flushed.pending = r.pending
    BY <1>1, <1>6, <1>9, FlushKeepsOrder
  <2>2. /\ flushed \in Recorder /\ FileIsInOrder(flushed, encoder)
    BY <2>1 DEF RecorderIsInOrder
  <2>3. ClosedIsInOrder(ClosedBy(flushed, "Kept"))
    BY <1>1, <2>1, ClosingIsInOrder
  (* A keyframe finds nothing but audio pending.                            *)
  <2>4. ASSUME kind = "Key", NEW n \in 1 .. Len(flushed.pending)
        PROVE  /\ flushed.pending[n].kind = "Audio" /\ flushed.pending[n].content = flushed.aac
               /\ ~flushed.pending[n].inBand
    <3>1. ~cut /\ r.pending # <<>> /\ flushed.pending = r.pending
      BY <2>1, <2>4
    <3>2. ~HasVideo(r.pending)
      BY <3>1, <1>2, <2>4 DEF StartsNewGroup
    <3>3. flushed.pending[n].kind = "Audio"
      BY <3>1, <3>2 DEF HasVideo, IsVideo
    <3>4. ~flushed.headerChange
      BY <2>2, <3>1 DEF FileIsInOrder
    <3> QED
      BY <2>2, <3>3, <3>4 DEF FileIsInOrder, GroupIsOf
  <2> HIDE DEF flushed, cut
  <2>5. CASE cut /\ FlushReconnects(r)
    <3>1. EndWith(flushed, "Kept")
      BY <1>9, <2>5
    <3> QED
      BY <3>1, <2>1, <1>1, <1>4, EndingIsInOrder
  <2>6. CASE recorder' = Push(Rotated(flushed), tag) /\ closed' = ClosedBy(flushed, "Kept")
             /\ MustRotate(flushed, tag, timeUp)
    <3>1. kind = "Key"
      BY <1>2, <2>6 DEF MustRotate
    <3> DEFINE reset == IF flushed.headerChange
                        THEN [flushed EXCEPT !.history = <<>>, !.repeats = 0] ELSE flushed
               opened == OpenSegment(reset)
    <3>2. /\ reset \in Recorder /\ reset.avc = flushed.avc /\ reset.aac = flushed.aac
          /\ reset.seen = flushed.seen /\ reset.pending = flushed.pending
      <4>1. <<>> \in Seq(Seq(Tag))
        OBVIOUS
      <4> QED
        BY <4>1, <2>2 DEF Recorder
    <3> HIDE DEF reset
    <3>3. /\ opened \in Recorder /\ opened.phase = "Recording" /\ ~opened.headerChange
          /\ opened.avc = flushed.avc /\ opened.aac = flushed.aac
          /\ opened.seen = flushed.seen /\ opened.pending = flushed.pending
          /\ opened.file.avc = flushed.avc /\ opened.file.decoder = flushed.avc
          /\ opened.file.sets = "Known"
          /\ opened.file.aac = flushed.aac
          /\ opened.file.fits /\ opened.file.starts = "None"
      BY <3>2, OpeningFields
    <3>4. recorder' = Push(opened, tag)
      BY <2>6 DEF Rotated, reset
    <3> HIDE DEF opened
    <3>5. /\ tag.content = encoder' /\ encoder' = opened.avc
          /\ opened.avc # NoHeader /\ opened.aac # NoHeader
      BY <1>2, <1>3, <1>4, <2>1, <2>2, <3>1, <3>3 DEF FileIsInOrder
    <3>6. \A n \in 1 .. Len(opened.pending) :
             /\ opened.pending[n].kind = "Audio" /\ opened.pending[n].content = opened.aac
             /\ ~opened.pending[n].inBand
      BY <2>4, <3>1, <3>3
    <3>7. RecorderIsInOrder(Push(opened, tag), encoder')
      BY <1>2, <1>4, <3>1, <3>3, <3>5, <3>6, KeyframeIsInOrder
    <3> QED
      BY <3>4, <3>7, <2>3, <2>6, <1>4 DEF PipelineInv
  <2>7. CASE recorder' = Push(flushed, tag) /\ UNCHANGED closed
             /\ ~MustRotate(flushed, tag, timeUp)
    <3>1. ~flushed.headerChange
      BY <1>2, <1>9, <2>1, <2>7 DEF MustRotate, Dropped
    <3>2. /\ FileAwaits(flushed.file, flushed.pending, 0, encoder, flushed.avc)
          /\ flushed.aac = flushed.file.aac
          /\ LengthSize[flushed.avc] = LengthSize[flushed.file.avc]
          /\ flushed.avc # NoHeader /\ flushed.aac # NoHeader
      BY <2>2, <3>1 DEF FileIsInOrder
    <3>3. CASE kind = "Key"
      <4>1. /\ flushed.file.sets = "Known" => flushed.file.decoder = flushed.avc
            /\ flushed.file.fits /\ (flushed.file.starts = "Inter" => flushed.file.hidden)
        BY <3>2 DEF FileAwaits
      <4>2. tag.content = encoder' /\ encoder' = flushed.avc
        BY <1>2, <1>3, <1>4, <2>1, <3>3
      <4>3. RecorderIsInOrder(Push(flushed, tag), encoder')
        BY <1>2, <1>4, <2>1, <2>2, <2>4, <3>1, <3>2, <3>3, <4>1, <4>2, KeyframeIsInOrder
      <4> QED
        BY <4>3, <2>7, <1>1, <1>4 DEF PipelineInv
    <3>4. CASE kind # "Key"
      <4>1. RecorderIsInOrder(Push(flushed, tag), encoder)
        BY <1>1, <1>2, <1>3, <2>1, <3>1, <3>4, PushingIsInOrder
      <4> QED
        BY <4>1, <3>4, <2>7, <1>1, <1>4 DEF PipelineInv
    <3> QED
      BY <3>3, <3>4
  <2> QED
    BY <1>9, <2>5, <2>6, <2>7
<1> QED
  BY <1>5, <1>7, <1>8, <1>9

-----------------------------------------------------------------------------
LEMMA PipelineInvInit == PipelineInit => PipelineInv
<1> SUFFICES ASSUME PipelineInit PROVE PipelineInv
  OBVIOUS
<1>1. encoder \in Header
  BY DEF PipelineInit, Header
<1>2. ClosedIsInOrder(closed)
  BY DEF PipelineInit, NothingClosed, Closing, NoFile, ClosedIsInOrder
<1> QED
  BY <1>1, <1>2, FreshIsInOrder DEF PipelineInit, PipelineInv

LEMMA PipelineInvStep == PipelineInv /\ [PipelineNext]_pipelineVars => PipelineInv'
<1> SUFFICES ASSUME PipelineInv, [PipelineNext]_pipelineVars PROVE PipelineInv'
  OBVIOUS
<1>1. CASE ReceiveMetadata
  BY <1>1, MetadataIsInOrder
<1>2. ASSUME NEW avc \in AvcHeader, ReceiveAvcHeader(avc) PROVE PipelineInv'
  BY <1>2, AvcHeaderIsInOrder
<1>3. ASSUME NEW aac \in AacHeader, ReceiveAacHeader(aac) PROVE PipelineInv'
  BY <1>3, AacHeaderIsInOrder
<1>4. ASSUME NEW kind \in {"Key", "Inter", "Audio"}, NEW time \in Time,
             NEW inBand \in BOOLEAN, NEW timeUp \in BOOLEAN,
             ReceiveMedia(kind, time, inBand, timeUp)
      PROVE  PipelineInv'
  BY <1>4, MediaIsInOrder
<1>5. CASE RecordingFails
  BY <1>5, EndingIsInOrder DEF RecordingFails, PipelineInv
<1>6. CASE RecordingEnds
  BY <1>6, FlushKeepsOrder, EndingIsInOrder DEF RecordingEnds, PipelineInv
<1>7. CASE Connect
  <2>1. encoder' \in Header /\ recorder' = NewRecorder /\ closed' = closed
    BY <1>7 DEF Connect, Header
  <2> QED
    BY <2>1, FreshIsInOrder DEF PipelineInv
<1>8. CASE UNCHANGED pipelineVars
  BY <1>8 DEF pipelineVars, PipelineInv
<1> QED
  BY <1>1, <1>2, <1>3, <1>4, <1>5, <1>6, <1>7, <1>8 DEF PipelineNext

LEMMA PipelineInvAlways == PipelineSpec => []PipelineInv
BY PipelineInvInit, PipelineInvStep, PTL DEF PipelineSpec

LEMMA OrderKeepsPromises == PipelineInv => TagsFitTheirFile /\ OnlyARepeatHidesTheKeyframe
<1> SUFFICES ASSUME PipelineInv PROVE TagsFitTheirFile /\ OnlyARepeatHidesTheKeyframe
  OBVIOUS
<1>1. recorder.file.fits /\ (recorder.file.starts = "Inter" => recorder.file.hidden)
  <2>1. CASE recorder.phase = "Recording"
    BY <2>1 DEF PipelineInv, RecorderIsInOrder, FileIsInOrder, FileAwaits
  <2>2. CASE recorder.phase # "Recording"
    BY <2>2 DEF PipelineInv, RecorderIsInOrder, NoFile
  <2> QED
    BY <2>1, <2>2
<1> QED
  BY <1>1 DEF PipelineInv, ClosedIsInOrder, TagsFitTheirFile, OnlyARepeatHidesTheKeyframe

(* push_chunk and rotate_before_keyframe_if_needed: whatever a stream       *)
(* sends, and however it repeats itself, what a file holds can be decoded   *)
(* with the headers it begins with or with what its keyframes carry; but    *)
(* for what follows a keyframe dropped as a repeat, and a keyframe without  *)
(* parameter sets after a header taken over on the word of earlier ones,    *)
(* which are framed as the file's header says and no more.                  *)
THEOREM FilesCanBeDecoded == PipelineSpec => []TagsFitTheirFile
BY PipelineInvAlways, OrderKeepsPromises, PTL

(* A file begins with a keyframe, but for one whose keyframe was dropped    *)
(* with a repeated group (flush_pending_media_group).                       *)
THEOREM FilesBeginWithAKeyframe == PipelineSpec => []OnlyARepeatHidesTheKeyframe
BY PipelineInvAlways, OrderKeepsPromises, PTL

-----------------------------------------------------------------------------
(* The output clock, for every width of timestamps and every threshold.     *)
(* OffsetLeadsToWritten says what the offset means and is inductive; the    *)
(* two step properties follow from it by arithmetic.                        *)

ClockInv == ClockTypeOK /\ OffsetLeadsToWritten

(* AtMost and AtLeast bring a value into the range of timestamps.           *)
LEMMA ClampedIsTimestamp ==
    ASSUME NEW value \in Int
    PROVE  /\ AtMost(MaxTime, AtLeast(0, value)) \in Timestamp
           /\ value >= 0 => AtMost(MaxTime, AtLeast(0, value)) = AtMost(MaxTime, value)
           /\ value \in Timestamp => AtMost(MaxTime, AtLeast(0, value)) = value
BY ClockAssumption DEF AtMost, AtLeast, Timestamp

(* Where a tag is put is a frame after the latest one, never further.       *)
LEMMA RebasedIsBounded ==
    ASSUME ClockInv, NEW original \in Timestamp, NEW frame \in FrameDuration
    PROVE  /\ Rebased(original, frame) \in -MaxTime..MaxTime
           /\ IsJump(original) =>
                 /\ original - Rebased(original, frame) \in Timestamp
                 /\ original - Rebased(original, frame) >= clock.lastOutput
                 /\ original - Rebased(original, frame) <= clock.lastOutput + JumpThreshold
           /\ ~IsJump(original) => Rebased(original, frame) = clock.offset
<1>1. frame \in 0..JumpThreshold
  BY ClockAssumption DEF FrameDuration
<1>2. clock.lastOutput \in Timestamp /\ clock.offset \in -MaxTime..MaxTime
  BY DEF ClockInv, ClockTypeOK
<1>3. AtMost(MaxTime, clock.lastOutput + frame) \in clock.lastOutput..MaxTime
  BY <1>1, <1>2, ClockAssumption DEF AtMost, Timestamp
<1>4. AtMost(MaxTime, clock.lastOutput + frame) <= clock.lastOutput + JumpThreshold
  BY <1>1, <1>2, ClockAssumption DEF AtMost, Timestamp
<1> DEFINE target == AtMost(MaxTime, clock.lastOutput + frame)
<1>5. target \in Int /\ target >= clock.lastOutput /\ target <= MaxTime
         /\ target <= clock.lastOutput + JumpThreshold
  BY <1>2, <1>3, <1>4, ClockAssumption DEF Timestamp
<1>6. Rebased(original, frame) = IF IsJump(original) THEN original - target ELSE clock.offset
  BY DEF Rebased
<1> HIDE DEF target
<1> QED
  BY <1>2, <1>5, <1>6, ClockAssumption DEF Timestamp

(* What NextTag does to each field.                                         *)
LEMMA NextTagFields ==
    ASSUME ClockInv, NEW original \in Timestamp, NEW frame \in FrameDuration,
           NextTag(original, frame)
    PROVE  /\ clock.initialized /\ clock'.initialized
           /\ clock'.offset = Restarted(original, Rebased(original, frame))
           /\ clock'.lastOriginal = original
           /\ written' = AtMost(MaxTime, AtLeast(0, original - Rebased(original, frame)))
           /\ clock'.lastOutput = AtLeast(clock.lastOutput, written')
           /\ clock' \in [initialized : BOOLEAN, offset : {clock'.offset},
                          lastOriginal : {original}, lastOutput : {clock'.lastOutput}]
BY DEF NextTag, ClockInv, ClockTypeOK

LEMMA InitEstablishesClockInv == ClockInit => ClockInv
BY ClockAssumption
   DEF ClockInit, ClockInv, ClockTypeOK, OffsetLeadsToWritten, NewClock, Timestamp, AtMost

LEMMA NextTagKeepsClockInv ==
    ASSUME ClockInv, NEW original \in Timestamp, NEW frame \in FrameDuration,
           NextTag(original, frame)
    PROVE  ClockInv'
<1> DEFINE rebased == Rebased(original, frame)
<1>1. rebased \in -MaxTime..MaxTime
  BY RebasedIsBounded
<1>2. original \in Int /\ original >= 0 /\ original <= MaxTime /\ MaxTime \in Nat
  BY ClockAssumption DEF Timestamp
<1> HIDE DEF rebased
<1>3. Restarted(original, rebased) \in -MaxTime..MaxTime /\ Restarted(original, rebased) <= original
  BY <1>1, <1>2 DEF Restarted
<1>4. AtMost(MaxTime, AtLeast(0, original - rebased))
        = AtMost(MaxTime, original - Restarted(original, rebased))
  BY <1>1, <1>2 DEF Restarted, AtMost, AtLeast
<1>5. written' = AtMost(MaxTime, AtLeast(0, original - rebased))
  BY NextTagFields DEF rebased
<1>6. written' \in Timestamp
  BY <1>1, <1>2, <1>5, ClampedIsTimestamp
<1>7. clock.lastOutput \in Timestamp
  BY DEF ClockInv, ClockTypeOK
<1>8. clock'.lastOutput \in Timestamp /\ written' <= clock'.lastOutput
  <2>1. clock'.lastOutput = AtLeast(clock.lastOutput, written')
    BY NextTagFields
  <2> QED BY <2>1, <1>6, <1>7, <1>2 DEF AtLeast, Timestamp
<1>9. clock'.offset = Restarted(original, rebased) /\ clock'.lastOriginal = original
  BY NextTagFields DEF rebased
<1>10. ClockTypeOK'
  <2>1. clock' \in [initialized : BOOLEAN, offset : {clock'.offset},
                    lastOriginal : {original}, lastOutput : {clock'.lastOutput}]
    BY NextTagFields
  <2> QED BY <2>1, <1>3, <1>6, <1>8, <1>9 DEF ClockTypeOK, Timestamp
<1>11. OffsetLeadsToWritten'
  <2>1. clock'.initialized
    BY NextTagFields
  <2> QED BY <2>1, <1>3, <1>4, <1>5, <1>8, <1>9 DEF OffsetLeadsToWritten, AtMost
<1> QED
  BY <1>10, <1>11 DEF ClockInv

LEMMA NextKeepsClockInv == ClockInv /\ [ClockNext]_clockVars => ClockInv'
<1> SUFFICES ASSUME ClockInv, [ClockNext]_clockVars
             PROVE  ClockInv'
  OBVIOUS
<1>1. CASE StartFile
  BY <1>1, ClockAssumption
     DEF StartFile, ClockInv, ClockTypeOK, OffsetLeadsToWritten, NewClock, Timestamp, AtMost
<1>2. ASSUME NEW original \in Timestamp, FirstTag(original)
      PROVE  ClockInv'
  BY <1>2, ClockAssumption
     DEF FirstTag, ClockInv, ClockTypeOK, OffsetLeadsToWritten, Timestamp, AtMost
<1>3. ASSUME NEW original \in Timestamp, NEW frame \in FrameDuration,
             NextTag(original, frame)
      PROVE  ClockInv'
  BY <1>3, NextTagKeepsClockInv
<1>4. CASE UNCHANGED clockVars
  BY <1>4 DEF clockVars, ClockInv, ClockTypeOK, OffsetLeadsToWritten, AtMost
<1> QED
  BY <1>1, <1>2, <1>3, <1>4 DEF ClockNext, Normalize

LEMMA ClockInvIsInvariant == ClockSpec => []ClockInv
BY InitEstablishesClockInv, NextKeepsClockInv, PTL DEF ClockSpec

(* Whatever the server sends, the timestamps of a file stay in the 32-bit   *)
(* range (normalize).                                                       *)
THEOREM ClockTypeCorrect == ClockSpec => []ClockTypeOK
BY ClockInvIsInvariant, PTL DEF ClockInv

(* The offset takes the last raw timestamp to the last one written.         *)
THEOREM OffsetIsCorrect == ClockSpec => []OffsetLeadsToWritten
BY ClockInvIsInvariant, PTL DEF ClockInv

(* A tag never leaves a gap of more than the threshold behind it and never  *)
(* goes back by more (normalize, whose jumps are rebased).                  *)
THEOREM TimelineIsContinuous == ClockSpec => TimelineHasNoGaps
<1> DEFINE Step == clock'.initialized =>
                     /\ clock'.lastOutput <= clock.lastOutput + JumpThreshold
                     /\ written' >= written - JumpThreshold
<1>1. ASSUME ClockInv, NEW original \in Timestamp, FirstTag(original)
      PROVE  Step
  BY <1>1, ClockAssumption
     DEF FirstTag, ClockInv, ClockTypeOK, OffsetLeadsToWritten, Timestamp
<1>2. ASSUME ClockInv, NEW original \in Timestamp, NEW frame \in FrameDuration,
             NextTag(original, frame)
      PROVE  Step
  <2> DEFINE output == original - Rebased(original, frame)
  <2>1. /\ clock.lastOutput \in Timestamp /\ written \in Timestamp
        /\ clock.offset \in -MaxTime..MaxTime /\ clock.lastOriginal \in Timestamp
        /\ written <= clock.lastOutput
        /\ written = AtMost(MaxTime, clock.lastOriginal - clock.offset)
    BY <1>2 DEF ClockInv, ClockTypeOK, OffsetLeadsToWritten
  <2>2. /\ written' = AtMost(MaxTime, AtLeast(0, output))
        /\ clock'.lastOutput = AtLeast(clock.lastOutput, written')
    BY <1>2, NextTagFields DEF output
  <2>3. output \in Int
    BY <1>2, RebasedIsBounded, ClockAssumption DEF output, Timestamp
  <2>4. CASE IsJump(original)
    <3>1. output \in Timestamp /\ output >= clock.lastOutput
             /\ output <= clock.lastOutput + JumpThreshold
      BY <1>2, <2>4, RebasedIsBounded DEF output
    <3> HIDE DEF output
    <3>2. written' = output
      BY <2>2, <3>1, <2>3, ClampedIsTimestamp
    <3> QED BY <3>1, <3>2, <2>1, <2>2, ClockAssumption DEF AtLeast, Timestamp
  <2>5. CASE ~IsJump(original)
    <3>1. output = original - clock.offset
      BY <1>2, <2>5, RebasedIsBounded DEF output
    <3>2. original - clock.lastOriginal >= -JumpThreshold
             /\ original - clock.lastOriginal <= JumpThreshold
      BY <2>5 DEF IsJump
    <3> HIDE DEF output
    <3>3. /\ output <= (clock.lastOriginal - clock.offset) + JumpThreshold
          /\ output >= (clock.lastOriginal - clock.offset) - JumpThreshold
      BY <3>1, <3>2, <2>1, <1>2, ClockAssumption DEF Timestamp
    <3>4. written' >= written - JumpThreshold
      BY <3>3, <2>1, <2>2, <2>3, ClockAssumption DEF AtMost, AtLeast, Timestamp
    <3>5. written' <= written + JumpThreshold
      BY <3>3, <2>1, <2>2, <2>3, ClockAssumption DEF AtMost, AtLeast, Timestamp
    <3>6. written' \in Timestamp
      BY <2>2, <2>3, ClampedIsTimestamp
    <3> QED BY <3>4, <3>5, <3>6, <2>1, <2>2, ClockAssumption DEF AtLeast, Timestamp
  <2> QED BY <2>4, <2>5
<1>3. ASSUME StartFile
      PROVE  Step
  BY <1>3 DEF StartFile, NewClock
<1>4. ClockInv /\ [ClockNext]_clockVars => [Step]_clockVars
  BY <1>1, <1>2, <1>3 DEF ClockNext, Normalize
<1> QED
  BY <1>4, ClockInvIsInvariant, PTL DEF ClockSpec, TimelineHasNoGaps

(* Between jumps the output keeps the server's distances (normalize, whose  *)
(* offset survives every jump before).                                      *)
THEOREM TimelineDoesNotDrift == ClockSpec => SmallStepsAreKept
<1> DEFINE Step == clock.initialized /\ clock'.initialized =>
                     LET diff == clock'.lastOriginal - clock.lastOriginal
                     IN (/\ -JumpThreshold <= diff /\ diff <= JumpThreshold
                         /\ written < MaxTime /\ written + diff \in Timestamp)
                        => written' = written + diff
<1>1. ASSUME ClockInv, NEW original \in Timestamp, NEW frame \in FrameDuration,
             NextTag(original, frame), ~IsJump(original), written < MaxTime,
             written + (original - clock.lastOriginal) \in Timestamp
      PROVE  written' = written + (original - clock.lastOriginal)
  <2>1. /\ clock.offset \in -MaxTime..MaxTime /\ clock.lastOriginal \in Timestamp
        /\ written = AtMost(MaxTime, clock.lastOriginal - clock.offset)
    BY <1>1 DEF ClockInv, ClockTypeOK, OffsetLeadsToWritten
  <2>2. written = clock.lastOriginal - clock.offset
    BY <2>1, <1>1, ClockAssumption DEF AtMost, Timestamp
  <2>3. original - clock.offset = written + (original - clock.lastOriginal)
    BY <2>1, <2>2, <1>1, ClockAssumption DEF Timestamp
  <2>4. written' = AtMost(MaxTime, AtLeast(0, original - clock.offset))
    <3>1. Rebased(original, frame) = clock.offset
      BY <1>1, RebasedIsBounded
    <3> QED BY <3>1, <1>1, NextTagFields
  <2>5. original - clock.offset \in Int
    BY <2>1, <1>1, ClockAssumption DEF Timestamp
  <2> QED BY <2>3, <2>4, <2>5, <1>1, ClampedIsTimestamp
<1>2. ASSUME ClockInv, NEW original \in Timestamp, NEW frame \in FrameDuration,
             NextTag(original, frame)
      PROVE  Step
  BY <1>1, <1>2, NextTagFields DEF IsJump
<1>3. ClockInv /\ [ClockNext]_clockVars => [Step]_clockVars
  BY <1>2 DEF ClockNext, Normalize, FirstTag, StartFile, NewClock
<1> QED
  BY <1>3, ClockInvIsInvariant, PTL DEF ClockSpec, SmallStepsAreKept
=============================================================================
