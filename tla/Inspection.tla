----------------------------- MODULE Inspection -----------------------------
(***************************************************************************)
(* What `status` reports of the store (src/state/inspection.rs): a set of   *)
(* anomalies, each with the next step it advises, read from one snapshot of *)
(* the rows and from what the two names of a segment hold.  It changes      *)
(* nothing; `run` has the database to itself, so it is read between runs.   *)
(*                                                                         *)
(* An advice is "Run" (restart the program), the `recover` command named,   *)
(* or "Repair" (by hand, with no command for it).                           *)
(***************************************************************************)
EXTENDS DurableState

Anomaly(kind, advice, s, i) ==
    [kind |-> kind, advice |-> advice, session |-> s, segment |-> i]

If(condition, anomaly) == IF condition THEN {anomaly} ELSE {}
Found(kind, advice) == [kind |-> kind, advice |-> advice]

-----------------------------------------------------------------------------
(* Rows *)

SessionAnomalies(s) ==
    LET Reported(kind, advice) == Anomaly(kind, advice, s, 0) IN
    CASE lifecycle[s] = "Open" ->
            {IF OwnsRoom(s) THEN Reported("OpenSession", "Run")
             ELSE Reported("RoomOwnershipMismatch", "Run")}
      [] lifecycle[s] = "RecoveryRequired" ->
            {Reported("SessionRecoveryRequired", "RecoverRecording")}
            \cup If(room[RoomOf[s]] # Blocked(s),
                    Reported("RoomOwnershipMismatch", "Repair"))
      [] OTHER -> {}

RoomAnomalies(r) ==
    LET s == room[r].session
        valid == \/ room[r].phase = "Ready"
                 \/ /\ RoomOf[s] = r
                    /\ \/ room[r].phase = "Owned" /\ lifecycle[s] = "Open"
                       \/ room[r].phase = "Blocked" /\ lifecycle[s] = "RecoveryRequired"
    IN If(~valid, Anomaly("RoomOwnershipMismatch", "Repair", s, 0))

(* inspect_upload: which upload states go with which artifacts.             *)
Disposed == {"Discarding", "Filtered", "Excluded"}

UploadIsValid(x) ==
    LET up == upload[x].state  art == artifact[x] IN
    IF ~HasPlan(x[1]) THEN up = "NotPlanned"
    ELSE CASE up = "NotPlanned" -> art \in Disposed
           [] up = "Uploaded"   -> IsUsable(art)
           [] OTHER             -> art \notin Disposed \cup {"Deleting", "Deleted"}

UploadWaits ==
    [Attempting |-> Found("InterruptedUpload", "Run"),
     Ambiguous  |-> Found("AmbiguousUpload", "RecoverUpload"),
     Blocked    |-> Found("BlockedUpload", "RecoverUpload")]

SubmissionWaits ==
    [Attempting |-> Found("InterruptedSubmission", "Run"),
     Ambiguous  |-> Found("AmbiguousSubmission", "RecoverSubmission"),
     Blocked    |-> Found("BlockedSubmission", "RecoverSubmission")]

(* The report on a row that waits for a restart or for an operator.         *)
Waiting(waits, state, s, i) ==
    {Anomaly(waits[st].kind, waits[st].advice, s, i) : st \in DOMAIN waits \cap {state}}

UploadAnomalies(x) ==
    If(~UploadIsValid(x), Anomaly("InvalidUploadState", "Repair", x[1], x[2]))
    \cup Waiting(UploadWaits, upload[x].state, x[1], x[2])

SubmissionAnomalies(s) ==
    LET valid == HasPlan(s) /\ PermitsSubmission(lifecycle[s])
    IN If(HasSubmission(s) /\ ~Exists(s), Anomaly("OrphanSubmission", "Repair", s, 0))
       \cup If(HasSubmission(s) /\ Exists(s) /\ ~valid,
               Anomaly("InvalidSubmissionState", "Repair", s, 0))
       \cup Waiting(SubmissionWaits, submission[s].state, s, 0)

TargetAnomalies(t) ==
    LET owner == gate[t].owner
        advice == IF owner.kind = "Upload" THEN "RecoverUpload" ELSE "RecoverSubmission"
    IN CASE gate[t].phase = "Ready"   -> {}
         [] gate[t].phase = "Backoff" ->
               {Anomaly("UploadTargetBackoff", "Run", owner.session, owner.segment)}
         [] gate[t].phase = "Blocked" ->
               {Anomaly("UploadTargetBlocked", advice, owner.session, owner.segment)}

-----------------------------------------------------------------------------
(* Files: what symlink_metadata says of a name.                             *)

FilePresence == {"Missing", "RegularFile", "Other"}
Present(presence) == presence # "Missing"

Interrupted == Found("InterruptedSegment", "Run")

(* inspect_segment_files, on the artifact state and its two names.          *)
FileAnomalies(art, part, final) ==
    CASE art = "Writing" ->
            {Interrupted} \cup If(Present(final), Found("FinalizationConflict", "Repair"))
      [] art = "Finalizing" ->
            {CASE "Other" \in {part, final} -> Found("FinalizationConflict", "Repair")
               [] part = final /\ part = "RegularFile" ->
                     Found("FinalizationConflict", "RecoverSegment")
               [] part = final /\ part = "Missing" ->
                     Found("MissingSegmentFile", "RecoverRecording")
               [] OTHER -> Interrupted}
      [] art \in ResolvingConflict -> {Found("ArtifactResolutionPending", "Run")}
      [] art = "Discarding" ->
            {CASE Present(final) /\ "Other" \notin {part, final} ->
                     Found("DiscardConflict", "RecoverSegment")
               [] ~Present(final) /\ part # "Other" -> Interrupted
               [] OTHER -> Found("DiscardConflict", "Repair")}
      [] art = "Ready" ->
            If(final # "RegularFile", Found("MissingSegmentFile", "RecoverRecording"))
            \cup If(Present(part), Found("UnexpectedSegmentFile", "Repair"))
      [] art \in {"Filtered", "Deleted"} ->
            If(Present(part) \/ Present(final), Found("UnexpectedSegmentFile", "Repair"))
      [] art = "Failed" -> {Found("FailedSegment", "RecoverRecording")}
      [] art = "Deleting" ->
            {Interrupted} \cup If(final = "Other", Found("DeletionConflict", "Repair"))
                          \cup If(Present(part), Found("UnexpectedSegmentFile", "Repair"))
      [] art \in {"Absent", "Excluded"} -> {}

(* What is said of a Failed segment does not depend on its files.           *)
FailedAnomalies(x) ==
    IF artifact[x] = "Failed"
    THEN {Anomaly(a.kind, a.advice, x[1], x[2]) : a \in FileAnomalies("Failed", "Missing", "Missing")}
    ELSE {}

OrphanAnomalies(x) ==
    If(HasSegment(x) /\ ~Exists(x[1]), Anomaly("OrphanSegment", "Repair", x[1], x[2]))

(* detect_anomalies, but for what depends on files. *)
Report ==
    UNION ({SessionAnomalies(s) \cup SubmissionAnomalies(s) : s \in Session}
           \cup {RoomAnomalies(r) : r \in Room}
           \cup {UploadAnomalies(x) \cup FailedAnomalies(x) \cup OrphanAnomalies(x) :
                     x \in {y \in Slot : HasSegment(y)}}
           \cup {TargetAnomalies(t) : t \in Target})

-----------------------------------------------------------------------------
(* The alarms that ask for a repair by hand are never raised by what the    *)
(* program itself did, crashes included. One is: a discard that was         *)
(* interrupted keeps its upload until the file is gone, which the report    *)
(* calls an invalid state.                                                  *)
AlarmsMeanDamage ==
    phase = "Stopped" =>
        \A a \in Report :
            /\ a.kind # "RoomOwnershipMismatch"
            /\ a.advice = "Repair" =>
                  /\ a.kind = "InvalidUploadState"
                  /\ artifact[<<a.session, a.segment>>] = "Discarding"

(* A finished recording on its way to being published: the next runs will   *)
(* go on with it, or the report says what an operator has to do about it.   *)
GoesOn(s) ==
    /\ gate[TargetOf[s]].phase # "Blocked"
    /\ \/ /\ ~HasSubmission(s)
          /\ \E x \in SlotsOf(s) : artifact[x] = "Ready" /\ upload[x].state = "Pending"
       \/ /\ submission[s].state \in {"Absent", "RetryScheduled", "RetryAuthorized"}
          /\ SubmissionPartsReady(s)

NothingWaitsSilently ==
    \A s \in Session :
        phase = "Stopped" /\ lifecycle[s] = "Completed" /\ HasPlan(s)
            /\ submission[s].state # "Submitted" /\ ~GoesOn(s) =>
        \E a \in Report :
            /\ a.advice # "Repair" /\ a.session \in Session
            /\ TargetOf[a.session] = TargetOf[s]

(* The `recover` commands.                                                  *)
Recover(a) ==
    LET s == a.session  x == <<a.session, a.segment>> IN
    CASE a.advice = "RecoverRecording"  ->
            CloseAbandon(s) \/ \E excludeFailed \in BOOLEAN : CloseRecover(s, excludeFailed)
      [] a.advice = "RecoverUpload"     -> \E happened \in BOOLEAN : ResolveUpload(x, happened)
      [] a.advice = "RecoverSubmission" ->
            \E happened \in BOOLEAN : ResolveSubmission(s, happened)
      [] OTHER -> TRUE

(* Startup settles a session's artifacts first; then the command that       *)
(* status gives for an anomaly is one the store accepts, whichever rows led *)
(* to it. One advice is refused for ever: to recover the recording of an    *)
(* abandoned session, which keeps its Failed segments and is closed.        *)
AdviceIsAccepted ==
    phase = "Stopped" =>
        \A a \in Report :
            a.session \in Session /\ ~HasIntent(a.session) =>
                \/ ENABLED Recover(a)
                \/ a.kind = "FailedSegment" /\ lifecycle[a.session] = "Abandoned"
=============================================================================
