-------------------------- MODULE StateTransitions --------------------------
(***************************************************************************)
(* The durable store of bilive-rec and its domain transitions               *)
(* (src/state/transitions.rs): one action per function, each of them one    *)
(* redb write transaction.  A function that returns an error aborts its     *)
(* transaction, so the error paths are the states where the action is not   *)
(* enabled.  Who may call which transition, and when, is DurableState.      *)
(*                                                                         *)
(* An operator named X_Y is X with a plausible slip Y in it; nothing here   *)
(* uses it. The runs are repeated with X replaced by X_Y to show that the   *)
(* properties notice.                                                       *)
(***************************************************************************)
EXTENDS StateModel

VARIABLES
    lifecycle,              \* session -> its lifecycle
    room,                   \* room -> its ownership row
    artifact,               \* segment -> state of its local file
    upload,                 \* segment -> state of its upload
    uploadAttempts,         \* segment -> outcomes of its upload attempts, in order
    uploadResolutions,      \* segment -> operator decisions about them
    submission,             \* session -> its submission row
    submissionAttempts,     \* session -> outcomes of its submission attempts
    submissionResolutions,  \* session -> operator decisions about them
    gate                    \* target -> its upload gate

recordingVars == <<lifecycle, room, artifact>>
uploadVars == <<upload, uploadAttempts, uploadResolutions>>
submissionVars == <<submission, submissionAttempts, submissionResolutions>>
storeVars == <<recordingVars, uploadVars, submissionVars, gate>>

StoreInit ==
    /\ lifecycle = [s \in Session |-> "Absent"]
    /\ room = [r \in Room |-> RoomReady]
    /\ artifact = [x \in Slot |-> "Absent"]
    /\ upload = [x \in Slot |-> UploadIs("NotPlanned")]
    /\ uploadAttempts = [x \in Slot |-> <<>>]
    /\ uploadResolutions = [x \in Slot |-> {}]
    /\ submission = [s \in Session |-> SubmissionIs("Absent")]
    /\ submissionAttempts = [s \in Session |-> <<>>]
    /\ submissionResolutions = [s \in Session |-> {}]
    /\ gate = [t \in Target |-> GateReady]

SlotsOf(s) == {s} \X Index
HasPlan(s) == TargetOf[s] # NoTarget
Exists(s) == lifecycle[s] # "Absent"
IsOpen(s) == lifecycle[s] \in {"Open", "RecoveryRequired"}
HasSegment(x) == artifact[x] # "Absent"
HasSubmission(s) == submission[s].state # "Absent"
HasIntent_WritingOnly(s) == \E x \in SlotsOf(s) : artifact[x] = "Writing"
HasIntent(s) == \E x \in SlotsOf(s) : artifact[x] \in UnresolvedIntent
HasFailed(s) == \E x \in SlotsOf(s) : artifact[x] = "Failed"
HasUsable(s) == \E x \in SlotsOf(s) : IsUsable(artifact[x])

-----------------------------------------------------------------------------
(* Room ownership *)

OwnsRoom(s) == room[RoomOf[s]] = Owned(s)

(* require_or_claim_recovery_owner: a session that is not closed takes its  *)
(* room when nobody has it, in the phase its lifecycle asks for, and never  *)
(* from another session.                                                    *)
MayClaimRoom(s) == IsOpen(s) /\ room[RoomOf[s]].session \in {s, NoSession}

RoomRowFor_Owned(s) == Owned(s)
RoomRowFor(s) == IF lifecycle[s] = "Open" THEN Owned(s) ELSE Blocked(s)

SetRoom(s, row) == room' = [room EXCEPT ![RoomOf[s]] = row]
SetLifecycle(s, life) == lifecycle' = [lifecycle EXCEPT ![s] = life]
SetArtifact(x, art) == artifact' = [artifact EXCEPT ![x] = art]
SetUpload(x, up) == upload' = [upload EXCEPT ![x] = up]

RoomFree(s) ==
    /\ room[RoomOf[s]].phase = "Ready"
    /\ \A other \in Session : RoomOf[other] = RoomOf[s] => ~IsOpen(other)

CreateSession(s) ==
    /\ ~Exists(s)
    /\ RoomFree(s)
    /\ SetLifecycle(s, "Open")
    /\ SetRoom(s, Owned(s))
    /\ UNCHANGED <<artifact, uploadVars, submissionVars, gate>>

(* The lifecycle and room half of fail_artifact, require_recovery and a     *)
(* natural close that finds unfinished business.                            *)
MarkRecoveryRequired(s) ==
    /\ SetLifecycle(s, "RecoveryRequired")
    /\ SetRoom(s, Blocked(s))

RequireRecovery(s) ==
    /\ MayClaimRoom(s)
    /\ MarkRecoveryRequired(s)
    /\ UNCHANGED <<artifact, uploadVars, submissionVars, gate>>

-----------------------------------------------------------------------------
(* Artifacts *)

OpenSegment(x) ==
    LET s == x[1] IN
    /\ lifecycle[s] = "Open" /\ OwnsRoom(s)
    /\ ~HasSegment(x)
    /\ \A i \in 1..(x[2] - 1) : HasSegment(<<s, i>>)
    /\ SetArtifact(x, "Writing")
    /\ SetUpload(x, IF HasPlan(s) THEN Pending(TRUE) ELSE UploadIs("NotPlanned"))
    /\ UNCHANGED <<lifecycle, room, uploadAttempts, uploadResolutions,
                   submissionVars, gate>>

(* begin_artifact_finalization and begin_artifact_discard: the intent is    *)
(* durable before the file is touched.                                      *)
BeginArtifact(x, intent) ==
    /\ lifecycle[x[1]] = "Open" /\ OwnsRoom(x[1])
    /\ artifact[x] = "Writing"
    /\ SetArtifact(x, intent)
    /\ UNCHANGED <<lifecycle, room, uploadVars, submissionVars, gate>>

BeginArtifactFinalization(x) == BeginArtifact(x, "Finalizing")
BeginArtifactDiscard(x) == BeginArtifact(x, "Discarding")

(* update_recording_artifact without require_open.                          *)
CompleteArtifact(x, from, to) ==
    /\ MayClaimRoom(x[1])
    /\ artifact[x] \in from
    /\ SetArtifact(x, to)
    /\ SetRoom(x[1], RoomRowFor(x[1]))
    /\ UNCHANGED <<lifecycle, uploadAttempts, uploadResolutions, submissionVars, gate>>

CompleteArtifactFinalization(x) ==
    CompleteArtifact(x, {"Finalizing"}, "Ready") /\ UNCHANGED upload

CompleteArtifactDiscard_KeepsUpload(x) ==
    CompleteArtifact(x, {"Discarding"}, "Filtered") /\ UNCHANGED upload

CompleteArtifactDiscard(x) ==
    /\ CompleteArtifact(x, {"Discarding"}, "Filtered")
    /\ SetUpload(x, UploadIs("NotPlanned"))

BeginArtifactConflictResolution(x, decision) ==
    /\ lifecycle[x[1]] = "RecoveryRequired" /\ MayClaimRoom(x[1])
    /\ artifact[x] \in {"Finalizing", "Discarding"}
    /\ SetArtifact(x, Resolving[decision])
    /\ SetRoom(x[1], Blocked(x[1]))
    /\ UNCHANGED <<lifecycle, uploadVars, submissionVars, gate>>

CompleteArtifactConflictResolution(x) ==
    /\ CompleteArtifact(x, {Resolving["KeepPart"], Resolving["KeepFinal"]}, "Ready")
    /\ UNCHANGED upload

ExcludeArtifactConflict(x) ==
    /\ CompleteArtifact(x, {Resolving["Exclude"]}, "Excluded")
    /\ SetUpload(x, UploadIs("NotPlanned"))

FailArtifact_OpenOnly(x) ==
    /\ lifecycle[x[1]] = "Open" /\ OwnsRoom(x[1])
    /\ artifact[x] \in {"Writing", "Finalizing", "Discarding"} \cup ResolvingConflict
    /\ SetArtifact(x, "Failed")
    /\ MarkRecoveryRequired(x[1])
    /\ UNCHANGED <<uploadVars, submissionVars, gate>>

FailArtifact(x) ==
    /\ MayClaimRoom(x[1])
    /\ artifact[x] \in {"Writing", "Finalizing", "Discarding"} \cup ResolvingConflict
    /\ SetArtifact(x, "Failed")
    /\ MarkRecoveryRequired(x[1])
    /\ UNCHANGED <<uploadVars, submissionVars, gate>>

MayDelete_Unsubmitted(x) ==
    /\ PermitsSubmission(lifecycle[x[1]]) /\ x[1] \in DeleteAfterSubmit
    /\ artifact[x] = "Ready" /\ upload[x].state = "Uploaded"

MayDelete(x) ==
    /\ PermitsSubmission(lifecycle[x[1]])
    /\ HasPlan(x[1]) /\ x[1] \in DeleteAfterSubmit
    /\ submission[x[1]].state = "Submitted"
    /\ artifact[x] = "Ready" /\ upload[x].state = "Uploaded"

BeginArtifactDelete(x) ==
    /\ MayDelete(x)
    /\ SetArtifact(x, "Deleting")
    /\ UNCHANGED <<lifecycle, room, uploadVars, submissionVars, gate>>

CompleteArtifactDelete(x) ==
    /\ artifact[x] = "Deleting"
    /\ SetArtifact(x, "Deleted")
    /\ UNCHANGED <<lifecycle, room, uploadVars, submissionVars, gate>>

-----------------------------------------------------------------------------
(* Closing a session *)

Closure_AnySegment(s) ==
    IF \E x \in SlotsOf(s) : HasSegment(x) THEN "Completed" ELSE "NoUsableRecording"
Closure(s) == IF HasUsable(s) THEN "Completed" ELSE "NoUsableRecording"

NeedsAttention(s) == HasIntent(s) \/ HasFailed(s)

CloseNatural(s) ==
    /\ lifecycle[s] = "Open" /\ OwnsRoom(s)
    /\ \/ /\ NeedsAttention(s)
          /\ MarkRecoveryRequired(s)
       \/ /\ ~NeedsAttention(s)
          /\ SetLifecycle(s, Closure(s))
          /\ SetRoom(s, RoomReady)
    /\ UNCHANGED <<artifact, uploadVars, submissionVars, gate>>

(* Recover { exclude_failed }: Failed segments must be given up explicitly. *)
CloseRecover(s, excludeFailed) ==
    LET excluded == {x \in SlotsOf(s) : excludeFailed /\ artifact[x] = "Failed"}
    IN
    /\ lifecycle[s] = "RecoveryRequired" /\ MayClaimRoom(s)
    /\ ~HasIntent(s)
    /\ HasFailed(s) => excludeFailed
    /\ artifact' = [x \in Slot |-> IF x \in excluded THEN "Excluded" ELSE artifact[x]]
    /\ upload' = [x \in Slot |->
                    IF x \in excluded THEN UploadIs("NotPlanned") ELSE upload[x]]
    /\ SetLifecycle(s, Closure(s))
    /\ SetRoom(s, RoomReady)
    /\ UNCHANGED <<uploadAttempts, uploadResolutions, submissionVars, gate>>

OwnsBlockedGate_Never(s) == FALSE

OwnsBlockedGate(s) ==
    HasPlan(s) /\ gate[TargetOf[s]].phase = "Blocked"
               /\ gate[TargetOf[s]].owner.session = s

(* abandon_upload: an attempt in flight may have reached the remote, so it  *)
(* stays open to a resolution; what was never sent is cancelled.            *)
AbandonUpload(up) ==
    CASE up.state = "Attempting" -> UploadOf("Ambiguous", up.attempt)
      [] up.state \in {"Pending", "Blocked"} -> UploadIs("Cancelled")
      [] OTHER -> up

(* finish_unfinished_upload_as_ambiguous and its submission twin.           *)
FinishAsAmbiguous_Skipped(history, n) == history
FinishAsAmbiguous_Always(history, n) == [history EXCEPT ![n] = "Ambiguous"]

FinishAsAmbiguous(history, n) ==
    IF n \in 1..Len(history) /\ history[n] = "Unfinished"
    THEN [history EXCEPT ![n] = "Ambiguous"]
    ELSE history

CloseAbandon(s) ==
    /\ MayClaimRoom(s)
    /\ ~HasSubmission(s)
    /\ ~OwnsBlockedGate(s)
    /\ ~HasIntent(s)
    /\ upload' = [x \in Slot |->
          IF x[1] = s THEN AbandonUpload(upload[x]) ELSE upload[x]]
    /\ uploadAttempts' = [x \in Slot |->
          IF x[1] = s /\ upload[x].state = "Attempting"
          THEN FinishAsAmbiguous(uploadAttempts[x], upload[x].attempt)
          ELSE uploadAttempts[x]]
    /\ SetLifecycle(s, "Abandoned")
    /\ SetRoom(s, RoomReady)
    /\ UNCHANGED <<artifact, uploadResolutions, submissionVars, gate>>

-----------------------------------------------------------------------------
(* Upload-target gates *)

SetGate(t, g) == gate' = [gate EXCEPT ![t] = g]

(* consume_target_ready: a due backoff is consumed by the next attempt.     *)
TargetReady(t) ==
    gate[t].phase = "Ready" \/ (gate[t].phase = "Backoff" /\ gate[t].due)

ConsumeTargetReady(t) == TargetReady(t) /\ SetGate(t, GateReady)

ClearGateIfOwner_Any(t, owner) == SetGate(t, GateReady)

ClearGateIfOwner(t, owner) ==
    SetGate(t, IF gate[t].phase # "Ready" /\ gate[t].owner = owner
               THEN GateReady ELSE gate[t])

(* AttemptTargetGate: a failure concerns this item only, or its target.     *)
Scope == {"Item", "Target"}

BackOffTarget(t, owner, scope) ==
    SetGate(t, IF scope = "Target" THEN GateBackoff(owner, FALSE) ELSE gate[t])
BlockTarget(t, owner, scope) ==
    SetGate(t, IF scope = "Target" THEN GateBlocked(owner) ELSE gate[t])

-----------------------------------------------------------------------------
(* Uploads. A history's length is the number of its latest attempt.         *)

MayUpload(x) ==
    /\ PermitsUpload(lifecycle[x[1]]) /\ HasPlan(x[1])
    /\ ~HasSubmission(x[1])
    /\ artifact[x] = "Ready"
    /\ upload[x].state = "Pending" /\ upload[x].due

BeginUpload_OtherId(x) ==
    LET n == Len(uploadAttempts[x]) + 1 IN
    /\ n <= MaxAttempts
    /\ MayUpload(x)
    /\ ConsumeTargetReady(TargetOf[x[1]])
    /\ uploadAttempts' = [uploadAttempts EXCEPT ![x] = Append(@, "Unfinished")]
    /\ SetUpload(x, UploadOf("Attempting", n + 1))
    /\ UNCHANGED <<recordingVars, uploadResolutions, submissionVars>>

BeginUpload(x) ==
    LET n == Len(uploadAttempts[x]) + 1 IN
    /\ n <= MaxAttempts
    /\ MayUpload(x)
    /\ ConsumeTargetReady(TargetOf[x[1]])
    /\ uploadAttempts' = [uploadAttempts EXCEPT ![x] = Append(@, "Unfinished")]
    /\ SetUpload(x, UploadOf("Attempting", n))
    /\ UNCHANGED <<recordingVars, uploadResolutions, submissionVars>>

(* finish_upload_history for the attempt the segment's state names.         *)
FinishUpload(x, outcome, up) ==
    LET n == upload[x].attempt IN
    /\ upload[x].state = "Attempting"
    /\ n \in 1..Len(uploadAttempts[x]) /\ uploadAttempts[x][n] = "Unfinished"
    /\ uploadAttempts' = [uploadAttempts EXCEPT ![x][n] = outcome]
    /\ SetUpload(x, up)
    /\ UNCHANGED <<recordingVars, uploadResolutions, submissionVars>>

CurrentUploadRef(x) == UploadRef(x[1], x[2], upload[x].attempt)

CompleteUpload(x) ==
    FinishUpload(x, "Confirmed", UploadIs("Uploaded")) /\ UNCHANGED gate

ScheduleUploadRetry(x, scope) ==
    /\ HasPlan(x[1])
    /\ FinishUpload(x, "RetryScheduled", Pending(FALSE))
    /\ BackOffTarget(TargetOf[x[1]], CurrentUploadRef(x), scope)

BlockUpload(x, scope) ==
    /\ HasPlan(x[1])
    /\ FinishUpload(x, "Blocked", UploadOf("Blocked", upload[x].attempt))
    /\ BlockTarget(TargetOf[x[1]], CurrentUploadRef(x), scope)

MarkUploadAmbiguous_Retried(x) ==
    /\ HasPlan(x[1])
    /\ FinishUpload(x, "Ambiguous", Pending(TRUE))
    /\ UNCHANGED gate

MarkUploadAmbiguous(x) ==
    /\ HasPlan(x[1])
    /\ FinishUpload(x, "Ambiguous", UploadOf("Ambiguous", upload[x].attempt))
    /\ UNCHANGED gate

Recoverable(row) == row.state \in {"Attempting", "Ambiguous", "Blocked"}

(* Where resolve_upload_not_uploaded leaves the segment.                    *)
NotUploadedState_Closed(s) ==
    IF lifecycle[s] \in Closed THEN UploadIs("Cancelled") ELSE Pending(TRUE)

NotUploadedState(s) ==
    IF lifecycle[s] \in {"Abandoned", "NoUsableRecording"}
    THEN UploadIs("Cancelled") ELSE Pending(TRUE)

ResolveUpload(x, happened) ==
    LET s == x[1]  n == upload[x].attempt IN
    /\ HasPlan(s)
    /\ ~HasSubmission(s)
    /\ Recoverable(upload[x])
    /\ uploadAttempts' = [uploadAttempts EXCEPT ![x] = FinishAsAmbiguous(@, n)]
    /\ uploadResolutions' = [uploadResolutions EXCEPT
                               ![x] = @ \cup {[attempt |-> n, happened |-> happened]}]
    /\ SetUpload(x, IF happened THEN UploadIs("Uploaded") ELSE NotUploadedState(s))
    /\ ClearGateIfOwner(TargetOf[s], UploadRef(s, x[2], n))
    /\ UNCHANGED <<recordingVars, submissionVars>>

-----------------------------------------------------------------------------
(* Submissions *)

(* A segment that a submission may skip, or one it can list.                *)
IsSkipped(x) == artifact[x] \in {"Absent", "Filtered", "Excluded"}
IsPart(x) == IsUsable(artifact[x]) /\ upload[x].state = "Uploaded"

SubmissionPartsReady(s) ==
    /\ \A x \in SlotsOf(s) : IsSkipped(x) \/ IsPart(x)
    /\ \E x \in SlotsOf(s) : IsPart(x)

MaySubmit(s) ==
    \/ submission[s].state \in {"Absent", "RetryAuthorized"}
    \/ submission[s].state = "RetryScheduled" /\ submission[s].due

SetSubmission(s, row) == submission' = [submission EXCEPT ![s] = row]

BeginSubmission(s) ==
    LET n == Len(submissionAttempts[s]) + 1 IN
    /\ n <= MaxAttempts
    /\ PermitsSubmission(lifecycle[s]) /\ HasPlan(s)
    /\ ConsumeTargetReady(TargetOf[s])
    /\ SubmissionPartsReady(s)
    /\ MaySubmit(s)
    /\ submissionAttempts' = [submissionAttempts EXCEPT ![s] = Append(@, "Unfinished")]
    /\ SetSubmission(s, SubmissionOf("Attempting", n))
    /\ UNCHANGED <<recordingVars, uploadVars, submissionResolutions>>

FinishSubmission(s, outcome, row) ==
    LET n == submission[s].attempt IN
    /\ submission[s].state = "Attempting"
    /\ n \in 1..Len(submissionAttempts[s]) /\ submissionAttempts[s][n] = "Unfinished"
    /\ submissionAttempts' = [submissionAttempts EXCEPT ![s][n] = outcome]
    /\ SetSubmission(s, row)
    /\ UNCHANGED <<recordingVars, uploadVars, submissionResolutions>>

CurrentSubmissionRef(s) == SubmissionRef(s, submission[s].attempt)

CompleteSubmission(s) ==
    FinishSubmission(s, "Confirmed", SubmissionIs("Submitted")) /\ UNCHANGED gate

ScheduleSubmissionRetry(s, scope) ==
    /\ HasPlan(s)
    /\ FinishSubmission(s, "RetryScheduled", RetryScheduled(FALSE))
    /\ BackOffTarget(TargetOf[s], CurrentSubmissionRef(s), scope)

BlockSubmission(s, scope) ==
    /\ HasPlan(s)
    /\ FinishSubmission(s, "Blocked", SubmissionOf("Blocked", submission[s].attempt))
    /\ BlockTarget(TargetOf[s], CurrentSubmissionRef(s), scope)

MarkSubmissionAmbiguous(s) ==
    /\ HasPlan(s)
    /\ FinishSubmission(s, "Ambiguous", SubmissionOf("Ambiguous", submission[s].attempt))
    /\ UNCHANGED gate

ResolveSubmission(s, happened) ==
    LET n == submission[s].attempt IN
    /\ PermitsSubmission(lifecycle[s]) /\ HasPlan(s)
    /\ Recoverable(submission[s])
    /\ submissionAttempts' = [submissionAttempts EXCEPT ![s] = FinishAsAmbiguous(@, n)]
    /\ submissionResolutions' = [submissionResolutions EXCEPT
                                   ![s] = @ \cup {[attempt |-> n, happened |-> happened]}]
    /\ SetSubmission(s, SubmissionIs(IF happened THEN "Submitted" ELSE "RetryAuthorized"))
    /\ ClearGateIfOwner(TargetOf[s], SubmissionRef(s, n))
    /\ UNCHANGED <<recordingVars, uploadVars>>

-----------------------------------------------------------------------------
(* Time: a retry_at is reached. *)

UploadRetryDue(x) ==
    /\ upload[x] = Pending(FALSE)
    /\ SetUpload(x, Pending(TRUE))
    /\ UNCHANGED <<recordingVars, uploadAttempts, uploadResolutions, submissionVars, gate>>

SubmissionRetryDue(s) ==
    /\ submission[s] = RetryScheduled(FALSE)
    /\ SetSubmission(s, RetryScheduled(TRUE))
    /\ UNCHANGED <<recordingVars, uploadVars, submissionAttempts,
                   submissionResolutions, gate>>

BackoffDue(t) ==
    /\ gate[t].phase = "Backoff" /\ ~gate[t].due
    /\ SetGate(t, GateBackoff(gate[t].owner, TRUE))
    /\ UNCHANGED <<recordingVars, uploadVars, submissionVars>>
=============================================================================
