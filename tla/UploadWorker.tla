---------------------------- MODULE UploadWorker ----------------------------
(***************************************************************************)
(* The upload worker (src/uploader/worker.rs), one task that runs beside    *)
(* the room supervisors. Each pass lists the Ready segments and then the    *)
(* Completed sessions; it checks an item, claims an attempt in a store      *)
(* transaction of its own, calls the remote side, and persists the answer.  *)
(* Between any two of these the supervisors may change the store, and the   *)
(* process may stop.                                                       *)
(*                                                                         *)
(* The remote side is external: it may publish a submission that was sent   *)
(* and not yet answered, whether or not the answer arrives. So is whoever   *)
(* takes the file of a segment away while the program is not looking.       *)
(***************************************************************************)
EXTENDS DurableState, RemoteBoundary

VARIABLES
    worker,             \* where the task is, what it has left, its item
    published,          \* session -> the submission attempts that created a video
    missing,            \* segments whose file is no longer under its final name
    shutdown,           \* the watch channels the worker reads
    openSessionsReady,
    stopWhenIdle

channels == <<shutdown, openSessionsReady, stopWhenIdle>>
workerVars == <<worker, published, missing, channels>>

Unborn == [at |-> "Unborn", uploads |-> {}, submissions |-> {}, item |-> NoSession]

Gone == {"None", "Done", "Failed"}
IsAt(place) == worker.at = place
Serves(item) == worker.item = item
Goto(place, item) == worker' = [worker EXCEPT !.at = place, !.item = item]

-----------------------------------------------------------------------------
(* What is left to do (src/uploader/work.rs).                               *)

AwaitsUpload(x) == artifact[x] = "Ready" /\ upload[x].state = "Pending"
AwaitsSubmission(s) == PermitsSubmission(lifecycle[s]) /\ HasPlan(s)
AwaitsCleanup(s) == submission[s].state = "Submitted" /\ s \in DeleteAfterSubmit

CanUpload(x) ==
    AwaitsUpload(x) /\ PermitsUpload(lifecycle[x[1]]) /\ ~HasSubmission(x[1])
                    /\ HasPlan(x[1])

CanSubmit_UntilConfirmed(s) ==
    \/ ~HasSubmission(s) /\ SubmissionPartsReady(s)
    \/ HasSubmission(s) /\ submission[s].state # "Submitted"

CanSubmit(s) ==
    \/ ~HasSubmission(s) /\ SubmissionPartsReady(s)
    \/ submission[s].state \in {"RetryScheduled", "RetryAuthorized"}

DurableWork ==
    [uploads     |-> {x \in Slot : CanUpload(x)},
     submissions |-> {s \in Session : AwaitsSubmission(s) /\ CanSubmit(s)},
     cleanups    |-> {s \in Session : AwaitsSubmission(s) /\ AwaitsCleanup(s) /\
                                      \E x \in SlotsOf(s) : artifact[x] = "Ready" /\ IsPart(x)}]

(* Work that waits for nothing but time. Every frozen target has an         *)
(* uploader: run_cmd builds one for each configured room and each session.  *)
NotBlocked(s) == gate[TargetOf[s]].phase # "Blocked"
HasExecutableWork ==
    \/ DurableWork.cleanups # {}
    \/ \E x \in DurableWork.uploads : NotBlocked(x[1])
    \/ \E s \in DurableWork.submissions : NotBlocked(s)

-----------------------------------------------------------------------------
(* Uploads *)

BeginPass ==
    /\ IsAt("Asleep") /\ ~shutdown
    /\ worker' = [Unborn EXCEPT !.at = "Uploading",
                                !.uploads = {x \in Slot : AwaitsUpload(x)}]
    /\ UNCHANGED <<storeVars, published>>

NextUpload(x) ==
    /\ IsAt("Uploading") /\ x \in worker.uploads
    /\ \A y \in worker.uploads : y[1] = x[1] => y[2] >= x[2]

WithoutUpload(x) == [worker EXCEPT !.at = "Uploading", !.uploads = @ \ {x},
                                   !.item = NoSession]

Uploadable_NoBarrier(x) ==
    /\ CanUpload(x)
    /\ TargetReady(TargetOf[x[1]]) /\ upload[x].due
    /\ x \notin missing

(* The checks of upload_ready_segments, the last of them                    *)
(* validate_ready_segment_for_upload, which looks for the file. A segment   *)
(* that fails one is skipped in this pass and stays executable work.        *)
Uploadable(x) ==
    /\ CanUpload(x)
    /\ lifecycle[x[1]] = "Open" => openSessionsReady
    /\ TargetReady(TargetOf[x[1]]) /\ upload[x].due
    /\ x \notin missing

SkipUpload(x) ==
    /\ NextUpload(x) /\ ~Uploadable(x)
    /\ worker' = WithoutUpload(x)
    /\ UNCHANGED <<storeVars, published>>

CheckUpload(x) ==
    /\ NextUpload(x) /\ Uploadable(x) /\ ~shutdown
    /\ Goto("ClaimingUpload", x)
    /\ UNCHANGED <<storeVars, published>>

(* The claim sees the store as it is now. A refused transition is a State   *)
(* error, and an error ends the worker.                                     *)
ClaimUpload(x) ==
    /\ IsAt("ClaimingUpload") /\ Serves(x)
    /\ IF MayUpload(x) /\ TargetReady(TargetOf[x[1]])
       THEN BeginUpload(x) /\ Goto("CallingUpload", x)
       ELSE UNCHANGED storeVars /\ Goto("Failed", NoSession)
    /\ UNCHANGED published

(* persist_upload_outcome. The bound on attempts is a bound on the          *)
(* failures of the remote side that allow a retry.                          *)
UploadAnswered(x) ==
    /\ IsAt("CallingUpload") /\ Serves(x)
    /\ \E answer \in UploadAnswer :
          \/ answer = Confirmed /\ CompleteUpload(x)
          \/ /\ answer.kind = "Retryable" /\ Len(uploadAttempts[x]) < MaxAttempts
             /\ ScheduleUploadRetry(x, answer.scope)
          \/ answer.kind = "Blocked" /\ BlockUpload(x, answer.scope)
          \/ answer = OutcomeUnknown /\ MarkUploadAmbiguous(x)
    /\ worker' = WithoutUpload(x)
    /\ UNCHANGED published

-----------------------------------------------------------------------------
(* Submissions *)

BeginSubmissions ==
    /\ IsAt("Uploading") /\ worker.uploads = {} /\ ~shutdown
    /\ worker' = [worker EXCEPT !.at = "Submitting",
                                !.submissions = {s \in Session : AwaitsSubmission(s)}]
    /\ UNCHANGED <<storeVars, published>>

NextSession(s) == IsAt("Submitting") /\ s \in worker.submissions

WithoutSession(s) == [worker EXCEPT !.at = "Submitting", !.submissions = @ \ {s},
                                    !.item = NoSession]

Submittable(s) == MaySubmit(s) /\ SubmissionPartsReady(s) /\ TargetReady(TargetOf[s])

SkipSession(s) ==
    /\ NextSession(s) /\ ~AwaitsCleanup(s) /\ ~Submittable(s)
    /\ worker' = WithoutSession(s)
    /\ UNCHANGED <<storeVars, published>>

CheckSubmission(s) ==
    /\ NextSession(s) /\ Submittable(s) /\ ~shutdown
    /\ Goto("ClaimingSubmission", s)
    /\ UNCHANGED <<storeVars, published>>

ClaimSubmission(s) ==
    /\ IsAt("ClaimingSubmission") /\ Serves(s)
    /\ IF AwaitsSubmission(s) /\ Submittable(s)
       THEN BeginSubmission(s) /\ Goto("CallingSubmission", s)
       ELSE UNCHANGED storeVars /\ Goto("Failed", NoSession)
    /\ UNCHANGED published

(* The remote side creates a video for an attempt that was sent and whose   *)
(* outcome is unknown: during the call, after it timed out, or after the    *)
(* process that made it is gone.                                            *)
RemotePublishes(s, n) ==
    /\ n \in DOMAIN submissionAttempts[s] \ published[s]
    /\ submissionAttempts[s][n] \in {"Unfinished", "Ambiguous"}
    /\ published' = [published EXCEPT ![s] = @ \cup {n}]
    /\ UNCHANGED <<storeVars, worker>>

(* Others take the file of a segment that awaits its upload, or put it      *)
(* back; no row tells. The call of an upload meets a file that went after   *)
(* the check, and its answer says so.                                       *)
FileTaken(x) ==
    /\ AwaitsUpload(x) /\ x \notin missing
    /\ missing' = missing \cup {x}

FileRestored(x) ==
    /\ AwaitsUpload(x) /\ x \in missing
    /\ missing' = missing \ {x}

AfterSubmission(s) ==
    IF AwaitsCleanup(s)' THEN [worker EXCEPT !.at = "Cleaning", !.item = s]
    ELSE WithoutSession(s)

(* persist_submission_outcome, of an answer that is possible after what the *)
(* remote side has done.                                                    *)
SubmissionAnswered(s) ==
    /\ IsAt("CallingSubmission") /\ Serves(s)
    /\ \E answer \in SubmissionAnswer(Len(submissionAttempts[s]) \in published[s]) :
          \/ answer = Confirmed /\ CompleteSubmission(s)
          \/ /\ answer.kind = "Retryable" /\ Len(submissionAttempts[s]) < MaxAttempts
             /\ ScheduleSubmissionRetry(s, answer.scope)
          \/ answer.kind = "Blocked" /\ BlockSubmission(s, answer.scope)
          \/ answer = OutcomeUnknown /\ MarkSubmissionAmbiguous(s)
    /\ worker' = AfterSubmission(s)
    /\ UNCHANGED published

-----------------------------------------------------------------------------
(* Cleanup of a submitted session *)

BeginCleanup(s) ==
    /\ NextSession(s) /\ AwaitsCleanup(s) /\ ~shutdown
    /\ Goto("Cleaning", s)
    /\ UNCHANGED <<storeVars, published>>

DeleteRecording(x) ==
    /\ IsAt("Cleaning") /\ Serves(x[1]) /\ ~shutdown
    /\ BeginArtifactDelete(x)
    /\ Goto("Deleting", x)
    /\ UNCHANGED published

(* The file is removed, or an I/O error leaves the intent to startup.       *)
RecordingDeleted(x) ==
    /\ IsAt("Deleting") /\ Serves(x)
    /\ CompleteArtifactDelete(x) \/ UNCHANGED storeVars
    /\ Goto("Cleaning", x[1])
    /\ UNCHANGED published

EndCleanup(s) ==
    /\ IsAt("Cleaning") /\ Serves(s)
    /\ \A x \in SlotsOf(s) : ~MayDelete(x)
    /\ IF \A x \in SlotsOf(s) : IsSkipped(x) \/ artifact[x] \in {"Deleting", "Deleted"}
       THEN worker' = WithoutSession(s)
       ELSE Goto("Failed", NoSession)
    /\ UNCHANGED <<storeVars, published>>

-----------------------------------------------------------------------------
MayStop_Anyway == stopWhenIdle
MayStop == stopWhenIdle /\ ~HasExecutableWork

EndPass ==
    /\ IsAt("Submitting") /\ worker.submissions = {}
    /\ Goto(IF MayStop THEN "Done" ELSE "Asleep", NoSession)
    /\ UNCHANGED <<storeVars, published>>

(* Once shutdown is signalled no attempt and no deletion is begun; what is  *)
(* in progress is finished first.                                           *)
SeeShutdown ==
    /\ shutdown
    /\ worker.at \in {"Asleep", "Uploading", "Submitting", "Cleaning"}
    /\ worker' = [Unborn EXCEPT !.at = "Done"]
    /\ UNCHANGED <<storeVars, published>>

WorkerAction ==
    /\ phase = "Running"
    /\ \/ \E x \in Slot :
            \/ SkipUpload(x)
            \/ CheckUpload(x)
            \/ ClaimUpload(x)
            \/ UploadAnswered(x)
            \/ DeleteRecording(x)
            \/ RecordingDeleted(x)
       \/ \E s \in Session :
            \/ SkipSession(s)
            \/ CheckSubmission(s)
            \/ ClaimSubmission(s)
            \/ SubmissionAnswered(s)
            \/ BeginCleanup(s)
            \/ EndCleanup(s)
       \/ BeginPass
       \/ BeginSubmissions
       \/ EndPass
       \/ SeeShutdown
    /\ UNCHANGED <<phase, channels, missing>>
=============================================================================
