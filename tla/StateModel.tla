----------------------------- MODULE StateModel -----------------------------
(***************************************************************************)
(* The durable rows of bilive-rec (src/state/model.rs): what a Session, a   *)
(* room, a segment, a submission and an upload-target gate may hold, and    *)
(* the predicates the code asks of them.                                    *)
(*                                                                         *)
(* A session id stands for everything frozen into its row at creation: the  *)
(* room it records (RoomOf), the upload target of its output plan, or       *)
(* NoTarget for LocalOnly (TargetOf), and delete_after_submit.              *)
(***************************************************************************)
EXTENDS Integers, Sequences

CONSTANTS
    Session,            \* session ids (UUIDs) that may ever be created
    Room,               \* room ids
    Target,             \* upload targets: principal, line, threads, submit_api
    NoSession,          \* "no session" in a room row or an operation reference
    NoTarget,           \* the plan of a LocalOnly session
    RoomOf,             \* the room a session records
    TargetOf,           \* the target of a session's frozen output plan
    DeleteAfterSubmit,  \* sessions whose plan has delete_after_submit
    MaxSegments,        \* bound: segments per session
    MaxAttempts         \* bound: remote attempts per segment and per submission

ASSUME SessionAssumption == NoSession \notin Session
ASSUME TargetAssumption == NoTarget \notin Target
ASSUME PlanAssumption ==
    /\ RoomOf \in [Session -> Room]
    /\ TargetOf \in [Session -> Target \cup {NoTarget}]
    /\ DeleteAfterSubmit \subseteq Session
ASSUME BoundAssumption == MaxSegments \in Nat /\ MaxAttempts \in Nat

Index == 1..MaxSegments
Slot == Session \X Index     \* a segment's key: session id and index

-----------------------------------------------------------------------------
(* Sessions and rooms. A session id with no row yet is "Absent".            *)

Closed == {"Completed", "NoUsableRecording", "Abandoned"}
SessionLifecycle == {"Absent", "Open", "RecoveryRequired"} \cup Closed

PermitsUpload(life) == life \in {"Open", "Completed"}
PermitsSubmission_OpenToo(life) == PermitsUpload(life)
PermitsSubmission(life) == life = "Completed"

(* A missing room row is handled everywhere like a Ready one.               *)
RoomLifecycle ==
    [phase : {"Ready", "Owned", "Blocked"}, session : Session \cup {NoSession}]

RoomReady == [phase |-> "Ready", session |-> NoSession]
Owned(s) == [phase |-> "Owned", session |-> s]
Blocked(s) == [phase |-> "Blocked", session |-> s]

-----------------------------------------------------------------------------
(* Segments: the artifact on disk and the upload of it.                     *)

Decision == {"KeepPart", "KeepFinal", "Exclude"}
Resolving == [KeepPart |-> "ResolvingKeepPart",
              KeepFinal |-> "ResolvingKeepFinal",
              Exclude |-> "ResolvingExclude"]
ResolvingConflict == {Resolving[d] : d \in Decision}

ArtifactState ==
    {"Absent", "Writing", "Finalizing", "Ready", "Discarding", "Filtered",
     "Failed", "Excluded", "Deleting", "Deleted"} \cup ResolvingConflict

(* The states close_session calls an unresolved artifact intent.            *)
UnresolvedIntent ==
    {"Writing", "Finalizing", "Discarding", "Deleting"} \cup ResolvingConflict

IsUsable(art) == art \in {"Ready", "Deleting", "Deleted"}

(* due abstracts retry_at against the clock; attempt is the attempt's place *)
(* in the segment's history and stands for its UUID.                        *)
UploadState ==
    [state : {"NotPlanned", "Pending", "Attempting", "Blocked", "Ambiguous",
              "Uploaded", "Cancelled"},
     attempt : Nat, due : BOOLEAN]

UploadIs(st) == [state |-> st, attempt |-> 0, due |-> TRUE]
Pending(due) == [state |-> "Pending", attempt |-> 0, due |-> due]
UploadOf(st, n) == [state |-> st, attempt |-> n, due |-> TRUE]

(* The outcome recorded for an attempt; "Unfinished" is finished_at = None. *)
Outcome == {"Unfinished", "Confirmed", "RetryScheduled", "Blocked", "Ambiguous"}

(* An operator's decision about one attempt: it reached the remote or not.  *)
Resolution == [attempt : Nat, happened : BOOLEAN]

-----------------------------------------------------------------------------
(* Submissions ("Absent": no row) and upload-target gates.                  *)

SubmissionState ==
    [state : {"Absent", "RetryScheduled", "Attempting", "Blocked", "Ambiguous",
              "RetryAuthorized", "Submitted"},
     attempt : Nat, due : BOOLEAN]

RetryScheduled(due) == [state |-> "RetryScheduled", attempt |-> 0, due |-> due]
SubmissionIs(st) == [state |-> st, attempt |-> 0, due |-> TRUE]
SubmissionOf(st, n) == [state |-> st, attempt |-> n, due |-> TRUE]

(* RemoteOperationRef: the attempt that closed a gate.                      *)
RemoteOperationRef ==
    [kind : {"Upload", "Submission", "None"}, session : Session \cup {NoSession},
     segment : Nat, attempt : Nat]

NoOwner == [kind |-> "None", session |-> NoSession, segment |-> 0, attempt |-> 0]
UploadRef(s, i, n) ==
    [kind |-> "Upload", session |-> s, segment |-> i, attempt |-> n]
SubmissionRef(s, n) ==
    [kind |-> "Submission", session |-> s, segment |-> 0, attempt |-> n]

UploadTargetGate ==
    [phase : {"Ready", "Backoff", "Blocked"}, owner : RemoteOperationRef,
     due : BOOLEAN]

GateReady == [phase |-> "Ready", owner |-> NoOwner, due |-> TRUE]
GateBackoff(owner, due) == [phase |-> "Backoff", owner |-> owner, due |-> due]
GateBlocked(owner) == [phase |-> "Blocked", owner |-> owner, due |-> TRUE]
=============================================================================
