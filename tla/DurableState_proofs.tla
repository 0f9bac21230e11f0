------------------------ MODULE DurableState_proofs -------------------------
(***************************************************************************)
(* Theorems about DurableState for every set of sessions, rooms, targets    *)
(* and every bound.                                                         *)
(***************************************************************************)
EXTENDS DurableState, TLAPS

(* The steps of the store, with what is known of them where they are taken. *)
RecordingNext ==
    \/ \E s \in Session : \/ CreateSession(s) \/ RequireRecovery(s)
                          \/ CloseNatural(s)  \/ CloseAbandon(s)
                          \/ \E b \in BOOLEAN : CloseRecover(s, b)
    \/ \E x \in Slot : \/ OpenSegment(x)
                       \/ BeginArtifactFinalization(x)
                       \/ BeginArtifactDiscard(x)
                       \/ CompleteArtifactFinalization(x)
                       \/ CompleteArtifactDiscard(x)
                       \/ \E d \in Decision : BeginArtifactConflictResolution(x, d)
                       \/ CompleteArtifactConflictResolution(x)
                       \/ ExcludeArtifactConflict(x)
                       \/ FailArtifact(x)
                       \/ BeginArtifactDelete(x)
                       \/ CompleteArtifactDelete(x)

RemoteNext ==
    \/ \E x \in Slot : \/ NoAttemptInFlight /\ BeginUpload(x)
                       \/ CompleteUpload(x)
                       \/ \E sc \in Scope : ScheduleUploadRetry(x, sc)
                       \/ \E sc \in Scope : BlockUpload(x, sc)
                       \/ MarkUploadAmbiguous(x)
                       \/ \E h \in BOOLEAN : ResolveUpload(x, h)
                       \/ UploadRetryDue(x)
    \/ \E s \in Session : \/ NoAttemptInFlight /\ BeginSubmission(s)
                          \/ CompleteSubmission(s)
                          \/ \E sc \in Scope : ScheduleSubmissionRetry(s, sc)
                          \/ \E sc \in Scope : BlockSubmission(s, sc)
                          \/ MarkSubmissionAmbiguous(s)
                          \/ \E h \in BOOLEAN : ResolveSubmission(s, h)
                          \/ SubmissionRetryDue(s)
    \/ \E t \in Target : BackoffDue(t)

(* Every step of the specification is a step of the store or leaves it.     *)
LEMMA StoreSteps ==
    ASSUME [Next]_vars
    PROVE  RecordingNext \/ RemoteNext \/ UNCHANGED storeVars
<1>1. CASE UNCHANGED vars
  BY <1>1 DEF vars
<1>2. CASE Start \/ EnterRun \/ ProcessEnds
  BY <1>2 DEF Start, EnterRun, ProcessEnds
<1>3. CASE \E x \in Slot : ReconcileArtifact(x)
  <2>1. PICK x \in Slot : ReconcileArtifact(x)
    BY <1>3
  <2>2. x[1] \in Session
    BY DEF Slot
  <2> QED BY <2>1, <2>2 DEF ReconcileArtifact, RecordingNext
<1>4. CASE ReconcileAttempt
  BY <1>4 DEF ReconcileAttempt, RemoteNext
<1>5. CASE RecordingStep
  BY <1>5 DEF RecordingStep, RecordingNext
<1>6. CASE WorkerStep
  BY <1>6 DEF WorkerStep, RemoteAttemptStep, WorkerIdle, RecordingNext, RemoteNext
<1>7. CASE OperatorStep
  BY <1>7 DEF OperatorStep, OperatorDecision, RecordingNext, RemoteNext
<1>8. CASE TimePasses
  BY <1>8 DEF TimePasses, RemoteNext
<1> QED
  BY <1>1, <1>2, <1>3, <1>4, <1>5, <1>6, <1>7, <1>8 DEF Next

-----------------------------------------------------------------------------
(* Type correctness *)

LEMMA SlotParts ==
    ASSUME NEW x \in Slot
    PROVE  x[1] \in Session /\ x[2] \in Index /\ x = <<x[1], x[2]>>
BY DEF Slot

(* The values the transitions write are rows of the right type.             *)
LEMMA UploadValues ==
    ASSUME NEW n \in Nat, NEW b \in BOOLEAN, NEW up \in UploadState
    PROVE  /\ UploadIs("NotPlanned") \in UploadState
           /\ UploadIs("Uploaded") \in UploadState
           /\ UploadIs("Cancelled") \in UploadState
           /\ Pending(b) \in UploadState
           /\ UploadOf("Attempting", n) \in UploadState
           /\ UploadOf("Blocked", n) \in UploadState
           /\ UploadOf("Ambiguous", n) \in UploadState
           /\ AbandonUpload(up) \in UploadState
           /\ up.attempt \in Nat
BY DEF UploadIs, Pending, UploadOf, UploadState, AbandonUpload

LEMMA SubmissionValues ==
    ASSUME NEW n \in Nat, NEW b \in BOOLEAN, NEW row \in SubmissionState
    PROVE  /\ SubmissionIs("Submitted") \in SubmissionState
           /\ SubmissionIs("RetryAuthorized") \in SubmissionState
           /\ SubmissionIs("Absent") \in SubmissionState
           /\ RetryScheduled(b) \in SubmissionState
           /\ SubmissionOf("Attempting", n) \in SubmissionState
           /\ SubmissionOf("Blocked", n) \in SubmissionState
           /\ SubmissionOf("Ambiguous", n) \in SubmissionState
           /\ row.attempt \in Nat
BY DEF SubmissionIs, RetryScheduled, SubmissionOf, SubmissionState

LEMMA GateValues ==
    ASSUME NEW s \in Session, NEW i \in Index, NEW n \in Nat, NEW b \in BOOLEAN,
           NEW o \in RemoteOperationRef
    PROVE  /\ UploadRef(s, i, n) \in RemoteOperationRef
           /\ SubmissionRef(s, n) \in RemoteOperationRef
           /\ GateReady \in UploadTargetGate
           /\ GateBackoff(o, b) \in UploadTargetGate
           /\ GateBlocked(o) \in UploadTargetGate
BY BoundAssumption DEF UploadRef, SubmissionRef, RemoteOperationRef, GateReady,
   GateBackoff, GateBlocked, UploadTargetGate, NoOwner, Index

LEMMA RoomValues ==
    ASSUME NEW s \in Session
    PROVE  /\ RoomReady \in RoomLifecycle
           /\ Owned(s) \in RoomLifecycle
           /\ Blocked(s) \in RoomLifecycle
BY DEF RoomReady, Owned, Blocked, RoomLifecycle

LEMMA FinishAsAmbiguousType ==
    ASSUME NEW h \in Seq(Outcome), NEW n \in Nat
    PROVE  FinishAsAmbiguous(h, n) \in Seq(Outcome)
BY DEF FinishAsAmbiguous, Outcome

StoreTypeOK ==
    /\ lifecycle \in [Session -> SessionLifecycle]
    /\ room \in [Room -> RoomLifecycle]
    /\ artifact \in [Slot -> ArtifactState]
    /\ upload \in [Slot -> UploadState]
    /\ uploadAttempts \in [Slot -> Seq(Outcome)]
    /\ uploadResolutions \in [Slot -> SUBSET Resolution]
    /\ submission \in [Session -> SubmissionState]
    /\ submissionAttempts \in [Session -> Seq(Outcome)]
    /\ submissionResolutions \in [Session -> SUBSET Resolution]
    /\ gate \in [Target -> UploadTargetGate]

LEMMA RecordingTypes ==
    ASSUME StoreTypeOK, RecordingNext
    PROVE  StoreTypeOK'
<1> USE DEF StoreTypeOK, uploadVars, submissionVars, SetLifecycle, SetRoom, SetArtifact,
        SetUpload, SessionLifecycle, Closed, ArtifactState, ResolvingConflict
<1>1. ASSUME NEW s \in Session, CreateSession(s) \/ RequireRecovery(s)
      PROVE  StoreTypeOK'
  BY <1>1, RoomValues DEF CreateSession, RequireRecovery, MarkRecoveryRequired
<1>2. ASSUME NEW s \in Session, CloseNatural(s)
      PROVE  StoreTypeOK'
  BY <1>2, RoomValues DEF CloseNatural, MarkRecoveryRequired, Closure
<1>3. ASSUME NEW s \in Session, CloseAbandon(s)
      PROVE  StoreTypeOK'
  <2>1. \A x \in Slot : upload[x].attempt \in Nat /\ AbandonUpload(upload[x]) \in UploadState
    BY UploadValues
  <2>2. \A x \in Slot :
           FinishAsAmbiguous(uploadAttempts[x], upload[x].attempt) \in Seq(Outcome)
    BY <2>1, FinishAsAmbiguousType
  <2> QED BY <1>3, <2>1, <2>2, RoomValues DEF CloseAbandon
<1>4. ASSUME NEW s \in Session, NEW b \in BOOLEAN, CloseRecover(s, b)
      PROVE  StoreTypeOK'
  BY <1>4, RoomValues, UploadValues DEF CloseRecover, Closure
<1>5. ASSUME NEW x \in Slot, OpenSegment(x)
      PROVE  StoreTypeOK'
  BY <1>5, UploadValues DEF OpenSegment
<1>6. ASSUME NEW x \in Slot,
             BeginArtifactFinalization(x) \/ BeginArtifactDiscard(x)
      PROVE  StoreTypeOK'
  BY <1>6 DEF BeginArtifactFinalization, BeginArtifactDiscard, BeginArtifact
<1>7. ASSUME NEW x \in Slot,
             \/ CompleteArtifactFinalization(x) \/ CompleteArtifactDiscard(x)
             \/ CompleteArtifactConflictResolution(x) \/ ExcludeArtifactConflict(x)
      PROVE  StoreTypeOK'
  <2>1. RoomRowFor(x[1]) \in RoomLifecycle
    BY SlotParts, RoomValues DEF RoomRowFor
  <2> QED BY <1>7, <2>1, UploadValues DEF CompleteArtifactFinalization,
          CompleteArtifactDiscard, CompleteArtifactConflictResolution,
          ExcludeArtifactConflict, CompleteArtifact
<1>8. ASSUME NEW x \in Slot, NEW d \in Decision, BeginArtifactConflictResolution(x, d)
      PROVE  StoreTypeOK'
  BY <1>8, SlotParts, RoomValues DEF BeginArtifactConflictResolution
<1>9. ASSUME NEW x \in Slot, FailArtifact(x)
      PROVE  StoreTypeOK'
  BY <1>9, SlotParts, RoomValues DEF FailArtifact, MarkRecoveryRequired
<1>10. ASSUME NEW x \in Slot, BeginArtifactDelete(x) \/ CompleteArtifactDelete(x)
       PROVE  StoreTypeOK'
  BY <1>10 DEF BeginArtifactDelete, CompleteArtifactDelete
<1> QED
  BY <1>1, <1>2, <1>3, <1>4, <1>5, <1>6, <1>7, <1>8, <1>9, <1>10 DEF RecordingNext

LEMMA FinishUploadTypes ==
    ASSUME StoreTypeOK, NEW x \in Slot, NEW o \in Outcome, NEW up \in UploadState,
           FinishUpload(x, o, up), gate' \in [Target -> UploadTargetGate]
    PROVE  StoreTypeOK'
BY DEF FinishUpload, StoreTypeOK, SetUpload, recordingVars, submissionVars

LEMMA FinishSubmissionTypes ==
    ASSUME StoreTypeOK, NEW s \in Session, NEW o \in Outcome, NEW row \in SubmissionState,
           FinishSubmission(s, o, row), gate' \in [Target -> UploadTargetGate]
    PROVE  StoreTypeOK'
BY DEF FinishSubmission, StoreTypeOK, SetSubmission, recordingVars, uploadVars

(* Every gate the transitions write is a gate.                              *)
LEMMA GateTypes ==
    ASSUME gate \in [Target -> UploadTargetGate], NEW t \in Target,
           NEW o \in RemoteOperationRef, NEW sc \in Scope,
           \/ ConsumeTargetReady(t) \/ ClearGateIfOwner(t, o)
           \/ BackOffTarget(t, o, sc) \/ BlockTarget(t, o, sc)
    PROVE  gate' \in [Target -> UploadTargetGate]
<1>1. NoOwner \in RemoteOperationRef
  BY DEF NoOwner, RemoteOperationRef
<1>2. /\ GateReady \in UploadTargetGate
      /\ GateBackoff(o, FALSE) \in UploadTargetGate
      /\ GateBlocked(o) \in UploadTargetGate
      /\ gate[t] \in UploadTargetGate
  BY <1>1 DEF GateReady, GateBackoff, GateBlocked, UploadTargetGate
<1> QED
  BY <1>2 DEF ConsumeTargetReady, ClearGateIfOwner, BackOffTarget, BlockTarget, SetGate

LEMMA RemoteTypes ==
    ASSUME StoreTypeOK, RemoteNext
    PROVE  StoreTypeOK'
<1>a. \A x \in Slot : HasPlan(x[1]) => TargetOf[x[1]] \in Target
  BY PlanAssumption, SlotParts DEF HasPlan
<1>b. \A s \in Session : HasPlan(s) => TargetOf[s] \in Target
  BY PlanAssumption DEF HasPlan
<1>c. \A x \in Slot : /\ upload[x].attempt \in Nat
                       /\ CurrentUploadRef(x) \in RemoteOperationRef
                       /\ UploadRef(x[1], x[2], upload[x].attempt) \in RemoteOperationRef
  <2> TAKE x \in Slot
  <2>1. upload[x] \in UploadState
    BY DEF StoreTypeOK
  <2>2. upload[x].attempt \in Nat
    BY <2>1 DEF UploadState
  <2> QED BY <2>2, SlotParts, BoundAssumption
          DEF CurrentUploadRef, UploadRef, RemoteOperationRef, Index
<1>d. \A s \in Session : /\ submission[s].attempt \in Nat
                         /\ CurrentSubmissionRef(s) \in RemoteOperationRef
                         /\ SubmissionRef(s, submission[s].attempt) \in RemoteOperationRef
  <2> TAKE s \in Session
  <2>1. submission[s] \in SubmissionState
    BY DEF StoreTypeOK
  <2>2. submission[s].attempt \in Nat
    BY <2>1 DEF SubmissionState
  <2> QED BY <2>2 DEF CurrentSubmissionRef, SubmissionRef, RemoteOperationRef
<1>e. gate \in [Target -> UploadTargetGate]
  BY DEF StoreTypeOK
<1>1. ASSUME NEW x \in Slot, BeginUpload(x)
      PROVE  StoreTypeOK'
  <2>1. gate' \in [Target -> UploadTargetGate]
    <3>1. NoOwner \in RemoteOperationRef /\ "Item" \in Scope
      BY DEF NoOwner, RemoteOperationRef, Scope
    <3> QED BY <1>1, <1>a, <1>e, <3>1, GateTypes DEF BeginUpload, MayUpload
  <2>2. Len(uploadAttempts[x]) + 1 \in Nat
    BY DEF StoreTypeOK
  <2>3. Append(uploadAttempts[x], "Unfinished") \in Seq(Outcome)
    BY DEF StoreTypeOK, Outcome
  <2> QED BY <1>1, <2>1, <2>2, <2>3, UploadValues
          DEF BeginUpload, StoreTypeOK, SetUpload, recordingVars, submissionVars
<1>2. ASSUME NEW x \in Slot, CompleteUpload(x)
      PROVE  StoreTypeOK'
  <2>1. UploadIs("Uploaded") \in UploadState /\ "Confirmed" \in Outcome
    BY DEF UploadIs, UploadState, Outcome
  <2> QED BY <1>2, <1>e, <2>1, FinishUploadTypes DEF CompleteUpload
<1>3. ASSUME NEW x \in Slot, NEW sc \in Scope, ScheduleUploadRetry(x, sc)
      PROVE  StoreTypeOK'
  <2>1. gate' \in [Target -> UploadTargetGate]
    BY <1>3, <1>a, <1>c, <1>e, GateTypes DEF ScheduleUploadRetry
  <2>2. Pending(FALSE) \in UploadState /\ "RetryScheduled" \in Outcome
    BY DEF Pending, UploadState, Outcome
  <2> QED BY <1>3, <2>1, <2>2, FinishUploadTypes DEF ScheduleUploadRetry
<1>4. ASSUME NEW x \in Slot, NEW sc \in Scope, BlockUpload(x, sc)
      PROVE  StoreTypeOK'
  <2>1. gate' \in [Target -> UploadTargetGate]
    BY <1>4, <1>a, <1>c, <1>e, GateTypes DEF BlockUpload
  <2>2. UploadOf("Blocked", upload[x].attempt) \in UploadState /\ "Blocked" \in Outcome
    BY <1>c DEF UploadOf, UploadState, Outcome
  <2> QED BY <1>4, <2>1, <2>2, FinishUploadTypes DEF BlockUpload
<1>5. ASSUME NEW x \in Slot, MarkUploadAmbiguous(x)
      PROVE  StoreTypeOK'
  <2>1. UploadOf("Ambiguous", upload[x].attempt) \in UploadState /\ "Ambiguous" \in Outcome
    BY <1>c DEF UploadOf, UploadState, Outcome
  <2> QED BY <1>5, <1>e, <2>1, FinishUploadTypes DEF MarkUploadAmbiguous
<1>6. ASSUME NEW x \in Slot, NEW h \in BOOLEAN, ResolveUpload(x, h)
      PROVE  StoreTypeOK'
  <2>1. gate' \in [Target -> UploadTargetGate]
    <3>1. "Item" \in Scope
      BY DEF Scope
    <3> QED BY <1>6, <1>a, <1>c, <1>e, <3>1, GateTypes DEF ResolveUpload
  <2>2. /\ IF h THEN UploadIs("Uploaded") \in UploadState
                ELSE NotUploadedState(x[1]) \in UploadState
        /\ [attempt |-> upload[x].attempt, happened |-> h] \in Resolution
    BY <1>c DEF UploadIs, Pending, UploadState, NotUploadedState, Resolution
  <2>3. FinishAsAmbiguous(uploadAttempts[x], upload[x].attempt) \in Seq(Outcome)
    BY <1>c, FinishAsAmbiguousType DEF StoreTypeOK
  <2> QED BY <1>6, <2>1, <2>2, <2>3
          DEF ResolveUpload, StoreTypeOK, SetUpload, recordingVars, submissionVars
<1>7. ASSUME NEW s \in Session, BeginSubmission(s)
      PROVE  StoreTypeOK'
  <2>1. gate' \in [Target -> UploadTargetGate]
    <3>1. NoOwner \in RemoteOperationRef /\ "Item" \in Scope
      BY DEF NoOwner, RemoteOperationRef, Scope
    <3> QED BY <1>7, <1>b, <1>e, <3>1, GateTypes DEF BeginSubmission
  <2>2. Len(submissionAttempts[s]) + 1 \in Nat
    BY DEF StoreTypeOK
  <2>3. Append(submissionAttempts[s], "Unfinished") \in Seq(Outcome)
    BY DEF StoreTypeOK, Outcome
  <2> QED BY <1>7, <2>1, <2>2, <2>3, SubmissionValues
          DEF BeginSubmission, StoreTypeOK, SetSubmission, recordingVars, uploadVars
<1>8. ASSUME NEW s \in Session, CompleteSubmission(s)
      PROVE  StoreTypeOK'
  <2>1. SubmissionIs("Submitted") \in SubmissionState /\ "Confirmed" \in Outcome
    BY DEF SubmissionIs, SubmissionState, Outcome
  <2> QED BY <1>8, <1>e, <2>1, FinishSubmissionTypes DEF CompleteSubmission
<1>9. ASSUME NEW s \in Session, NEW sc \in Scope, ScheduleSubmissionRetry(s, sc)
      PROVE  StoreTypeOK'
  <2>1. gate' \in [Target -> UploadTargetGate]
    BY <1>9, <1>b, <1>d, <1>e, GateTypes DEF ScheduleSubmissionRetry
  <2>2. RetryScheduled(FALSE) \in SubmissionState /\ "RetryScheduled" \in Outcome
    BY DEF RetryScheduled, SubmissionState, Outcome
  <2> QED BY <1>9, <2>1, <2>2, FinishSubmissionTypes DEF ScheduleSubmissionRetry
<1>10. ASSUME NEW s \in Session, NEW sc \in Scope, BlockSubmission(s, sc)
       PROVE  StoreTypeOK'
  <2>1. gate' \in [Target -> UploadTargetGate]
    BY <1>10, <1>b, <1>d, <1>e, GateTypes DEF BlockSubmission
  <2>2. SubmissionOf("Blocked", submission[s].attempt) \in SubmissionState
        /\ "Blocked" \in Outcome
    BY <1>d DEF SubmissionOf, SubmissionState, Outcome
  <2> QED BY <1>10, <2>1, <2>2, FinishSubmissionTypes DEF BlockSubmission
<1>11. ASSUME NEW s \in Session, MarkSubmissionAmbiguous(s)
       PROVE  StoreTypeOK'
  <2>1. SubmissionOf("Ambiguous", submission[s].attempt) \in SubmissionState
        /\ "Ambiguous" \in Outcome
    BY <1>d DEF SubmissionOf, SubmissionState, Outcome
  <2> QED BY <1>11, <1>e, <2>1, FinishSubmissionTypes DEF MarkSubmissionAmbiguous
<1>12. ASSUME NEW s \in Session, NEW h \in BOOLEAN, ResolveSubmission(s, h)
       PROVE  StoreTypeOK'
  <2>1. gate' \in [Target -> UploadTargetGate]
    <3>1. "Item" \in Scope
      BY DEF Scope
    <3> QED BY <1>12, <1>b, <1>d, <1>e, <3>1, GateTypes DEF ResolveSubmission
  <2>2. /\ SubmissionIs(IF h THEN "Submitted" ELSE "RetryAuthorized") \in SubmissionState
        /\ [attempt |-> submission[s].attempt, happened |-> h] \in Resolution
    BY <1>d DEF SubmissionIs, SubmissionState, Resolution
  <2>3. FinishAsAmbiguous(submissionAttempts[s], submission[s].attempt) \in Seq(Outcome)
    BY <1>d, FinishAsAmbiguousType DEF StoreTypeOK
  <2> QED BY <1>12, <2>1, <2>2, <2>3
          DEF ResolveSubmission, StoreTypeOK, SetSubmission, recordingVars, uploadVars
<1>13. ASSUME NEW x \in Slot, UploadRetryDue(x)
       PROVE  StoreTypeOK'
  BY <1>13 DEF UploadRetryDue, StoreTypeOK, SetUpload, Pending, UploadState,
     recordingVars, submissionVars
<1>14. ASSUME NEW s \in Session, SubmissionRetryDue(s)
       PROVE  StoreTypeOK'
  BY <1>14 DEF SubmissionRetryDue, StoreTypeOK, SetSubmission, RetryScheduled,
     SubmissionState, recordingVars, uploadVars
<1>15. ASSUME NEW t \in Target, BackoffDue(t)
       PROVE  StoreTypeOK'
  <2>1. gate[t] \in UploadTargetGate
    BY <1>e, <1>15
  <2>2. GateBackoff(gate[t].owner, TRUE) \in UploadTargetGate
    BY <2>1 DEF GateBackoff, UploadTargetGate
  <2> QED BY <1>15, <2>2 DEF BackoffDue, StoreTypeOK, SetGate, recordingVars, uploadVars,
          submissionVars
<1> QED
  BY <1>1, <1>2, <1>3, <1>4, <1>5, <1>6, <1>7, <1>8, <1>9, <1>10, <1>11, <1>12,
     <1>13, <1>14, <1>15 DEF RemoteNext

LEMMA TypeStep == RowTypes /\ [Next]_vars => RowTypes'
<1> SUFFICES ASSUME RowTypes, [Next]_vars PROVE RowTypes'
  OBVIOUS
<1>1. StoreTypeOK
  BY DEF RowTypes, StoreTypeOK
<1>2. StoreTypeOK'
  <2>1. CASE UNCHANGED storeVars
    BY <1>1, <2>1 DEF StoreTypeOK, storeVars, recordingVars, uploadVars, submissionVars
  <2> QED BY <1>1, <2>1, StoreSteps, RecordingTypes, RemoteTypes
<1>3. phase' \in {"Stopped", "Reconciling", "Running"}
  BY DEF RowTypes, Next, vars, Start, ReconcileArtifact, ReconcileAttempt, EnterRun,
     ProcessEnds, RecordingStep, WorkerStep, OperatorStep, TimePasses
<1> QED BY <1>2, <1>3 DEF RowTypes, StoreTypeOK

LEMMA InitType == Init => RowTypes
BY GateValues, SubmissionValues DEF Init, StoreInit, RowTypes, SessionLifecycle, RoomReady,
   RoomLifecycle, ArtifactState, UploadIs, UploadState, SubmissionIs, SubmissionState,
   GateReady, UploadTargetGate, NoOwner, RemoteOperationRef

LEMMA TypesHold == Spec => []RowTypes
BY InitType, TypeStep, PTL DEF Spec

-----------------------------------------------------------------------------
(* Room ownership *)

(* How a step may change the lifecycle of a session s and the row of its    *)
(* room: s is the only session it touches, and the two move together.       *)
MovesTogether(s) ==
    \E life \in SessionLifecycle, row \in RoomLifecycle :
        /\ lifecycle' = [lifecycle EXCEPT ![s] = life]
        /\ room' = [room EXCEPT ![RoomOf[s]] = row]
        /\ \/ life = "Open" /\ row = Owned(s)
           \/ life = "RecoveryRequired" /\ row = Blocked(s)
           \/ life \in Closed /\ row = RoomReady
        /\ \/ RoomFree(s)
           \/ MayClaimRoom(s)

LEMMA RecordingMovesTogether ==
    ASSUME StoreTypeOK, OwnershipExact, RecordingNext
    PROVE  \/ \E s \in Session : MovesTogether(s)
           \/ UNCHANGED <<lifecycle, room>>
<1> USE RoomValues DEF MovesTogether, SetLifecycle, SetRoom, SessionLifecycle, Closed
<1>a. \A s \in Session : OwnsRoom(s) => MayClaimRoom(s)
  BY DEF OwnsRoom, MayClaimRoom, IsOpen, OwnershipExact, Owned
<1>1. ASSUME NEW s \in Session,
             \/ CreateSession(s) \/ RequireRecovery(s) \/ CloseAbandon(s)
             \/ CloseNatural(s) \/ \E b \in BOOLEAN : CloseRecover(s, b)
      PROVE  MovesTogether(s)
  <2>1. CASE CreateSession(s)
    BY <2>1 DEF CreateSession
  <2>2. CASE RequireRecovery(s)
    BY <2>2 DEF RequireRecovery, MarkRecoveryRequired
  <2>3. CASE CloseAbandon(s)
    BY <2>3 DEF CloseAbandon
  <2>4. CASE CloseNatural(s)
    BY <2>4, <1>a DEF CloseNatural, MarkRecoveryRequired, Closure
  <2>5. CASE \E b \in BOOLEAN : CloseRecover(s, b)
    BY <2>5 DEF CloseRecover, Closure
  <2> QED BY <1>1, <2>1, <2>2, <2>3, <2>4, <2>5
<1>2. ASSUME NEW x \in Slot, FailArtifact(x)
      PROVE  MovesTogether(x[1])
  BY <1>2, SlotParts DEF FailArtifact, MarkRecoveryRequired
<1>3. ASSUME NEW x \in Slot,
             \/ CompleteArtifactFinalization(x) \/ CompleteArtifactDiscard(x)
             \/ CompleteArtifactConflictResolution(x) \/ ExcludeArtifactConflict(x)
             \/ \E d \in Decision : BeginArtifactConflictResolution(x, d)
      PROVE  UNCHANGED <<lifecycle, room>>
  <2>1. MayClaimRoom(x[1]) /\ lifecycle' = lifecycle
        /\ room' = [room EXCEPT ![RoomOf[x[1]]] = RoomRowFor(x[1])]
    BY <1>3 DEF CompleteArtifactFinalization, CompleteArtifactDiscard,
       CompleteArtifactConflictResolution, ExcludeArtifactConflict, CompleteArtifact,
       BeginArtifactConflictResolution, RoomRowFor
  <2>2. room[RoomOf[x[1]]] = RoomRowFor(x[1])
    BY <2>1, SlotParts DEF OwnershipExact, MayClaimRoom, IsOpen, RoomRowFor
  <2> QED BY <2>1, <2>2 DEF StoreTypeOK
<1>4. ASSUME NEW x \in Slot,
             \/ OpenSegment(x) \/ BeginArtifactFinalization(x) \/ BeginArtifactDiscard(x)
             \/ BeginArtifactDelete(x) \/ CompleteArtifactDelete(x)
      PROVE  UNCHANGED <<lifecycle, room>>
  BY <1>4 DEF OpenSegment, BeginArtifactFinalization, BeginArtifactDiscard, BeginArtifact,
     BeginArtifactDelete, CompleteArtifactDelete
<1> QED
  BY <1>1, <1>2, <1>3, <1>4, SlotParts DEF RecordingNext

LEMMA RemoteKeepsRecording ==
    ASSUME RemoteNext
    PROVE  UNCHANGED recordingVars
BY DEF RemoteNext, BeginUpload, CompleteUpload, ScheduleUploadRetry, BlockUpload,
   MarkUploadAmbiguous, FinishUpload, ResolveUpload, UploadRetryDue, BeginSubmission,
   CompleteSubmission, ScheduleSubmissionRetry, BlockSubmission, MarkSubmissionAmbiguous,
   FinishSubmission, ResolveSubmission, SubmissionRetryDue, BackoffDue

LEMMA OwnershipStep ==
    ASSUME StoreTypeOK, OwnershipExact, NEW s \in Session, MovesTogether(s)
    PROVE  OwnershipExact'
<1> PICK life \in SessionLifecycle, row \in RoomLifecycle :
        /\ lifecycle' = [lifecycle EXCEPT ![s] = life]
        /\ room' = [room EXCEPT ![RoomOf[s]] = row]
        /\ \/ life = "Open" /\ row = Owned(s)
           \/ life = "RecoveryRequired" /\ row = Blocked(s)
           \/ life \in Closed /\ row = RoomReady
        /\ RoomFree(s) \/ MayClaimRoom(s)
  BY DEF MovesTogether
<1> USE SessionAssumption, PlanAssumption
<1>a. /\ \A o : /\ Owned(o).session = o /\ Blocked(o).session = o
                /\ Owned(o).phase = "Owned" /\ Blocked(o).phase = "Blocked"
      /\ RoomReady.session = NoSession /\ RoomReady.phase = "Ready"
  BY DEF Owned, Blocked, RoomReady
<1>b. /\ RoomOf[s] \in Room
      /\ lifecycle'[s] = life /\ room'[RoomOf[s]] = row
      /\ \A o \in Session : o # s => lifecycle'[o] = lifecycle[o]
      /\ \A r \in Room : r # RoomOf[s] => room'[r] = room[r]
  BY DEF StoreTypeOK
(* No other session of the room is open: the room was free or held by s.    *)
<1>1. ASSUME NEW o \in Session, o # s, RoomOf[o] = RoomOf[s]
      PROVE  lifecycle[o] \notin {"Open", "RecoveryRequired"}
  <2>1. CASE RoomFree(s)
    BY <1>1, <2>1 DEF RoomFree, IsOpen
  <2>2. CASE MayClaimRoom(s)
    <3>1. room[RoomOf[s]].session = s
      BY <1>a, <2>2 DEF MayClaimRoom, IsOpen, OwnershipExact
    <3> QED BY <1>a, <1>1, <3>1 DEF OwnershipExact
  <2> QED BY <2>1, <2>2
<1>2. ASSUME NEW o \in Session
      PROVE  /\ lifecycle'[o] = "Open" <=> room'[RoomOf[o]] = Owned(o)
             /\ lifecycle'[o] = "RecoveryRequired" <=> room'[RoomOf[o]] = Blocked(o)
  <2>1. CASE o = s
    BY <1>a, <1>b, <2>1 DEF Closed
  <2>2. CASE o # s /\ RoomOf[o] = RoomOf[s]
    <3>1. row.session # o
      BY <1>a, <2>2
    <3> QED BY <1>a, <1>b, <3>1, <2>2, <1>1
  <2>3. CASE o # s /\ RoomOf[o] # RoomOf[s]
    BY <1>b, <2>3 DEF OwnershipExact
  <2> QED BY <2>1, <2>2, <2>3
<1>3. ASSUME NEW r \in Room
      PROVE  /\ room'[r].phase = "Ready" <=> room'[r].session = NoSession
             /\ room'[r].session # NoSession => RoomOf[room'[r].session] = r
  <2>1. CASE r = RoomOf[s]
    BY <1>a, <1>b, <2>1
  <2>2. CASE r # RoomOf[s]
    BY <1>b, <2>2 DEF OwnershipExact
  <2> QED BY <2>1, <2>2
<1> QED
  BY <1>2, <1>3 DEF OwnershipExact

LEMMA OwnershipKept == RowTypes /\ OwnershipExact /\ [Next]_vars => OwnershipExact'
<1> SUFFICES ASSUME RowTypes, OwnershipExact, [Next]_vars PROVE OwnershipExact'
  OBVIOUS
<1>1. StoreTypeOK
  BY DEF RowTypes, StoreTypeOK
<1>2. CASE UNCHANGED <<lifecycle, room>>
  BY <1>2 DEF OwnershipExact
<1>3. CASE \E s \in Session : MovesTogether(s)
  BY <1>1, <1>3, OwnershipStep
<1>4. CASE RemoteNext \/ UNCHANGED storeVars
  BY <1>2, <1>4, RemoteKeepsRecording DEF storeVars, recordingVars
<1> QED BY <1>1, <1>2, <1>3, <1>4, StoreSteps, RecordingMovesTogether

LEMMA InitOwnership == Init => OwnershipExact
BY SessionAssumption, PlanAssumption
   DEF Init, StoreInit, OwnershipExact, RoomReady, Owned, Blocked

(* Whatever was interrupted, the ownership audit of the next startup has    *)
(* nothing to repair and no conflict to refuse.                             *)
THEOREM OwnershipIsExact == Spec => []OwnershipExact
BY InitOwnership, OwnershipKept, TypesHold, PTL DEF Spec

-----------------------------------------------------------------------------
(* What a closed session may hold *)

LEMMA SettledStep ==
    ASSUME StoreTypeOK, ClosedSessionsAreSettled, RecordingNext
    PROVE  ClosedSessionsAreSettled'
<1> USE DEF StoreTypeOK, Settled, UnresolvedIntent, ResolvingConflict, Resolving, Decision,
        SetLifecycle, SetArtifact, IsOpen, MayClaimRoom, MarkRecoveryRequired
<1>a. \A x \in Slot : Settled(lifecycle[x[1]], artifact[x]) /\ x[1] \in Session
  BY SlotParts DEF ClosedSessionsAreSettled
<1> SUFFICES ASSUME NEW y \in Slot
             PROVE  Settled(lifecycle'[y[1]], artifact'[y])
  BY DEF ClosedSessionsAreSettled
<1>1. ASSUME NEW s \in Session, CreateSession(s)
      PROVE  Settled(lifecycle'[y[1]], artifact'[y])
  BY <1>1, <1>a DEF CreateSession, Exists
<1>2. ASSUME NEW s \in Session, RequireRecovery(s)
      PROVE  Settled(lifecycle'[y[1]], artifact'[y])
  BY <1>2, <1>a DEF RequireRecovery
(* A session closes only when none of its segments needs attention.         *)
<1>3. ASSUME NEW s \in Session, CloseNatural(s)
      PROVE  Settled(lifecycle'[y[1]], artifact'[y])
  <2>1. y[1] = s => y \in SlotsOf(s)
    BY SlotParts DEF SlotsOf
  <2> QED BY <1>3, <1>a, <2>1
          DEF CloseNatural, NeedsAttention, HasIntent, HasFailed, Closure
<1>4. ASSUME NEW s \in Session, CloseAbandon(s)
      PROVE  Settled(lifecycle'[y[1]], artifact'[y])
  <2>1. y[1] = s => y \in SlotsOf(s)
    BY SlotParts DEF SlotsOf
  <2> QED BY <1>4, <1>a, <2>1 DEF CloseAbandon, HasIntent
<1>5. ASSUME NEW s \in Session, NEW b \in BOOLEAN, CloseRecover(s, b)
      PROVE  Settled(lifecycle'[y[1]], artifact'[y])
  <2>1. y[1] = s <=> y \in SlotsOf(s)
    <3>1. y = <<y[1], y[2]>> /\ y[2] \in Index
      BY SlotParts
    <3> QED BY <3>1 DEF SlotsOf
  <2>2. artifact'[y] = IF y[1] = s /\ b /\ artifact[y] = "Failed"
                       THEN "Excluded" ELSE artifact[y]
    BY <1>5, <2>1 DEF CloseRecover
  <2>3. y[1] = s => artifact[y] \notin UnresolvedIntent /\ (artifact[y] = "Failed" => b)
    BY <1>5, <2>1 DEF CloseRecover, HasIntent, HasFailed
  <2>4. lifecycle'[y[1]] = IF y[1] = s THEN Closure(s) ELSE lifecycle[y[1]]
    BY <1>5, <1>a DEF CloseRecover
  <2> QED BY <1>a, <2>2, <2>3, <2>4 DEF Closure
<1>6. ASSUME NEW x \in Slot,
             OpenSegment(x) \/ BeginArtifactFinalization(x) \/ BeginArtifactDiscard(x)
      PROVE  Settled(lifecycle'[y[1]], artifact'[y])
  <2>1. /\ lifecycle' = lifecycle /\ lifecycle[x[1]] = "Open"
        /\ \E art \in {"Writing", "Finalizing", "Discarding"} : SetArtifact(x, art)
    BY <1>6 DEF OpenSegment, BeginArtifactFinalization, BeginArtifactDiscard,
       BeginArtifact
  <2> QED BY <1>a, <2>1
<1>7. ASSUME NEW x \in Slot,
             \/ CompleteArtifactFinalization(x) \/ CompleteArtifactDiscard(x)
             \/ CompleteArtifactConflictResolution(x) \/ ExcludeArtifactConflict(x)
      PROVE  Settled(lifecycle'[y[1]], artifact'[y])
  BY <1>7, <1>a DEF CompleteArtifactFinalization, CompleteArtifactDiscard,
     CompleteArtifactConflictResolution, ExcludeArtifactConflict, CompleteArtifact
<1>8. ASSUME NEW x \in Slot, NEW d \in Decision, BeginArtifactConflictResolution(x, d)
      PROVE  Settled(lifecycle'[y[1]], artifact'[y])
  BY <1>8, <1>a DEF BeginArtifactConflictResolution
<1>9. ASSUME NEW x \in Slot, FailArtifact(x)
      PROVE  Settled(lifecycle'[y[1]], artifact'[y])
  BY <1>9, <1>a DEF FailArtifact
<1>10. ASSUME NEW x \in Slot, BeginArtifactDelete(x) \/ CompleteArtifactDelete(x)
       PROVE  Settled(lifecycle'[y[1]], artifact'[y])
  BY <1>10, <1>a DEF BeginArtifactDelete, MayDelete, PermitsSubmission,
     CompleteArtifactDelete
<1> QED
  BY <1>1, <1>2, <1>3, <1>4, <1>5, <1>6, <1>7, <1>8, <1>9, <1>10 DEF RecordingNext

(* No closed session holds an artifact that startup would have to repair.   *)
THEOREM ClosedIsSettled == Spec => []ClosedSessionsAreSettled
<1>1. Init => ClosedSessionsAreSettled
  BY DEF Init, StoreInit, ClosedSessionsAreSettled, Settled, UnresolvedIntent,
     ResolvingConflict, Resolving, Decision
<1>2. RowTypes /\ ClosedSessionsAreSettled /\ [Next]_vars => ClosedSessionsAreSettled'
  <2> SUFFICES ASSUME RowTypes, ClosedSessionsAreSettled, [Next]_vars
               PROVE  ClosedSessionsAreSettled'
    OBVIOUS
  <2>1. StoreTypeOK
    BY DEF RowTypes, StoreTypeOK
  <2>2. CASE RemoteNext \/ UNCHANGED storeVars
    BY <2>2, RemoteKeepsRecording
       DEF storeVars, recordingVars, ClosedSessionsAreSettled
  <2> QED BY <2>1, <2>2, StoreSteps, SettledStep
<1> QED
  BY <1>1, <1>2, TypesHold, PTL DEF Spec

(* Whatever segment reconciliation finds in flight, its session accepts the *)
(* repair, so reconcile raises no error that would keep a run from starting.*)
THEOREM ReconciliationIsNeverRefused == Spec => []RepairsAccepted
<1>1. OwnershipExact /\ ClosedSessionsAreSettled => RepairsAccepted
  <2> SUFFICES ASSUME OwnershipExact, ClosedSessionsAreSettled, NEW x \in Slot,
                      artifact[x] \in UnresolvedIntent \ {"Deleting"}
               PROVE  MayClaimRoom(x[1])
    BY DEF RepairsAccepted
  <2>1. x[1] \in Session /\ lifecycle[x[1]] \in {"Open", "RecoveryRequired"}
    BY SlotParts DEF ClosedSessionsAreSettled, Settled
  <2>2. room[RoomOf[x[1]]] \in {Owned(x[1]), Blocked(x[1])}
    BY <2>1 DEF OwnershipExact
  <2>3. Owned(x[1]).session = x[1] /\ Blocked(x[1]).session = x[1]
    BY DEF Owned, Blocked
  <2> QED BY <2>1, <2>2, <2>3 DEF MayClaimRoom, IsOpen
<1> QED
  BY <1>1, OwnershipIsExact, ClosedIsSettled, PTL
=============================================================================
