------------------------ MODULE DurableGates_proofs -------------------------
(***************************************************************************)
(* Theorems about DurableState that relate one row to another: a session's  *)
(* closure to its segments, a submission to the session it covers, and a    *)
(* target's gate to the attempt that closed it.                             *)
(***************************************************************************)
EXTENDS DurableRemote_proofs

LEMMA SlotsOfSession ==
    ASSUME NEW s \in Session, NEW x \in SlotsOf(s)
    PROVE  x \in Slot /\ x[1] = s
BY DEF SlotsOf, Slot

(* Nothing happens to a closed session but the deletion of files it has     *)
(* published: the transitions of artifacts check the session's lifecycle.   *)
LEMMA ClosedSessionStays ==
    ASSUME StoreTypeOK, RecordingNext, NEW s \in Session, lifecycle[s] \in Closed
    PROVE  /\ lifecycle'[s] = lifecycle[s]
           /\ \A x \in SlotsOf(s) :
                 /\ upload'[x] = upload[x]
                 /\ \/ artifact'[x] = artifact[x]
                    \/ IsUsable(artifact[x]) /\ IsUsable(artifact'[x])
<1> USE DEF StoreTypeOK, Closed, SetLifecycle, SetArtifact, SetUpload, uploadVars
<1>a. \A x \in SlotsOf(s) : x \in Slot /\ x[1] = s
  BY SlotsOfSession
<1> DEFINE Stays == /\ lifecycle'[s] = lifecycle[s]
                    /\ \A x \in SlotsOf(s) :
                          /\ upload'[x] = upload[x]
                          /\ \/ artifact'[x] = artifact[x]
                             \/ IsUsable(artifact[x]) /\ IsUsable(artifact'[x])
<1>b. \A r \in Session : MayClaimRoom(r) \/ lifecycle[r] \in {"Absent", "Open", "RecoveryRequired"} => r # s
  BY DEF MayClaimRoom, IsOpen
<1>1. ASSUME NEW r \in Session,
             CreateSession(r) \/ RequireRecovery(r) \/ CloseNatural(r)
      PROVE  Stays
  BY <1>1, <1>a, <1>b DEF CreateSession, Exists, RequireRecovery, MarkRecoveryRequired,
     CloseNatural
<1>2. ASSUME NEW r \in Session, CloseAbandon(r)
      PROVE  Stays
  BY <1>2, <1>a, <1>b DEF CloseAbandon
<1>3. ASSUME NEW r \in Session, NEW b \in BOOLEAN, CloseRecover(r, b)
      PROVE  Stays
  <2>1. /\ r # s
        /\ \A x \in Slot : x \notin SlotsOf(r) =>
              artifact'[x] = artifact[x] /\ upload'[x] = upload[x]
        /\ lifecycle'[s] = lifecycle[s]
    BY <1>3, <1>b DEF CloseRecover
  <2>2. \A x \in SlotsOf(s) : x \notin SlotsOf(r)
    BY <2>1, <1>a, SlotsOfSession
  <2> QED BY <2>1, <2>2, <1>a
<1>4. ASSUME NEW x \in Slot, OpenSegment(x)
      PROVE  Stays
  BY <1>4, <1>a, <1>b, SlotParts DEF OpenSegment
<1>5. ASSUME NEW x \in Slot, BeginArtifactFinalization(x) \/ BeginArtifactDiscard(x)
      PROVE  Stays
  BY <1>5, <1>a, <1>b, SlotParts DEF BeginArtifactFinalization, BeginArtifactDiscard,
     BeginArtifact
<1>6. ASSUME NEW x \in Slot,
             \/ CompleteArtifactFinalization(x) \/ CompleteArtifactDiscard(x)
             \/ CompleteArtifactConflictResolution(x) \/ ExcludeArtifactConflict(x)
      PROVE  Stays
  BY <1>6, <1>a, <1>b, SlotParts DEF CompleteArtifactFinalization,
     CompleteArtifactDiscard, CompleteArtifactConflictResolution,
     ExcludeArtifactConflict, CompleteArtifact
<1>7. ASSUME NEW x \in Slot, NEW d \in Decision, BeginArtifactConflictResolution(x, d)
      PROVE  Stays
  BY <1>7, <1>a, <1>b, SlotParts DEF BeginArtifactConflictResolution
<1>8. ASSUME NEW x \in Slot, FailArtifact(x)
      PROVE  Stays
  BY <1>8, <1>a, <1>b, SlotParts DEF FailArtifact, MarkRecoveryRequired
<1>9. ASSUME NEW x \in Slot, BeginArtifactDelete(x) \/ CompleteArtifactDelete(x)
      PROVE  Stays
  BY <1>9, <1>a DEF BeginArtifactDelete, MayDelete, CompleteArtifactDelete, IsUsable
<1> QED
  BY <1>1, <1>2, <1>3, <1>4, <1>5, <1>6, <1>7, <1>8, <1>9 DEF RecordingNext

(* A session is created, or one that is not closed goes on or is closed.    *)
LifecycleMoves(s) ==
    \E life \in SessionLifecycle :
        /\ lifecycle' = [lifecycle EXCEPT ![s] = life]
        /\ \/ ~Exists(s) /\ RoomFree(s) /\ life = "Open"
           \/ IsOpen(s) /\ life \in {"Open", "RecoveryRequired"} \cup Closed

LEMMA RecordingMovesLifecycle ==
    ASSUME StoreTypeOK, RecordingNext
    PROVE  (\E s \in Session : LifecycleMoves(s)) \/ UNCHANGED lifecycle
<1> USE DEF LifecycleMoves, SetLifecycle, SessionLifecycle, Closed, MayClaimRoom
<1>1. ASSUME NEW s \in Session, CreateSession(s)
      PROVE  LifecycleMoves(s)
  BY <1>1 DEF CreateSession
<1>2. ASSUME NEW s \in Session, RequireRecovery(s) \/ CloseAbandon(s)
      PROVE  LifecycleMoves(s)
  BY <1>2 DEF RequireRecovery, MarkRecoveryRequired, CloseAbandon
<1>3. ASSUME NEW s \in Session, CloseNatural(s) \/ \E b \in BOOLEAN : CloseRecover(s, b)
      PROVE  LifecycleMoves(s)
  BY <1>3 DEF CloseNatural, MarkRecoveryRequired, CloseRecover, Closure, IsOpen
<1>4. ASSUME NEW x \in Slot, FailArtifact(x)
      PROVE  LifecycleMoves(x[1])
  BY <1>4, SlotParts DEF FailArtifact, MarkRecoveryRequired
<1> QED
  BY <1>1, <1>2, <1>3, <1>4, SlotParts DEF RecordingNext, OpenSegment,
     BeginArtifactFinalization, BeginArtifactDiscard, BeginArtifact,
     CompleteArtifactFinalization, CompleteArtifactDiscard,
     CompleteArtifactConflictResolution, ExcludeArtifactConflict, CompleteArtifact,
     BeginArtifactConflictResolution, BeginArtifactDelete, CompleteArtifactDelete

-----------------------------------------------------------------------------
(* Submissions *)

(* Only a begun submission gives a session a submission row.                *)
LEMMA SubmissionRowAppears ==
    ASSUME StoreTypeOK, NEW s \in Session, NEW r \in Session, SubmissionNext(r)
    PROVE  \/ HasSubmission(s)' => HasSubmission(s)
           \/ r = s /\ BeginSubmission(s)
<1> USE DEF StoreTypeOK, HasSubmission, SetSubmission
<1>1. CASE r # s
  BY <1>1 DEF SubmissionNext, BeginSubmission, CompleteSubmission,
     ScheduleSubmissionRetry, BlockSubmission, MarkSubmissionAmbiguous, FinishSubmission,
     ResolveSubmission, SubmissionRetryDue
<1>2. CASE r = s
  <2>1. CASE \E outcome, row : FinishSubmission(s, outcome, row)
    BY <2>1 DEF FinishSubmission
  <2>2. CASE \E h \in BOOLEAN : ResolveSubmission(s, h)
    BY <2>2 DEF ResolveSubmission, Recoverable
  <2>3. CASE SubmissionRetryDue(s)
    BY <2>3 DEF SubmissionRetryDue, RetryScheduled
  <2> QED BY <1>2, <2>1, <2>2, <2>3 DEF SubmissionNext, CompleteSubmission,
          ScheduleSubmissionRetry, BlockSubmission, MarkSubmissionAmbiguous
<1> QED
  BY <1>1, <1>2

(* An upload that is done is touched by nothing but the closing of an       *)
(* unfinished session.                                                      *)
LEMMA UploadedStays ==
    ASSUME StoreTypeOK, NEW x \in Slot, NEW y \in Slot, UploadNext(x),
           upload[y].state = "Uploaded"
    PROVE  upload'[y] = upload[y]
BY DEF StoreTypeOK, SetUpload, UploadNext, BeginUpload, MayUpload, CompleteUpload,
   ScheduleUploadRetry, BlockUpload, MarkUploadAmbiguous, FinishUpload, ResolveUpload,
   Recoverable, UploadRetryDue, Pending

LEMMA CoverageStep ==
    ASSUME StoreTypeOK, SubmissionCoversSession, [Next]_vars
    PROVE  SubmissionCoversSession'
<1> SUFFICES ASSUME NEW s \in Session, HasSubmission(s)'
             PROVE  (lifecycle[s] = "Completed" /\ HasPlan(s) /\ SubmissionPartsReady(s))'
  BY DEF SubmissionCoversSession
<1> DEFINE Covered == lifecycle[s] = "Completed" /\ HasPlan(s) /\ SubmissionPartsReady(s)
<1>a. ASSUME Covered, lifecycle'[s] = lifecycle[s],
             \A x \in SlotsOf(s) :
                /\ upload[x].state = "Uploaded" => upload'[x] = upload[x]
                /\ \/ artifact'[x] = artifact[x]
                   \/ IsUsable(artifact[x]) /\ IsUsable(artifact'[x])
      PROVE  Covered'
  <2>1. \A x \in SlotsOf(s) : IsPart(x) => IsPart(x)'
    BY <1>a DEF IsPart
  <2>2. \A x \in SlotsOf(s) : IsSkipped(x) => IsSkipped(x)'
    BY <1>a DEF IsSkipped, IsUsable
  <2> QED BY <1>a, <2>1, <2>2 DEF SubmissionPartsReady, HasPlan, SlotsOf
<1>b. HasSubmission(s) => Covered
  BY DEF SubmissionCoversSession
<1>1. CASE RecordingNext
  <2>1. Covered
    BY <1>1, <1>b, RecordingKeepsSubmissions DEF HasSubmission, submissionVars
  <2> QED BY <1>1, <2>1, <1>a, ClosedSessionStays DEF Closed
<1>2. CASE \E x \in Slot : UploadNext(x)
  <2>1. submission' = submission
    BY <1>2 DEF UploadNext, BeginUpload, CompleteUpload, ScheduleUploadRetry, BlockUpload,
       MarkUploadAmbiguous, FinishUpload, ResolveUpload, UploadRetryDue, submissionVars
  <2>2. \A x \in SlotsOf(s) : upload[x].state = "Uploaded" => upload'[x] = upload[x]
    BY <1>2, UploadedStays, SlotsOfSession
  <2>3. RemoteNext
    BY <1>2 DEF RemoteNext, UploadNext
  <2> QED BY <2>1, <2>2, <2>3, <1>a, <1>b, RemoteKeepsRecording
          DEF recordingVars, HasSubmission
<1>3. CASE \E r \in Session : SubmissionNext(r)
  <2>1. RemoteNext
    BY <1>3 DEF RemoteNext, SubmissionNext
  <2>2. UNCHANGED <<recordingVars, upload>>
    BY <1>3, <2>1, RemoteKeepsRecording DEF SubmissionNext, BeginSubmission,
       CompleteSubmission, ScheduleSubmissionRetry, BlockSubmission,
       MarkSubmissionAmbiguous, FinishSubmission, ResolveSubmission, SubmissionRetryDue,
       uploadVars
  <2>3. Covered
    BY <1>3, <1>b, SubmissionRowAppears DEF BeginSubmission, PermitsSubmission
  <2> QED BY <2>2, <2>3, <1>a DEF recordingVars
<1>4. CASE (\E t \in Target : BackoffDue(t)) \/ UNCHANGED storeVars
  <2>1. UNCHANGED <<recordingVars, uploadVars, submissionVars>>
    BY <1>4 DEF BackoffDue, storeVars
  <2> QED BY <2>1, <1>a, <1>b DEF recordingVars, uploadVars, submissionVars, HasSubmission
<1> QED
  BY <1>1, <1>2, <1>3, <1>4, StoreSteps, RemoteSteps

LEMMA InitCoverage == Init => SubmissionCoversSession
BY DEF Init, StoreInit, SubmissionCoversSession, HasSubmission, SubmissionIs

(* What a submission lists or skips stays so: no recording, upload,         *)
(* deletion or operator decision changes a session behind its submission.   *)
THEOREM SubmissionsCoverTheirSession == Spec => []SubmissionCoversSession
<1>1. RowTypes /\ SubmissionCoversSession /\ [Next]_vars => SubmissionCoversSession'
  BY CoverageStep DEF RowTypes, StoreTypeOK
<1> QED
  BY <1>1, InitCoverage, TypesHold, PTL DEF Spec

-----------------------------------------------------------------------------
(* The verdict of a closing *)

(* A session becomes closed by its own closing only, which leaves what is   *)
(* usable as it was.                                                        *)
LEMMA ClosingStep ==
    ASSUME StoreTypeOK, RecordingNext, NEW s \in Session,
           lifecycle[s] \notin Closed, lifecycle'[s] \in Closed
    PROVE  \/ lifecycle'[s] = "Abandoned"
           \/ /\ lifecycle'[s] = Closure(s)
              /\ \A x \in SlotsOf(s) : IsUsable(artifact'[x]) <=> IsUsable(artifact[x])
<1> USE DEF StoreTypeOK, SetLifecycle, MarkRecoveryRequired
<1> DEFINE Verdict == \/ lifecycle'[s] = "Abandoned"
                      \/ /\ lifecycle'[s] = Closure(s)
                         /\ \A x \in SlotsOf(s) :
                               IsUsable(artifact'[x]) <=> IsUsable(artifact[x])
<1>1. ASSUME NEW r \in Session, CreateSession(r) \/ RequireRecovery(r) \/ CloseAbandon(r)
      PROVE  Verdict
  BY <1>1 DEF CreateSession, RequireRecovery, CloseAbandon, Closed
<1>2. ASSUME NEW r \in Session, CloseNatural(r)
      PROVE  Verdict
  BY <1>2 DEF CloseNatural, Closed
<1>3. ASSUME NEW r \in Session, NEW b \in BOOLEAN, CloseRecover(r, b)
      PROVE  Verdict
  <2>1. r = s /\ lifecycle'[s] = Closure(s)
    BY <1>3 DEF CloseRecover
  <2>2. \A x \in SlotsOf(s) : \/ artifact'[x] = artifact[x]
                              \/ artifact[x] = "Failed" /\ artifact'[x] = "Excluded"
    BY <1>3, SlotsOfSession DEF CloseRecover
  <2> QED BY <2>1, <2>2 DEF IsUsable
<1>4. ASSUME NEW x \in Slot, FailArtifact(x)
      PROVE  FALSE
  BY <1>4, SlotParts DEF FailArtifact, Closed
<1>5. ASSUME lifecycle' = lifecycle
      PROVE  FALSE
  BY <1>5
<1> QED
  BY <1>1, <1>2, <1>3, <1>4, <1>5 DEF RecordingNext, OpenSegment,
     BeginArtifactFinalization, BeginArtifactDiscard, BeginArtifact,
     CompleteArtifactFinalization, CompleteArtifactDiscard,
     CompleteArtifactConflictResolution, ExcludeArtifactConflict, CompleteArtifact,
     BeginArtifactConflictResolution, BeginArtifactDelete, CompleteArtifactDelete

LEMMA ClosureStep ==
    ASSUME StoreTypeOK, ClosureTellsTheTruth, RecordingNext
    PROVE  ClosureTellsTheTruth'
<1> SUFFICES ASSUME NEW s \in Session
             PROVE  /\ lifecycle'[s] = "Completed" => HasUsable(s)'
                    /\ lifecycle'[s] = "NoUsableRecording" => ~HasUsable(s)'
  BY DEF ClosureTellsTheTruth
<1>a. ASSUME \A x \in SlotsOf(s) : IsUsable(artifact'[x]) <=> IsUsable(artifact[x])
      PROVE  HasUsable(s)' <=> HasUsable(s)
  BY <1>a DEF HasUsable, SlotsOf
<1>1. CASE lifecycle[s] \in Closed
  <2>1. lifecycle'[s] = lifecycle[s]
    BY <1>1, ClosedSessionStays
  <2>2. \A x \in SlotsOf(s) : IsUsable(artifact'[x]) <=> IsUsable(artifact[x])
    BY <1>1, ClosedSessionStays
  <2> QED BY <1>a, <2>1, <2>2 DEF ClosureTellsTheTruth
<1>2. CASE lifecycle[s] \notin Closed /\ lifecycle'[s] \in Closed
  BY <1>a, <1>2, ClosingStep DEF Closure
<1>3. CASE lifecycle'[s] \notin Closed
  BY <1>3 DEF Closed
<1> QED
  BY <1>1, <1>2, <1>3

(* Completed always means that there is a recording, and NoUsableRecording  *)
(* that there is none: nothing that happens after the closing, neither an   *)
(* exclusion nor a deletion nor a late repair, makes the verdict false.     *)
THEOREM ClosureIsTrue == Spec => []ClosureTellsTheTruth
<1>1. Init => ClosureTellsTheTruth
  BY DEF Init, StoreInit, ClosureTellsTheTruth
<1>2. RowTypes /\ ClosureTellsTheTruth /\ [Next]_vars => ClosureTellsTheTruth'
  <2> SUFFICES ASSUME RowTypes, ClosureTellsTheTruth, [Next]_vars
               PROVE  ClosureTellsTheTruth'
    OBVIOUS
  <2>1. StoreTypeOK
    BY DEF RowTypes, StoreTypeOK
  <2>2. CASE RemoteNext \/ UNCHANGED storeVars
    BY <2>2, RemoteKeepsRecording
       DEF storeVars, recordingVars, ClosureTellsTheTruth, HasUsable
  <2> QED BY <2>1, <2>2, StoreSteps, ClosureStep
<1> QED
  BY <1>1, <1>2, TypesHold, PTL DEF Spec

-----------------------------------------------------------------------------
(* Gates *)

(* The upload worker waits for an attempt before it begins another, in this *)
(* run and, since startup resolves what the last one left, across runs.     *)
AtMostOneInFlight ==
    /\ \A x, y \in Slot : upload[x].state = "Attempting" /\ upload[y].state = "Attempting" =>
                             x = y
    /\ \A r, s \in Session : submission[r].state = "Attempting"
                             /\ submission[s].state = "Attempting" => r = s
    /\ \A x \in Slot, s \in Session :
          upload[x].state = "Attempting" => submission[s].state # "Attempting"

(* No attempt is under way towards a blocked target: the one that blocked   *)
(* it was the only one, and no other begins until it is resolved.           *)
BlockedGateIsIdle ==
    \A t \in Target : gate[t].phase = "Blocked" =>
        /\ \A x \in Slot : TargetOf[x[1]] = t => upload[x].state # "Attempting"
        /\ \A s \in Session : TargetOf[s] = t => submission[s].state # "Attempting"

(* A reference to a submission has no segment.                              *)
OwnersAreReferences ==
    \A t \in Target : gate[t].phase = "Blocked" /\ gate[t].owner.kind = "Submission" =>
        gate[t].owner.segment = 0

GatesInv == AtMostOneInFlight /\ BlockedGateIsIdle /\ OwnersAreReferences
            /\ BlockedGateIsResolvable

(* What happens to recordings and sessions brings no upload into flight.    *)
LEMMA RecordingStartsNothing ==
    ASSUME StoreTypeOK, RecordingNext, NEW y \in Slot, upload'[y].state = "Attempting"
    PROVE  upload'[y] = upload[y]
<1> USE DEF StoreTypeOK, SetUpload
<1>1. \/ upload'[y] = upload[y]
      \/ upload'[y] = AbandonUpload(upload[y])
      \/ upload'[y] = UploadIs("NotPlanned")
      \/ upload'[y] = Pending(TRUE)
  BY DEF RecordingNext, CreateSession, RequireRecovery, CloseNatural, CloseAbandon,
     CloseRecover, OpenSegment, BeginArtifactFinalization, BeginArtifactDiscard,
     BeginArtifact, CompleteArtifactFinalization, CompleteArtifactDiscard,
     CompleteArtifactConflictResolution, ExcludeArtifactConflict, CompleteArtifact,
     BeginArtifactConflictResolution, FailArtifact, BeginArtifactDelete,
     CompleteArtifactDelete, uploadVars
<1> QED BY <1>1 DEF AbandonUpload, UploadOf, UploadIs, Pending

(* A row comes into flight only by the step that begins its attempt.        *)
LEMMA UploadTakesOff ==
    ASSUME StoreTypeOK, [Next]_vars, NEW y \in Slot,
           upload[y].state # "Attempting", upload'[y].state = "Attempting"
    PROVE  NoAttemptInFlight /\ BeginUpload(y)
<1> USE DEF StoreTypeOK, SetUpload
<1>1. ASSUME RecordingNext
      PROVE  FALSE
  BY <1>1, RecordingStartsNothing
<1>2. ASSUME NEW x \in Slot, UploadNext(x)
      PROVE  NoAttemptInFlight /\ BeginUpload(y)
  <2>1. CASE \E outcome, up : FinishUpload(x, outcome, up) /\ up.state # "Attempting"
    BY <2>1 DEF FinishUpload
  <2>2. CASE \E h \in BOOLEAN : ResolveUpload(x, h)
    BY <2>2 DEF ResolveUpload, UploadIs, Pending, NotUploadedState
  <2>3. CASE UploadRetryDue(x)
    BY <2>3 DEF UploadRetryDue, Pending
  <2>4. CASE NoAttemptInFlight /\ BeginUpload(x)
    <3>1. x = y
      BY <2>4 DEF BeginUpload
    <3> QED BY <2>4, <3>1
  <2>5. \/ CompleteUpload(x) \/ MarkUploadAmbiguous(x)
        \/ \E sc \in Scope : ScheduleUploadRetry(x, sc) \/ BlockUpload(x, sc)
        => \E outcome, up : FinishUpload(x, outcome, up) /\ up.state # "Attempting"
    BY DEF CompleteUpload, ScheduleUploadRetry, BlockUpload, MarkUploadAmbiguous, UploadIs,
       UploadOf, Pending
  <2> QED BY <1>2, <2>1, <2>2, <2>3, <2>4, <2>5 DEF UploadNext
<1>3. ASSUME NEW s \in Session, SubmissionNext(s)
      PROVE  upload' = upload
  BY <1>3 DEF SubmissionNext, BeginSubmission, CompleteSubmission, ScheduleSubmissionRetry,
     BlockSubmission, MarkSubmissionAmbiguous, FinishSubmission, ResolveSubmission,
     SubmissionRetryDue, uploadVars
<1> QED
  BY <1>1, <1>2, <1>3, StoreSteps, RemoteSteps DEF BackoffDue, storeVars, uploadVars

LEMMA SubmissionTakesOff ==
    ASSUME StoreTypeOK, [Next]_vars, NEW s \in Session,
           submission[s].state # "Attempting", submission'[s].state = "Attempting"
    PROVE  NoAttemptInFlight /\ BeginSubmission(s)
<1> USE DEF StoreTypeOK, SetSubmission
<1>1. ASSUME NEW r \in Session, SubmissionNext(r)
      PROVE  NoAttemptInFlight /\ BeginSubmission(s)
  <2>1. CASE \E outcome, row : FinishSubmission(r, outcome, row) /\ row.state # "Attempting"
    BY <2>1 DEF FinishSubmission
  <2>2. CASE \E h \in BOOLEAN : ResolveSubmission(r, h)
    BY <2>2 DEF ResolveSubmission, SubmissionIs
  <2>3. CASE SubmissionRetryDue(r)
    BY <2>3 DEF SubmissionRetryDue, RetryScheduled
  <2>4. CASE NoAttemptInFlight /\ BeginSubmission(r)
    <3>1. r = s
      BY <2>4 DEF BeginSubmission
    <3> QED BY <2>4, <3>1
  <2>5. \/ CompleteSubmission(r) \/ MarkSubmissionAmbiguous(r)
        \/ \E sc \in Scope : ScheduleSubmissionRetry(r, sc) \/ BlockSubmission(r, sc)
        => \E outcome, row : FinishSubmission(r, outcome, row) /\ row.state # "Attempting"
    BY DEF CompleteSubmission, ScheduleSubmissionRetry, BlockSubmission,
       MarkSubmissionAmbiguous, SubmissionIs, SubmissionOf, RetryScheduled
  <2> QED BY <1>1, <2>1, <2>2, <2>3, <2>4, <2>5 DEF SubmissionNext
<1>2. ASSUME NEW x \in Slot, UploadNext(x)
      PROVE  submission' = submission
  BY <1>2 DEF UploadNext, BeginUpload, CompleteUpload, ScheduleUploadRetry, BlockUpload,
     MarkUploadAmbiguous, FinishUpload, ResolveUpload, UploadRetryDue, submissionVars
<1>3. ASSUME RecordingNext
      PROVE  submission' = submission
  BY <1>3, RecordingKeepsSubmissions DEF submissionVars
<1> QED
  BY <1>1, <1>2, <1>3, StoreSteps, RemoteSteps DEF BackoffDue, storeVars, submissionVars

LEMMA OneInFlightStep ==
    ASSUME StoreTypeOK, AtMostOneInFlight, [Next]_vars
    PROVE  AtMostOneInFlight'
<1>1. CASE \E x \in Slot : upload[x].state # "Attempting" /\ upload'[x].state = "Attempting"
  <2>0. PICK x \in Slot : NoAttemptInFlight /\ BeginUpload(x)
    BY <1>1, UploadTakesOff
  <2>1. /\ \A y \in Slot : y # x => upload'[y] = upload[y]
        /\ submission' = submission
    BY <2>0 DEF BeginUpload, SetUpload, submissionVars, StoreTypeOK
  <2> QED BY <2>0, <2>1 DEF NoAttemptInFlight, AtMostOneInFlight
<1>2. CASE \E s \in Session :
              submission[s].state # "Attempting" /\ submission'[s].state = "Attempting"
  <2>0. PICK s \in Session : NoAttemptInFlight /\ BeginSubmission(s)
    BY <1>2, SubmissionTakesOff
  <2>1. /\ \A r \in Session : r # s => submission'[r] = submission[r]
        /\ upload' = upload
    BY <2>0 DEF BeginSubmission, SetSubmission, uploadVars, StoreTypeOK
  <2> QED BY <2>0, <2>1 DEF NoAttemptInFlight, AtMostOneInFlight
<1>3. CASE /\ \A x \in Slot : upload'[x].state = "Attempting" => upload[x].state = "Attempting"
           /\ \A s \in Session :
                 submission'[s].state = "Attempting" => submission[s].state = "Attempting"
  BY <1>3 DEF AtMostOneInFlight
<1> QED
  BY <1>1, <1>2, <1>3

(* What a step may do to the gate of a target.                              *)
GateBegins(t) == gate[t].phase # "Blocked" /\ gate'[t].phase # "Blocked"

GateCloses(t) ==
    \/ \E x \in Slot :
          /\ TargetOf[x[1]] = t /\ upload[x].state = "Attempting"
          /\ \/ gate'[t].phase # "Blocked"
             \/ /\ gate'[t] = GateBlocked(CurrentUploadRef(x))
                /\ BlockUpload(x, "Target")
    \/ \E s \in Session :
          /\ TargetOf[s] = t /\ submission[s].state = "Attempting"
          /\ \/ gate'[t].phase # "Blocked"
             \/ /\ gate'[t] = GateBlocked(CurrentSubmissionRef(s))
                /\ BlockSubmission(s, "Target")

GateClears(t) ==
    /\ gate'[t] = GateReady
    /\ \/ \E x \in Slot, h \in BOOLEAN :
             ResolveUpload(x, h) /\ gate[t].owner = CurrentUploadRef(x)
       \/ \E s \in Session, h \in BOOLEAN :
             ResolveSubmission(s, h) /\ gate[t].owner = CurrentSubmissionRef(s)

LEMMA GateMoves ==
    ASSUME StoreTypeOK, [Next]_vars, NEW t \in Target
    PROVE  gate'[t] = gate[t] \/ GateBegins(t) \/ GateCloses(t) \/ GateClears(t)
<1> USE DEF StoreTypeOK, SetGate
<1> DEFINE Moves == gate'[t] = gate[t] \/ GateBegins(t) \/ GateCloses(t) \/ GateClears(t)
<1>a. GateReady.phase = "Ready" /\ \A o, b : GateBackoff(o, b).phase = "Backoff"
  BY DEF GateReady, GateBackoff
<1>1. ASSUME NEW r \in Target, ConsumeTargetReady(r) \/ BackoffDue(r)
      PROVE  gate'[t] = gate[t] \/ GateBegins(t)
  BY <1>1, <1>a DEF ConsumeTargetReady, TargetReady, BackoffDue, GateBegins
<1>2. ASSUME NEW x \in Slot, NEW sc \in Scope, ScheduleUploadRetry(x, sc) \/ BlockUpload(x, sc)
      PROVE  Moves
  <2>1. upload[x].state = "Attempting"
    BY <1>2 DEF ScheduleUploadRetry, BlockUpload, FinishUpload
  <2>2. \/ gate'[t] = gate[t]
        \/ /\ TargetOf[x[1]] = t /\ sc = "Target"
           /\ \/ gate'[t] = GateBackoff(CurrentUploadRef(x), FALSE)
              \/ gate'[t] = GateBlocked(CurrentUploadRef(x)) /\ BlockUpload(x, sc)
    BY <1>2 DEF ScheduleUploadRetry, BlockUpload, BackOffTarget, BlockTarget
  <2> QED BY <2>1, <2>2, <1>a DEF GateCloses
<1>3. ASSUME NEW s \in Session, NEW sc \in Scope,
             ScheduleSubmissionRetry(s, sc) \/ BlockSubmission(s, sc)
      PROVE  Moves
  <2>1. submission[s].state = "Attempting"
    BY <1>3 DEF ScheduleSubmissionRetry, BlockSubmission, FinishSubmission
  <2>2. \/ gate'[t] = gate[t]
        \/ /\ TargetOf[s] = t /\ sc = "Target"
           /\ \/ gate'[t] = GateBackoff(CurrentSubmissionRef(s), FALSE)
              \/ gate'[t] = GateBlocked(CurrentSubmissionRef(s)) /\ BlockSubmission(s, sc)
    BY <1>3 DEF ScheduleSubmissionRetry, BlockSubmission, BackOffTarget, BlockTarget
  <2> QED BY <2>1, <2>2, <1>a DEF GateCloses
<1>4. ASSUME NEW x \in Slot, NEW h \in BOOLEAN, ResolveUpload(x, h)
      PROVE  Moves
  BY <1>4 DEF ResolveUpload, ClearGateIfOwner, GateClears, CurrentUploadRef
<1>5. ASSUME NEW s \in Session, NEW h \in BOOLEAN, ResolveSubmission(s, h)
      PROVE  Moves
  BY <1>5 DEF ResolveSubmission, ClearGateIfOwner, GateClears, CurrentSubmissionRef
<1>6. ASSUME NEW x \in Slot, UploadNext(x)
      PROVE  Moves
  <2>1. CASE BeginUpload(x)
    <3>1. TargetOf[x[1]] \in Target
      BY <2>1, SlotParts, PlanAssumption DEF BeginUpload, MayUpload, HasPlan
    <3> QED BY <2>1, <3>1, <1>1 DEF BeginUpload
  <2>2. CASE CompleteUpload(x) \/ MarkUploadAmbiguous(x) \/ UploadRetryDue(x)
    BY <2>2 DEF CompleteUpload, MarkUploadAmbiguous, UploadRetryDue
  <2> QED BY <1>6, <2>1, <2>2, <1>2, <1>4 DEF UploadNext
<1>7. ASSUME NEW s \in Session, SubmissionNext(s)
      PROVE  Moves
  <2>1. CASE BeginSubmission(s)
    <3>1. TargetOf[s] \in Target
      BY <2>1, PlanAssumption DEF BeginSubmission, HasPlan
    <3> QED BY <2>1, <3>1, <1>1 DEF BeginSubmission
  <2>2. CASE CompleteSubmission(s) \/ MarkSubmissionAmbiguous(s) \/ SubmissionRetryDue(s)
    BY <2>2 DEF CompleteSubmission, MarkSubmissionAmbiguous, SubmissionRetryDue
  <2> QED BY <1>7, <2>1, <2>2, <1>3, <1>5 DEF SubmissionNext
<1>8. CASE RecordingNext \/ UNCHANGED storeVars
  BY <1>8, RecordingKeepsSubmissions DEF storeVars
<1> QED
  BY <1>1, <1>6, <1>7, <1>8, StoreSteps, RemoteSteps

LEMMA IdleStep ==
    ASSUME StoreTypeOK, AtMostOneInFlight, BlockedGateIsIdle, [Next]_vars
    PROVE  BlockedGateIsIdle'
<1> SUFFICES ASSUME NEW t \in Target, gate'[t].phase = "Blocked"
             PROVE  /\ \A x \in Slot : TargetOf[x[1]] = t => upload'[x].state # "Attempting"
                    /\ \A s \in Session : TargetOf[s] = t => submission'[s].state # "Attempting"
  BY DEF BlockedGateIsIdle
<1>1. CASE gate'[t] = gate[t]
  <2>1. ASSUME NEW x \in Slot, TargetOf[x[1]] = t, upload'[x].state = "Attempting"
        PROVE  FALSE
    <3>1. upload[x].state # "Attempting"
      BY <1>1, <2>1 DEF BlockedGateIsIdle
    <3> QED BY <1>1, <2>1, <3>1, UploadTakesOff
            DEF BeginUpload, ConsumeTargetReady, TargetReady
  <2>2. ASSUME NEW s \in Session, TargetOf[s] = t, submission'[s].state = "Attempting"
        PROVE  FALSE
    <3>1. submission[s].state # "Attempting"
      BY <1>1, <2>2 DEF BlockedGateIsIdle
    <3> QED BY <1>1, <2>2, <3>1, SubmissionTakesOff
            DEF BeginSubmission, ConsumeTargetReady, TargetReady
  <2> QED BY <2>1, <2>2
(* The attempt that closes the gate was the only one, and has ended.        *)
<1>2. CASE GateCloses(t)
  <2>1. CASE \E x \in Slot : upload[x].state = "Attempting" /\ BlockUpload(x, "Target")
    <3>0. PICK x \in Slot : upload[x].state = "Attempting" /\ BlockUpload(x, "Target")
      BY <2>1
    <3>1. upload'[x].state = "Blocked"
      BY <3>0 DEF BlockUpload, FinishUpload, SetUpload, UploadOf, StoreTypeOK
    <3>2. \A y \in Slot : upload'[y].state # "Attempting"
      BY <3>0, <3>1, UploadTakesOff DEF NoAttemptInFlight, AtMostOneInFlight
    <3>3. \A s \in Session : submission'[s].state # "Attempting"
      BY <3>0, SubmissionTakesOff DEF NoAttemptInFlight, AtMostOneInFlight
    <3> QED BY <3>2, <3>3
  <2>2. CASE \E s \in Session : submission[s].state = "Attempting"
                               /\ BlockSubmission(s, "Target")
    <3>0. PICK s \in Session : submission[s].state = "Attempting"
                               /\ BlockSubmission(s, "Target")
      BY <2>2
    <3>1. submission'[s].state = "Blocked"
      BY <3>0 DEF BlockSubmission, FinishSubmission, SetSubmission, SubmissionOf, StoreTypeOK
    <3>2. \A r \in Session : submission'[r].state # "Attempting"
      BY <3>0, <3>1, SubmissionTakesOff DEF NoAttemptInFlight, AtMostOneInFlight
    <3>3. \A x \in Slot : upload'[x].state # "Attempting"
      BY <3>0, UploadTakesOff DEF NoAttemptInFlight, AtMostOneInFlight
    <3> QED BY <3>2, <3>3
  <2> QED BY <1>2, <2>1, <2>2 DEF GateCloses
<1>3. CASE GateBegins(t) \/ GateClears(t)
  BY <1>3 DEF GateBegins, GateClears, GateReady
<1> QED
  BY <1>1, <1>2, <1>3, GateMoves

LEMMA OwnersStep ==
    ASSUME StoreTypeOK, OwnersAreReferences, [Next]_vars
    PROVE  OwnersAreReferences'
<1> SUFFICES ASSUME NEW t \in Target, gate'[t].phase = "Blocked",
                    gate'[t].owner.kind = "Submission"
             PROVE  gate'[t].owner.segment = 0
  BY DEF OwnersAreReferences
<1>1. CASE gate'[t] = gate[t]
  BY <1>1 DEF OwnersAreReferences
<1>2. CASE GateCloses(t)
  <2>1. \A o : GateBlocked(o).owner = o
    BY DEF GateBlocked
  <2>2. \/ \E x \in Slot : gate'[t] = GateBlocked(CurrentUploadRef(x))
        \/ \E s \in Session : gate'[t] = GateBlocked(CurrentSubmissionRef(s))
    BY <1>2 DEF GateCloses
  <2>3. \A x \in Slot : CurrentUploadRef(x).kind = "Upload"
    BY DEF CurrentUploadRef, UploadRef
  <2>4. \A s \in Session : CurrentSubmissionRef(s).segment = 0
    BY DEF CurrentSubmissionRef, SubmissionRef
  <2> QED BY <2>1, <2>2, <2>3, <2>4
<1>3. CASE GateBegins(t) \/ GateClears(t)
  BY <1>3 DEF GateBegins, GateClears, GateReady
<1> QED
  BY <1>1, <1>2, <1>3, GateMoves

(* Only an abandonment changes the upload of a recording that is kept.      *)
LEMMA UsableUploadStays ==
    ASSUME StoreTypeOK, RecordingNext, NEW y \in Slot, IsUsable(artifact[y])
    PROVE  upload'[y] = upload[y] \/ CloseAbandon(y[1])
<1> USE DEF StoreTypeOK, SetUpload, IsUsable
<1>1. ASSUME NEW s \in Session, CloseAbandon(s)
      PROVE  upload'[y] = upload[y] \/ CloseAbandon(y[1])
  BY <1>1 DEF CloseAbandon
<1>2. ASSUME NEW s \in Session, NEW b \in BOOLEAN, CloseRecover(s, b)
      PROVE  upload'[y] = upload[y]
  BY <1>2 DEF CloseRecover
<1>3. ASSUME NEW x \in Slot,
             OpenSegment(x) \/ CompleteArtifactDiscard(x) \/ ExcludeArtifactConflict(x)
      PROVE  upload'[y] = upload[y]
  BY <1>3 DEF OpenSegment, HasSegment, CompleteArtifactDiscard, ExcludeArtifactConflict,
     CompleteArtifact, Resolving
<1> QED
  BY <1>1, <1>2, <1>3 DEF RecordingNext, CreateSession, RequireRecovery, CloseNatural,
     BeginArtifactFinalization, BeginArtifactDiscard, BeginArtifact,
     CompleteArtifactFinalization, CompleteArtifactConflictResolution, CompleteArtifact,
     BeginArtifactConflictResolution, FailArtifact, BeginArtifactDelete,
     CompleteArtifactDelete, uploadVars

(* A segment that was sent and is not known to have arrived keeps its       *)
(* session from being submitted.                                            *)
LEMMA SentPartsAreAwaited ==
    ASSUME SubmissionCoversSession, SentIsUsable, NEW x \in Slot,
           uploadAttempts[x] # <<>>, upload[x].state # "Uploaded"
    PROVE  ~SubmissionPartsReady(x[1]) /\ ~HasSubmission(x[1])
<1>1. x[1] \in Session /\ x \in SlotsOf(x[1])
  BY SlotParts DEF SlotsOf
<1>2. ~IsPart(x) /\ ~IsSkipped(x)
  BY DEF IsPart, IsSkipped, SentIsUsable, IsUsable
<1> QED
  BY <1>1, <1>2 DEF SubmissionPartsReady, SubmissionCoversSession

(* The obligations of a blocked gate towards its owner, with the reference  *)
(* spelled out.                                                             *)
BlockedByUpload(t, x, n) ==
    /\ x \in Slot /\ TargetOf[x[1]] = t
    /\ gate[t].owner = UploadRef(x[1], x[2], n)
    /\ upload[x] = UploadOf("Blocked", n)
    /\ ~HasSubmission(x[1])

BlockedBySubmission(t, s, n) ==
    /\ s \in Session /\ TargetOf[s] = t
    /\ gate[t].owner = SubmissionRef(s, n)
    /\ submission[s] = SubmissionOf("Blocked", n)
    /\ lifecycle[s] = "Completed"

LEMMA BlockedGateHasOwner ==
    ASSUME StoreTypeOK, BlockedGateIsResolvable, OwnersAreReferences,
           NEW t \in Target, gate[t].phase = "Blocked"
    PROVE  LET o == gate[t].owner IN
           \/ BlockedByUpload(t, <<o.session, o.segment>>, o.attempt) /\ o.kind = "Upload"
           \/ BlockedBySubmission(t, o.session, o.attempt) /\ o.kind = "Submission"
<1> DEFINE o == gate[t].owner
<1>1. gate[t] \in UploadTargetGate /\ o \in RemoteOperationRef
  BY DEF StoreTypeOK, UploadTargetGate
<1>2. /\ o.session \in Session /\ TargetOf[o.session] = t
      /\ \/ /\ o.kind = "Upload" /\ o.segment \in Index
            /\ upload[<<o.session, o.segment>>] = UploadOf("Blocked", o.attempt)
            /\ ~HasSubmission(o.session)
         \/ /\ o.kind = "Submission"
            /\ submission[o.session] = SubmissionOf("Blocked", o.attempt)
            /\ PermitsSubmission(lifecycle[o.session])
  BY DEF BlockedGateIsResolvable
<1>3. CASE o.kind = "Upload"
  <2>1. o = UploadRef(o.session, o.segment, o.attempt)
    BY <1>1, <1>3 DEF RemoteOperationRef, UploadRef
  <2> QED BY <1>2, <1>3, <2>1 DEF BlockedByUpload, Slot
<1>4. CASE o.kind = "Submission"
  <2>1. o = SubmissionRef(o.session, o.attempt)
    BY <1>1, <1>4 DEF RemoteOperationRef, SubmissionRef, OwnersAreReferences
  <2> QED BY <1>2, <1>4, <2>1 DEF BlockedBySubmission, PermitsSubmission
<1> QED
  BY <1>2, <1>3, <1>4

(* While an upload holds its target, it stays as it is: every transition    *)
(* that could take it away from the operator is refused.                    *)
LEMMA UploadOwnerStays ==
    ASSUME StoreTypeOK, RowsInv, SentIsUsable, SubmissionCoversSession, [Next]_vars,
           NEW t \in Target, NEW x, NEW n, BlockedByUpload(t, x, n),
           gate[t].phase = "Blocked", gate'[t] = gate[t]
    PROVE  upload'[x] = upload[x] /\ submission'[x[1]].state = "Absent"
<1>a. /\ x \in Slot /\ x[1] \in Session /\ x = <<x[1], x[2]>>
      /\ upload[x].state = "Blocked" /\ upload[x].attempt = n /\ ~HasSubmission(x[1])
      /\ gate[t].owner = UploadRef(x[1], x[2], n) /\ TargetOf[x[1]] = t
  BY SlotParts DEF BlockedByUpload, UploadOf
<1>b. uploadAttempts[x] # <<>>
  BY <1>a DEF RowsInv, RowInv, HistoryMatches, NamesLast
<1>c. IsUsable(artifact[x])
  BY <1>a, <1>b DEF SentIsUsable
<1>1. CASE RecordingNext
  <2>1. OwnsBlockedGate(x[1])
    <3>1. gate[t].owner.session = x[1]
      BY <1>a DEF UploadRef
    <3> QED BY <3>1, <1>a, TargetAssumption DEF OwnsBlockedGate, HasPlan
  <2>2. upload'[x] = upload[x]
    BY <1>1, <1>a, <1>c, <2>1, UsableUploadStays DEF CloseAbandon
  <2> QED BY <1>1, <1>a, <2>2, RecordingKeepsSubmissions DEF submissionVars, HasSubmission
<1>2. ASSUME NEW y \in Slot, UploadNext(y)
      PROVE  upload'[x] = upload[x] /\ submission' = submission
  <2>1. submission' = submission
    BY <1>2, UploadStepMoves DEF submissionVars
  <2>2. CASE y # x
    <3>1. UNCHANGED upload[x]
      BY <1>2, <2>2, <1>a, UploadStepMoves
    <3> QED BY <2>1, <3>1
  <2>3. CASE y = x
    <3>1. PICK h \in BOOLEAN : ResolveUpload(x, h)
      BY <1>2, <2>3, <1>a DEF UploadNext, BeginUpload, MayUpload, CompleteUpload,
         ScheduleUploadRetry, BlockUpload, MarkUploadAmbiguous, FinishUpload,
         UploadRetryDue, Pending
    <3>2. gate'[t] = GateReady
      BY <3>1, <1>a DEF ResolveUpload, ClearGateIfOwner, SetGate, StoreTypeOK
    <3> QED BY <3>2 DEF GateReady
  <2> QED BY <2>1, <2>2, <2>3
<1>3. ASSUME NEW r \in Session, SubmissionNext(r)
      PROVE  upload'[x] = upload[x] /\ submission'[x[1]].state = "Absent"
  <2>1. upload' = upload
    BY <1>3, SubmissionStepMoves DEF uploadVars
  <2>2. ~SubmissionPartsReady(x[1])
    BY <1>a, <1>b, SentPartsAreAwaited
  <2> QED BY <1>a, <1>3, <2>1, <2>2, SubmissionRowAppears DEF BeginSubmission, HasSubmission
<1>4. CASE (\E r \in Target : BackoffDue(r)) \/ UNCHANGED storeVars
  <2>1. upload' = upload /\ submission' = submission
    BY <1>4 DEF BackoffDue, storeVars, uploadVars, submissionVars
  <2> QED BY <1>a, <2>1 DEF HasSubmission
<1> QED
  BY <1>1, <1>2, <1>3, <1>4, <1>a, StoreSteps, RemoteSteps DEF HasSubmission

LEMMA SubmissionOwnerStays ==
    ASSUME StoreTypeOK, RowsInv, SubmissionCoversSession, [Next]_vars,
           NEW t \in Target, NEW s, NEW n, BlockedBySubmission(t, s, n),
           gate[t].phase = "Blocked", gate'[t] = gate[t]
    PROVE  submission'[s] = submission[s] /\ lifecycle'[s] = lifecycle[s]
<1>a. /\ s \in Session /\ TargetOf[s] = t /\ lifecycle[s] = "Completed"
      /\ submission[s].state = "Blocked" /\ submission[s].attempt = n
      /\ gate[t].owner = SubmissionRef(s, n)
  BY DEF BlockedBySubmission, SubmissionOf
<1>1. CASE RecordingNext
  BY <1>1, <1>a, ClosedSessionStays, RecordingKeepsSubmissions DEF submissionVars, Closed
<1>2. CASE RemoteNext \/ UNCHANGED storeVars
  <2>1. lifecycle' = lifecycle
    BY <1>2, RemoteKeepsRecording DEF storeVars, recordingVars
  <2>2. ASSUME NEW y \in Slot, UploadNext(y)
        PROVE  submission'[s] = submission[s]
    BY <2>2, UploadStepMoves DEF submissionVars
  <2>3. ASSUME NEW r \in Session, SubmissionNext(r)
        PROVE  submission'[s] = submission[s]
    <3>1. CASE r # s
      BY <2>3, <3>1, <1>a, SubmissionStepMoves
    <3>2. CASE r = s
      <4>1. PICK h \in BOOLEAN : ResolveSubmission(s, h)
        BY <2>3, <3>2, <1>a DEF SubmissionNext, BeginSubmission, MaySubmit,
           CompleteSubmission, ScheduleSubmissionRetry, BlockSubmission,
           MarkSubmissionAmbiguous, FinishSubmission, SubmissionRetryDue, RetryScheduled
      <4>2. gate'[t] = GateReady
        BY <4>1, <1>a DEF ResolveSubmission, ClearGateIfOwner, SetGate, StoreTypeOK
      <4> QED BY <4>2 DEF GateReady
    <3> QED BY <3>1, <3>2
  <2> QED BY <1>2, <2>1, <2>2, <2>3, RemoteSteps
          DEF BackoffDue, storeVars, submissionVars
<1> QED
  BY <1>1, <1>2, StoreSteps

LEMMA ResolvableStep ==
    ASSUME StoreTypeOK, RowsInv, SentIsUsable, SubmissionCoversSession,
           OwnersAreReferences, BlockedGateIsResolvable, [Next]_vars
    PROVE  BlockedGateIsResolvable'
<1> DEFINE Resolvable(t, o) ==
        /\ o.session \in Session /\ TargetOf[o.session] = t
        /\ \/ /\ o.kind = "Upload" /\ o.segment \in Index
              /\ upload'[<<o.session, o.segment>>] = UploadOf("Blocked", o.attempt)
              /\ submission'[o.session].state = "Absent"
           \/ /\ o.kind = "Submission"
              /\ submission'[o.session] = SubmissionOf("Blocked", o.attempt)
              /\ PermitsSubmission(lifecycle'[o.session])
<1> SUFFICES ASSUME NEW t \in Target, gate'[t].phase = "Blocked"
             PROVE  Resolvable(t, gate'[t].owner)
  BY DEF BlockedGateIsResolvable, PermitsSubmission, HasSubmission
<1>1. CASE gate'[t] = gate[t]
  <2> DEFINE o == gate[t].owner
  <2>1. CASE BlockedByUpload(t, <<o.session, o.segment>>, o.attempt) /\ o.kind = "Upload"
    <3>1. /\ upload'[<<o.session, o.segment>>] = upload[<<o.session, o.segment>>]
          /\ submission'[o.session].state = "Absent"
      BY <1>1, <2>1, UploadOwnerStays
    <3> QED BY <1>1, <2>1, <3>1 DEF BlockedByUpload, Slot
  <2>2. CASE BlockedBySubmission(t, o.session, o.attempt) /\ o.kind = "Submission"
    <3>1. submission'[o.session] = submission[o.session]
          /\ lifecycle'[o.session] = lifecycle[o.session]
      BY <1>1, <2>2, SubmissionOwnerStays
    <3> QED BY <1>1, <2>2, <3>1 DEF BlockedBySubmission, PermitsSubmission
  <2> QED BY <1>1, <2>1, <2>2, BlockedGateHasOwner
<1>2. CASE \E x \in Slot : /\ TargetOf[x[1]] = t /\ upload[x].state = "Attempting"
                           /\ gate'[t] = GateBlocked(CurrentUploadRef(x))
                           /\ BlockUpload(x, "Target")
  <2>0. PICK x \in Slot : /\ TargetOf[x[1]] = t /\ upload[x].state = "Attempting"
                          /\ gate'[t] = GateBlocked(CurrentUploadRef(x))
                          /\ BlockUpload(x, "Target")
    BY <1>2
  <2>1. /\ gate'[t].owner.kind = "Upload" /\ gate'[t].owner.session = x[1]
        /\ gate'[t].owner.segment = x[2] /\ gate'[t].owner.attempt = upload[x].attempt
    BY <2>0 DEF GateBlocked, CurrentUploadRef, UploadRef
  <2>2. /\ upload'[x] = UploadOf("Blocked", upload[x].attempt)
        /\ submission' = submission
    BY <2>0 DEF BlockUpload, FinishUpload, SetUpload, StoreTypeOK, submissionVars
  <2>3. ~HasSubmission(x[1])
    <3>1. uploadAttempts[x] # <<>>
      BY <2>0 DEF RowsInv, RowInv, HistoryMatches, NamesLast
    <3> QED BY <2>0, <3>1, SentPartsAreAwaited
  <2> QED BY <2>0, <2>1, <2>2, <2>3, SlotParts DEF HasSubmission
<1>3. CASE \E s \in Session : /\ TargetOf[s] = t /\ submission[s].state = "Attempting"
                             /\ gate'[t] = GateBlocked(CurrentSubmissionRef(s))
                             /\ BlockSubmission(s, "Target")
  <2>0. PICK s \in Session : /\ TargetOf[s] = t /\ submission[s].state = "Attempting"
                             /\ gate'[t] = GateBlocked(CurrentSubmissionRef(s))
                             /\ BlockSubmission(s, "Target")
    BY <1>3
  <2>1. /\ gate'[t].owner.kind = "Submission" /\ gate'[t].owner.session = s
        /\ gate'[t].owner.attempt = submission[s].attempt
    BY <2>0 DEF GateBlocked, CurrentSubmissionRef, SubmissionRef
  <2>2. /\ submission'[s] = SubmissionOf("Blocked", submission[s].attempt)
        /\ lifecycle' = lifecycle
    BY <2>0 DEF BlockSubmission, FinishSubmission, SetSubmission, StoreTypeOK, recordingVars
  <2>3. lifecycle[s] = "Completed"
    BY <2>0 DEF SubmissionCoversSession, HasSubmission
  <2> QED BY <2>0, <2>1, <2>2, <2>3 DEF PermitsSubmission
<1>4. CASE GateBegins(t) \/ GateClears(t)
  BY <1>4 DEF GateBegins, GateClears, GateReady
<1> QED
  BY <1>1, <1>2, <1>3, <1>4, GateMoves DEF GateCloses

LEMMA GatesAlwaysHold ==
    Spec => [](RowTypes /\ RowsInv /\ SentIsUsable /\ SubmissionCoversSession /\ GatesInv)
<1>1. Init => GatesInv
  <2> SUFFICES ASSUME Init PROVE GatesInv
    OBVIOUS
  <2>1. /\ \A x \in Slot : upload[x].state = "NotPlanned"
        /\ \A s \in Session : submission[s].state = "Absent"
        /\ \A t \in Target : gate[t].phase = "Ready"
    BY DEF Init, StoreInit, UploadIs, SubmissionIs, GateReady
  <2> QED BY <2>1 DEF GatesInv, AtMostOneInFlight, BlockedGateIsIdle, OwnersAreReferences,
          BlockedGateIsResolvable
<1>2. /\ RowTypes /\ RowsInv /\ SentIsUsable /\ SubmissionCoversSession /\ GatesInv
      /\ [Next]_vars
      => GatesInv'
  <2> SUFFICES ASSUME RowTypes, RowsInv, SentIsUsable, SubmissionCoversSession, GatesInv,
                      [Next]_vars
               PROVE  GatesInv'
    OBVIOUS
  <2>1. StoreTypeOK
    BY DEF RowTypes, StoreTypeOK
  <2> QED BY <2>1, OneInFlightStep, IdleStep, OwnersStep, ResolvableStep DEF GatesInv
<1> QED
  BY <1>1, <1>2, RowsAlwaysHold, SubmissionsCoverTheirSession, PTL DEF Spec

(* A blocked target names an attempt that is still Blocked, in a session    *)
(* where the operator's resolve command is accepted: no abandonment,        *)
(* exclusion, deletion or submission can strand the target.                 *)
THEOREM BlockedTargetsAreResolvable == Spec => []BlockedGateIsResolvable
<1>1. GatesInv => BlockedGateIsResolvable
  BY DEF GatesInv
<1> QED
  BY <1>1, GatesAlwaysHold, PTL

(* A blocked target is reopened by the resolution of the operation that     *)
(* blocked it and by nothing else: not by another attempt's outcome, by     *)
(* time, by a restart or by another operator decision.                      *)
THEOREM TargetsReopenByResolution == Spec => GateReopensOnlyByResolution
<1> DEFINE Reopens ==
        \A t \in Target : gate[t].phase = "Blocked" /\ gate'[t] # gate[t] =>
          LET o == gate[t].owner  x == <<o.session, o.segment>> IN
          /\ gate'[t] = GateReady
          /\ IF o.kind = "Upload"
             THEN upload[x] = UploadOf("Blocked", o.attempt) /\
                  \E r \in uploadResolutions'[x] : r.attempt = o.attempt
             ELSE submission[o.session] = SubmissionOf("Blocked", o.attempt) /\
                  \E r \in submissionResolutions'[o.session] : r.attempt = o.attempt
<1>1. RowTypes /\ GatesInv /\ [Next]_vars => [Reopens]_vars
  <2> SUFFICES ASSUME RowTypes, GatesInv, [Next]_vars, NEW t \in Target,
                      gate[t].phase = "Blocked", gate'[t] # gate[t]
               PROVE  LET o == gate[t].owner  x == <<o.session, o.segment>> IN
                      /\ gate'[t] = GateReady
                      /\ IF o.kind = "Upload"
                         THEN upload[x] = UploadOf("Blocked", o.attempt) /\
                              \E r \in uploadResolutions'[x] : r.attempt = o.attempt
                         ELSE submission[o.session] = SubmissionOf("Blocked", o.attempt) /\
                              \E r \in submissionResolutions'[o.session] :
                                 r.attempt = o.attempt
    OBVIOUS
  <2> DEFINE o == gate[t].owner
  <2>a. StoreTypeOK /\ BlockedGateIsIdle /\ BlockedGateIsResolvable /\ OwnersAreReferences
    BY DEF RowTypes, StoreTypeOK, GatesInv
  <2>1. GateClears(t)
    <3>1. ~GateBegins(t) /\ ~GateCloses(t)
      BY <2>a DEF GateBegins, GateCloses, BlockedGateIsIdle
    <3> QED BY <2>a, <3>1, GateMoves
  <2>2. CASE \E x \in Slot, h \in BOOLEAN : ResolveUpload(x, h) /\ o = CurrentUploadRef(x)
    <3>0. PICK x \in Slot, h \in BOOLEAN : ResolveUpload(x, h) /\ o = CurrentUploadRef(x)
      BY <2>2
    <3>1. /\ o.kind = "Upload" /\ o.attempt = upload[x].attempt
          /\ <<o.session, o.segment>> = x
      BY <3>0, SlotParts DEF CurrentUploadRef, UploadRef
    <3>2. upload[x] = UploadOf("Blocked", o.attempt)
      BY <2>a, <3>1 DEF BlockedGateIsResolvable
    <3>3. [attempt |-> o.attempt, happened |-> h] \in uploadResolutions'[x]
      BY <2>a, <3>0, <3>1 DEF ResolveUpload, StoreTypeOK
    <3>4. gate'[t] = GateReady
      BY <2>1 DEF GateClears
    <3> QED BY <3>1, <3>2, <3>3, <3>4
  <2>3. CASE \E s \in Session, h \in BOOLEAN :
                ResolveSubmission(s, h) /\ o = CurrentSubmissionRef(s)
    <3>0. PICK s \in Session, h \in BOOLEAN :
             ResolveSubmission(s, h) /\ o = CurrentSubmissionRef(s)
      BY <2>3
    <3>1. o.kind = "Submission" /\ o.attempt = submission[s].attempt /\ o.session = s
      BY <3>0 DEF CurrentSubmissionRef, SubmissionRef
    <3>2. submission[s] = SubmissionOf("Blocked", o.attempt)
      BY <2>a, <3>1 DEF BlockedGateIsResolvable
    <3>3. [attempt |-> o.attempt, happened |-> h] \in submissionResolutions'[s]
      BY <2>a, <3>0, <3>1 DEF ResolveSubmission, StoreTypeOK
    <3>4. gate'[t] = GateReady
      BY <2>1 DEF GateClears
    <3> QED BY <3>1, <3>2, <3>3, <3>4
  <2> QED BY <2>1, <2>2, <2>3 DEF GateClears
<1> QED
  BY <1>1, GatesAlwaysHold, PTL DEF Spec, GateReopensOnlyByResolution
=============================================================================
