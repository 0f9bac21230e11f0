-------------------------- MODULE StoreViews_proofs --------------------------
(***************************************************************************)
(* What can be read off the rows of the store, for every set of sessions,   *)
(* rooms and targets: how far each broadcast's delivery has come, what the  *)
(* report of `status` says of it, and what the ownership audit makes of     *)
(* rows that somebody changed.                                              *)
(***************************************************************************)
EXTENDS DurableDelivery, Inspection, OwnershipAudit, DurableGates_proofs

-----------------------------------------------------------------------------
(* Delivery. A session's stage is read off its lifecycle and its submission *)
(* row; a submission row exists only once the session is Completed          *)
(* (SubmissionCoversSession), so each step moves at most one of the two.    *)

(* What no step but a deletion changes.                                     *)
LEMMA StageStays ==
    ASSUME NEW s \in Session,
           lifecycle'[s] = lifecycle[s], submission'[s].state = submission[s].state
    PROVE  StageOf(s)' = StageOf(s)
BY DEF StageOf

LEMMA StageValues ==
    ASSUME StoreTypeOK, NEW s \in Session
    PROVE  /\ StageOf(s) = "None" <=> lifecycle[s] = "Absent"
           /\ StageOf(s) = "Recording" <=> IsOpen(s)
           /\ lifecycle[s] \in {"Abandoned", "NoUsableRecording"} => StageOf(s) = "GivenUp"
           /\ lifecycle[s] = "Completed" =>
                 StageOf(s) = SubmissionStage[submission[s].state]
           /\ StageOf(s) = "Sending" => submission[s].state = "Attempting"
<1>1. lifecycle[s] \in SessionLifecycle /\ submission[s].state \in
         {"Absent", "RetryScheduled", "Attempting", "Blocked", "Ambiguous",
          "RetryAuthorized", "Submitted"}
  BY DEF StoreTypeOK, SubmissionState
<1> QED
  BY <1>1 DEF StageOf, SubmissionStage, IsOpen, SessionLifecycle, Closed

(* A step that touches one broadcast, as the abstract specification sees it.*)
LEMMA OneBroadcastMoves ==
    ASSUME NEW s \in Session, NEW from, NEW to,
           \A r \in Session : r # s => StageOf(r)' = StageOf(r),
           \A r \in Session : IsLocal(r)' = IsLocal(r),
           StageOf(s) \in from, StageOf(s)' \in to
    PROVE  Broadcasts!Move(s, from, to)
<1>1. [r \in Session |-> StageOf(r)'] =
         [[r \in Session |-> StageOf(r)] EXCEPT ![s] = StageOf(s)']
  OBVIOUS
<1>2. [r \in Session |-> IsLocal(r)'] = [r \in Session |-> IsLocal(r)]
  OBVIOUS
<1> QED
  BY <1>1, <1>2 DEF Broadcasts!Move

LEMMA NothingMoves ==
    ASSUME \A r \in Session : StageOf(r)' = StageOf(r),
           \A r \in Session : IsLocal(r)' = IsLocal(r)
    PROVE  UNCHANGED Broadcasts!deliveryVars
<1>1. [r \in Session |-> StageOf(r)'] = [r \in Session |-> StageOf(r)]
  OBVIOUS
<1>2. [r \in Session |-> IsLocal(r)'] = [r \in Session |-> IsLocal(r)]
  OBVIOUS
<1> QED
  BY <1>1, <1>2 DEF Broadcasts!deliveryVars

-----------------------------------------------------------------------------
(* Steps of the recording *)

(* Files are given up by deletions only.                                    *)
LEMMA LocalStays ==
    ASSUME StoreTypeOK, RecordingNext, ~\E x \in Slot : BeginArtifactDelete(x),
           NEW r \in Session
    PROVE  IsLocal(r)' = IsLocal(r)
<1> DEFINE Gone(art) == art \in {"Deleting", "Deleted"}
<1>1. ASSUME NEW y \in Slot
      PROVE  Gone(artifact'[y]) <=> Gone(artifact[y])
  <2> USE DEF StoreTypeOK, SetArtifact
  <2>1. CASE Gone(artifact[y])
    BY <2>1, UsableStays DEF IsUsable
  <2>2. CASE ~Gone(artifact[y])
    <3>1. ASSUME NEW s \in Session,
                 \/ CreateSession(s) \/ RequireRecovery(s) \/ CloseNatural(s)
                 \/ CloseAbandon(s) \/ \E b \in BOOLEAN : CloseRecover(s, b)
          PROVE  ~Gone(artifact'[y])
      BY <3>1, <2>2 DEF CreateSession, RequireRecovery, CloseNatural, CloseAbandon,
         CloseRecover
    <3>2. ASSUME NEW x \in Slot,
                 \/ OpenSegment(x) \/ BeginArtifactFinalization(x)
                 \/ BeginArtifactDiscard(x) \/ FailArtifact(x)
                 \/ \E d \in Decision : BeginArtifactConflictResolution(x, d)
          PROVE  ~Gone(artifact'[y])
      <4>1. \E art \in {"Writing", "Finalizing", "Discarding", "Failed",
                      "ResolvingKeepPart", "ResolvingKeepFinal", "ResolvingExclude"} :
               artifact' = [artifact EXCEPT ![x] = art]
        <5>1. CASE \E d \in Decision : BeginArtifactConflictResolution(x, d)
          <6>1. PICK d \in Decision : artifact' = [artifact EXCEPT ![x] = Resolving[d]]
            BY <5>1 DEF BeginArtifactConflictResolution
          <6>2. Resolving[d] \in {"ResolvingKeepPart", "ResolvingKeepFinal", "ResolvingExclude"}
            BY DEF Resolving, Decision
          <6> QED BY <6>1, <6>2
        <5> QED BY <3>2, <5>1 DEF OpenSegment, BeginArtifactFinalization,
                BeginArtifactDiscard, BeginArtifact, FailArtifact
      <4> QED BY <4>1, <2>2
    <3>3. ASSUME NEW x \in Slot,
                 \/ CompleteArtifactFinalization(x) \/ CompleteArtifactDiscard(x)
                 \/ CompleteArtifactConflictResolution(x) \/ ExcludeArtifactConflict(x)
                 \/ CompleteArtifactDelete(x)
          PROVE  ~Gone(artifact'[y])
      BY <3>3, <2>2 DEF CompleteArtifactFinalization, CompleteArtifactDiscard,
         CompleteArtifactConflictResolution, ExcludeArtifactConflict, CompleteArtifact,
         CompleteArtifactDelete
    <3> QED BY <2>2, <3>1, <3>2, <3>3 DEF RecordingNext
  <2> QED BY <2>1, <2>2
<1>2. \A x \in SlotsOf(r) : x \in Slot
  BY SlotsOfSession
<1> QED
  BY <1>1, <1>2 DEF IsLocal, SlotsOf

LEMMA RecordingImplements ==
    ASSUME StoreTypeOK, SubmissionCoversSession, RecordingNext
    PROVE  [Broadcasts!DeliveryNext]_(Broadcasts!deliveryVars)
<1>a. submission' = submission
  BY RecordingKeepsSubmissions DEF submissionVars
<1>b. StoreTypeOK'
  BY RecordingTypes
<1>1. CASE \E x \in Slot : BeginArtifactDelete(x)
  <2>0. PICK x \in Slot : BeginArtifactDelete(x)
    BY <1>1
  <2>1. /\ lifecycle' = lifecycle /\ lifecycle[x[1]] = "Completed"
        /\ submission[x[1]].state = "Submitted" /\ x[1] \in Session
    BY <2>0, SlotParts DEF BeginArtifactDelete, MayDelete, PermitsSubmission
  <2>2. \A r \in Session : StageOf(r)' = StageOf(r)
    BY <1>a, <2>1, StageStays
  <2>3. StageOf(x[1]) = "Published"
    BY <2>1, StageValues DEF SubmissionStage
  <2>4. \A r \in Session : r # x[1] => IsLocal(r)' = IsLocal(r)
    <3> SUFFICES ASSUME NEW r \in Session, r # x[1]
                 PROVE  IsLocal(r)' = IsLocal(r)
      OBVIOUS
    <3>1. \A y \in SlotsOf(r) : y \in Slot /\ y # x
      BY SlotsOfSession
    <3>2. \A y \in SlotsOf(r) : artifact'[y] = artifact[y]
      BY <2>0, <3>1 DEF BeginArtifactDelete, SetArtifact, StoreTypeOK
    <3> QED BY <3>2 DEF IsLocal, SlotsOf
  <2>5. IsLocal(x[1])' = FALSE
    <3>1. x \in SlotsOf(x[1]) /\ artifact'[x] = "Deleting"
      BY <2>0, SlotParts DEF BeginArtifactDelete, SetArtifact, StoreTypeOK, SlotsOf
    <3> QED BY <3>1 DEF IsLocal, SlotsOf
  <2>6. CASE IsLocal(x[1]) = FALSE
    <3>1. \A r \in Session : IsLocal(r)' = IsLocal(r)
      BY <2>4, <2>5, <2>6
    <3> QED BY <2>2, <3>1, NothingMoves
  <2>7. CASE IsLocal(x[1])
    <3>1. [r \in Session |-> IsLocal(r)'] =
             [[r \in Session |-> IsLocal(r)] EXCEPT ![x[1]] = FALSE]
      BY <2>4, <2>5
    <3>2. [r \in Session |-> StageOf(r)'] = [r \in Session |-> StageOf(r)]
      BY <2>2
    <3>3. Broadcasts!FreeLocal(x[1])
      BY <2>1, <2>3, <2>7, <3>1, <3>2 DEF Broadcasts!FreeLocal
    <3> QED BY <2>1, <3>3 DEF Broadcasts!DeliveryNext
  <2> QED BY <2>6, <2>7 DEF IsLocal
<1>2. CASE ~\E x \in Slot : BeginArtifactDelete(x)
  <2>a. \A r \in Session : IsLocal(r)' = IsLocal(r)
    BY <1>2, LocalStays
  <2>1. CASE UNCHANGED lifecycle
    BY <1>a, <2>1, <2>a, StageStays, NothingMoves
  <2>2. CASE \E s \in Session : LifecycleMoves(s)
    <3>0. PICK s \in Session : LifecycleMoves(s)
      BY <2>2
    <3>1. \A r \in Session : r # s => StageOf(r)' = StageOf(r)
      BY <3>0, <1>a, StageStays DEF LifecycleMoves, StoreTypeOK
    <3>2. CASE ~Exists(s) /\ RoomFree(s) /\ lifecycle'[s] = "Open"
      <4>1. StageOf(s) = "None" /\ StageOf(s)' = "Recording"
        BY <1>b, <3>2, StageValues DEF Exists, StageOf
      <4>2. \A r \in Session : RoomOf[r] = RoomOf[s] => StageOf(r) # "Recording"
        BY <3>2, StageValues DEF RoomFree
      <4>3. Broadcasts!Move(s, {"None"}, {"Recording"})
        BY <2>a, <3>1, <4>1, OneBroadcastMoves
      <4>4. Broadcasts!Begin(s)
        BY <4>2, <4>3 DEF Broadcasts!Begin
      <4> QED BY <4>4 DEF Broadcasts!DeliveryNext
    <3>3. CASE IsOpen(s) /\ lifecycle'[s] \in {"Open", "RecoveryRequired"}
      <4>1. StageOf(s)' = StageOf(s)
        BY <3>3 DEF StageOf, IsOpen
      <4> QED BY <2>a, <3>1, <4>1, NothingMoves
    <3>4. CASE IsOpen(s) /\ lifecycle'[s] \in Closed
      <4>1. submission'[s].state = "Absent"
        BY <1>a, <3>4 DEF SubmissionCoversSession, HasSubmission, IsOpen
      <4>2. StageOf(s) \in {"Recording"} /\ StageOf(s)' \in {"Kept", "GivenUp"}
        BY <3>4, <4>1 DEF StageOf, IsOpen, Closed, SubmissionStage
      <4>3. Broadcasts!EndRecording(s)
        BY <2>a, <3>1, <4>2, OneBroadcastMoves DEF Broadcasts!EndRecording
      <4> QED BY <4>3 DEF Broadcasts!DeliveryNext
    <3>5. lifecycle'[s] \in SessionLifecycle
      BY <1>b DEF StoreTypeOK
    <3> QED BY <3>0, <3>2, <3>3, <3>4 DEF LifecycleMoves, StoreTypeOK
  <2> QED BY <2>1, <2>2, RecordingMovesLifecycle
<1> QED
  BY <1>1, <1>2

-----------------------------------------------------------------------------
(* Steps of the remote side *)

LEMMA RemoteImplements ==
    ASSUME StoreTypeOK, StoreTypeOK', SubmissionCoversSession, SubmissionCoversSession',
           RemoteNext
    PROVE  [Broadcasts!DeliveryNext]_(Broadcasts!deliveryVars)
<1>a. lifecycle' = lifecycle /\ artifact' = artifact
  BY RemoteKeepsRecording DEF recordingVars
<1>b. \A r \in Session : IsLocal(r)' = IsLocal(r)
  BY <1>a DEF IsLocal, SlotsOf
<1>1. ASSUME submission' = submission
      PROVE  UNCHANGED Broadcasts!deliveryVars
  BY <1>1, <1>a, <1>b, StageStays, NothingMoves
<1>2. CASE \E x \in Slot : UploadNext(x)
  BY <1>2, <1>1 DEF UploadNext, BeginUpload, CompleteUpload, ScheduleUploadRetry,
     BlockUpload, MarkUploadAmbiguous, FinishUpload, ResolveUpload, UploadRetryDue,
     submissionVars
<1>3. ASSUME NEW s \in Session, SubmissionNext(s)
      PROVE  [Broadcasts!DeliveryNext]_(Broadcasts!deliveryVars)
  <2>a. \A r \in Session : r # s => submission'[r] = submission[r]
    BY <1>3 DEF SubmissionNext, BeginSubmission, CompleteSubmission,
       ScheduleSubmissionRetry, BlockSubmission, MarkSubmissionAmbiguous,
       FinishSubmission, ResolveSubmission, SubmissionRetryDue, SetSubmission, StoreTypeOK
  <2>b. \A r \in Session : r # s => StageOf(r)' = StageOf(r)
    BY <1>a, <2>a, StageStays
  (* A session with a submission is Completed, so its stage follows the row.*)
  <2>d. submission[s].state # "Absent" \/ submission'[s].state # "Absent" =>
           /\ StageOf(s) = SubmissionStage[submission[s].state]
           /\ StageOf(s)' = SubmissionStage[submission'[s].state]
    <3>1. submission[s].state # "Absent" \/ submission'[s].state # "Absent" =>
             lifecycle[s] = "Completed"
      BY <1>a DEF SubmissionCoversSession, HasSubmission
    <3> QED BY <1>a, <3>1 DEF StageOf
  <2> USE DEF StoreTypeOK, SetSubmission, SubmissionStage
  <2>1. CASE NoAttemptInFlight /\ BeginSubmission(s)
    <3>1. submission[s].state \in {"Absent", "RetryAuthorized", "RetryScheduled"}
          /\ submission'[s].state = "Attempting"
      BY <2>1 DEF BeginSubmission, MaySubmit, SubmissionOf
    <3>2. StageOf(s) \in {"Kept"} /\ StageOf(s)' \in {"Sending"}
      BY <2>d, <3>1
    <3>3. \A r \in Session : StageOf(r) # "Sending"
      BY <2>1, StageValues DEF NoAttemptInFlight
    <3>4. Broadcasts!Move(s, {"Kept"}, {"Sending"})
      BY <1>b, <2>b, <3>2, OneBroadcastMoves
    <3>5. Broadcasts!Send(s)
      BY <3>3, <3>4 DEF Broadcasts!Send
    <3> QED BY <3>5 DEF Broadcasts!DeliveryNext
  <2>2. ASSUME NEW outcome, NEW row, FinishSubmission(s, outcome, row),
               row.state \in {"Submitted", "RetryScheduled", "Blocked", "Ambiguous"}
        PROVE  Broadcasts!DeliveryNext
    <3>1. submission[s].state = "Attempting" /\ submission'[s] = row
      BY <2>2 DEF FinishSubmission
    <3>2. StageOf(s) \in {"Sending"} /\ StageOf(s)' \in {"Published", "Kept", "Unsure"}
      BY <2>2, <2>d, <3>1
    <3>3. Broadcasts!Move(s, {"Sending"}, {"Published", "Kept", "Unsure"})
      BY <1>b, <2>b, <3>2, OneBroadcastMoves
    <3> QED BY <3>3 DEF Broadcasts!Answer, Broadcasts!DeliveryNext
  <2>3. CASE \/ CompleteSubmission(s) \/ MarkSubmissionAmbiguous(s)
             \/ \E sc \in Scope : ScheduleSubmissionRetry(s, sc) \/ BlockSubmission(s, sc)
    BY <2>2, <2>3 DEF CompleteSubmission, MarkSubmissionAmbiguous, ScheduleSubmissionRetry,
       BlockSubmission, SubmissionIs, SubmissionOf, RetryScheduled
  <2>4. ASSUME NEW h \in BOOLEAN, ResolveSubmission(s, h)
        PROVE  Broadcasts!DeliveryNext
    <3>1. /\ submission[s].state \in {"Attempting", "Ambiguous", "Blocked"}
          /\ submission'[s].state \in {"Submitted", "RetryAuthorized"}
      BY <2>4 DEF ResolveSubmission, Recoverable, SubmissionIs
    <3>2. StageOf(s) \in {"Sending", "Unsure"} /\ StageOf(s)' \in {"Published", "Kept"}
      BY <2>d, <3>1
    <3>3. Broadcasts!Move(s, {"Sending", "Unsure"}, {"Published", "Kept"})
      BY <1>b, <2>b, <3>2, OneBroadcastMoves
    <3> QED BY <3>3 DEF Broadcasts!Decide, Broadcasts!DeliveryNext
  <2>5. CASE SubmissionRetryDue(s)
    <3>1. submission'[s].state = submission[s].state
      BY <2>5 DEF SubmissionRetryDue, RetryScheduled
    <3> QED BY <1>a, <1>b, <2>b, <3>1, StageStays, NothingMoves
  <2> QED BY <1>3, <2>1, <2>3, <2>4, <2>5 DEF SubmissionNext
<1>4. CASE \E t \in Target : BackoffDue(t)
  BY <1>4, <1>1 DEF BackoffDue, submissionVars
<1> QED
  BY <1>2, <1>3, <1>4, RemoteSteps

(* What the store promises of each broadcast: it is recorded alone in its   *)
(* room, published by one attempt at a time, sent again only when it is     *)
(* known not to be there, and its files are given up only once it is        *)
(* published; every transition, crash and operator decision is one of these *)
(* moves of one broadcast, or none.                                         *)
THEOREM StoreImplementsDelivery == Spec => ImplementsDelivery
<1>1. Init => Broadcasts!DeliveryInit
  <2> SUFFICES ASSUME Init PROVE Broadcasts!DeliveryInit
    OBVIOUS
  <2>1. \A s \in Session : StageOf(s) = "None"
    BY DEF Init, StoreInit, StageOf
  <2>2. \A s \in Session : IsLocal(s) = TRUE
    <3>1. \A s \in Session : \A x \in SlotsOf(s) : artifact[x] = "Absent"
      BY SlotsOfSession DEF Init, StoreInit
    <3> QED BY <3>1 DEF IsLocal
  <2> QED BY <2>1, <2>2 DEF Broadcasts!DeliveryInit
<1>2. /\ RowTypes /\ RowTypes' /\ SubmissionCoversSession /\ SubmissionCoversSession'
      /\ [Next]_vars
      => [Broadcasts!DeliveryNext]_(Broadcasts!deliveryVars)
  <2> SUFFICES ASSUME RowTypes, RowTypes', SubmissionCoversSession, SubmissionCoversSession',
                      [Next]_vars
               PROVE  [Broadcasts!DeliveryNext]_(Broadcasts!deliveryVars)
    OBVIOUS
  <2>1. StoreTypeOK /\ StoreTypeOK'
    BY DEF RowTypes, StoreTypeOK
  <2>2. CASE UNCHANGED storeVars
    <3>1. lifecycle' = lifecycle /\ artifact' = artifact /\ submission' = submission
      BY <2>2 DEF storeVars, recordingVars, submissionVars
    <3>2. \A r \in Session : IsLocal(r)' = IsLocal(r)
      BY <3>1 DEF IsLocal, SlotsOf
    <3>3. \A r \in Session : StageOf(r)' = StageOf(r)
      BY <3>1, StageStays
    <3> QED BY <3>2, <3>3, NothingMoves
  <2> QED BY <2>1, <2>2, StoreSteps, RecordingImplements, RemoteImplements
<1> QED
  BY <1>1, <1>2, TypesHold, SubmissionsCoverTheirSession, PTL
     DEF Spec, ImplementsDelivery, Broadcasts!DeliverySpec

-----------------------------------------------------------------------------
(* The ownership audit. Rows without a hard conflict have at most one       *)
(* session per room that is not closed, so a repair touches one room, which *)
(* no other repair looks at.                                                *)

LEMMA NoConflict ==
    ASSUME NEW life, NEW rooms, ~HardConflict(life, rooms)
    PROVE  /\ \A s, other \in NotClosed(life) : RoomOf[s] = RoomOf[other] => s = other
           /\ \A r \in Room : rooms[r].session # NoSession =>
                 rooms[r].session \in NotClosed(life) /\ RoomOf[rooms[r].session] = r
           /\ \A s \in NotClosed(life) : rooms[RoomOf[s]].session \in {s, NoSession}
BY DEF HardConflict

LEMMA RepairsHeal ==
    ASSUME NEW life \in [Session -> SessionLifecycle], NEW rooms \in [Room -> RoomRow],
           ~HardConflict(life, rooms),
           NEW repaired \in SUBSET Mismatched(life, rooms)
    PROVE  LET lifeNow == RepairedLife(life, repaired)
               roomsNow == RepairedRooms(rooms, repaired)
           IN /\ ~HardConflict(lifeNow, roomsNow)
              /\ NotClosed(lifeNow) = NotClosed(life)
              /\ Mismatched(lifeNow, roomsNow) = Mismatched(life, rooms) \ repaired
<1> DEFINE lifeNow == RepairedLife(life, repaired)
           roomsNow == RepairedRooms(rooms, repaired)
<1>1. repaired \subseteq NotClosed(life) /\ NotClosed(life) \subseteq Session
  BY DEF Mismatched, NotClosed
<1>2. \A s \in Session : lifeNow[s] = IF s \in repaired THEN "RecoveryRequired" ELSE life[s]
  BY DEF RepairedLife
<1>3. NotClosed(lifeNow) = NotClosed(life)
  BY <1>1, <1>2 DEF NotClosed
<1>4. \A s \in Session : RoomOf[s] \in Room
  BY PlanAssumption
<1>5. ASSUME NEW s \in repaired
      PROVE  roomsNow[RoomOf[s]] = Blocked(s)
  <2>1. \A z \in repaired : RoomOf[z] = RoomOf[s] => z = s
    BY <1>1, NoConflict
  <2>2. (CHOOSE z \in repaired : RoomOf[z] = RoomOf[s]) = s
    BY <2>1
  <2> QED BY <1>1, <1>4, <2>2 DEF RepairedRooms
<1>6. ASSUME NEW r \in Room, \A s \in repaired : RoomOf[s] # r
      PROVE  roomsNow[r] = rooms[r]
  BY <1>6 DEF RepairedRooms
<1> HIDE DEF lifeNow, roomsNow
<1>7. ASSUME NEW r \in Room
      PROVE  \/ \E s \in repaired : RoomOf[s] = r /\ roomsNow[r] = Blocked(s)
             \/ (\A s \in repaired : RoomOf[s] # r) /\ roomsNow[r] = rooms[r]
  BY <1>5, <1>6
<1>8. ASSUME NEW s \in NotClosed(life), s \notin repaired
      PROVE  lifeNow[s] = life[s] /\ roomsNow[RoomOf[s]] = rooms[RoomOf[s]]
  <2>1. \A z \in repaired : RoomOf[z] # RoomOf[s]
    BY <1>1, <1>8, NoConflict
  <2> QED BY <1>1, <1>2, <1>4, <1>6, <1>8, <2>1
<1>9. ~HardConflict(lifeNow, roomsNow)
  <2>1. ASSUME NEW s \in NotClosed(life), NEW other \in NotClosed(life),
               s # other, RoomOf[s] = RoomOf[other]
        PROVE  FALSE
    BY <2>1, NoConflict
  <2>2. ASSUME NEW r \in Room, roomsNow[r].session # NoSession
        PROVE  roomsNow[r].session \in NotClosed(life) /\ RoomOf[roomsNow[r].session] = r
    <3>1. CASE \E s \in repaired : RoomOf[s] = r /\ roomsNow[r] = Blocked(s)
      BY <1>1, <3>1 DEF Blocked
    <3>2. CASE roomsNow[r] = rooms[r]
      BY <2>2, <3>2, NoConflict
    <3> QED BY <1>7, <3>1, <3>2
  <2>3. ASSUME NEW s \in NotClosed(life)
        PROVE  roomsNow[RoomOf[s]].session \in {s, NoSession}
    <3>1. CASE s \in repaired
      <4>1. roomsNow[RoomOf[s]] = Blocked(s)
        BY <1>5, <3>1
      <4> QED BY <4>1 DEF Blocked
    <3>2. CASE s \notin repaired
      <4>1. rooms[RoomOf[s]].session \in {s, NoSession}
        BY NoConflict
      <4> QED BY <1>8, <3>2, <4>1
    <3> QED BY <3>1, <3>2
  <2> QED BY <1>3, <2>1, <2>2, <2>3 DEF HardConflict
<1>10. Mismatched(lifeNow, roomsNow) = Mismatched(life, rooms) \ repaired
  <2>1. ASSUME NEW s \in repaired
        PROVE  IsExact(lifeNow, roomsNow, s)
    BY <1>1, <1>2, <1>5 DEF IsExact
  <2>2. ASSUME NEW s \in NotClosed(life), s \notin repaired
        PROVE  IsExact(lifeNow, roomsNow, s) <=> IsExact(life, rooms, s)
    BY <1>8, <2>2 DEF IsExact
  <2> QED BY <1>1, <1>3, <2>1, <2>2 DEF Mismatched
<1> QED BY <1>3, <1>9, <1>10 DEF lifeNow, roomsNow

(* Whatever rows the audit meets, for any number of rooms: it refuses them, *)
(* or each of its repairs is accepted, and after any of them the next audit *)
(* goes on with the others.                                                 *)
THEOREM AuditsHeal == Spec => []AuditRefusesOrHeals
<1>1. RowTypes => AuditRefusesOrHeals
  <2> SUFFICES ASSUME RowTypes, NEW life \in DamagedLives, NEW rooms \in DamagedRooms,
                      ~HardConflict(life, rooms)
               PROVE  LET mismatched == Mismatched(life, rooms) IN
                      /\ \A s \in mismatched : AcceptsRepair(rooms, s)
                      /\ \A repaired \in SUBSET mismatched :
                            LET lifeNow == RepairedLife(life, repaired)
                                roomsNow == RepairedRooms(rooms, repaired)
                            IN /\ ~HardConflict(lifeNow, roomsNow)
                               /\ NotClosed(lifeNow) = NotClosed(life)
                               /\ Mismatched(lifeNow, roomsNow) = mismatched \ repaired
    BY DEF AuditRefusesOrHeals
  <2>1. life \in [Session -> SessionLifecycle]
    <3>1. PICK s \in Session, now \in {"Absent", "Open", "RecoveryRequired", "Completed"} :
             life = [lifecycle EXCEPT ![s] = now]
      BY DEF DamagedLives
    <3> QED BY <3>1 DEF RowTypes, SessionLifecycle, Closed
  <2>2. rooms \in [Room -> RoomRow]
    BY DEF DamagedRooms
  <2>3. \A s \in Mismatched(life, rooms) : AcceptsRepair(rooms, s)
    BY NoConflict DEF Mismatched, AcceptsRepair
  <2> QED BY <2>1, <2>2, <2>3, RepairsHeal
<1> QED BY <1>1, TypesHold, PTL

-----------------------------------------------------------------------------
(* The report. What it calls an invalid upload never comes about, but for   *)
(* an interrupted discard; and an upload is cancelled only with the         *)
(* broadcast it belongs to.                                                 *)
UploadFits(x) ==
    LET up == upload[x].state  art == artifact[x] IN
    IF ~HasPlan(x[1]) THEN up = "NotPlanned"
    ELSE /\ up = "NotPlanned" <=> art \in {"Filtered", "Excluded"}
         /\ up = "Uploaded" => IsUsable(art)
         /\ art \in {"Deleting", "Deleted"} => up = "Uploaded"

CancelledIsGivenUp(x) ==
    upload[x].state = "Cancelled" => lifecycle[x[1]] \in {"Abandoned", "NoUsableRecording"}

SlotInv(x) ==
    IF HasSegment(x) THEN UploadFits(x) ELSE upload[x].state = "NotPlanned"

UploadsInv == \A x \in Slot : SlotInv(x) /\ CancelledIsGivenUp(x)

LEMMA SlotUntouched ==
    ASSUME NEW y \in Slot, SlotInv(y), artifact'[y] = artifact[y],
           upload'[y].state = upload[y].state
    PROVE  SlotInv(y)'
BY DEF SlotInv, HasSegment, UploadFits

(* What happens to a segment's file and to its session keeps upload and     *)
(* artifact together.                                                       *)
LEMMA RecordingKeepsSlots ==
    ASSUME StoreTypeOK, RecordingNext, NEW y \in Slot, SlotInv(y)
    PROVE  SlotInv(y)'
<1> USE DEF SlotInv, HasSegment, UploadFits, StoreTypeOK
<1>1. CASE \E s \in Session :
              CreateSession(s) \/ RequireRecovery(s) \/ CloseNatural(s)
  <2>1. UNCHANGED <<artifact, upload>>
    BY <1>1 DEF CreateSession, RequireRecovery, CloseNatural, uploadVars
  <2> QED BY <2>1, SlotUntouched
<1>2. ASSUME NEW s \in Session, CloseAbandon(s) PROVE SlotInv(y)'
  <2>1. /\ artifact' = artifact
        /\ upload'[y] = IF y[1] = s THEN AbandonUpload(upload[y]) ELSE upload[y]
    BY <1>2 DEF CloseAbandon
  <2>2. upload[y] \in UploadState
    OBVIOUS
  <2>3. \/ AbandonUpload(upload[y]) = upload[y]
        \/ /\ AbandonUpload(upload[y]).state \in {"Ambiguous", "Cancelled"}
           /\ upload[y].state \in {"Attempting", "Pending", "Blocked"}
    BY DEF AbandonUpload, UploadOf, UploadIs
  <2> QED BY <2>1, <2>3
<1>3. ASSUME NEW s \in Session, NEW b \in BOOLEAN, CloseRecover(s, b) PROVE SlotInv(y)'
  <2>1. \/ artifact'[y] = artifact[y] /\ upload'[y] = upload[y]
        \/ /\ artifact[y] = "Failed" /\ artifact'[y] = "Excluded"
           /\ upload'[y] = UploadIs("NotPlanned")
    BY <1>3 DEF CloseRecover
  <2> QED BY <2>1 DEF UploadIs, IsUsable
<1>4. ASSUME NEW x \in Slot,
             \/ OpenSegment(x) \/ BeginArtifactFinalization(x) \/ BeginArtifactDiscard(x)
             \/ CompleteArtifactFinalization(x) \/ CompleteArtifactDiscard(x)
             \/ \E d \in Decision : BeginArtifactConflictResolution(x, d)
             \/ CompleteArtifactConflictResolution(x) \/ ExcludeArtifactConflict(x)
             \/ FailArtifact(x) \/ BeginArtifactDelete(x) \/ CompleteArtifactDelete(x)
      PROVE  SlotInv(y)'
  <2> USE DEF SetArtifact, SetUpload, IsUsable
  <2>1. CASE OpenSegment(x)
    <3>1. CASE y = x
      <4>1. /\ artifact'[x] = "Writing"
            /\ upload'[x] = IF HasPlan(x[1]) THEN Pending(TRUE) ELSE UploadIs("NotPlanned")
        BY <2>1 DEF OpenSegment
      <4> QED BY <3>1, <4>1 DEF Pending, UploadIs
    <3>2. CASE y # x
      BY <2>1, <3>2 DEF OpenSegment
    <3> QED BY <3>1, <3>2
  <2>2. CASE BeginArtifactFinalization(x) \/ BeginArtifactDiscard(x)
    BY <2>2 DEF BeginArtifactFinalization, BeginArtifactDiscard, BeginArtifact, uploadVars
  <2>3. CASE CompleteArtifactFinalization(x)
    BY <2>3 DEF CompleteArtifactFinalization, CompleteArtifact
  <2>4. CASE CompleteArtifactConflictResolution(x)
    BY <2>4 DEF CompleteArtifactConflictResolution, CompleteArtifact, Resolving
  <2>5. CASE CompleteArtifactDiscard(x)
    BY <2>5 DEF CompleteArtifactDiscard, CompleteArtifact, UploadIs
  <2>6. CASE ExcludeArtifactConflict(x)
    BY <2>6 DEF ExcludeArtifactConflict, CompleteArtifact, UploadIs, Resolving
  <2>7. ASSUME NEW d \in Decision, BeginArtifactConflictResolution(x, d) PROVE SlotInv(y)'
    <3>1. Resolving[d] \in {"ResolvingKeepPart", "ResolvingKeepFinal", "ResolvingExclude"}
      BY DEF Resolving, Decision
    <3> QED BY <2>7, <3>1 DEF BeginArtifactConflictResolution, uploadVars
  <2>8. CASE FailArtifact(x)
    BY <2>8 DEF FailArtifact, uploadVars, ResolvingConflict, Resolving, Decision
  <2>9. CASE BeginArtifactDelete(x)
    BY <2>9 DEF BeginArtifactDelete, MayDelete, uploadVars
  <2>10. CASE CompleteArtifactDelete(x)
    BY <2>10 DEF CompleteArtifactDelete, uploadVars
  <2> QED BY <1>4, <2>1, <2>2, <2>3, <2>4, <2>5, <2>6, <2>7, <2>8, <2>9, <2>10
<1> QED BY <1>1, <1>2, <1>3, <1>4 DEF RecordingNext

LEMMA RecordingKeepsCancelled ==
    ASSUME StoreTypeOK, RecordingNext, NEW y \in Slot, CancelledIsGivenUp(y)
    PROVE  CancelledIsGivenUp(y)'
<1> USE DEF CancelledIsGivenUp, StoreTypeOK
<1> SUFFICES ASSUME upload'[y].state = "Cancelled"
             PROVE  lifecycle'[y[1]] \in {"Abandoned", "NoUsableRecording"}
  OBVIOUS
<1>1. CASE upload[y].state = "Cancelled"
  <2>1. y[1] \in Session /\ lifecycle[y[1]] \in Closed
    BY <1>1, SlotParts DEF Closed
  <2> QED BY <1>1, <2>1, ClosedSessionStays
<1>2. CASE upload[y].state # "Cancelled"
  <2>1. ASSUME NEW s \in Session,
               \/ CreateSession(s) \/ RequireRecovery(s) \/ CloseNatural(s)
               \/ \E b \in BOOLEAN : CloseRecover(s, b)
        PROVE  FALSE
    BY <1>2, <2>1 DEF CreateSession, RequireRecovery, CloseNatural, CloseRecover,
       uploadVars, UploadIs
  <2>2. ASSUME NEW s \in Session, CloseAbandon(s)
        PROVE  lifecycle'[y[1]] = "Abandoned"
    <3>1. y[1] = s
      BY <1>2, <2>2 DEF CloseAbandon
    <3> QED BY <2>2, <3>1 DEF CloseAbandon, SetLifecycle
  <2>3. ASSUME NEW x \in Slot,
               \/ OpenSegment(x) \/ CompleteArtifactDiscard(x) \/ ExcludeArtifactConflict(x)
        PROVE  FALSE
    <3>1. \E up \in {UploadIs("NotPlanned"), Pending(TRUE)} : upload' = [upload EXCEPT ![x] = up]
      BY <2>3 DEF OpenSegment, CompleteArtifactDiscard, ExcludeArtifactConflict, SetUpload
    <3> QED BY <1>2, <3>1 DEF UploadIs, Pending
  <2>4. ASSUME NEW x \in Slot,
               \/ BeginArtifactFinalization(x) \/ BeginArtifactDiscard(x)
               \/ CompleteArtifactFinalization(x)
               \/ \E d \in Decision : BeginArtifactConflictResolution(x, d)
               \/ CompleteArtifactConflictResolution(x)
               \/ FailArtifact(x) \/ BeginArtifactDelete(x) \/ CompleteArtifactDelete(x)
        PROVE  FALSE
    BY <1>2, <2>4 DEF BeginArtifactFinalization, BeginArtifactDiscard, BeginArtifact,
       CompleteArtifactFinalization, BeginArtifactConflictResolution, FailArtifact,
       CompleteArtifactConflictResolution, BeginArtifactDelete, CompleteArtifactDelete,
       uploadVars
  <2> QED BY <2>1, <2>2, <2>3, <2>4 DEF RecordingNext
<1> QED BY <1>1, <1>2

(* What was sent, or is to be, is a recording that is kept.                 *)
LEMMA UploadKeepsSlots ==
    ASSUME StoreTypeOK, RowsInv, SentIsUsable, UploadsInv, NEW x \in Slot, UploadNext(x),
           NEW y \in Slot
    PROVE  SlotInv(y)' /\ CancelledIsGivenUp(y)'
<1>a. UNCHANGED recordingVars
  BY RemoteKeepsRecording DEF UploadNext, RemoteNext
<1>b. SlotInv(y) /\ CancelledIsGivenUp(y)
  BY DEF UploadsInv
<1>1. CASE y # x
  <2>1. upload'[y] = upload[y]
    BY <1>1, UploadStepMoves
  <2> QED BY <1>a, <1>b, <2>1, SlotUntouched DEF recordingVars, CancelledIsGivenUp
<1>2. CASE upload[x].state \in {"Attempting", "Ambiguous", "Blocked"} /\ y = x
  <2>1. artifact[x] = "Ready" /\ HasPlan(x[1])
    <3>1. uploadAttempts[x] # <<>>
      <4>1. uploadAttempts[x] \in Seq(Outcome)
        BY DEF StoreTypeOK
      <4>2. Len(uploadAttempts[x]) \in 1..Len(uploadAttempts[x])
        BY <1>2, <4>1, RowInFlight DEF RowsInv
      <4> QED BY <4>1, <4>2
    <3>2. IsUsable(artifact[x])
      BY <3>1 DEF SentIsUsable
    <3> QED BY <1>2, <1>b, <3>2 DEF SlotInv, HasSegment, UploadFits, IsUsable
  <2>2. upload'[x].state \in {"Uploaded", "Pending", "Blocked", "Ambiguous", "Cancelled",
                              "Attempting"}
        /\ (upload'[x].state = "Cancelled" =>
               lifecycle[x[1]] \in {"Abandoned", "NoUsableRecording"})
    <3>1. CASE \E h \in BOOLEAN : ResolveUpload(x, h)
      BY <3>1 DEF ResolveUpload, SetUpload, StoreTypeOK, NotUploadedState, UploadIs, Pending
    <3>2. CASE ~\E h \in BOOLEAN : ResolveUpload(x, h)
      <4>1. ~BeginUpload(x) /\ ~UploadRetryDue(x)
        BY <1>2 DEF BeginUpload, MayUpload, UploadRetryDue, Pending
      <4> QED BY <3>2, <4>1 DEF UploadNext, CompleteUpload, ScheduleUploadRetry,
              BlockUpload, MarkUploadAmbiguous, FinishUpload, SetUpload, StoreTypeOK,
              UploadIs, UploadOf, Pending
    <3> QED BY <3>1, <3>2
  <2> QED BY <1>2, <1>a, <2>1, <2>2 DEF SlotInv, HasSegment, UploadFits, IsUsable,
          CancelledIsGivenUp, recordingVars
<1>3. CASE upload[x].state \notin {"Attempting", "Ambiguous", "Blocked"} /\ y = x
  <2>1. BeginUpload(x) \/ UploadRetryDue(x)
    BY <1>3 DEF UploadNext, CompleteUpload, ScheduleUploadRetry, BlockUpload,
       MarkUploadAmbiguous, FinishUpload, ResolveUpload, Recoverable
  <2>2. CASE BeginUpload(x)
    <3>1. artifact[x] = "Ready" /\ HasPlan(x[1]) /\ upload'[x].state = "Attempting"
      BY <2>2 DEF BeginUpload, MayUpload, SetUpload, StoreTypeOK, UploadOf
    <3> QED BY <1>3, <1>a, <3>1 DEF SlotInv, HasSegment, UploadFits, IsUsable,
            CancelledIsGivenUp, recordingVars
  <2>3. CASE UploadRetryDue(x)
    <3>1. upload[x].state = "Pending" /\ upload'[x].state = "Pending"
      BY <2>3 DEF UploadRetryDue, SetUpload, StoreTypeOK, UploadState, Pending
    <3> QED BY <1>3, <1>a, <1>b, <3>1, SlotUntouched DEF CancelledIsGivenUp, recordingVars
  <2> QED BY <2>1, <2>2, <2>3
<1> QED BY <1>1, <1>2, <1>3

LEMMA UploadsStep ==
    ASSUME StoreTypeOK, RowsInv, SentIsUsable, UploadsInv, [Next]_vars
    PROVE  UploadsInv'
<1>1. CASE UNCHANGED storeVars
  BY <1>1 DEF UploadsInv, SlotInv, HasSegment, UploadFits, CancelledIsGivenUp, storeVars,
     recordingVars, uploadVars
<1>2. CASE RecordingNext
  BY <1>2, RecordingKeepsSlots, RecordingKeepsCancelled DEF UploadsInv
<1>3. CASE RemoteNext
  <2>1. ASSUME NEW x \in Slot, UploadNext(x) PROVE UploadsInv'
    BY <2>1, UploadKeepsSlots DEF UploadsInv
  <2>2. ASSUME NEW s \in Session, SubmissionNext(s) PROVE UploadsInv'
    <3>1. UNCHANGED recordingVars /\ UNCHANGED uploadVars
      BY <1>3, <2>2, RemoteKeepsRecording, SubmissionStepMoves
    <3> QED BY <3>1 DEF UploadsInv, SlotInv, HasSegment, UploadFits, CancelledIsGivenUp,
            recordingVars, uploadVars
  <2>3. ASSUME NEW t \in Target, BackoffDue(t) PROVE UploadsInv'
    BY <2>3 DEF BackoffDue, UploadsInv, SlotInv, HasSegment, UploadFits,
       CancelledIsGivenUp, recordingVars, uploadVars
  <2> QED BY <1>3, <2>1, <2>2, <2>3, RemoteSteps
<1> QED BY <1>1, <1>2, <1>3, StoreSteps

LEMMA UploadsAlwaysFit == Spec => []UploadsInv
<1>1. Init => UploadsInv
  BY DEF Init, StoreInit, UploadsInv, SlotInv, HasSegment, CancelledIsGivenUp, UploadIs
<1>2. RowTypes /\ RowsInv /\ SentIsUsable /\ UploadsInv /\ [Next]_vars => UploadsInv'
  BY UploadsStep DEF RowTypes, StoreTypeOK
<1> QED BY <1>1, <1>2, RowsAlwaysHold, PTL DEF Spec

-----------------------------------------------------------------------------
(* No alarm of a store that only the program wrote, row by row. *)

Alarming(a) ==
    \/ a.kind = "RoomOwnershipMismatch"
    \/ /\ a.advice = "Repair"
       /\ ~(a.kind = "InvalidUploadState" /\ artifact[<<a.session, a.segment>>] = "Discarding")

LEMMA SessionsAreCalm ==
    ASSUME RowTypes, OwnershipExact, NEW s \in Session, NEW a \in SessionAnomalies(s)
    PROVE  ~Alarming(a)
<1> USE DEF SessionAnomalies, Anomaly, If, Alarming
<1>1. CASE lifecycle[s] = "Open"
  <2>1. OwnsRoom(s)
    BY <1>1 DEF OwnershipExact, OwnsRoom
  <2> QED BY <1>1, <2>1
<1>2. CASE lifecycle[s] = "RecoveryRequired"
  <2>1. room[RoomOf[s]] = Blocked(s)
    BY <1>2 DEF OwnershipExact
  <2> QED BY <1>2, <2>1
<1>3. CASE lifecycle[s] \notin {"Open", "RecoveryRequired"}
  BY <1>3
<1> QED BY <1>1, <1>2, <1>3

LEMMA RoomsAreCalm ==
    ASSUME RowTypes, OwnershipExact, NEW r \in Room
    PROVE  RoomAnomalies(r) = {}
<1>1. room[r] \in RoomLifecycle
  BY DEF RowTypes
<1> DEFINE s == room[r].session
<1>2. CASE room[r].phase # "Ready"
  <2>1. s \in Session /\ RoomOf[s] = r
    BY <1>1, <1>2 DEF OwnershipExact, RoomLifecycle
  <2>2. room[r].phase = "Owned" => room[r] = Owned(s)
    BY <1>1 DEF RoomLifecycle, Owned
  <2>3. room[r].phase = "Blocked" => room[r] = Blocked(s)
    BY <1>1 DEF RoomLifecycle, Blocked
  <2> QED BY <1>1, <1>2, <2>1, <2>2, <2>3 DEF OwnershipExact, RoomAnomalies, If, RoomLifecycle
<1> QED BY <1>2 DEF RoomAnomalies, If

LEMMA WaitingValues ==
    ASSUME NEW state, NEW s, NEW i, NEW waits \in {UploadWaits, SubmissionWaits},
           NEW a \in Waiting(waits, state, s, i)
    PROVE  a.kind # "RoomOwnershipMismatch" /\ a.advice # "Repair"
<1> USE DEF Found, Anomaly
<1>1. PICK st \in DOMAIN waits : a = Anomaly(waits[st].kind, waits[st].advice, s, i)
  BY DEF Waiting
<1>2. CASE waits = UploadWaits
  BY <1>1, <1>2 DEF UploadWaits
<1>3. CASE waits = SubmissionWaits
  BY <1>1, <1>3 DEF SubmissionWaits
<1> QED BY <1>2, <1>3

LEMMA SubmissionsAreCalm ==
    ASSUME RowTypes, SubmissionCoversSession, NEW s \in Session,
           NEW a \in SubmissionAnomalies(s)
    PROVE  ~Alarming(a)
<1>1. HasSubmission(s) => Exists(s) /\ HasPlan(s) /\ PermitsSubmission(lifecycle[s])
  BY DEF SubmissionCoversSession, Exists, PermitsSubmission
<1>2. a \in Waiting(SubmissionWaits, submission[s].state, s, 0)
  BY <1>1 DEF SubmissionAnomalies, If
<1> QED BY <1>2, WaitingValues DEF Alarming

LEMMA SegmentsAreCalm ==
    ASSUME RowTypes, ClosedSessionsAreSettled, SentIsUsable, RowsInv, UploadsInv,
           NEW x \in Slot, HasSegment(x),
           NEW a \in UploadAnomalies(x) \cup FailedAnomalies(x) \cup OrphanAnomalies(x)
    PROVE  ~Alarming(a)
<1>1. CASE a \in Waiting(UploadWaits, upload[x].state, x[1], x[2])
  BY <1>1, WaitingValues DEF Alarming
<1>2. CASE a \in FailedAnomalies(x)
  BY <1>2 DEF FailedAnomalies, FileAnomalies, Found, Anomaly, Alarming, ResolvingConflict,
     Resolving, Decision
<1>3. a \notin OrphanAnomalies(x)
  BY DEF OrphanAnomalies, If, Exists, HasSegment, ClosedSessionsAreSettled, Settled
<1>4. CASE ~UploadIsValid(x) /\ a = Anomaly("InvalidUploadState", "Repair", x[1], x[2])
  <2>1. UploadFits(x)
    BY DEF UploadsInv, SlotInv
  <2>2. upload[x].state \in {"Attempting", "Blocked", "Ambiguous"} => IsUsable(artifact[x])
    <3>1. uploadAttempts[x] \in Seq(Outcome)
      BY DEF RowTypes
    <3>2. upload[x].state \in {"Attempting", "Blocked", "Ambiguous"} => uploadAttempts[x] # <<>>
      BY <3>1, RowInFlight DEF RowsInv
    <3> QED BY <3>2 DEF SentIsUsable
  <2>3. artifact[x] = "Discarding"
    BY <1>4, <2>1, <2>2 DEF UploadIsValid, UploadFits, Disposed, IsUsable
  <2>4. a.kind = "InvalidUploadState" /\ <<a.session, a.segment>> = x
    BY <1>4, SlotParts DEF Anomaly
  <2> QED BY <2>3, <2>4 DEF Alarming
<1> QED BY <1>1, <1>2, <1>3, <1>4 DEF UploadAnomalies, If

LEMMA TargetsAreCalm ==
    ASSUME NEW t \in Target, RowTypes, NEW a \in TargetAnomalies(t)
    PROVE  ~Alarming(a)
<1>1. gate[t].phase \in {"Ready", "Backoff", "Blocked"}
  BY DEF RowTypes, UploadTargetGate
<1>2. CASE gate[t].phase = "Ready"
  BY <1>2 DEF TargetAnomalies
<1>3. CASE gate[t].phase = "Backoff"
  BY <1>3 DEF TargetAnomalies, Anomaly, Alarming
<1>4. CASE gate[t].phase = "Blocked"
  BY <1>4 DEF TargetAnomalies, Anomaly, Alarming
<1> QED BY <1>1, <1>2, <1>3, <1>4

(* Whatever the program did and wherever it was stopped, status raises no   *)
(* alarm that asks for a repair by hand, but for an interrupted discard.    *)
THEOREM OnlyDamageIsAlarming == Spec => []AlarmsMeanDamage
<1>1. /\ RowTypes /\ OwnershipExact /\ ClosedSessionsAreSettled /\ SubmissionCoversSession
      /\ RowsInv /\ SentIsUsable /\ UploadsInv
      => AlarmsMeanDamage
  <2> SUFFICES ASSUME RowTypes, OwnershipExact, ClosedSessionsAreSettled,
                      SubmissionCoversSession, RowsInv, SentIsUsable, UploadsInv,
                      NEW a \in Report
               PROVE  ~Alarming(a)
    BY DEF AlarmsMeanDamage, Alarming
  <2>1. \/ \E s \in Session : a \in SessionAnomalies(s) \/ a \in SubmissionAnomalies(s)
        \/ \E r \in Room : a \in RoomAnomalies(r)
        \/ \E x \in Slot : HasSegment(x) /\
              a \in UploadAnomalies(x) \cup FailedAnomalies(x) \cup OrphanAnomalies(x)
        \/ \E t \in Target : a \in TargetAnomalies(t)
    BY DEF Report
  <2> QED BY <2>1, SessionsAreCalm, RoomsAreCalm, SubmissionsAreCalm, SegmentsAreCalm,
          TargetsAreCalm
<1> QED BY <1>1, TypesHold, OwnershipIsExact, ClosedIsSettled,
        SubmissionsCoverTheirSession, RowsAlwaysHold, UploadsAlwaysFit, PTL

-----------------------------------------------------------------------------
(* A row that waits for somebody is in the report. *)

LEMMA BlockedTargetIsReported ==
    ASSUME BlockedGateIsResolvable, NEW t \in Target, gate[t].phase = "Blocked"
    PROVE  \E a \in Report :
              a.advice # "Repair" /\ a.session \in Session /\ TargetOf[a.session] = t
<1> DEFINE o == gate[t].owner
           a == Anomaly("UploadTargetBlocked",
                        IF o.kind = "Upload" THEN "RecoverUpload" ELSE "RecoverSubmission",
                        o.session, o.segment)
<1>1. o.session \in Session /\ TargetOf[o.session] = t
  BY DEF BlockedGateIsResolvable
<1>2. a \in TargetAnomalies(t)
  BY DEF TargetAnomalies
<1>3. a \in Report
  BY <1>2 DEF Report
<1>4. a.advice # "Repair" /\ a.session = o.session
  BY DEF Anomaly
<1> QED BY <1>1, <1>3, <1>4

LEMMA WaitingSubmissionIsReported ==
    ASSUME NEW s \in Session, submission[s].state \in {"Attempting", "Blocked", "Ambiguous"}
    PROVE  \E a \in Report : a.advice # "Repair" /\ a.session = s
<1> DEFINE st == submission[s].state
           a == Anomaly(SubmissionWaits[st].kind, SubmissionWaits[st].advice, s, 0)
<1>1. st \in DOMAIN SubmissionWaits
  BY DEF SubmissionWaits
<1>2. a \in Waiting(SubmissionWaits, st, s, 0)
  BY <1>1 DEF Waiting
<1>3. a \in Report
  <2>1. a \in SubmissionAnomalies(s)
    BY <1>2 DEF SubmissionAnomalies
  <2>2. SessionAnomalies(s) \cup SubmissionAnomalies(s)
           \in {SessionAnomalies(z) \cup SubmissionAnomalies(z) : z \in Session}
    OBVIOUS
  <2> HIDE DEF a
  <2> QED BY <2>1, <2>2, Zenon DEF Report
<1>4. SubmissionWaits[st].advice # "Repair"
  BY DEF SubmissionWaits, Found
<1> QED BY <1>3, <1>4 DEF Anomaly

LEMMA WaitingUploadIsReported ==
    ASSUME NEW x \in Slot, HasSegment(x),
           upload[x].state \in {"Attempting", "Blocked", "Ambiguous"}
    PROVE  \E a \in Report : a.advice # "Repair" /\ a.session = x[1]
<1> DEFINE st == upload[x].state
           a == Anomaly(UploadWaits[st].kind, UploadWaits[st].advice, x[1], x[2])
<1>1. st \in DOMAIN UploadWaits
  BY DEF UploadWaits
<1>2. a \in Waiting(UploadWaits, st, x[1], x[2])
  BY <1>1 DEF Waiting
<1>3. a \in Report
  <2>1. a \in UploadAnomalies(x)
    BY <1>2 DEF UploadAnomalies
  <2>2. UploadAnomalies(x) \cup FailedAnomalies(x) \cup OrphanAnomalies(x)
           \in {UploadAnomalies(z) \cup FailedAnomalies(z) \cup OrphanAnomalies(z) :
                   z \in {y \in Slot : HasSegment(y)}}
    OBVIOUS
  <2> HIDE DEF a
  <2> QED BY <2>1, <2>2, Zenon DEF Report
<1>4. UploadWaits[st].advice # "Repair"
  BY DEF UploadWaits, Found
<1> QED BY <1>3, <1>4 DEF Anomaly

(* Why a completed session without a submission has none: one of its        *)
(* recordings is not uploaded.                                              *)
LEMMA UnsubmittedHasRecording ==
    ASSUME RowTypes, ClosedSessionsAreSettled, ClosureTellsTheTruth, UploadsInv,
           NEW s \in Session, lifecycle[s] = "Completed", HasPlan(s),
           ~SubmissionPartsReady(s)
    PROVE  \E x \in SlotsOf(s) :
              /\ artifact[x] = "Ready"
              /\ upload[x].state \in {"Pending", "Attempting", "Blocked", "Ambiguous"}
<1>1. PICK x \in SlotsOf(s) : ~IsSkipped(x) /\ ~IsPart(x)
  <2>1. HasUsable(s)
    BY DEF ClosureTellsTheTruth
  <2>2. \A x \in SlotsOf(s) : IsUsable(artifact[x]) => ~IsSkipped(x)
    BY DEF IsUsable, IsSkipped
  <2> QED BY <2>1, <2>2 DEF SubmissionPartsReady, HasUsable
<1>2. x \in Slot /\ x[1] = s
  BY <1>1, SlotsOfSession
<1>3. artifact[x] \in {"Ready", "Deleting", "Deleted"}
  BY <1>1, <1>2 DEF RowTypes, ArtifactState, ResolvingConflict, Resolving, Decision,
     ClosedSessionsAreSettled, Settled, UnresolvedIntent, IsSkipped
<1>4. upload[x].state # "Uploaded"
  BY <1>1, <1>3 DEF IsPart, IsUsable
<1>5. UploadFits(x) /\ CancelledIsGivenUp(x)
  BY <1>2, <1>3 DEF UploadsInv, SlotInv, HasSegment
<1>6. artifact[x] = "Ready" /\ upload[x].state \notin {"NotPlanned", "Cancelled"}
  BY <1>2, <1>3, <1>4, <1>5 DEF UploadFits, CancelledIsGivenUp
<1>7. upload[x] \in UploadState
  BY <1>2 DEF RowTypes
<1> QED BY <1>1, <1>4, <1>6, <1>7 DEF UploadState

(* A finished recording that is not on its way to being published is named  *)
(* by the report, with something to do about it: it never waits in silence. *)
THEOREM WaitingIsReported == Spec => []NothingWaitsSilently
<1>1. /\ RowTypes /\ ClosedSessionsAreSettled /\ ClosureTellsTheTruth
      /\ SubmissionCoversSession /\ BlockedGateIsResolvable /\ UploadsInv
      => NothingWaitsSilently
  <2> SUFFICES ASSUME RowTypes, ClosedSessionsAreSettled, ClosureTellsTheTruth,
                      SubmissionCoversSession, BlockedGateIsResolvable, UploadsInv,
                      NEW s \in Session, lifecycle[s] = "Completed", HasPlan(s),
                      submission[s].state # "Submitted", ~GoesOn(s)
               PROVE  \E a \in Report : /\ a.advice # "Repair" /\ a.session \in Session
                                        /\ TargetOf[a.session] = TargetOf[s]
    BY DEF NothingWaitsSilently
  <2>1. TargetOf[s] \in Target
    BY PlanAssumption DEF HasPlan
  <2>2. CASE gate[TargetOf[s]].phase = "Blocked"
    BY <2>1, <2>2, BlockedTargetIsReported
  <2>3. CASE gate[TargetOf[s]].phase # "Blocked" /\ HasSubmission(s)
    <3>1. SubmissionPartsReady(s)
      BY <2>3 DEF SubmissionCoversSession
    <3>2. submission[s] \in SubmissionState
      BY DEF RowTypes
    <3>3. submission[s].state \in {"Attempting", "Blocked", "Ambiguous"}
      BY <2>3, <3>1, <3>2 DEF GoesOn, SubmissionState, HasSubmission
    <3> QED BY <3>3, WaitingSubmissionIsReported
  <2>4. CASE gate[TargetOf[s]].phase # "Blocked" /\ ~HasSubmission(s)
    <3>1. ~SubmissionPartsReady(s)
      BY <2>4 DEF GoesOn, HasSubmission
    <3>2. PICK x \in SlotsOf(s) :
             /\ artifact[x] = "Ready"
             /\ upload[x].state \in {"Pending", "Attempting", "Blocked", "Ambiguous"}
      BY <3>1, UnsubmittedHasRecording
    <3>3. upload[x].state # "Pending"
      BY <2>4, <3>2 DEF GoesOn
    <3>4. x \in Slot /\ x[1] = s /\ HasSegment(x)
      BY <3>2, SlotsOfSession DEF HasSegment
    <3> QED BY <3>2, <3>3, <3>4, WaitingUploadIsReported
  <2> QED BY <2>2, <2>3, <2>4
<1> QED BY <1>1, TypesHold, ClosedIsSettled, ClosureIsTrue, SubmissionsCoverTheirSession,
        BlockedTargetsAreResolvable, UploadsAlwaysFit, PTL
=============================================================================
