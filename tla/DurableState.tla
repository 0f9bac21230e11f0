---------------------------- MODULE DurableState ----------------------------
(***************************************************************************)
(* The store over the life of the program: `run` takes the exclusive lock,  *)
(* reconciles what an earlier process left behind, runs the recorders and   *)
(* the one upload worker, and may end at any step; between two runs the     *)
(* operator's `recover` commands are the only writers.                      *)
(***************************************************************************)
EXTENDS StateTransitions

VARIABLE phase    \* "Stopped", "Reconciling" (startup) or "Running"

vars == <<storeVars, phase>>

Init == StoreInit /\ phase = "Stopped"

-----------------------------------------------------------------------------
(* What every reader of the store may rely on once startup is over: no      *)
(* recording of the earlier process is still being written, an artifact     *)
(* that could not be completed has its session in recovery, and no remote   *)
(* attempt is in flight.                                                    *)

ArtifactsReconciled ==
    \A x \in Slot :
        /\ artifact[x] # "Writing"
        /\ artifact[x] \in UnresolvedIntent \ {"Deleting"} =>
              lifecycle[x[1]] = "RecoveryRequired"

NoAttemptInFlight ==
    /\ \A x \in Slot : upload[x].state # "Attempting"
    /\ \A s \in Session : submission[s].state # "Attempting"

Start ==
    /\ phase = "Stopped"
    /\ phase' = "Reconciling"
    /\ UNCHANGED storeVars

(* artifact_commit::reconcile: what it does to one segment depends on the   *)
(* files it finds, which ArtifactCommit models.                             *)
ReconcileArtifact(x) ==
    /\ phase = "Reconciling"
    /\ \/ artifact[x] \in {"Writing", "Finalizing"} \cup ResolvingConflict
            /\ FailArtifact(x)
       \/ CompleteArtifactFinalization(x)
       \/ CompleteArtifactDiscard(x)
       \/ CompleteArtifactConflictResolution(x)
       \/ ExcludeArtifactConflict(x)
       \/ CompleteArtifactDelete(x)
       \/ artifact[x] \in {"Finalizing", "Discarding"} \cup ResolvingConflict
            /\ RequireRecovery(x[1])
    /\ UNCHANGED phase

(* reconcile_interrupted_remote_attempts, which follows it.                 *)
ReconcileAttempt ==
    /\ phase = "Reconciling"
    /\ ArtifactsReconciled
    /\ \/ \E x \in Slot : MarkUploadAmbiguous(x)
       \/ \E s \in Session : MarkSubmissionAmbiguous(s)
    /\ UNCHANGED phase

StartupDone_ArtifactsOnly == ArtifactsReconciled
StartupDone == ArtifactsReconciled /\ NoAttemptInFlight

EnterRun ==
    /\ phase = "Reconciling"
    /\ StartupDone
    /\ phase' = "Running"
    /\ UNCHANGED storeVars

(* The process ends: a crash, a kill, a fatal error or a clean exit.        *)
ProcessEnds ==
    /\ phase # "Stopped"
    /\ phase' = "Stopped"
    /\ UNCHANGED storeVars

-----------------------------------------------------------------------------
(* A room's supervisor and its recorder. A commit that fails leaves its     *)
(* intent and calls RequireRecovery, as does a fatal room error and a room  *)
(* removed from the configuration.                                          *)
RecordingStep ==
    /\ phase = "Running"
    /\ \/ \E s \in Session :
            \/ CreateSession(s)
            \/ lifecycle[s] = "Open" /\ RequireRecovery(s)
            \/ CloseNatural(s)
       \/ \E x \in Slot :
            \/ OpenSegment(x)
            \/ BeginArtifactFinalization(x)
            \/ BeginArtifactDiscard(x)
            \/ lifecycle[x[1]] = "Open" /\ CompleteArtifactFinalization(x)
            \/ lifecycle[x[1]] = "Open" /\ CompleteArtifactDiscard(x)
            \/ artifact[x] = "Writing" /\ FailArtifact(x)
    /\ UNCHANGED phase

(* The upload worker is one task: it awaits the outcome of an attempt       *)
(* before it begins the next.                                               *)
WorkerIdle == NoAttemptInFlight

RemoteAttemptStep ==
    \/ \E x \in Slot :
         \/ WorkerIdle /\ BeginUpload(x)
         \/ CompleteUpload(x)
         \/ \E scope \in Scope : ScheduleUploadRetry(x, scope) \/ BlockUpload(x, scope)
         \/ MarkUploadAmbiguous(x)
    \/ \E s \in Session :
         \/ WorkerIdle /\ BeginSubmission(s)
         \/ CompleteSubmission(s)
         \/ \E scope \in Scope :
               ScheduleSubmissionRetry(s, scope) \/ BlockSubmission(s, scope)
         \/ MarkSubmissionAmbiguous(s)

WorkerStep ==
    /\ phase = "Running"
    /\ \/ RemoteAttemptStep
       \/ \E x \in Slot : \/ WorkerIdle /\ BeginArtifactDelete(x)
                          \/ CompleteArtifactDelete(x)
    /\ UNCHANGED phase

(* `recover recording | segment | upload | submission`: the database is     *)
(* exclusive, so these run only while no run does.                          *)
OperatorDecision ==
    \/ \E s \in Session :
         \/ \E excludeFailed \in BOOLEAN : CloseRecover(s, excludeFailed)
         \/ CloseAbandon(s)
         \/ \E happened \in BOOLEAN : ResolveSubmission(s, happened)
    \/ \E x \in Slot : \E happened \in BOOLEAN : ResolveUpload(x, happened)

OperatorStep ==
    /\ phase = "Stopped"
    /\ \/ OperatorDecision
       \/ \E x \in Slot :
            \/ \E decision \in Decision : BeginArtifactConflictResolution(x, decision)
            \/ CompleteArtifactConflictResolution(x)
            \/ ExcludeArtifactConflict(x)
            \/ artifact[x] \in ResolvingConflict /\ FailArtifact(x)
    /\ UNCHANGED phase

TimePasses ==
    /\ \/ \E x \in Slot : UploadRetryDue(x)
       \/ \E s \in Session : SubmissionRetryDue(s)
       \/ \E t \in Target : BackoffDue(t)
    /\ UNCHANGED phase

Next ==
    \/ Start
    \/ \E x \in Slot : ReconcileArtifact(x)
    \/ ReconcileAttempt
    \/ EnterRun
    \/ ProcessEnds
    \/ RecordingStep
    \/ WorkerStep
    \/ OperatorStep
    \/ TimePasses

Spec == Init /\ [][Next]_vars

-----------------------------------------------------------------------------
RowTypes ==
    /\ lifecycle \in [Session -> SessionLifecycle]
    /\ room \in [Room -> RoomLifecycle]
    /\ artifact \in [Slot -> ArtifactState]
    /\ upload \in [Slot -> UploadState]
    /\ uploadAttempts \in [Slot -> Seq(Outcome)]
    /\ uploadResolutions \in [Slot -> SUBSET Resolution]
    /\ submission \in [Session -> SubmissionState]
    /\ submissionAttempts \in [Session -> Seq(Outcome)]
    /\ submissionResolutions \in [Session -> SUBSET Resolution]
    /\ gate \in [Target -> UploadTargetGate]
    /\ phase \in {"Stopped", "Reconciling", "Running"}

(* What a row in flight names, and what an operator decided about, is an    *)
(* attempt that its history holds.                                          *)
AttemptsAreKnown(row, history, resolutions) ==
    /\ Recoverable(row) => row.attempt \in DOMAIN history
    /\ \A decided \in resolutions : decided.attempt \in DOMAIN history

(* The rows have the types of src/state/model.rs, and no attempt id in them *)
(* refers to nothing.                                                       *)
TypeOK ==
    /\ RowTypes
    /\ \A x \in Slot :
          AttemptsAreKnown(upload[x], uploadAttempts[x], uploadResolutions[x])
    /\ \A s \in Session :
          AttemptsAreKnown(submission[s], submissionAttempts[s], submissionResolutions[s])

-----------------------------------------------------------------------------
(* Room ownership. A room row names a session exactly when that session is  *)
(* not closed, in the phase of its lifecycle, so the startup audit          *)
(* (src/state/ownership.rs) never finds a conflict or a mismatch, whatever  *)
(* was interrupted before.                                                  *)
OwnershipExact ==
    /\ \A s \in Session :
          /\ lifecycle[s] = "Open" <=> room[RoomOf[s]] = Owned(s)
          /\ lifecycle[s] = "RecoveryRequired" <=> room[RoomOf[s]] = Blocked(s)
    /\ \A r \in Room :
          /\ room[r].phase = "Ready" <=> room[r].session = NoSession
          /\ room[r].session # NoSession => RoomOf[room[r].session] = r

(* A closed session holds nothing that startup would have to repair: its    *)
(* segments are not in flight, Failed ones survive only in a session whose  *)
(* operator abandoned it, and an operator's conflict decision is pending    *)
(* only in a session under recovery. Otherwise fail_artifact or a           *)
(* complete_* transition would be refused at startup and no run could start.*)
Settled(life, art) ==
    /\ art \in UnresolvedIntent =>
          IF art = "Deleting" THEN life = "Completed"
          ELSE life \in {"Open", "RecoveryRequired"}
    /\ art \in ResolvingConflict => life = "RecoveryRequired"
    /\ art = "Failed" => life \in {"RecoveryRequired", "Abandoned"}
    /\ life = "Absent" => art = "Absent"

ClosedSessionsAreSettled == \A x \in Slot : Settled(lifecycle[x[1]], artifact[x])

(* A segment that startup finds in flight belongs to a session that accepts *)
(* its repair: neither closed nor without its room. The error of a refused  *)
(* transition would end every start of the program.                         *)
RepairsAccepted ==
    \A x \in Slot : artifact[x] \in UnresolvedIntent \ {"Deleting"} => MayClaimRoom(x[1])

(* Completed means that there is a recording, and NoUsableRecording that    *)
(* there is none, also after segments were excluded or deleted.             *)
ClosureTellsTheTruth ==
    \A s \in Session :
        /\ lifecycle[s] = "Completed" => HasUsable(s)
        /\ lifecycle[s] = "NoUsableRecording" => ~HasUsable(s)

(* A submission row covers its session for good: the session is Completed   *)
(* and every segment still is one the submission lists or skips. So no      *)
(* upload starts or is resolved behind it, and cleanup, which stops the     *)
(* worker when it meets any other segment, meets none.                      *)
SubmissionCoversSession ==
    \A s \in Session : HasSubmission(s) =>
        lifecycle[s] = "Completed" /\ HasPlan(s) /\ SubmissionPartsReady(s)

-----------------------------------------------------------------------------
(* Remote attempts. *)

MayFollow(history, resolutions, n) ==
    \/ history[n] = "RetryScheduled"
    \/ /\ history[n] \in {"Blocked", "Ambiguous"}
       /\ [attempt |-> n, happened |-> FALSE] \in resolutions

(* The remote side is asked again only when the last attempt is known not   *)
(* to have happened: a retryable failure, or an operator's word about it.   *)
(* Crashes, restarts and abandonment never turn an unknown outcome into a   *)
(* retry.                                                                   *)
NoBlindRetry ==
    /\ \A x \in Slot : \A n \in 1..(Len(uploadAttempts[x]) - 1) :
          MayFollow(uploadAttempts[x], uploadResolutions[x], n)
    /\ \A s \in Session : \A n \in 1..(Len(submissionAttempts[s]) - 1) :
          MayFollow(submissionAttempts[s], submissionResolutions[s], n)

(* A row that waits for an outcome or for an operator names the last        *)
(* attempt of its history, with the outcome the row claims.                 *)
NamesLast(row, history) ==
    /\ row.attempt = Len(history) /\ history # <<>>
    /\ history[row.attempt] =
          IF row.state = "Attempting" THEN "Unfinished" ELSE row.state

(* An attempt is unfinished exactly while its row is Attempting, and only   *)
(* the last one can be. An Uploaded or Submitted row rests on a confirmed   *)
(* attempt or on an operator's word about the last one.                     *)
HistoryMatches(row, history, resolutions) ==
    LET last == Len(history) IN
    /\ row.state \in {"Attempting", "Blocked", "Ambiguous"} => NamesLast(row, history)
    /\ \A n \in 1..last : history[n] = "Unfinished" => row.state = "Attempting" /\ n = last
    /\ row.state \in {"Uploaded", "Submitted"} =>
          /\ last > 0
          /\ \/ history[last] = "Confirmed"
             \/ [attempt |-> last, happened |-> TRUE] \in resolutions

AttemptHistoriesMatch ==
    /\ \A x \in Slot :
          HistoryMatches(upload[x], uploadAttempts[x], uploadResolutions[x])
    /\ \A s \in Session :
          HistoryMatches(submission[s], submissionAttempts[s], submissionResolutions[s])

(* A Blocked gate stops a whole target until its owner is resolved, so its  *)
(* owner must stay resolvable: the attempt it names is still the Blocked    *)
(* one, in a session where the resolve command is not refused.              *)
BlockedGateIsResolvable ==
    \A t \in Target : gate[t].phase = "Blocked" =>
        LET o == gate[t].owner IN
        /\ o.session \in Session /\ TargetOf[o.session] = t
        /\ \/ /\ o.kind = "Upload" /\ o.segment \in Index
              /\ upload[<<o.session, o.segment>>] = UploadOf("Blocked", o.attempt)
              /\ ~HasSubmission(o.session)
           \/ /\ o.kind = "Submission"
              /\ submission[o.session] = SubmissionOf("Blocked", o.attempt)
              /\ PermitsSubmission(lifecycle[o.session])

(* Only the resolution of the operation that blocked a target reopens it.   *)
GateReopensOnlyByResolution ==
    [][\A t \in Target : gate[t].phase = "Blocked" /\ gate'[t] # gate[t] =>
          LET o == gate[t].owner  x == <<o.session, o.segment>> IN
          /\ gate'[t] = GateReady
          /\ IF o.kind = "Upload"
             THEN upload[x] = UploadOf("Blocked", o.attempt) /\
                  \E r \in uploadResolutions'[x] : r.attempt = o.attempt
             ELSE submission[o.session] = SubmissionOf("Blocked", o.attempt) /\
                  \E r \in submissionResolutions'[o.session] : r.attempt = o.attempt
      ]_vars

(* Histories are evidence: a finished outcome is never rewritten and no     *)
(* attempt or resolution disappears.                                        *)
Extends(next, history) ==
    /\ Len(history) <= Len(next)
    /\ \A n \in 1..Len(history) : history[n] # "Unfinished" => next[n] = history[n]

HistoryIsAppendOnly ==
    [][/\ \A x \in Slot : /\ Extends(uploadAttempts'[x], uploadAttempts[x])
                         /\ uploadResolutions[x] \subseteq uploadResolutions'[x]
       /\ \A s \in Session :
             /\ Extends(submissionAttempts'[s], submissionAttempts[s])
             /\ submissionResolutions[s] \subseteq submissionResolutions'[s]
      ]_vars
=============================================================================
