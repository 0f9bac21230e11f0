------------------------ MODULE RunCoordinator_proofs -----------------------
(***************************************************************************)
(* Theorems about a run of the program: coordinator, upload worker and room *)
(* supervisors together do to the store only what DurableState allows, so   *)
(* all that is proved of the store holds of the run; and what the worker    *)
(* has checked of an item is still true when it acts on it.                 *)
(***************************************************************************)
EXTENDS RunCoordinator, DurableGates_proofs

-----------------------------------------------------------------------------
(* The worker *)

WorkerPlace ==
    {"Unborn", "None", "Asleep", "Uploading", "ClaimingUpload", "CallingUpload",
     "Submitting", "ClaimingSubmission", "CallingSubmission", "Cleaning", "Deleting",
     "Done", "Failed"}

WorkerTypeOK ==
    worker \in [at : WorkerPlace, uploads : SUBSET Slot, submissions : SUBSET Session,
                item : Slot \cup Session \cup {NoSession}]

(* The places where the worker holds an item it has checked or sent.        *)
Holding == {"ClaimingUpload", "CallingUpload", "ClaimingSubmission", "CallingSubmission"}
Calling == {"CallingUpload", "CallingSubmission"}

(* Where a step of the worker leads, and what it does to the store.         *)
Rests ==
    /\ worker.at \notin Calling /\ worker'.at \notin Holding
    /\ \/ UNCHANGED storeVars
       \/ \E x \in Slot : BeginArtifactDelete(x) \/ CompleteArtifactDelete(x)

TakesUpload(x) ==
    /\ worker.at = "Uploading" /\ worker'.at = "ClaimingUpload" /\ worker'.item = x
    /\ Uploadable(x) /\ UNCHANGED storeVars

SendsUpload(x) ==
    /\ worker.at = "ClaimingUpload" /\ worker.item = x
    /\ worker'.at = "CallingUpload" /\ worker'.item = x
    /\ BeginUpload(x)

EndsUpload(x) ==
    /\ worker.at = "CallingUpload" /\ worker.item = x /\ worker'.at = "Uploading"
    /\ UploadAnswered(x)

TakesSubmission(s) ==
    /\ worker.at = "Submitting" /\ worker'.at = "ClaimingSubmission" /\ worker'.item = s
    /\ s \in worker.submissions /\ Submittable(s) /\ UNCHANGED storeVars

SendsSubmission(s) ==
    /\ worker.at = "ClaimingSubmission" /\ worker.item = s
    /\ worker'.at = "CallingSubmission" /\ worker'.item = s
    /\ BeginSubmission(s)

EndsSubmission(s) ==
    /\ worker.at = "CallingSubmission" /\ worker.item = s
    /\ worker'.at \in {"Submitting", "Cleaning"}
    /\ SubmissionAnswered(s)

WorkerMoves ==
    \/ Rests
    \/ \E x \in Slot : TakesUpload(x) \/ SendsUpload(x) \/ EndsUpload(x)
    \/ \E s \in Session : TakesSubmission(s) \/ SendsSubmission(s) \/ EndsSubmission(s)

LEMMA GotoValue ==
    ASSUME WorkerTypeOK, NEW place \in WorkerPlace,
           NEW item \in Slot \cup Session \cup {NoSession}, Goto(place, item)
    PROVE  /\ WorkerTypeOK' /\ worker'.at = place /\ worker'.item = item
           /\ worker'.submissions = worker.submissions
BY DEF WorkerTypeOK, Goto

LEMMA WithoutValue ==
    ASSUME WorkerTypeOK, NEW x
    PROVE  /\ worker' = WithoutUpload(x) =>
                /\ WorkerTypeOK' /\ worker'.at = "Uploading"
                /\ worker'.submissions = worker.submissions
           /\ worker' = WithoutSession(x) =>
                /\ WorkerTypeOK' /\ worker'.at = "Submitting"
                /\ worker'.submissions \subseteq worker.submissions
<1>1. ASSUME worker' = WithoutUpload(x)
      PROVE  /\ WorkerTypeOK' /\ worker'.at = "Uploading"
             /\ worker'.submissions = worker.submissions
  BY <1>1 DEF WorkerTypeOK, WithoutUpload, WorkerPlace
<1>2. ASSUME worker' = WithoutSession(x)
      PROVE  /\ WorkerTypeOK' /\ worker'.at = "Submitting"
             /\ worker'.submissions \subseteq worker.submissions
  BY <1>2 DEF WorkerTypeOK, WithoutSession, WorkerPlace
<1> QED
  BY <1>1, <1>2

LEMMA UnbornValue ==
    ASSUME NEW place \in WorkerPlace, worker' = [Unborn EXCEPT !.at = place]
    PROVE  WorkerTypeOK' /\ worker'.at = place /\ worker'.submissions = {}
BY DEF WorkerTypeOK, Unborn, WorkerPlace

(* Every action of the worker is one of these moves.                        *)
LEMMA WorkerActionMoves ==
    ASSUME WorkerTypeOK, WorkerAction
    PROVE  /\ WorkerTypeOK' /\ WorkerMoves
           /\ \A s \in worker'.submissions : s \in worker.submissions \/ AwaitsSubmission(s)
<1> DEFINE Goal == /\ WorkerTypeOK' /\ WorkerMoves
                   /\ \A s \in worker'.submissions :
                         s \in worker.submissions \/ AwaitsSubmission(s)
<1> USE DEF IsAt, Serves
<1>a. \A x \in Slot : x \in Slot \cup Session \cup {NoSession}
                     /\ x[1] \in Slot \cup Session \cup {NoSession}
  BY SlotParts
<1>b. {"ClaimingUpload", "CallingUpload", "ClaimingSubmission", "CallingSubmission",
       "Cleaning", "Deleting", "Done", "Asleep", "Failed", "Uploading"} \subseteq WorkerPlace
  BY DEF WorkerPlace
<1>1. ASSUME NEW x \in Slot, SkipUpload(x)
      PROVE  Goal
  BY <1>1, WithoutValue DEF SkipUpload, NextUpload, WorkerMoves, Rests, Calling, Holding
<1>2. ASSUME NEW x \in Slot, CheckUpload(x)
      PROVE  Goal
  BY <1>2, <1>a, <1>b, GotoValue
     DEF CheckUpload, NextUpload, WorkerMoves, TakesUpload
<1>3. ASSUME NEW x \in Slot, ClaimUpload(x)
      PROVE  Goal
  <2>1. CASE BeginUpload(x) /\ Goto("CallingUpload", x)
    BY <1>3, <2>1, <1>a, <1>b, GotoValue DEF ClaimUpload, WorkerMoves, SendsUpload
  <2>2. CASE UNCHANGED storeVars /\ Goto("Failed", NoSession)
    BY <1>3, <2>2, <1>b, GotoValue DEF ClaimUpload, WorkerMoves, Rests, Calling, Holding
  <2> QED BY <1>3, <2>1, <2>2 DEF ClaimUpload
<1>4. ASSUME NEW x \in Slot, UploadAnswered(x)
      PROVE  Goal
  <2>1. /\ worker.at = "CallingUpload" /\ worker.item = x
        /\ worker' = WithoutUpload(x)
    BY <1>4 DEF UploadAnswered
  <2> QED BY <1>4, <2>1, WithoutValue DEF WorkerMoves, EndsUpload
<1>5. ASSUME NEW x \in Slot, DeleteRecording(x)
      PROVE  Goal
  BY <1>5, <1>a, <1>b, GotoValue DEF DeleteRecording, WorkerMoves, Rests, Calling, Holding
<1>6. ASSUME NEW x \in Slot, RecordingDeleted(x)
      PROVE  Goal
  BY <1>6, <1>a, <1>b, GotoValue DEF RecordingDeleted, WorkerMoves, Rests, Calling, Holding
<1>7. ASSUME NEW s \in Session, SkipSession(s)
      PROVE  Goal
  BY <1>7, WithoutValue DEF SkipSession, NextSession, WorkerMoves, Rests, Calling, Holding
<1>8. ASSUME NEW s \in Session, CheckSubmission(s)
      PROVE  Goal
  BY <1>8, <1>b, GotoValue DEF CheckSubmission, NextSession, WorkerMoves, TakesSubmission
<1>9. ASSUME NEW s \in Session, ClaimSubmission(s)
      PROVE  Goal
  <2>1. CASE BeginSubmission(s) /\ Goto("CallingSubmission", s)
    BY <1>9, <2>1, <1>b, GotoValue DEF ClaimSubmission, WorkerMoves, SendsSubmission
  <2>2. CASE UNCHANGED storeVars /\ Goto("Failed", NoSession)
    BY <1>9, <2>2, <1>b, GotoValue DEF ClaimSubmission, WorkerMoves, Rests, Calling, Holding
  <2> QED BY <1>9, <2>1, <2>2 DEF ClaimSubmission
<1>10. ASSUME NEW s \in Session, SubmissionAnswered(s)
       PROVE  Goal
  <2>1. /\ worker.at = "CallingSubmission" /\ worker.item = s
        /\ worker' = AfterSubmission(s)
    BY <1>10 DEF SubmissionAnswered
  <2>2. \/ worker' = WithoutSession(s)
        \/ worker' = [worker EXCEPT !.at = "Cleaning", !.item = s]
    BY <2>1 DEF AfterSubmission
  <2>3. /\ WorkerTypeOK' /\ worker'.at \in {"Submitting", "Cleaning"}
        /\ worker'.submissions \subseteq worker.submissions
    <3>1. CASE worker' = WithoutSession(s)
      BY <3>1, WithoutValue
    <3>2. CASE worker' = [worker EXCEPT !.at = "Cleaning", !.item = s]
      BY <3>2, <1>b, GotoValue DEF Goto
    <3> QED BY <2>2, <3>1, <3>2
  <2> QED BY <1>10, <2>1, <2>3 DEF WorkerMoves, EndsSubmission
<1>11. ASSUME NEW s \in Session, BeginCleanup(s)
       PROVE  Goal
  BY <1>11, <1>b, GotoValue DEF BeginCleanup, NextSession, WorkerMoves, Rests, Calling, Holding
<1>12. ASSUME NEW s \in Session, EndCleanup(s)
       PROVE  Goal
  <2>1. CASE worker' = WithoutSession(s)
    BY <1>12, <2>1, WithoutValue DEF EndCleanup, WorkerMoves, Rests, Calling, Holding
  <2>2. CASE Goto("Failed", NoSession)
    BY <1>12, <2>2, <1>b, GotoValue DEF EndCleanup, WorkerMoves, Rests, Calling, Holding
  <2> QED BY <1>12, <2>1, <2>2 DEF EndCleanup
<1>13. ASSUME BeginPass
       PROVE  Goal
  <2>1. /\ worker'.at = "Uploading" /\ worker'.submissions = {} /\ WorkerTypeOK'
    BY <1>13 DEF BeginPass, Unborn, WorkerTypeOK, WorkerPlace
  <2> QED BY <1>13, <2>1 DEF BeginPass, WorkerMoves, Rests, Calling, Holding
<1>14. ASSUME BeginSubmissions
       PROVE  Goal
  <2>1. /\ worker'.at = "Submitting" /\ WorkerTypeOK'
        /\ worker'.submissions = {s \in Session : AwaitsSubmission(s)}
    BY <1>14 DEF BeginSubmissions, WorkerTypeOK, WorkerPlace
  <2> QED BY <1>14, <2>1 DEF BeginSubmissions, WorkerMoves, Rests, Calling, Holding
<1>15. ASSUME EndPass
       PROVE  Goal
  <2>1. PICK place \in {"Done", "Asleep"} : Goto(place, NoSession)
    BY <1>15 DEF EndPass
  <2> QED BY <1>15, <2>1, <1>b, GotoValue DEF EndPass, WorkerMoves, Rests, Calling, Holding
<1>16. ASSUME SeeShutdown
       PROVE  Goal
  BY <1>16, <1>b, UnbornValue DEF SeeShutdown, WorkerMoves, Rests, Calling, Holding
<1> QED
  BY <1>1, <1>2, <1>3, <1>4, <1>5, <1>6, <1>7, <1>8, <1>9, <1>10, <1>11, <1>12,
     <1>13, <1>14, <1>15, <1>16 DEF WorkerAction

-----------------------------------------------------------------------------
(* The answers of the remote side *)

LEMMA CallOutcomes ==
    ASSUME NEW problem \in CallProblem
    PROVE  CallOutcome(problem) \in
              {RetryableKnownFailure("Target"), BlockedKnownFailure("Target"),
               BlockedKnownFailure("Item"), OutcomeUnknown}
BY DEF CallOutcome, CallProblem, HttpProblem

Answers ==
    {Confirmed, OutcomeUnknown} \cup
    {RetryableKnownFailure(scope) : scope \in Scope} \cup
    {BlockedKnownFailure(scope) : scope \in Scope}

LEMMA AnswersAreScoped ==
    ASSUME NEW answer \in Answers
    PROVE  answer.kind \in {"Retryable", "Blocked"} => answer.scope \in Scope
BY DEF Answers, Confirmed, OutcomeUnknown, RetryableKnownFailure, BlockedKnownFailure

LEMMA LoginOutcomes ==
    ASSUME NEW problem
    PROVE  LoginOutcome(problem) \in Answers /\ ProbeOutcome(problem) \in Answers
BY DEF LoginOutcome, ProbeOutcome, Answers, Scope

LEMMA UploadAnswers == UploadAnswer \subseteq Answers
<1> SUFFICES ASSUME NEW reply \in UploadReply
             PROVE  UploadOutcome(reply) \in Answers
  BY DEF UploadAnswer
<1>1. /\ reply.stage \in {"Login", "File", "Probe", "Line", "PreUpload", "Transfer"}
      /\ reply.stage = "PreUpload" => reply.problem \in CallProblem
  BY DEF UploadReply, Reply
<1>2. "Item" \in Scope /\ "Target" \in Scope
  BY DEF Scope
<1> QED
  BY <1>1, <1>2, LoginOutcomes, CallOutcomes DEF UploadOutcome, Answers

LEMMA SubmissionReplies ==
    ASSUME NEW reply \in SubmissionReply
    PROVE  /\ reply.stage \in {"Login", "Cookie", "Submit", "Response"}
           /\ reply.stage = "Submit" => reply.problem \in CallProblem
           /\ reply.stage = "Response" =>
                 reply.problem \in {"ErrorCode", "NoIdentifier", "None"}
BY DEF SubmissionReply, Reply

LEMMA SubmissionAnswers == \A happened : SubmissionAnswer(happened) \subseteq Answers
<1> SUFFICES ASSUME NEW reply \in SubmissionReply
             PROVE  SubmissionOutcome(reply) \in Answers
  BY DEF SubmissionAnswer
<1>1. "Item" \in Scope /\ "Target" \in Scope
  BY DEF Scope
<1> QED
  BY <1>1, SubmissionReplies, LoginOutcomes, CallOutcomes
     DEF SubmissionOutcome, ResponseOutcome, Answers

(* Once the video exists, the answer says so or is not understood.          *)
LEMMA AnswersAfterPublication ==
    SubmissionAnswer(TRUE) \subseteq {Confirmed, OutcomeUnknown}
<1> SUFFICES ASSUME NEW reply \in SubmissionReply, reply \in Creates \cup MayCreate
             PROVE  SubmissionOutcome(reply) \in {Confirmed, OutcomeUnknown}
  BY DEF SubmissionAnswer
<1>1. \/ reply.stage = "Response" /\ reply.problem \in {"None", "NoIdentifier"}
      \/ reply.stage = "Submit" /\ reply.problem \in {"BrokenOff", "Undecodable"}
  BY DEF Creates, MayCreate, Reply
<1> QED
  BY <1>1 DEF SubmissionOutcome, ResponseOutcome, CallOutcome

-----------------------------------------------------------------------------
(* A run implements the store *)

LEMMA UploadAnsweredIsStep ==
    ASSUME NEW x \in Slot, UploadAnswered(x)
    PROVE  RemoteAttemptStep
<1>0. PICK answer \in UploadAnswer :
        \/ answer = Confirmed /\ CompleteUpload(x)
        \/ answer.kind = "Retryable" /\ ScheduleUploadRetry(x, answer.scope)
        \/ answer.kind = "Blocked" /\ BlockUpload(x, answer.scope)
        \/ answer = OutcomeUnknown /\ MarkUploadAmbiguous(x)
  BY DEF UploadAnswered
<1>1. answer.kind \in {"Retryable", "Blocked"} => answer.scope \in Scope
  BY UploadAnswers, AnswersAreScoped
<1> QED
  BY <1>0, <1>1 DEF RemoteAttemptStep

LEMMA SubmissionAnsweredIsStep ==
    ASSUME NEW s \in Session, SubmissionAnswered(s)
    PROVE  RemoteAttemptStep
<1>0. PICK answer \in SubmissionAnswer(Len(submissionAttempts[s]) \in published[s]) :
        \/ answer = Confirmed /\ CompleteSubmission(s)
        \/ answer.kind = "Retryable" /\ ScheduleSubmissionRetry(s, answer.scope)
        \/ answer.kind = "Blocked" /\ BlockSubmission(s, answer.scope)
        \/ answer = OutcomeUnknown /\ MarkSubmissionAmbiguous(s)
  BY DEF SubmissionAnswered
<1>1. answer.kind \in {"Retryable", "Blocked"} => answer.scope \in Scope
  BY SubmissionAnswers, AnswersAreScoped
<1> QED
  BY <1>0, <1>1 DEF RemoteAttemptStep

(* The worker claims an attempt only when it has none under way.            *)
LEMMA WorkerActionImplements ==
    ASSUME WorkerTypeOK, AttemptsAreTheWorkers, WorkerAction
    PROVE  [Next]_vars
<1>a. phase = "Running" /\ phase' = phase
  BY DEF WorkerAction
<1>b. worker.at \notin Calling => WorkerIdle
  BY <1>a DEF AttemptsAreTheWorkers, Calling, WorkerIdle, NoAttemptInFlight
<1>1. CASE Rests
  <2>1. CASE UNCHANGED storeVars
    BY <1>a, <2>1 DEF vars
  <2>2. CASE \E x \in Slot : BeginArtifactDelete(x) \/ CompleteArtifactDelete(x)
    BY <1>1, <1>a, <1>b, <2>2 DEF Rests, WorkerStep, Next
  <2> QED BY <1>1, <2>1, <2>2 DEF Rests
<1>2. ASSUME NEW x \in Slot, TakesUpload(x) \/ SendsUpload(x) \/ EndsUpload(x)
      PROVE  [Next]_vars
  <2>1. CASE TakesUpload(x)
    BY <1>a, <2>1 DEF TakesUpload, vars
  <2>2. CASE SendsUpload(x)
    BY <1>a, <1>b, <2>2 DEF SendsUpload, Calling, RemoteAttemptStep, WorkerStep, Next
  <2>3. CASE EndsUpload(x)
    BY <1>a, <2>3, UploadAnsweredIsStep DEF EndsUpload, WorkerStep, Next
  <2> QED BY <1>2, <2>1, <2>2, <2>3
<1>3. ASSUME NEW s \in Session, TakesSubmission(s) \/ SendsSubmission(s) \/ EndsSubmission(s)
      PROVE  [Next]_vars
  <2>1. CASE TakesSubmission(s)
    BY <1>a, <2>1 DEF TakesSubmission, vars
  <2>2. CASE SendsSubmission(s)
    BY <1>a, <1>b, <2>2 DEF SendsSubmission, Calling, RemoteAttemptStep, WorkerStep, Next
  <2>3. CASE EndsSubmission(s)
    BY <1>a, <2>3, SubmissionAnsweredIsStep DEF EndsSubmission, WorkerStep, Next
  <2> QED BY <1>3, <2>1, <2>2, <2>3
<1> QED
  BY <1>1, <1>2, <1>3, WorkerActionMoves DEF WorkerMoves

(* What a supervisor does is a step of the recording.                       *)
LEMMA RoomStepImplements ==
    ASSUME NEW r \in Room, RoomStep(r)
    PROVE  RecordingStep
<1>1. \A s \in Session : \A x \in SlotsOf(s) : x \in Slot
  BY SlotsOfSession
<1>2. ASSUME NEW x \in Slot, EndSegment(x), phase = "Running", phase' = phase
      PROVE  RecordingStep
  <2>1. lifecycle[x[1]] = "Open" /\ x[1] \in Session
    BY <1>2, SlotParts DEF EndSegment, InFlight
  <2> QED BY <1>2, <2>1 DEF EndSegment, RecordingStep
<1> QED
  BY <1>1, <1>2 DEF RoomStep, RecordingStep

LEMMA RunImplements ==
    ASSUME OwnershipExact, WorkerTypeOK, AttemptsAreTheWorkers, [RunNext]_runVars
    PROVE  [Next]_vars
<1>1. CASE StartRun \/ ReconcileStore
  BY <1>1 DEF StartRun, ReconcileStore, Next
<1>2. ASSUME NEW s \in Session, RecoverRemovedRoom(s)
      PROVE  [Next]_vars
  <2>1. phase = "Running" /\ phase' = phase
    BY <1>2 DEF RecoverRemovedRoom, Starting, Preparing
  <2>2. lifecycle[s] = "Open"
    BY <1>2 DEF RecoverRemovedRoom, Orphaned, OwnershipExact
  <2> QED BY <1>2, <2>1, <2>2 DEF RecoverRemovedRoom, RecordingStep, Next
<1>3. ASSUME NEW r \in Room, RoomStep(r) \/ RoomEnds(r)
      PROVE  [Next]_vars
  BY <1>3, RoomStepImplements DEF RoomEnds, Next
<1>4. CASE WorkerStepOf
  BY <1>4, WorkerActionImplements DEF WorkerStepOf
<1>5. CASE SpawnWorker \/ PrepareRooms \/ LetWorkerStop \/ CtrlC \/ WorkerFails
           \/ PreparationFails \/ UNCHANGED runVars
  BY <1>5 DEF SpawnWorker, PrepareRooms, LetWorkerStop, CtrlC, WorkerFails,
     PreparationFails, Shutdown, runVars
<1>6. CASE RunEnds \/ Crash
  BY <1>6 DEF RunEnds, Crash, Vanish, Next
<1>7. CASE Decide \/ Tick
  BY <1>7 DEF Decide, Tick, Next
<1>8. CASE Publish \/ MoveFile
  BY <1>8 DEF Publish, RemotePublishes, MoveFile, vars
<1> QED
  BY <1>1, <1>2, <1>3, <1>4, <1>5, <1>6, <1>7, <1>8 DEF RunNext

-----------------------------------------------------------------------------
(* What of the store a run relies on: all of it is proved of DurableState,  *)
(* whose steps the steps of a run are.                                      *)
StoreInv ==
    RowTypes /\ OwnershipExact /\ RowsInv /\ SentIsUsable /\ SubmissionCoversSession

(* Outside a run there is no task.                                          *)
OnlyRunsHaveTasks ==
    phase # "Running" => worker = Unborn /\ rooms = {} /\ openSessionsReady = FALSE

ListedAreAwaited == \A s \in worker.submissions : AwaitsSubmission(s)

(* A video exists only for an attempt whose outcome is not a known failure. *)
PublishedAreOpen ==
    /\ published \in [Session -> SUBSET Nat]
    /\ \A s \in Session : \A n \in published[s] :
          /\ n \in 1..Len(submissionAttempts[s])
          /\ submissionAttempts[s][n] \in {"Unfinished", "Ambiguous", "Confirmed"}

(* Past the barrier every open session has a configured room; an upload is  *)
(* checked of an open session only past the barrier.                        *)
ServedInv ==
    /\ rooms \subseteq config.rooms
    /\ openSessionsReady =>
          \A s \in Session : lifecycle[s] = "Open" => RoomOf[s] \in config.rooms
    /\ \A x \in Slot : worker.at = "ClaimingUpload" /\ worker.item = x =>
          /\ lifecycle[x[1]] # "Absent"
          /\ lifecycle[x[1]] = "Open" => openSessionsReady

RunInv ==
    /\ StoreInv
    /\ WorkerTypeOK /\ OnlyRunsHaveTasks
    /\ AttemptsAreTheWorkers
    /\ ListedAreAwaited
    /\ SubmissionChecksStayTrue
    /\ PublishedAreOpen
    /\ ServedInv

LEMMA InitRun == RunInit => RunInv
<1> SUFFICES ASSUME RunInit PROVE RunInv
  OBVIOUS
<1>1. StoreInv
  BY InitType, InitOwnership, InitRows, InitCoverage DEF RunInit, StoreInv
<1>2. /\ worker = Unborn /\ worker.at = "Unborn" /\ worker.submissions = {}
      /\ phase = "Stopped"
  BY DEF RunInit, Unborn, Init
<1>3. WorkerTypeOK
  BY <1>2 DEF WorkerTypeOK, WorkerPlace, Unborn
<1>4. PublishedAreOpen /\ ServedInv
  BY <1>2 DEF RunInit, PublishedAreOpen, ServedInv
<1> QED
  BY <1>1, <1>2, <1>3, <1>4 DEF RunInit, RunInv, OnlyRunsHaveTasks, AttemptsAreTheWorkers,
     ListedAreAwaited, SubmissionChecksStayTrue

LEMMA StoreInvStep == StoreInv /\ [Next]_vars => StoreInv'
BY TypeStep, OwnershipKept, RowsStep, SentStep, CoverageStep
   DEF StoreInv, RowTypes, StoreTypeOK

(* Where the worker can come from: it acts, is spawned, ends with the       *)
(* process, or waits while another task acts.                               *)
LEMMA WorkerChanges ==
    ASSUME RunInv, [RunNext]_runVars
    PROVE  \/ WorkerStepOf
           \/ SpawnWorker
           \/ Vanish
           \/ UNCHANGED worker
BY DEF RunNext, StartRun, ReconcileStore, RecoverRemovedRoom, PrepareRooms, RoomStep,
   RoomEnds, LetWorkerStop, CtrlC, WorkerFails, PreparationFails, Shutdown, RunEnds, Crash,
   Decide, Tick, Publish, MoveFile, RemotePublishes, workerVars, runVars

LEMMA TasksStep ==
    ASSUME RunInv, [RunNext]_runVars
    PROVE  WorkerTypeOK' /\ OnlyRunsHaveTasks'
<1> USE DEF OnlyRunsHaveTasks
<1>a. WorkerTypeOK /\ OnlyRunsHaveTasks
  BY DEF RunInv
<1>1. WorkerTypeOK'
  <2>1. CASE WorkerStepOf
    BY <1>a, <2>1, WorkerActionMoves DEF WorkerStepOf
  <2>2. CASE SpawnWorker
    <3>1. \E place \in WorkerPlace : worker' = [Unborn EXCEPT !.at = place]
      BY <2>2 DEF SpawnWorker, WorkerPlace
    <3> QED BY <3>1, UnbornValue
  <2>3. CASE Vanish
    BY <2>3 DEF Vanish, WorkerTypeOK, WorkerPlace, Unborn
  <2>4. CASE UNCHANGED worker
    BY <1>a, <2>4 DEF WorkerTypeOK
  <2> QED BY <2>1, <2>2, <2>3, <2>4, WorkerChanges
<1>2. ASSUME phase' # "Running"
      PROVE  \/ Vanish
             \/ phase # "Running" /\ UNCHANGED <<worker, rooms, openSessionsReady>>
  BY <1>2 DEF RunNext, StartRun, Start, ReconcileStore, ReconcileArtifact, ReconcileAttempt,
     EnterRun, RecoverRemovedRoom, Starting, Preparing, SpawnWorker, PrepareRooms, RoomStep,
     RoomEnds, WorkerStepOf, WorkerAction, LetWorkerStop, CtrlC, WorkerFails,
     PreparationFails, Shutdown, RunEnds, Crash, Decide, OperatorStep, Tick, TimePasses,
     Publish, MoveFile, RemotePublishes, workerVars, coordinatorVars, channels, runVars, vars
<1> QED
  BY <1>a, <1>1, <1>2 DEF Vanish

(* Other tasks than the worker, seen from the worker while it waits.        *)
LEMMA WhileWorkerWaits ==
    ASSUME RunInv, [RunNext]_runVars, ~WorkerStepOf, phase' = "Running"
    PROVE  \/ RecordingStep
           \/ Tick
           \/ UNCHANGED storeVars
<1>0. OwnershipExact
  BY DEF RunInv, StoreInv
<1>1. CASE StartRun \/ ReconcileStore \/ RunEnds \/ Crash \/ Decide
  BY <1>1 DEF StartRun, Start, ReconcileStore, ReconcileArtifact, ReconcileAttempt,
     EnterRun, RunEnds, Crash, Vanish, ProcessEnds, Decide, OperatorStep
<1>2. ASSUME NEW s \in Session, RecoverRemovedRoom(s)
      PROVE  RecordingStep
  <2>1. phase = "Running" /\ phase' = phase /\ lifecycle[s] = "Open"
    BY <1>0, <1>2 DEF RecoverRemovedRoom, Starting, Preparing, Orphaned, OwnershipExact
  <2> QED BY <1>2, <2>1 DEF RecoverRemovedRoom, RecordingStep
<1>3. ASSUME NEW r \in Room, RoomStep(r) \/ RoomEnds(r)
      PROVE  RecordingStep \/ UNCHANGED storeVars
  BY <1>3, RoomStepImplements DEF RoomEnds, vars
<1>4. CASE SpawnWorker \/ PrepareRooms \/ LetWorkerStop \/ CtrlC \/ WorkerFails
           \/ PreparationFails \/ Publish \/ MoveFile \/ UNCHANGED runVars
  BY <1>4 DEF SpawnWorker, PrepareRooms, LetWorkerStop, CtrlC, WorkerFails,
     PreparationFails, Shutdown, Publish, MoveFile, RemotePublishes, runVars, vars
<1> QED
  BY <1>1, <1>2, <1>3, <1>4 DEF RunNext

-----------------------------------------------------------------------------
(* Who calls, and for what *)

(* What a supervisor does leaves an attempt in flight alone and starts none.*)
LEMMA RecordingMovesUpload ==
    ASSUME StoreTypeOK, RecordingStep, NEW y \in Slot
    PROVE  \/ upload'[y] = upload[y]
           \/ ~IsUsable(artifact[y]) /\ upload'[y].state # "Attempting"
<1> USE DEF StoreTypeOK, SetUpload
<1>1. ASSUME NEW x \in Slot, OpenSegment(x) \/ CompleteArtifactDiscard(x)
      PROVE  \/ upload'[y] = upload[y]
             \/ ~IsUsable(artifact[y]) /\ upload'[y].state # "Attempting"
  BY <1>1 DEF OpenSegment, HasSegment, CompleteArtifactDiscard, CompleteArtifact, IsUsable,
     Pending, UploadIs
<1> QED
  BY <1>1 DEF RecordingStep, CreateSession, RequireRecovery, CloseNatural,
     BeginArtifactFinalization, BeginArtifactDiscard, BeginArtifact,
     CompleteArtifactFinalization, CompleteArtifact, FailArtifact, uploadVars

LEMMA RecordingStepIsRecording ==
    ASSUME RecordingStep
    PROVE  RecordingNext
BY DEF RecordingStep, RecordingNext

LEMMA AnsweredRow ==
    ASSUME StoreTypeOK
    PROVE  /\ \A x \in Slot : UploadAnswered(x) =>
                /\ upload'[x].state # "Attempting"
                /\ \A y \in Slot : y # x => upload'[y] = upload[y]
                /\ submission' = submission
           /\ \A s \in Session : SubmissionAnswered(s) =>
                /\ submission'[s].state # "Attempting"
                /\ \A r \in Session : r # s => submission'[r] = submission[r]
                /\ upload' = upload
<1> USE DEF StoreTypeOK, SetUpload, SetSubmission
<1>1. ASSUME NEW x \in Slot, UploadAnswered(x)
      PROVE  \E outcome, up : FinishUpload(x, outcome, up) /\ up.state # "Attempting"
  BY <1>1 DEF UploadAnswered, CompleteUpload, ScheduleUploadRetry, BlockUpload,
     MarkUploadAmbiguous, UploadIs, UploadOf, Pending
<1>2. ASSUME NEW s \in Session, SubmissionAnswered(s)
      PROVE  \E outcome, row : FinishSubmission(s, outcome, row) /\ row.state # "Attempting"
  BY <1>2 DEF SubmissionAnswered, CompleteSubmission, ScheduleSubmissionRetry,
     BlockSubmission, MarkSubmissionAmbiguous, SubmissionIs, SubmissionOf, RetryScheduled
<1> QED
  BY <1>1, <1>2 DEF FinishUpload, FinishSubmission, submissionVars, uploadVars

LEMMA BegunRow ==
    ASSUME StoreTypeOK
    PROVE  /\ \A x \in Slot : BeginUpload(x) =>
                /\ upload'[x].state = "Attempting"
                /\ \A y \in Slot : y # x => upload'[y] = upload[y]
                /\ submission' = submission
           /\ \A s \in Session : BeginSubmission(s) =>
                /\ submission'[s].state = "Attempting"
                /\ \A r \in Session : r # s => submission'[r] = submission[r]
                /\ upload' = upload
BY DEF StoreTypeOK, BeginUpload, BeginSubmission, SetUpload, SetSubmission, UploadOf,
   SubmissionOf, submissionVars, uploadVars

Passable(g) == g.phase = "Ready" \/ (g.phase = "Backoff" /\ g.due)

LEMMA ReadyIsPassable ==
    ASSUME NEW t
    PROVE  /\ TargetReady(t) <=> Passable(gate[t])
           /\ TargetReady(t)' <=> Passable(gate'[t])
BY DEF TargetReady, Passable

(* A clock that advances changes what is due, no state.                     *)
LEMMA TickKeepsStates ==
    ASSUME StoreTypeOK, TimePasses
    PROVE  /\ UNCHANGED recordingVars
           /\ \A x \in Slot : upload'[x].state = upload[x].state
           /\ \A s \in Session : /\ submission'[s].state = submission[s].state
                                 /\ submission[s].due => submission'[s].due
           /\ \A t \in Target : TargetReady(t) => Passable(gate'[t])
<1> DEFINE Kept ==
           /\ UNCHANGED recordingVars
           /\ \A x \in Slot : upload'[x].state = upload[x].state
           /\ \A s \in Session : /\ submission'[s].state = submission[s].state
                                 /\ submission[s].due => submission'[s].due
           /\ \A t \in Target : TargetReady(t) => Passable(gate'[t])
<1> USE DEF StoreTypeOK
<1>1. ASSUME NEW x \in Slot, UploadRetryDue(x)
      PROVE  Kept
  <2>1. upload[x].state = "Pending" /\ Pending(TRUE).state = "Pending"
    BY <1>1 DEF UploadRetryDue, Pending
  <2>2. \A y \in Slot : upload'[y].state = upload[y].state
    BY <1>1, <2>1 DEF UploadRetryDue, SetUpload
  <2>3. UNCHANGED recordingVars /\ submission' = submission /\ gate' = gate
    BY <1>1 DEF UploadRetryDue, submissionVars
  <2> QED BY <2>2, <2>3, ReadyIsPassable
<1>2. ASSUME NEW s \in Session, SubmissionRetryDue(s)
      PROVE  Kept
  <2>1. /\ submission[s].state = "RetryScheduled"
        /\ RetryScheduled(TRUE).state = "RetryScheduled" /\ RetryScheduled(TRUE).due = TRUE
    BY <1>2 DEF SubmissionRetryDue, RetryScheduled
  <2>2. \A r \in Session : /\ submission'[r].state = submission[r].state
                           /\ submission[r].due => submission'[r].due
    BY <1>2, <2>1 DEF SubmissionRetryDue, SetSubmission
  <2>3. UNCHANGED recordingVars /\ upload' = upload /\ gate' = gate
    BY <1>2 DEF SubmissionRetryDue, uploadVars
  <2> QED BY <2>2, <2>3, ReadyIsPassable
<1>3. ASSUME NEW t \in Target, BackoffDue(t)
      PROVE  Kept
  <2>1. \A r \in Target : r # t => gate'[r] = gate[r]
    BY <1>3 DEF BackoffDue, SetGate
  <2>2. ~TargetReady(t)
    BY <1>3 DEF BackoffDue, TargetReady
  <2>3. UNCHANGED recordingVars /\ upload' = upload /\ submission' = submission
    BY <1>3 DEF BackoffDue, uploadVars, submissionVars
  <2> QED BY <2>1, <2>2, <2>3, ReadyIsPassable
<1> QED
  BY <1>1, <1>2, <1>3 DEF TimePasses

LEMMA CallsStep ==
    ASSUME RunInv, [RunNext]_runVars
    PROVE  AttemptsAreTheWorkers'
<1> SUFFICES ASSUME phase' = "Running"
             PROVE  /\ \A x \in Slot : upload'[x].state = "Attempting" <=>
                           worker'.at = "CallingUpload" /\ worker'.item = x
                    /\ \A s \in Session : submission'[s].state = "Attempting" <=>
                           worker'.at = "CallingSubmission" /\ worker'.item = s
  BY DEF AttemptsAreTheWorkers
<1>a. /\ StoreTypeOK /\ RowsInv /\ SentIsUsable /\ WorkerTypeOK /\ OnlyRunsHaveTasks
      /\ AttemptsAreTheWorkers
  BY DEF RunInv, StoreInv, RowTypes, StoreTypeOK
<1>b. phase = "Running" =>
        /\ \A x \in Slot : upload[x].state = "Attempting" <=>
               worker.at = "CallingUpload" /\ worker.item = x
        /\ \A s \in Session : submission[s].state = "Attempting" <=>
               worker.at = "CallingSubmission" /\ worker.item = s
  BY <1>a DEF AttemptsAreTheWorkers
<1>c. ASSUME phase = "Running",
             \A x \in Slot : upload'[x].state = "Attempting" <=>
                                upload[x].state = "Attempting",
             \A s \in Session : submission'[s].state = "Attempting" <=>
                                submission[s].state = "Attempting",
             \/ UNCHANGED worker
             \/ worker.at \notin Calling /\ worker'.at \notin Calling
      PROVE  /\ \A x \in Slot : upload'[x].state = "Attempting" <=>
                    worker'.at = "CallingUpload" /\ worker'.item = x
             /\ \A s \in Session : submission'[s].state = "Attempting" <=>
                    worker'.at = "CallingSubmission" /\ worker'.item = s
  BY <1>b, <1>c DEF Calling
<1>1. CASE phase # "Running"
  <2>1. EnterRun /\ UNCHANGED workerVars
    BY <1>1 DEF RunNext, StartRun, Start, ReconcileStore, ReconcileArtifact,
       ReconcileAttempt, RecoverRemovedRoom, Starting, Preparing, SpawnWorker, PrepareRooms,
       RoomStep, RoomEnds, WorkerStepOf, WorkerAction, LetWorkerStop, CtrlC, WorkerFails,
       PreparationFails, RunEnds, Crash, Vanish, ProcessEnds, Decide, OperatorStep, Tick,
       TimePasses, Publish, MoveFile, runVars, vars
  <2>2. worker'.at = "Unborn" /\ UNCHANGED <<upload, submission>> /\ NoAttemptInFlight
    BY <1>1, <1>a, <2>1 DEF OnlyRunsHaveTasks, Unborn, workerVars, EnterRun, StartupDone,
       storeVars, uploadVars, submissionVars
  <2> QED BY <2>2 DEF NoAttemptInFlight
<1>2. CASE phase = "Running" /\ WorkerStepOf
  <2>0. WorkerMoves
    BY <1>2, <1>a, WorkerActionMoves DEF WorkerStepOf
  <2>1. CASE Rests
    <3>1. UNCHANGED <<upload, submission>>
      BY <2>1 DEF Rests, storeVars, uploadVars, submissionVars, BeginArtifactDelete,
         CompleteArtifactDelete
    <3> QED BY <1>2, <1>c, <2>1, <3>1 DEF Rests, Calling, Holding
  <2>2. ASSUME NEW x \in Slot, TakesUpload(x)
        PROVE  /\ UNCHANGED <<upload, submission>>
               /\ worker.at \notin Calling /\ worker'.at \notin Calling
    BY <2>2 DEF TakesUpload, storeVars, uploadVars, submissionVars, Calling
  <2>3. ASSUME NEW s \in Session, TakesSubmission(s)
        PROVE  /\ UNCHANGED <<upload, submission>>
               /\ worker.at \notin Calling /\ worker'.at \notin Calling
    BY <2>3 DEF TakesSubmission, storeVars, uploadVars, submissionVars, Calling
  <2>4. CASE \E x \in Slot : SendsUpload(x)
    BY <1>2, <1>a, <1>b, <2>4, BegunRow DEF SendsUpload
  <2>5. CASE \E x \in Slot : EndsUpload(x)
    BY <1>2, <1>a, <1>b, <2>5, AnsweredRow DEF EndsUpload
  <2>6. CASE \E s \in Session : SendsSubmission(s)
    BY <1>2, <1>a, <1>b, <2>6, BegunRow DEF SendsSubmission
  <2>7. CASE \E s \in Session : EndsSubmission(s)
    BY <1>2, <1>a, <1>b, <2>7, AnsweredRow DEF EndsSubmission
  <2> QED BY <1>2, <1>c, <2>0, <2>1, <2>2, <2>3, <2>4, <2>5, <2>6, <2>7 DEF WorkerMoves
<1>3. CASE phase = "Running" /\ ~WorkerStepOf
  <2>1. \/ UNCHANGED worker
        \/ worker.at \notin Calling /\ worker'.at \notin Calling
    <3>1. ~Vanish
      BY DEF Vanish, ProcessEnds
    <3>2. SpawnWorker => worker.at = "Unborn" /\ worker'.at \in {"Asleep", "None"}
      BY DEF SpawnWorker, Starting, Unborn
    <3> QED BY <1>3, <3>1, <3>2, WorkerChanges DEF Calling
  <2>2. CASE RecordingStep
    <3>1. \A x \in Slot : upload[x].state = "Attempting" => IsUsable(artifact[x])
      BY <1>a DEF RowsInv, RowInv, HistoryMatches, NamesLast, SentIsUsable
    <3>2. \A x \in Slot : upload'[x].state = "Attempting" <=> upload[x].state = "Attempting"
      BY <1>a, <2>2, <3>1, RecordingMovesUpload
    <3>3. submission' = submission
      BY <2>2, RecordingStepIsRecording, RecordingKeepsSubmissions DEF submissionVars
    <3> QED BY <1>3, <1>c, <2>1, <3>2, <3>3
  <2>3. CASE Tick
    <3>1. /\ \A x \in Slot : upload'[x].state = upload[x].state
          /\ \A s \in Session : submission'[s].state = submission[s].state
      BY <1>a, <2>3, TickKeepsStates DEF Tick
    <3> QED BY <1>3, <1>c, <2>1, <3>1
  <2>4. CASE UNCHANGED storeVars
    BY <1>3, <1>c, <2>1, <2>4 DEF storeVars, uploadVars, submissionVars
  <2> QED BY <1>3, <2>2, <2>3, <2>4, WhileWorkerWaits
<1> QED
  BY <1>1, <1>2, <1>3

-----------------------------------------------------------------------------
(* What is checked stays true *)

LEMMA ListStep ==
    ASSUME RunInv, [RunNext]_runVars
    PROVE  ListedAreAwaited'
<1> SUFFICES ASSUME NEW s \in worker'.submissions
             PROVE  AwaitsSubmission(s)'
  BY DEF ListedAreAwaited
<1>a. /\ StoreTypeOK /\ OwnershipExact /\ WorkerTypeOK /\ AttemptsAreTheWorkers
      /\ ListedAreAwaited
  BY DEF RunInv, StoreInv, RowTypes, StoreTypeOK
<1>1. s \in worker.submissions \/ AwaitsSubmission(s)
  <2>1. CASE WorkerStepOf
    BY <1>a, <2>1, WorkerActionMoves DEF WorkerStepOf
  <2>2. CASE SpawnWorker \/ Vanish
    BY <2>2 DEF SpawnWorker, Vanish, Unborn
  <2> QED BY <2>1, <2>2, WorkerChanges
<1>2. s \in Session
  <2>1. WorkerTypeOK'
    BY TasksStep
  <2> QED BY <2>1 DEF WorkerTypeOK
<1>3. AwaitsSubmission(s)
  BY <1>1, <1>a DEF ListedAreAwaited
<1>4. [Next]_vars
  BY <1>a, RunImplements
<1>5. lifecycle'[s] = lifecycle[s]
  <2>1. lifecycle[s] \in Closed
    BY <1>3 DEF AwaitsSubmission, PermitsSubmission, Closed
  <2> QED BY <1>a, <1>2, <1>4, <2>1, StoreSteps, ClosedSessionStays, RemoteKeepsRecording
          DEF recordingVars, storeVars
<1> QED
  BY <1>3, <1>5 DEF AwaitsSubmission, PermitsSubmission, HasPlan

LEMMA ChecksStep ==
    ASSUME RunInv, [RunNext]_runVars
    PROVE  SubmissionChecksStayTrue'
<1> SUFFICES ASSUME NEW s \in Session, worker'.at = "ClaimingSubmission", worker'.item = s
             PROVE  (AwaitsSubmission(s) /\ Submittable(s))'
  BY DEF SubmissionChecksStayTrue
<1>a. /\ StoreTypeOK /\ WorkerTypeOK /\ ListedAreAwaited /\ SubmissionChecksStayTrue
      /\ OnlyRunsHaveTasks
  BY DEF RunInv, StoreInv, RowTypes, StoreTypeOK
<1>b. ASSUME AwaitsSubmission(s), Submittable(s), lifecycle'[s] = lifecycle[s],
             submission'[s].state = submission[s].state,
             submission[s].due => submission'[s].due,
             \A x \in SlotsOf(s) :
                /\ upload'[x].state = upload[x].state
                /\ \/ artifact'[x] = artifact[x]
                   \/ IsUsable(artifact[x]) /\ IsUsable(artifact'[x]),
             Passable(gate'[TargetOf[s]])
      PROVE  (AwaitsSubmission(s) /\ Submittable(s))'
  <2>1. AwaitsSubmission(s)'
    BY <1>b DEF AwaitsSubmission, PermitsSubmission, HasPlan
  <2>2. MaySubmit(s)'
    BY <1>b DEF Submittable, MaySubmit
  <2>3. \A x \in SlotsOf(s) : IsPart(x) => IsPart(x)'
    BY <1>b DEF IsPart
  <2>4. \A x \in SlotsOf(s) : IsSkipped(x) => IsSkipped(x)'
    BY <1>b DEF IsSkipped, IsUsable
  <2>5. SubmissionPartsReady(s)'
    BY <1>b, <2>3, <2>4 DEF Submittable, SubmissionPartsReady, SlotsOf
  <2> QED BY <1>b, <2>1, <2>2, <2>5, ReadyIsPassable DEF Submittable
<1>1. CASE WorkerStepOf
  <2>1. WorkerMoves
    BY <1>1, <1>a, WorkerActionMoves DEF WorkerStepOf
  <2>2. TakesSubmission(s)
    BY <2>1 DEF WorkerMoves, Rests, Holding, TakesUpload, SendsUpload, EndsUpload,
       TakesSubmission, SendsSubmission, EndsSubmission
  <2>3. AwaitsSubmission(s) /\ Submittable(s) /\ UNCHANGED storeVars
    BY <1>a, <2>2 DEF TakesSubmission, ListedAreAwaited
  <2>4. UNCHANGED <<lifecycle, artifact, upload, submission, gate>>
    BY <2>3 DEF storeVars, recordingVars, uploadVars, submissionVars
  <2>5. Passable(gate'[TargetOf[s]])
    BY <2>3, <2>4, ReadyIsPassable DEF Submittable
  <2> QED BY <1>b, <2>3, <2>4, <2>5
<1>2. CASE ~WorkerStepOf
  <2>0. /\ Unborn.at = "Unborn"
        /\ SpawnWorker => worker'.at \in {"Asleep", "None"}
    BY DEF Unborn, SpawnWorker
  <2>1. UNCHANGED worker
    BY <1>2, <2>0, WorkerChanges DEF Vanish
  <2>2. AwaitsSubmission(s) /\ Submittable(s)
    BY <1>a, <2>1 DEF SubmissionChecksStayTrue
  <2>3. phase' = "Running"
    BY <2>0, TasksStep DEF OnlyRunsHaveTasks
  <2>4. \A x \in SlotsOf(s) : x \in Slot
    BY SlotsOfSession
  <2>5. lifecycle[s] = "Completed" /\ TargetOf[s] \in Target
    BY <2>2, PlanAssumption DEF AwaitsSubmission, PermitsSubmission, HasPlan
  <2>6. CASE RecordingStep
    <3>1. UNCHANGED <<submission, gate>>
      BY <2>6, RecordingStepIsRecording, RecordingKeepsSubmissions DEF submissionVars
    <3>2. /\ lifecycle'[s] = lifecycle[s]
          /\ \A x \in SlotsOf(s) :
                /\ upload'[x].state = upload[x].state
                /\ \/ artifact'[x] = artifact[x]
                   \/ IsUsable(artifact[x]) /\ IsUsable(artifact'[x])
      BY <1>a, <2>5, <2>6, RecordingStepIsRecording, ClosedSessionStays DEF Closed
    <3>3. Passable(gate'[TargetOf[s]])
      BY <2>2, <3>1, ReadyIsPassable DEF Submittable
    <3> QED BY <1>b, <2>2, <3>1, <3>2, <3>3
  <2>7. CASE Tick
    <3>1. Passable(gate'[TargetOf[s]])
      BY <1>a, <2>2, <2>5, <2>7, TickKeepsStates DEF Tick, Submittable
    <3>2. /\ UNCHANGED <<lifecycle, artifact>>
          /\ \A x \in SlotsOf(s) : upload'[x].state = upload[x].state
      BY <1>a, <2>4, <2>7, TickKeepsStates DEF Tick, recordingVars
    <3>3. submission'[s].state = submission[s].state
          /\ (submission[s].due => submission'[s].due)
      BY <1>a, <2>7, TickKeepsStates DEF Tick
    <3> QED BY <1>b, <2>2, <3>1, <3>2, <3>3
  <2>8. CASE UNCHANGED storeVars
    <3>1. UNCHANGED <<lifecycle, artifact, upload, submission, gate>>
      BY <2>8 DEF storeVars, recordingVars, uploadVars, submissionVars
    <3>2. Passable(gate'[TargetOf[s]])
      BY <2>2, <3>1, ReadyIsPassable DEF Submittable
    <3> QED BY <1>b, <2>2, <3>1, <3>2
  <2> QED BY <1>2, <2>3, <2>6, <2>7, <2>8, WhileWorkerWaits
<1> QED
  BY <1>1, <1>2

-----------------------------------------------------------------------------
(* Publications *)

(* Only the answer the worker waits for makes an outcome a known failure,   *)
(* and no answer to a published attempt does.                               *)
LEMMA OutcomeStep ==
    ASSUME RunInv, [RunNext]_runVars, NEW s \in Session,
           submission[s].state = "Attempting", submissionAttempts'[s] # submissionAttempts[s]
    PROVE  LET n == submission[s].attempt IN
           \/ submissionAttempts'[s] = [submissionAttempts[s] EXCEPT ![n] = "Ambiguous"]
           \/ submissionAttempts'[s] = [submissionAttempts[s] EXCEPT ![n] = "Confirmed"]
           \/ Len(submissionAttempts[s]) \notin published[s] /\ UNCHANGED published
<1> DEFINE n == submission[s].attempt
<1> DEFINE Goal ==
        \/ submissionAttempts'[s] = [submissionAttempts[s] EXCEPT ![n] = "Ambiguous"]
        \/ submissionAttempts'[s] = [submissionAttempts[s] EXCEPT ![n] = "Confirmed"]
        \/ Len(submissionAttempts[s]) \notin published[s] /\ UNCHANGED published
<1>a. StoreTypeOK /\ WorkerTypeOK /\ OwnershipExact
  BY DEF RunInv, StoreInv, RowTypes, StoreTypeOK
<1>b. ASSUME NEW outcome, NEW row, FinishSubmission(s, outcome, row)
      PROVE  submissionAttempts'[s] = [submissionAttempts[s] EXCEPT ![n] = outcome]
  BY <1>a, <1>b DEF FinishSubmission, StoreTypeOK
<1>c. ASSUME NEW r \in Session, r # s,
             \/ SubmissionAnswered(r) \/ MarkSubmissionAmbiguous(r) \/ BeginSubmission(r)
             \/ \E h \in BOOLEAN : ResolveSubmission(r, h)
      PROVE  FALSE
  BY <1>a, <1>c DEF SubmissionAnswered, CompleteSubmission, ScheduleSubmissionRetry,
     BlockSubmission, MarkSubmissionAmbiguous, FinishSubmission, BeginSubmission,
     ResolveSubmission, StoreTypeOK
<1>d. ASSUME MarkSubmissionAmbiguous(s)
      PROVE  Goal
  BY <1>b, <1>d DEF MarkSubmissionAmbiguous
<1>1. CASE WorkerStepOf
  <2>0. WorkerMoves
    BY <1>1, <1>a, WorkerActionMoves DEF WorkerStepOf
  <2>1. CASE Rests \/ \E x \in Slot : TakesUpload(x) \/ SendsUpload(x) \/ EndsUpload(x)
    BY <2>1 DEF Rests, TakesUpload, SendsUpload, EndsUpload, BeginArtifactDelete,
       CompleteArtifactDelete, BeginUpload, UploadAnswered, CompleteUpload,
       ScheduleUploadRetry, BlockUpload, MarkUploadAmbiguous, FinishUpload, storeVars,
       submissionVars
  <2>2. ASSUME NEW r \in Session, TakesSubmission(r) \/ SendsSubmission(r)
        PROVE  FALSE
    BY <1>c, <2>2 DEF TakesSubmission, SendsSubmission, BeginSubmission, MaySubmit,
       storeVars, submissionVars
  <2>3. ASSUME NEW r \in Session, EndsSubmission(r)
        PROVE  Goal
    <3>1. SubmissionAnswered(s)
      BY <1>c, <2>3 DEF EndsSubmission
    <3>2. PICK answer \in SubmissionAnswer(Len(submissionAttempts[s]) \in published[s]) :
            \/ answer = Confirmed /\ CompleteSubmission(s)
            \/ answer.kind = "Retryable"
            \/ answer.kind = "Blocked"
            \/ answer = OutcomeUnknown /\ MarkSubmissionAmbiguous(s)
      BY <3>1 DEF SubmissionAnswered
    <3>3. CASE answer = Confirmed /\ CompleteSubmission(s)
      BY <1>b, <3>3 DEF CompleteSubmission
    <3>4. CASE answer.kind \in {"Retryable", "Blocked"}
      <4>1. answer \notin {Confirmed, OutcomeUnknown}
        BY <3>4 DEF Confirmed, OutcomeUnknown
      <4>2. Len(submissionAttempts[s]) \notin published[s]
        <5> SUFFICES ASSUME Len(submissionAttempts[s]) \in published[s]
                     PROVE  FALSE
          OBVIOUS
        <5>1. (Len(submissionAttempts[s]) \in published[s]) = TRUE
          OBVIOUS
        <5>2. answer \in SubmissionAnswer(TRUE)
          BY <3>2, <5>1
        <5> QED BY <4>1, <5>2, AnswersAfterPublication
      <4> QED BY <3>1, <4>2 DEF SubmissionAnswered
    <3> QED BY <1>d, <3>2, <3>3, <3>4
  <2> QED BY <2>0, <2>1, <2>2, <2>3 DEF WorkerMoves
<1>2. CASE StartRun \/ (\E x \in Slot : ReconcileArtifact(x)) \/ EnterRun
           \/ Tick \/ RunEnds \/ Crash
  <2>1. submissionAttempts' = submissionAttempts
    BY <1>2 DEF StartRun, Start, ReconcileArtifact, FailArtifact,
       CompleteArtifactFinalization, CompleteArtifactDiscard,
       CompleteArtifactConflictResolution, ExcludeArtifactConflict, CompleteArtifact,
       CompleteArtifactDelete, RequireRecovery, EnterRun, Tick, TimePasses, UploadRetryDue,
       SubmissionRetryDue, BackoffDue, RunEnds, Crash, Vanish, ProcessEnds, storeVars,
       submissionVars
  <2> QED BY <2>1
<1>3. CASE ReconcileAttempt
  <2>1. \/ \E x \in Slot : MarkUploadAmbiguous(x)
        \/ \E r \in Session : MarkSubmissionAmbiguous(r)
    BY <1>3 DEF ReconcileAttempt
  <2>2. (\E x \in Slot : MarkUploadAmbiguous(x)) => submissionAttempts' = submissionAttempts
    BY DEF MarkUploadAmbiguous, FinishUpload, submissionVars
  <2> QED BY <1>c, <1>d, <2>1, <2>2
<1>4. CASE Decide
  <2>1. \/ RecordingNext
        \/ \E x \in Slot, h \in BOOLEAN : ResolveUpload(x, h)
        \/ \E r \in Session, h \in BOOLEAN : ResolveSubmission(r, h)
    BY <1>4 DEF Decide, OperatorStep, OperatorDecision, RecordingNext
  <2>2. RecordingNext => submissionAttempts' = submissionAttempts
    BY RecordingKeepsSubmissions DEF submissionVars
  <2>3. (\E x \in Slot, h \in BOOLEAN : ResolveUpload(x, h)) =>
           submissionAttempts' = submissionAttempts
    BY DEF ResolveUpload, submissionVars
  <2>4. ASSUME NEW h \in BOOLEAN, ResolveSubmission(s, h)
        PROVE  Goal
    BY <1>a, <2>4 DEF ResolveSubmission, FinishAsAmbiguous, StoreTypeOK
  <2> QED BY <1>c, <2>1, <2>2, <2>3, <2>4
<1>5. CASE \E r \in Session : RecoverRemovedRoom(r)
  BY <1>5 DEF RecoverRemovedRoom, RequireRecovery, submissionVars
<1>6. ASSUME NEW r \in Room, RoomStep(r) \/ RoomEnds(r)
      PROVE  FALSE
  BY <1>6, RoomStepImplements, RecordingStepIsRecording, RecordingKeepsSubmissions
     DEF RoomEnds, vars, storeVars, submissionVars
<1>7. CASE SpawnWorker \/ PrepareRooms \/ LetWorkerStop \/ CtrlC \/ WorkerFails
           \/ PreparationFails \/ Publish \/ MoveFile \/ UNCHANGED runVars
  BY <1>7 DEF SpawnWorker, PrepareRooms, LetWorkerStop, CtrlC, WorkerFails,
     PreparationFails, Shutdown, Publish, MoveFile, RemotePublishes, runVars, vars, storeVars,
     submissionVars
<1> QED
  BY <1>1, <1>2, <1>3, <1>4, <1>5, <1>6, <1>7 DEF RunNext, ReconcileStore

LEMMA PublishedStep ==
    ASSUME RunInv, [RunNext]_runVars
    PROVE  PublishedAreOpen'
<1>a. /\ StoreTypeOK /\ OwnershipExact /\ RowsInv /\ SentIsUsable /\ WorkerTypeOK
      /\ AttemptsAreTheWorkers /\ PublishedAreOpen
  BY DEF RunInv, StoreInv, RowTypes, StoreTypeOK
<1>b. \A s \in Session :
        /\ submissionAttempts[s] \in Seq(Outcome) /\ Len(submissionAttempts[s]) \in Nat
        /\ DOMAIN submissionAttempts[s] = 1..Len(submissionAttempts[s])
  BY <1>a DEF StoreTypeOK
<1>1. CASE Publish
  <2>1. PICK s \in Session, n \in 1..MaxAttempts : RemotePublishes(s, n)
    BY <1>1 DEF Publish
  <2>2. /\ published' = [published EXCEPT ![s] = @ \cup {n}]
        /\ n \in 1..Len(submissionAttempts[s])
        /\ submissionAttempts[s][n] \in {"Unfinished", "Ambiguous"}
        /\ submissionAttempts' = submissionAttempts
    BY <1>b, <2>1 DEF RemotePublishes, storeVars, submissionVars
  <2>3. n \in Nat
    BY <2>2, <1>b
  <2>4. published' \in [Session -> SUBSET Nat]
    BY <1>a, <2>2, <2>3 DEF PublishedAreOpen
  <2>5. \A r \in Session : \A m \in published'[r] :
           m \in published[r] \/ (r = s /\ m = n)
    BY <1>a, <2>2 DEF PublishedAreOpen
  <2> QED BY <1>a, <2>2, <2>4, <2>5 DEF PublishedAreOpen
<1>2. CASE ~Publish
  <2>1. published' = published
    BY <1>2 DEF RunNext, StartRun, ReconcileStore, RecoverRemovedRoom, SpawnWorker,
       PrepareRooms, RoomStep, RoomEnds, WorkerStepOf, WorkerAction, SkipUpload,
       CheckUpload, ClaimUpload, UploadAnswered, DeleteRecording, RecordingDeleted,
       SkipSession, CheckSubmission, ClaimSubmission, SubmissionAnswered, BeginCleanup,
       EndCleanup, BeginPass, BeginSubmissions, EndPass, SeeShutdown, LetWorkerStop, CtrlC,
       WorkerFails, PreparationFails, Shutdown, RunEnds, Crash, Vanish, Decide, Tick, MoveFile,
       workerVars, runVars
  <2>2. SUFFICES ASSUME NEW s \in Session, NEW n \in published[s]
                 PROVE  /\ n \in 1..Len(submissionAttempts'[s])
                        /\ submissionAttempts'[s][n] \in {"Unfinished", "Ambiguous", "Confirmed"}
    BY <1>a, <2>1 DEF PublishedAreOpen
  <2> DEFINE h == submissionAttempts[s]
  <2>3. n \in 1..Len(h) /\ h[n] \in {"Unfinished", "Ambiguous", "Confirmed"}
    BY <1>a DEF PublishedAreOpen
  <2>4. Extends(submissionAttempts'[s], h)
    BY <1>a, RunImplements, RowsStep
  <2>5. StoreTypeOK'
    BY RunImplements, TypeStep, <1>a DEF RunInv, StoreInv, RowTypes, StoreTypeOK
  <2>6. n \in 1..Len(submissionAttempts'[s])
    <3>1. Len(submissionAttempts'[s]) \in Nat
      BY <2>5 DEF StoreTypeOK
    <3> QED BY <1>b, <2>3, <2>4, <3>1 DEF Extends
  <2>7. CASE h[n] # "Unfinished"
    BY <2>3, <2>4, <2>6, <2>7 DEF Extends
  <2>8. CASE h[n] = "Unfinished" /\ submissionAttempts'[s] = h
    BY <2>6, <2>8
  <2>9. CASE h[n] = "Unfinished" /\ submissionAttempts'[s] # h
    <3>1. RowInv(submission[s], h, submissionResolutions[s])
      BY <1>a DEF RowsInv
    <3>2. submission[s].state = "Attempting" /\ n = Len(h)
      BY <2>3, <2>9, <3>1 DEF RowInv, HistoryMatches
    <3>3. submission[s].attempt = n
      BY <3>1, <3>2, <1>b, RowInFlight
    <3>4. \/ submissionAttempts'[s] = [h EXCEPT ![n] = "Ambiguous"]
          \/ submissionAttempts'[s] = [h EXCEPT ![n] = "Confirmed"]
      BY <2>9, <3>2, <3>3, OutcomeStep
    <3>5. submissionAttempts'[s][n] \in {"Ambiguous", "Confirmed"}
      BY <1>b, <2>3, <3>4, ExceptValue DEF Outcome
    <3> QED BY <2>6, <3>5
  <2> QED BY <2>7, <2>8, <2>9
<1> QED
  BY <1>1, <1>2

-----------------------------------------------------------------------------
(* Rooms served *)

(* A session is Open only if it was created so.                             *)
LEMMA OpenedByCreation ==
    ASSUME StoreTypeOK, RecordingNext, NEW s \in Session,
           lifecycle'[s] = "Open", lifecycle[s] # "Open"
    PROVE  lifecycle[s] = "Absent"
<1>1. ASSUME NEW r \in Session, CreateSession(r)
      PROVE  lifecycle[s] = "Absent"
  BY <1>1 DEF CreateSession, SetLifecycle, Exists, StoreTypeOK
<1>2. ASSUME NEW r \in Session,
             \/ RequireRecovery(r) \/ CloseNatural(r) \/ CloseAbandon(r)
             \/ \E b \in BOOLEAN : CloseRecover(r, b)
      PROVE  FALSE
  BY <1>2 DEF RequireRecovery, CloseNatural, CloseAbandon, CloseRecover, Closure,
     MarkRecoveryRequired, SetLifecycle, StoreTypeOK
<1>3. ASSUME NEW x \in Slot, FailArtifact(x)
      PROVE  FALSE
  BY <1>3 DEF FailArtifact, MarkRecoveryRequired, SetLifecycle, StoreTypeOK
<1> QED
  BY <1>1, <1>2, <1>3 DEF RecordingNext, OpenSegment, BeginArtifactFinalization,
     BeginArtifactDiscard, BeginArtifact, CompleteArtifactFinalization,
     CompleteArtifactDiscard, CompleteArtifactConflictResolution, ExcludeArtifactConflict,
     CompleteArtifact, BeginArtifactConflictResolution, BeginArtifactDelete,
     CompleteArtifactDelete

(* A supervisor creates sessions of its own room only.                      *)
LEMMA RoomOpensItsOwn ==
    ASSUME StoreTypeOK, NEW r \in Room, RoomStep(r), NEW s \in Session,
           lifecycle'[s] = "Open"
    PROVE  lifecycle[s] = "Open" \/ RoomOf[s] = r
<1> SUFFICES ASSUME lifecycle[s] # "Open"
             PROVE  RoomOf[s] = r
  OBVIOUS
<1>1. PICK other \in Session :
        /\ RoomOf[other] = r
        /\ \/ CreateSession(other)
           \/ RequireRecovery(other) \/ CloseNatural(other)
           \/ \E x \in SlotsOf(other) : OpenSegment(x) \/ EndSegment(x)
  BY DEF RoomStep
<1>2. CASE CreateSession(other)
  BY <1>1, <1>2 DEF CreateSession, SetLifecycle, StoreTypeOK
<1>3. CASE RequireRecovery(other) \/ CloseNatural(other)
  BY <1>3 DEF RequireRecovery, CloseNatural, Closure, MarkRecoveryRequired, SetLifecycle,
     StoreTypeOK
<1>4. ASSUME NEW x \in SlotsOf(other), OpenSegment(x) \/ EndSegment(x)
      PROVE  FALSE
  BY <1>4 DEF OpenSegment, EndSegment, BeginArtifactFinalization, BeginArtifactDiscard,
     BeginArtifact, CompleteArtifactFinalization, CompleteArtifactDiscard, CompleteArtifact,
     FailArtifact, RequireRecovery, MarkRecoveryRequired, SetLifecycle, StoreTypeOK
<1> QED
  BY <1>1, <1>2, <1>3, <1>4

LEMMA WorkerKeepsSessions ==
    ASSUME WorkerMoves
    PROVE  UNCHANGED <<lifecycle, room>>
<1>1. CASE Rests
  BY <1>1 DEF Rests, BeginArtifactDelete, CompleteArtifactDelete, storeVars, recordingVars
<1>2. ASSUME NEW x \in Slot, TakesUpload(x) \/ SendsUpload(x) \/ EndsUpload(x)
      PROVE  UNCHANGED recordingVars
  BY <1>2 DEF TakesUpload, SendsUpload, EndsUpload, BeginUpload, UploadAnswered,
     CompleteUpload, ScheduleUploadRetry, BlockUpload, MarkUploadAmbiguous, FinishUpload,
     storeVars
<1>3. ASSUME NEW s \in Session, TakesSubmission(s) \/ SendsSubmission(s) \/ EndsSubmission(s)
      PROVE  UNCHANGED recordingVars
  BY <1>3 DEF TakesSubmission, SendsSubmission, EndsSubmission, BeginSubmission,
     SubmissionAnswered, CompleteSubmission, ScheduleSubmissionRetry, BlockSubmission,
     MarkSubmissionAmbiguous, FinishSubmission, storeVars
<1> QED
  BY <1>1, <1>2, <1>3 DEF WorkerMoves, recordingVars

(* The barrier, once open, stays so for the run, with its configuration.    *)
LEMMA BarrierStep ==
    ASSUME RunInv, [RunNext]_runVars
    PROVE  /\ (rooms \subseteq config.rooms)'
           /\ openSessionsReady' =>
                 \A s \in Session : lifecycle'[s] = "Open" => RoomOf[s] \in config'.rooms
<1> DEFINE Barrier == openSessionsReady =>
                         \A s \in Session : lifecycle[s] = "Open" => RoomOf[s] \in config.rooms
<1> DEFINE Goal == (rooms \subseteq config.rooms)' /\ Barrier'
<1>a. /\ StoreTypeOK /\ OwnershipExact /\ WorkerTypeOK /\ OnlyRunsHaveTasks
      /\ rooms \subseteq config.rooms /\ Barrier
  BY DEF RunInv, StoreInv, RowTypes, StoreTypeOK, ServedInv
<1>1. ASSUME ~openSessionsReady', rooms' = {} \/ UNCHANGED <<rooms, config>>
      PROVE  Goal
  BY <1>1, <1>a
<1>2. CASE StartRun
  BY <1>1, <1>2, <1>a DEF StartRun, Start, OnlyRunsHaveTasks, workerVars, channels
<1>3. CASE ReconcileStore \/ Decide
  BY <1>1, <1>3, <1>a DEF ReconcileStore, ReconcileArtifact, ReconcileAttempt, EnterRun,
     Decide, OperatorStep, OnlyRunsHaveTasks, workerVars, channels, coordinatorVars
<1>4. ASSUME NEW s \in Session, RecoverRemovedRoom(s)
      PROVE  Goal
  BY <1>4, <1>a DEF RecoverRemovedRoom, RequireRecovery, MarkRecoveryRequired, SetLifecycle,
     StoreTypeOK, workerVars, channels, coordinatorVars
<1>5. CASE PrepareRooms
  <2>1. \A s \in Session : lifecycle[s] = "Open" => RoomOf[s] \in config.rooms
    BY <1>5, <1>a DEF PrepareRooms, Orphaned, OwnershipExact
  <2> QED BY <1>5, <2>1 DEF PrepareRooms, vars, storeVars, recordingVars
<1>6. ASSUME NEW r \in Room, RoomStep(r)
      PROVE  Goal
  <2>1. r \in config.rooms /\ UNCHANGED <<rooms, config, openSessionsReady>>
    BY <1>6, <1>a DEF RoomStep, workerVars, channels, coordinatorVars
  <2> QED BY <1>6, <1>a, <2>1, RoomOpensItsOwn
<1>7. ASSUME NEW r \in Room, RoomEnds(r)
      PROVE  Goal
  BY <1>7, <1>a DEF RoomEnds, workerVars, channels, vars, storeVars, recordingVars
<1>8. CASE WorkerStepOf
  BY <1>8, <1>a, WorkerActionMoves, WorkerKeepsSessions
     DEF WorkerStepOf, WorkerAction, channels, coordinatorVars
<1>9. CASE RunEnds \/ Crash
  BY <1>1, <1>9 DEF RunEnds, Crash, Vanish
<1>10. CASE SpawnWorker \/ LetWorkerStop \/ CtrlC \/ WorkerFails \/ PreparationFails
            \/ Tick \/ Publish \/ MoveFile \/ UNCHANGED runVars
  <2>1. UNCHANGED <<lifecycle, rooms, config, openSessionsReady>>
    BY <1>10 DEF SpawnWorker, LetWorkerStop, CtrlC, WorkerFails, PreparationFails, Shutdown,
       Tick, TimePasses, UploadRetryDue, SubmissionRetryDue, BackoffDue, Publish, MoveFile,
       RemotePublishes, runVars, vars, storeVars, recordingVars, workerVars, channels,
       coordinatorVars
  <2> QED BY <1>a, <2>1
<1> QED
  BY <1>2, <1>3, <1>4, <1>5, <1>6, <1>7, <1>8, <1>9, <1>10 DEF RunNext

LEMMA ServedStep ==
    ASSUME RunInv, [RunNext]_runVars
    PROVE  ServedInv'
<1>a. StoreTypeOK /\ OwnershipExact /\ WorkerTypeOK /\ AttemptsAreTheWorkers /\ ServedInv
  BY DEF RunInv, StoreInv, RowTypes, StoreTypeOK
<1>1. ASSUME NEW x \in Slot, worker'.at = "ClaimingUpload", worker'.item = x
      PROVE  /\ lifecycle'[x[1]] # "Absent"
             /\ lifecycle'[x[1]] = "Open" => openSessionsReady'
  <2>0. /\ Unborn.at = "Unborn" /\ x[1] \in Session
        /\ SpawnWorker => worker'.at \in {"Asleep", "None"}
    BY SlotParts DEF Unborn, SpawnWorker
  <2>1. ~Vanish /\ ~SpawnWorker
    BY <1>1, <2>0 DEF Vanish
  <2>2. CASE WorkerStepOf
    <3>0. /\ WorkerMoves /\ UNCHANGED <<lifecycle, openSessionsReady>>
      BY <1>a, <2>2, WorkerActionMoves, WorkerKeepsSessions
         DEF WorkerStepOf, WorkerAction, channels
    <3>1. TakesUpload(x)
      BY <1>1, <3>0 DEF WorkerMoves, Rests, Holding, TakesUpload, SendsUpload, EndsUpload,
         TakesSubmission, SendsSubmission, EndsSubmission
    <3> QED BY <3>0, <3>1 DEF TakesUpload, Uploadable, CanUpload, PermitsUpload
  <2>3. CASE UNCHANGED worker
    <3>1. /\ lifecycle[x[1]] # "Absent"
          /\ lifecycle[x[1]] = "Open" => openSessionsReady
      BY <1>1, <1>a, <2>3 DEF ServedInv
    <3>2. openSessionsReady => openSessionsReady'
      BY <2>1 DEF RunNext, StartRun, ReconcileStore, RecoverRemovedRoom, SpawnWorker,
         PrepareRooms, RoomStep, RoomEnds, WorkerStepOf, WorkerAction, LetWorkerStop, CtrlC,
         WorkerFails, PreparationFails, Shutdown, RunEnds, Crash, Decide, Tick, Publish,
         MoveFile, workerVars, channels, runVars
    <3>3. lifecycle'[x[1]] # "Absent" /\ (lifecycle'[x[1]] = "Open" => lifecycle[x[1]] = "Open")
      <4>1. [Next]_vars
        BY <1>a, RunImplements
      <4>2. CASE RecordingNext
        <5>1. (\E s \in Session : LifecycleMoves(s)) \/ UNCHANGED lifecycle
          BY <1>a, <4>2, RecordingMovesLifecycle
        <5>2. lifecycle'[x[1]] # "Absent"
          BY <1>a, <2>0, <3>1, <5>1 DEF LifecycleMoves, StoreTypeOK, Closed
        <5> QED BY <1>a, <2>0, <3>1, <4>2, <5>2, OpenedByCreation
      <4>3. CASE RemoteNext \/ UNCHANGED storeVars
        BY <3>1, <4>3, RemoteKeepsRecording DEF recordingVars, storeVars
      <4> QED BY <4>1, <4>2, <4>3, StoreSteps
    <3> QED BY <3>1, <3>2, <3>3
  <2> QED BY <2>1, <2>2, <2>3, WorkerChanges
<1> QED
  BY <1>1, BarrierStep DEF ServedInv

-----------------------------------------------------------------------------
LEMMA RunStep == RunInv /\ [RunNext]_runVars => RunInv'
<1> SUFFICES ASSUME RunInv, [RunNext]_runVars PROVE RunInv'
  OBVIOUS
<1>1. [Next]_vars
  BY RunImplements DEF RunInv, StoreInv
<1>2. StoreInv'
  BY <1>1, StoreInvStep DEF RunInv
<1> QED
  BY <1>2, TasksStep, CallsStep, ListStep, ChecksStep, PublishedStep, ServedStep DEF RunInv

LEMMA RunAlwaysHolds == RunSpec => []RunInv
BY InitRun, RunStep, PTL DEF RunSpec

(* The coordinator, the worker and the supervisors, interleaved in any way  *)
(* and stopped anywhere, do to the store only what DurableState allows: its *)
(* theorems are theorems about every run of the program.                    *)
THEOREM RunsImplementTheStore == RunSpec => RunImplementsDurableState
<1>1. RunInit => Init
  BY DEF RunInit
<1>2. RunInv /\ [RunNext]_runVars => [Next]_vars
  BY RunImplements DEF RunInv, StoreInv
<1> QED
  BY <1>1, <1>2, RunAlwaysHolds, PTL DEF RunSpec, Spec, RunImplementsDurableState

(* While the program runs, an attempt is in flight exactly when the worker  *)
(* waits for it: no supervisor takes it away, and none is left alone.       *)
THEOREM EveryAttemptHasItsCaller == RunSpec => []AttemptsAreTheWorkers
<1>1. RunInv => AttemptsAreTheWorkers
  BY DEF RunInv
<1> QED
  BY <1>1, RunAlwaysHolds, PTL

(* The claim of a submission meets the store the checks saw: the worker is  *)
(* never ended by a submission that was refused.                            *)
THEOREM SubmissionsAreClaimedAsChecked == RunSpec => []SubmissionChecksStayTrue
<1>1. RunInv => SubmissionChecksStayTrue
  BY DEF RunInv
<1> QED
  BY <1>1, RunAlwaysHolds, PTL

(* Two videos of one session need an operator who said of the first that it *)
(* had not been created, whatever was lost, late or interrupted.            *)
THEOREM NothingIsPublishedTwice == RunSpec => []NoDoublePublication
<1>1. RunInv => NoDoublePublication
  <2> SUFFICES ASSUME RunInv, NEW s \in Session, NEW n \in published[s],
                      NEW m \in published[s], n < m
               PROVE  [attempt |-> n, happened |-> FALSE] \in submissionResolutions[s]
    BY DEF NoDoublePublication
  <2> DEFINE h == submissionAttempts[s]
  <2>1. /\ n \in 1..Len(h) /\ m \in 1..Len(h)
        /\ h[n] \in {"Unfinished", "Ambiguous", "Confirmed"}
    BY DEF RunInv, PublishedAreOpen
  <2>2. Len(h) \in Nat
    BY DEF RunInv, StoreInv, RowTypes
  <2>3. MayFollow(h, submissionResolutions[s], n)
    BY <2>1, <2>2 DEF RunInv, StoreInv, RowsInv, RowInv
  <2> QED BY <2>1, <2>3 DEF MayFollow
<1> QED
  BY <1>1, RunAlwaysHolds, PTL

(* Neither startup nor an operator begins an upload.                        *)
LEMMA UploadsStartInRuns ==
    ASSUME StoreTypeOK, [Next]_vars, NEW y \in Slot,
           upload[y].state # "Attempting", upload'[y].state = "Attempting"
    PROVE  phase = "Running" /\ phase' = "Running"
<1>1. RecordingNext => FALSE
  BY RecordingStartsNothing
<1>2. ASSUME NEW x \in Slot,
             \/ MarkUploadAmbiguous(x) \/ UploadRetryDue(x)
             \/ \E h \in BOOLEAN : ResolveUpload(x, h)
      PROVE  FALSE
  <2>1. /\ UploadOf("Ambiguous", upload[x].attempt).state = "Ambiguous"
        /\ Pending(TRUE).state = "Pending" /\ UploadIs("Uploaded").state = "Uploaded"
        /\ UploadIs("Cancelled").state = "Cancelled"
    BY DEF UploadOf, Pending, UploadIs
  <2>2. CASE MarkUploadAmbiguous(x)
    BY <2>1, <2>2 DEF MarkUploadAmbiguous, FinishUpload, SetUpload, StoreTypeOK
  <2>3. CASE UploadRetryDue(x)
    BY <2>1, <2>3 DEF UploadRetryDue, SetUpload, StoreTypeOK
  <2>4. CASE \E h \in BOOLEAN : ResolveUpload(x, h)
    <3>1. PICK up \in {UploadIs("Uploaded"), UploadIs("Cancelled"), Pending(TRUE)} :
             SetUpload(x, up)
      BY <2>4 DEF ResolveUpload, NotUploadedState
    <3> QED BY <2>1, <3>1 DEF SetUpload, StoreTypeOK
  <2> QED BY <1>2, <2>2, <2>3, <2>4
<1>3. ASSUME NEW s \in Session,
             \/ MarkSubmissionAmbiguous(s) \/ SubmissionRetryDue(s)
             \/ \E h \in BOOLEAN : ResolveSubmission(s, h)
      PROVE  FALSE
  BY <1>3 DEF MarkSubmissionAmbiguous, FinishSubmission, ResolveSubmission,
     SubmissionRetryDue, uploadVars
<1>4. upload' # upload
  OBVIOUS
<1>5. CASE \E x \in Slot : ReconcileArtifact(x)
  BY <1>1, <1>5, SlotParts DEF ReconcileArtifact, RecordingNext
<1>6. CASE OperatorStep
  BY <1>1, <1>2, <1>3, <1>6 DEF OperatorStep, OperatorDecision, RecordingNext
<1>7. CASE Start \/ EnterRun \/ ProcessEnds \/ UNCHANGED vars
  BY <1>4, <1>7 DEF Start, EnterRun, ProcessEnds, vars, storeVars, uploadVars
<1>8. CASE ReconcileAttempt \/ TimePasses
  BY <1>2, <1>3, <1>4, <1>8 DEF ReconcileAttempt, TimePasses, BackoffDue, uploadVars
<1>9. CASE RecordingStep \/ WorkerStep
  BY <1>9 DEF RecordingStep, WorkerStep
<1> QED
  BY <1>5, <1>6, <1>7, <1>8, <1>9 DEF Next

(* A part of a session that is still open is uploaded only in a run that    *)
(* serves its room, although the worker starts before the rooms are known.  *)
THEOREM OnlyServedRoomsAreUploaded == RunSpec => RemovedRoomsAreNotServed
<1> DEFINE Served ==
        \A x \in Slot :
          upload'[x].state = "Attempting" /\ upload[x].state # "Attempting"
          /\ lifecycle[x[1]] = "Open" => RoomOf[x[1]] \in config.rooms
<1>1. RunInv /\ [RunNext]_runVars => [Served]_runVars
  <2> SUFFICES ASSUME RunInv, [RunNext]_runVars, NEW x \in Slot,
                      upload'[x].state = "Attempting", upload[x].state # "Attempting",
                      lifecycle[x[1]] = "Open"
               PROVE  RoomOf[x[1]] \in config.rooms
    OBVIOUS
  <2>a. /\ StoreTypeOK /\ RowsInv /\ OwnershipExact /\ WorkerTypeOK /\ OnlyRunsHaveTasks
        /\ AttemptsAreTheWorkers /\ ServedInv
    BY DEF RunInv, StoreInv, RowTypes, StoreTypeOK
  <2>1. phase = "Running" /\ phase' = "Running"
    BY <2>a, RunImplements, UploadsStartInRuns
  <2>2. worker'.at = "CallingUpload" /\ worker'.item = x
    BY <2>1, CallsStep DEF AttemptsAreTheWorkers
  <2>3. WorkerStepOf
    <3>1. ~SpawnWorker /\ ~Vanish
      BY <2>2 DEF SpawnWorker, Vanish, Unborn
    <3>2. worker' # worker
      BY <2>1, <2>2, <2>a DEF AttemptsAreTheWorkers
    <3> QED BY <3>1, <3>2, WorkerChanges
  <2>4. SendsUpload(x)
    <3>1. WorkerMoves
      BY <2>3, <2>a, WorkerActionMoves DEF WorkerStepOf
    <3> QED BY <2>2, <3>1 DEF WorkerMoves, Rests, Holding, TakesUpload, SendsUpload,
               EndsUpload, TakesSubmission, SendsSubmission, EndsSubmission
  <2> QED BY <2>4, <2>a, SlotParts DEF SendsUpload, ServedInv
<1> QED
  BY <1>1, RunAlwaysHolds, PTL DEF RunSpec, RemovedRoomsAreNotServed

-----------------------------------------------------------------------------
(* Draining *)

(* No configuration turns off the uploads of a room that another one        *)
(* uploads.                                                                 *)
OutputsStay == \A c, d \in Configs : c.bilibili \cap d.rooms \subseteq d.bilibili

(* The work there is for one session.                                       *)
HasWork(s) ==
    \/ /\ AwaitsSubmission(s) /\ AwaitsCleanup(s)
       /\ \E x \in SlotsOf(s) : artifact[x] = "Ready" /\ IsPart(x)
    \/ NotBlocked(s) /\ \E x \in SlotsOf(s) : CanUpload(x)
    \/ NotBlocked(s) /\ AwaitsSubmission(s) /\ CanSubmit(s)

(* A run goes without a worker, or tells it to stop, only when none of the  *)
(* rooms it records uploads; and a session being recorded under an upload   *)
(* plan is of a room that some configuration uploads.                       *)
StopsWithUploads ==
    /\ config \in Configs
    /\ stopWhenIdle => openSessionsReady /\ rooms \cap config.bilibili = {}
    /\ worker.at = "Done" /\ ~shutdown => stopWhenIdle
    /\ worker.at = "None" => config.bilibili = {}

PlansAreConfigured ==
    \A s \in Session : lifecycle[s] = "Open" /\ HasPlan(s) =>
        \E c \in Configs : RoomOf[s] \in c.bilibili

DrainInv == RunInv /\ StopsWithUploads /\ PlansAreConfigured /\ DrainedMeansDone

LEMMA WorkIsOfSessions == HasExecutableWork <=> \E s \in Session : HasWork(s)
<1>1. \A x \in Slot : x[1] \in Session /\ x \in SlotsOf(x[1])
  BY DEF Slot, SlotsOf
<1>2. ASSUME NEW s \in Session, NEW x \in SlotsOf(s)
      PROVE  x \in Slot /\ x[1] = s
  BY <1>2, SlotsOfSession
<1>3. HasExecutableWork => \E s \in Session : HasWork(s)
  <2>1. CASE DurableWork.cleanups # {}
    BY <2>1 DEF DurableWork, HasWork
  <2>2. CASE \E x \in DurableWork.uploads : NotBlocked(x[1])
    BY <1>1, <2>2 DEF DurableWork, HasWork
  <2>3. CASE \E s \in DurableWork.submissions : NotBlocked(s)
    BY <2>3 DEF DurableWork, HasWork
  <2> QED BY <2>1, <2>2, <2>3 DEF HasExecutableWork
<1>4. ASSUME NEW s \in Session, HasWork(s) PROVE HasExecutableWork
  <2>1. CASE /\ AwaitsSubmission(s) /\ AwaitsCleanup(s)
             /\ \E x \in SlotsOf(s) : artifact[x] = "Ready" /\ IsPart(x)
    BY <2>1 DEF HasExecutableWork, DurableWork
  <2>2. CASE NotBlocked(s) /\ \E x \in SlotsOf(s) : CanUpload(x)
    <3>1. PICK x \in SlotsOf(s) : CanUpload(x)
      BY <2>2
    <3>2. x \in DurableWork.uploads /\ NotBlocked(x[1])
      BY <1>2, <2>2, <3>1 DEF DurableWork
    <3> QED BY <3>2 DEF HasExecutableWork
  <2>3. CASE NotBlocked(s) /\ AwaitsSubmission(s) /\ CanSubmit(s)
    BY <2>3 DEF HasExecutableWork, DurableWork
  <2> QED BY <1>4, <2>1, <2>2, <2>3 DEF HasWork
<1> QED BY <1>3, <1>4

(* Work needs a plan, and depends on nothing but the states of the          *)
(* session's own rows and on whether its target is blocked.                 *)
LEMMA WorkNeedsAPlan ==
    ASSUME NEW s \in Session, HasWork(s)'
    PROVE  HasPlan(s)
<1>1. CASE AwaitsSubmission(s)'
  BY <1>1 DEF AwaitsSubmission, HasPlan
<1>2. CASE \E x \in SlotsOf(s) : CanUpload(x)'
  BY <1>2, SlotsOfSession DEF CanUpload, HasPlan
<1> QED
  BY <1>1, <1>2 DEF HasWork, SlotsOf

LEMMA WorkWasThere ==
    ASSUME NEW s \in Session, HasWork(s)',
           lifecycle'[s] = lifecycle[s],
           submission'[s].state = submission[s].state,
           gate'[TargetOf[s]].phase = "Blocked" <=> gate[TargetOf[s]].phase = "Blocked",
           \A x \in SlotsOf(s) : /\ artifact'[x] = artifact[x]
                                 /\ upload'[x].state = upload[x].state
    PROVE  HasWork(s)
<1>1. NotBlocked(s)' => NotBlocked(s)
  BY DEF NotBlocked
<1>2. AwaitsSubmission(s)' => AwaitsSubmission(s)
  BY DEF AwaitsSubmission, PermitsSubmission, HasPlan
<1>3. AwaitsCleanup(s)' => AwaitsCleanup(s)
  BY DEF AwaitsCleanup
<1>4. \A x \in SlotsOf(s) : /\ IsPart(x)' <=> IsPart(x)
                            /\ IsSkipped(x)' <=> IsSkipped(x)
  BY DEF IsPart, IsSkipped
<1>5. CanSubmit(s)' => CanSubmit(s)
  BY <1>4 DEF CanSubmit, HasSubmission, SubmissionPartsReady, SlotsOf
<1>6. ASSUME NEW x \in SlotsOf(s), CanUpload(x)' PROVE CanUpload(x)
  <2>1. x[1] = s
    BY SlotsOfSession
  <2> QED
    BY <1>6, <2>1 DEF CanUpload, AwaitsUpload, HasSubmission, HasPlan
<1>7. CASE (/\ AwaitsSubmission(s) /\ AwaitsCleanup(s)
            /\ \E x \in SlotsOf(s) : artifact[x] = "Ready" /\ IsPart(x))'
  BY <1>2, <1>3, <1>4, <1>7 DEF HasWork, SlotsOf
<1>8. CASE (NotBlocked(s) /\ \E x \in SlotsOf(s) : CanUpload(x))'
  BY <1>1, <1>6, <1>8 DEF HasWork, SlotsOf
<1>9. CASE (NotBlocked(s) /\ AwaitsSubmission(s) /\ CanSubmit(s))'
  BY <1>1, <1>2, <1>5, <1>9 DEF HasWork
<1> QED
  BY <1>7, <1>8, <1>9 DEF HasWork

(* A supervisor's step is about one session of its room, whose recording is *)
(* going on or begins under the plan its configuration asks for.            *)
LEMMA RoomStepsAreLocal ==
    ASSUME StoreTypeOK, NEW r \in Room, RoomStep(r)
    PROVE  /\ UNCHANGED <<submission, gate>>
           /\ \E a \in Session :
                 /\ RoomOf[a] = r
                 /\ lifecycle[a] = "Open" \/ (HasPlan(a) <=> r \in config.bilibili)
                 /\ \A s \in Session \ {a} :
                       /\ lifecycle'[s] = lifecycle[s]
                       /\ \A x \in SlotsOf(s) : artifact'[x] = artifact[x] /\ upload'[x] = upload[x]
<1> USE DEF StoreTypeOK, SetUpload, SetLifecycle, SetArtifact, MarkRecoveryRequired
<1>1. UNCHANGED <<submission, gate>>
  BY RoomStepImplements, RecordingStepIsRecording, RecordingKeepsSubmissions
     DEF submissionVars
<1>2. PICK a \in Session :
        /\ RoomOf[a] = r
        /\ \/ (HasPlan(a) <=> r \in config.bilibili) /\ CreateSession(a)
           \/ lifecycle[a] = "Open" /\ (RequireRecovery(a) \/ CloseNatural(a))
           \/ \E x \in SlotsOf(a) : OpenSegment(x) \/ EndSegment(x)
  BY DEF RoomStep
<1> DEFINE Others == \A s \in Session \ {a} :
              /\ lifecycle'[s] = lifecycle[s]
              /\ \A x \in SlotsOf(s) : artifact'[x] = artifact[x] /\ upload'[x] = upload[x]
<1>3. CASE (HasPlan(a) <=> r \in config.bilibili) /\ CreateSession(a)
  <2>1. Others
    BY <1>3 DEF CreateSession, uploadVars
  <2> QED BY <1>1, <1>2, <1>3, <2>1
<1>4. CASE lifecycle[a] = "Open" /\ (RequireRecovery(a) \/ CloseNatural(a))
  <2>1. Others
    BY <1>4 DEF RequireRecovery, CloseNatural, uploadVars
  <2> QED BY <1>1, <1>2, <1>4, <2>1
<1>5. ASSUME NEW x \in SlotsOf(a), OpenSegment(x) \/ EndSegment(x)
      PROVE  lifecycle[a] = "Open" /\ Others
  <2>1. x \in Slot /\ x[1] = a
    BY SlotsOfSession
  <2>2. lifecycle[a] = "Open"
    BY <1>5, <2>1 DEF OpenSegment, EndSegment, InFlight
  <2>3. \A s \in Session \ {a} : \A y \in SlotsOf(s) : y \in Slot /\ y # x
    BY <2>1, SlotsOfSession
  <2>4. /\ \A s \in Session \ {a} : lifecycle'[s] = lifecycle[s]
        /\ \A y \in Slot : y # x => artifact'[y] = artifact[y] /\ upload'[y] = upload[y]
    <3>1. CASE OpenSegment(x)
      BY <3>1 DEF OpenSegment
    <3>2. CASE BeginArtifactFinalization(x) \/ BeginArtifactDiscard(x)
      BY <3>2 DEF BeginArtifactFinalization, BeginArtifactDiscard, BeginArtifact, uploadVars
    <3>3. CASE CompleteArtifactFinalization(x) \/ CompleteArtifactDiscard(x)
      BY <3>3 DEF CompleteArtifactFinalization, CompleteArtifactDiscard, CompleteArtifact
    <3>4. CASE FailArtifact(x) \/ RequireRecovery(x[1])
      BY <2>1, <3>4 DEF FailArtifact, RequireRecovery, uploadVars
    <3> QED BY <1>5, <3>1, <3>2, <3>3, <3>4 DEF EndSegment
  <2> QED BY <2>2, <2>3, <2>4
<1> QED
  BY <1>1, <1>2, <1>3, <1>4, <1>5

LEMMA StopStep ==
    ASSUME RunInv, StopsWithUploads, [RunNext]_runVars
    PROVE  StopsWithUploads'
<1>a. OnlyRunsHaveTasks /\ WorkerTypeOK
  BY DEF RunInv
<1> USE DEF StopsWithUploads
<1>1. CASE Vanish
  BY <1>1 DEF Vanish, Unborn
<1>2. CASE StartRun
  BY <1>2, <1>a DEF StartRun, Start, OnlyRunsHaveTasks, workerVars, channels, Unborn
<1>3. CASE PrepareRooms
  BY <1>3 DEF PrepareRooms, Preparing
<1>4. CASE WorkerStepOf
  <2>1. UNCHANGED <<config, rooms, stopWhenIdle, openSessionsReady, shutdown>>
    BY <1>4 DEF WorkerStepOf, WorkerAction, channels, coordinatorVars
  <2>2. worker'.at = "Done" /\ ~shutdown => stopWhenIdle
    BY <1>4, <1>a DEF WorkerStepOf, WorkerAction, SkipUpload, CheckUpload, ClaimUpload,
       UploadAnswered, DeleteRecording, RecordingDeleted, SkipSession, CheckSubmission,
       ClaimSubmission, SubmissionAnswered, BeginCleanup, EndCleanup, BeginPass,
       BeginSubmissions, EndPass, SeeShutdown, MayStop, Goto, WithoutUpload,
       WithoutSession, AfterSubmission, WorkerTypeOK, Unborn
  <2>3. worker'.at # "None"
    <3>1. ASSUME NEW x \in Slot,
                 \/ SkipUpload(x) \/ CheckUpload(x) \/ ClaimUpload(x) \/ UploadAnswered(x)
                 \/ DeleteRecording(x) \/ RecordingDeleted(x)
          PROVE  worker'.at # "None"
      BY <3>1, <1>a DEF SkipUpload, CheckUpload, ClaimUpload, UploadAnswered,
         DeleteRecording, RecordingDeleted, Goto, WithoutUpload, WorkerTypeOK
    <3>2. ASSUME NEW s \in Session,
                 \/ SkipSession(s) \/ CheckSubmission(s) \/ ClaimSubmission(s)
                 \/ SubmissionAnswered(s) \/ BeginCleanup(s) \/ EndCleanup(s)
          PROVE  worker'.at # "None"
      <4>1. AfterSubmission(s) \in
               {WithoutSession(s), [worker EXCEPT !.at = "Cleaning", !.item = s]}
        BY DEF AfterSubmission
      <4>2. EndCleanup(s) => worker' = WithoutSession(s) \/ Goto("Failed", NoSession)
        BY DEF EndCleanup
      <4> QED BY <3>2, <4>1, <4>2, <1>a DEF SkipSession, CheckSubmission, ClaimSubmission,
                 SubmissionAnswered, BeginCleanup, Goto, WithoutSession, WorkerTypeOK
    <3>3. CASE BeginPass \/ BeginSubmissions \/ EndPass \/ SeeShutdown
      <4>1. EndPass => \E place \in {"Done", "Asleep"} : Goto(place, NoSession)
        BY DEF EndPass
      <4> QED BY <3>3, <4>1, <1>a DEF BeginPass, BeginSubmissions, SeeShutdown, Goto,
                 WorkerTypeOK, Unborn
    <3> QED BY <1>4, <3>1, <3>2, <3>3 DEF WorkerStepOf, WorkerAction
  <2> QED BY <2>1, <2>2, <2>3
<1>5. CASE SpawnWorker
  BY <1>5 DEF SpawnWorker, Unborn, channels, coordinatorVars
<1>6. CASE LetWorkerStop
  BY <1>6 DEF LetWorkerStop, Gone, coordinatorVars
<1>7. CASE CtrlC \/ WorkerFails \/ PreparationFails
  BY <1>7 DEF CtrlC, WorkerFails, PreparationFails, Shutdown, coordinatorVars
<1>8. ASSUME NEW r \in Room, RoomEnds(r)
      PROVE  StopsWithUploads'
  BY <1>8 DEF RoomEnds, workerVars, channels
<1>9. CASE UNCHANGED <<worker, channels, coordinatorVars>>
  BY <1>9 DEF channels, coordinatorVars
<1> QED
  BY <1>1, <1>2, <1>3, <1>4, <1>5, <1>6, <1>7, <1>8, <1>9 DEF RunNext, ReconcileStore,
     RecoverRemovedRoom, RoomStep, RunEnds, Crash, Decide, Tick, Publish, MoveFile,
     RemotePublishes, workerVars, runVars

(* Only a supervisor opens a session.                                       *)
LEMMA OnlyRoomsOpenSessions ==
    ASSUME RunInv, [RunNext]_runVars, NEW s \in Session,
           lifecycle'[s] = "Open", lifecycle[s] # "Open"
    PROVE  \E r \in Room : RoomStep(r)
<1>a. StoreTypeOK /\ WorkerTypeOK
  BY DEF RunInv, StoreInv, RowTypes, StoreTypeOK
<1>b. lifecycle' # lifecycle
  OBVIOUS
<1>1. ASSUME NEW r \in Session,
             \/ RequireRecovery(r) \/ CloseAbandon(r)
             \/ \E b \in BOOLEAN : CloseRecover(r, b) \/ ResolveSubmission(r, b)
      PROVE  FALSE
  BY <1>1, <1>a DEF RequireRecovery, CloseAbandon, CloseRecover, ResolveSubmission, Closure,
     MarkRecoveryRequired, SetLifecycle, StoreTypeOK, recordingVars
<1>2. ASSUME NEW x \in Slot,
             \/ FailArtifact(x)
             \/ CompleteArtifactFinalization(x) \/ CompleteArtifactDiscard(x)
             \/ CompleteArtifactConflictResolution(x) \/ ExcludeArtifactConflict(x)
             \/ CompleteArtifactDelete(x)
             \/ \E d \in Decision : BeginArtifactConflictResolution(x, d)
             \/ \E h \in BOOLEAN : ResolveUpload(x, h)
      PROVE  FALSE
  <2>1. CASE FailArtifact(x)
    BY <2>1, <1>a DEF FailArtifact, MarkRecoveryRequired, SetLifecycle, StoreTypeOK
  <2> QED BY <1>2, <2>1 DEF CompleteArtifactFinalization, CompleteArtifactDiscard,
             CompleteArtifactConflictResolution, ExcludeArtifactConflict, CompleteArtifact,
             CompleteArtifactDelete, BeginArtifactConflictResolution, ResolveUpload,
             recordingVars
<1>3. CASE ReconcileStore \/ Decide
  <2>1. ~EnterRun /\ ~ReconcileAttempt
    BY <1>b DEF EnterRun, storeVars, recordingVars, ReconcileAttempt, MarkUploadAmbiguous,
       FinishUpload, MarkSubmissionAmbiguous, FinishSubmission
  <2>2. \A x \in Slot : x[1] \in Session
    BY SlotParts
  <2> QED BY <1>1, <1>2, <1>3, <2>1, <2>2 DEF ReconcileStore, ReconcileArtifact, Decide,
             OperatorStep, OperatorDecision
<1>4. CASE WorkerStepOf
  BY <1>4, <1>a, <1>b, WorkerActionMoves, WorkerKeepsSessions DEF WorkerStepOf
<1>5. CASE StartRun \/ SpawnWorker \/ PrepareRooms \/ (\E r \in Room : RoomEnds(r))
           \/ LetWorkerStop \/ CtrlC \/ WorkerFails \/ PreparationFails \/ RunEnds \/ Crash
           \/ Publish \/ MoveFile \/ UNCHANGED runVars
  BY <1>5, <1>b DEF StartRun, Start, SpawnWorker, PrepareRooms, RoomEnds, LetWorkerStop,
     CtrlC, WorkerFails, PreparationFails, Shutdown, RunEnds, Crash, Vanish, ProcessEnds,
     Publish, MoveFile, RemotePublishes, runVars, vars, storeVars, recordingVars
<1>6. CASE Tick
  BY <1>6, <1>a, <1>b, TickKeepsStates DEF Tick, recordingVars
<1> QED
  BY <1>1, <1>3, <1>4, <1>5, <1>6 DEF RunNext, RecoverRemovedRoom

LEMMA PlansStep ==
    ASSUME RunInv, StopsWithUploads, PlansAreConfigured, [RunNext]_runVars
    PROVE  PlansAreConfigured'
<1>a. StoreTypeOK /\ OwnershipExact /\ WorkerTypeOK /\ AttemptsAreTheWorkers
  BY DEF RunInv, StoreInv, RowTypes, StoreTypeOK
<1> SUFFICES ASSUME NEW s \in Session, lifecycle'[s] = "Open", HasPlan(s)
             PROVE  \E c \in Configs : RoomOf[s] \in c.bilibili
  BY DEF PlansAreConfigured, HasPlan
<1>1. CASE lifecycle[s] = "Open"
  BY <1>1 DEF PlansAreConfigured
<1>2. CASE lifecycle[s] # "Open"
  <2>1. PICK r \in Room : RoomStep(r)
    BY <1>2, OnlyRoomsOpenSessions
  <2>2. PICK a \in Session :
          /\ RoomOf[a] = r
          /\ lifecycle[a] = "Open" \/ (HasPlan(a) <=> r \in config.bilibili)
          /\ \A o \in Session \ {a} : lifecycle'[o] = lifecycle[o]
    BY <1>a, <2>1, RoomStepsAreLocal
  <2> QED BY <1>2, <2>2 DEF StopsWithUploads
<1> QED
  BY <1>1, <1>2

LEMMA WorkIsOfSessionsNext == (HasExecutableWork <=> \E s \in Session : HasWork(s))'
BY WorkIsOfSessions, PTL

(* While a worker that drained is gone, no task gives its sessions work.    *)
LEMMA DrainedStays ==
    ASSUME OutputsStay, DrainInv, [RunNext]_runVars, NEW s \in Session, HasWork(s)',
           worker.at = "Done", ~shutdown, phase' = "Running", ~WorkerStepOf
    PROVE  HasWork(s)
<1>a. /\ StoreTypeOK /\ ServedInv /\ OnlyRunsHaveTasks /\ StopsWithUploads
      /\ PlansAreConfigured
  BY DEF DrainInv, RunInv, StoreInv, RowTypes, StoreTypeOK
<1>b. openSessionsReady /\ rooms \cap config.bilibili = {} /\ config \in Configs
  BY <1>a DEF StopsWithUploads
<1>c. HasPlan(s) /\ TargetOf[s] \in Target
  BY WorkNeedsAPlan, PlanAssumption DEF HasPlan
<1>d. \A x \in SlotsOf(s) : x \in Slot
  BY SlotsOfSession
<1>1. ASSUME NEW r \in Room, RoomStep(r)
      PROVE  HasWork(s)
  <2>1. r \in rooms /\ r \in config.rooms /\ r \notin config.bilibili
    BY <1>1, <1>a, <1>b DEF RoomStep, ServedInv
  <2>2. /\ UNCHANGED <<submission, gate>>
        /\ \E a \in Session :
              /\ RoomOf[a] = r
              /\ lifecycle[a] = "Open" \/ (HasPlan(a) <=> r \in config.bilibili)
              /\ \A o \in Session \ {a} :
                    /\ lifecycle'[o] = lifecycle[o]
                    /\ \A x \in SlotsOf(o) : artifact'[x] = artifact[x] /\ upload'[x] = upload[x]
    BY <1>1, <1>a, RoomStepsAreLocal
  <2>3. PICK a \in Session :
              /\ RoomOf[a] = r
              /\ lifecycle[a] = "Open" \/ (HasPlan(a) <=> r \in config.bilibili)
              /\ \A o \in Session \ {a} :
                    /\ lifecycle'[o] = lifecycle[o]
                    /\ \A x \in SlotsOf(o) : artifact'[x] = artifact[x] /\ upload'[x] = upload[x]
    BY <2>2
  <2>4. s # a
    <3>1. CASE lifecycle[a] = "Open"
      <4>1. HasPlan(a) => \E c \in Configs : r \in c.bilibili
        BY <1>a, <2>3, <3>1 DEF PlansAreConfigured
      <4> QED BY <1>b, <1>c, <2>1, <4>1 DEF OutputsStay, HasPlan
    <3> QED BY <1>c, <2>1, <2>3, <3>1
  <2> QED BY <2>2, <2>3, <2>4, WorkWasThere
<1>2. CASE Tick
  <2>1. /\ UNCHANGED <<lifecycle, artifact>>
        /\ \A x \in SlotsOf(s) : upload'[x].state = upload[x].state
        /\ submission'[s].state = submission[s].state
    BY <1>2, <1>a, <1>d, TickKeepsStates DEF Tick, recordingVars
  <2>2. gate'[TargetOf[s]].phase = "Blocked" <=> gate[TargetOf[s]].phase = "Blocked"
    <3>1. ASSUME NEW t \in Target, BackoffDue(t)
          PROVE  gate'[TargetOf[s]].phase = "Blocked" <=> gate[TargetOf[s]].phase = "Blocked"
      <4>1. GateBackoff(gate[t].owner, TRUE).phase = "Backoff" /\ gate[t].phase = "Backoff"
        BY <3>1 DEF BackoffDue, GateBackoff
      <4> QED BY <3>1, <4>1, <1>a, <1>c DEF BackoffDue, SetGate, StoreTypeOK
    <3>2. gate' = gate \/ \E t \in Target : BackoffDue(t)
      BY <1>2 DEF Tick, TimePasses, UploadRetryDue, SubmissionRetryDue
    <3> QED BY <3>1, <3>2
  <2> QED BY <2>1, <2>2, WorkWasThere
<1>3. CASE UNCHANGED storeVars
  <2>1. UNCHANGED <<lifecycle, artifact, upload, submission, gate>>
    BY <1>3 DEF storeVars, recordingVars, uploadVars, submissionVars
  <2> QED BY <2>1, WorkWasThere
<1>4. ASSUME NEW o \in Session, RecoverRemovedRoom(o)
      PROVE  FALSE
  BY <1>4, <1>b DEF RecoverRemovedRoom, Starting, Preparing
<1>5. CASE StartRun \/ ReconcileStore \/ RunEnds \/ Crash \/ Decide
  <2>1. phase = "Running"
    BY <1>a DEF OnlyRunsHaveTasks, Unborn
  <2> QED BY <1>5, <2>1 DEF StartRun, Start, ReconcileStore, ReconcileArtifact,
             ReconcileAttempt, EnterRun, RunEnds, Crash, Vanish, ProcessEnds, Decide,
             OperatorStep
<1> QED
  BY <1>1, <1>2, <1>3, <1>4, <1>5 DEF RunNext, SpawnWorker, PrepareRooms, RoomEnds,
     LetWorkerStop, CtrlC, WorkerFails, PreparationFails, Shutdown, Publish, MoveFile,
     RemotePublishes, runVars, vars

LEMMA DrainStep ==
    ASSUME OutputsStay, DrainInv, [RunNext]_runVars
    PROVE  DrainedMeansDone'
<1> SUFFICES ASSUME worker'.at = "Done", ~shutdown', HasExecutableWork'
             PROVE  FALSE
  BY DEF DrainedMeansDone
<1>a. WorkerTypeOK /\ OnlyRunsHaveTasks /\ DrainedMeansDone /\ RunInv
  BY DEF DrainInv, RunInv
<1>0. PICK s \in Session : HasWork(s)'
  BY WorkIsOfSessionsNext
<1>1. ~Vanish /\ ~SpawnWorker
  BY DEF Vanish, SpawnWorker, Unborn
<1>2. phase' = "Running"
  <2>1. OnlyRunsHaveTasks'
    BY <1>a, TasksStep
  <2>2. phase' # "Running" => worker' = Unborn
    BY <2>1 DEF OnlyRunsHaveTasks
  <2> QED BY <2>2 DEF Unborn
<1>3. CASE WorkerStepOf
  <2>1. UNCHANGED storeVars /\ ~HasExecutableWork
    BY <1>3, <1>a DEF WorkerStepOf, WorkerAction, channels, SkipUpload, CheckUpload,
       ClaimUpload, UploadAnswered, DeleteRecording, RecordingDeleted, SkipSession,
       CheckSubmission, ClaimSubmission, SubmissionAnswered, BeginCleanup, EndCleanup,
       BeginPass, BeginSubmissions, EndPass, SeeShutdown, MayStop, Goto, WithoutUpload,
       WithoutSession, AfterSubmission, WorkerTypeOK, Unborn
  <2>2. UNCHANGED <<lifecycle, artifact, upload, submission, gate>>
    BY <2>1 DEF storeVars, recordingVars, uploadVars, submissionVars
  <2>3. HasWork(s)
    BY <1>0, <2>2, WorkWasThere
  <2> QED BY <2>1, <2>3, WorkIsOfSessions
<1>4. CASE ~WorkerStepOf
  <2>1. UNCHANGED worker
    BY <1>a, <1>1, <1>4, WorkerChanges
  <2>2. ~shutdown
    BY <1>1 DEF RunNext, StartRun, ReconcileStore, RecoverRemovedRoom, SpawnWorker,
       PrepareRooms, RoomStep, RoomEnds, WorkerStepOf, WorkerAction, LetWorkerStop, CtrlC,
       WorkerFails, PreparationFails, Shutdown, RunEnds, Crash, Decide, Tick, Publish,
       MoveFile, workerVars, channels, runVars
  <2>3. HasWork(s)
    BY <1>0, <1>2, <1>4, <2>1, <2>2, DrainedStays
  <2> QED BY <1>a, <2>1, <2>2, <2>3, WorkIsOfSessions DEF DrainedMeansDone
<1> QED
  BY <1>3, <1>4

LEMMA DrainAlwaysHolds ==
    ASSUME OutputsStay
    PROVE  RunSpec => []DrainInv
<1>1. RunInit => DrainInv
  <2> SUFFICES ASSUME RunInit PROVE DrainInv
    OBVIOUS
  <2>1. RunInv
    BY InitRun
  <2>2. StopsWithUploads /\ DrainedMeansDone
    BY DEF RunInit, StopsWithUploads, DrainedMeansDone, Unborn
  <2>3. PlansAreConfigured
    BY DEF RunInit, Init, StoreInit, PlansAreConfigured
  <2> QED BY <2>1, <2>2, <2>3 DEF DrainInv
<1>2. DrainInv /\ [RunNext]_runVars => DrainInv'
  <2> SUFFICES ASSUME DrainInv, [RunNext]_runVars PROVE DrainInv'
    OBVIOUS
  <2>1. RunInv' /\ StopsWithUploads' /\ PlansAreConfigured'
    BY RunStep, StopStep, PlansStep DEF DrainInv
  <2>2. DrainedMeansDone'
    BY OutputsStay, DrainStep
  <2> QED BY <2>1, <2>2 DEF DrainInv
<1> QED
  BY <1>1, <1>2, PTL DEF RunSpec

(* A worker that stopped because it was idle leaves nothing to do, if no    *)
(* configuration turns off the uploads of a room that another one uploads.  *)
(* The hypothesis is needed: the run that refutes                           *)
(* RecordingsWithPlanAreServed has a session whose frozen plan outlives     *)
(* the configuration that asked for it.                                     *)
THEOREM DrainedWorkersAreDone ==
    ASSUME OutputsStay
    PROVE  RunSpec => []DrainedMeansDone
<1>1. DrainInv => DrainedMeansDone
  BY DEF DrainInv
<1> QED
  BY <1>1, DrainAlwaysHolds, PTL

(* A session that is recorded under its frozen upload plan has a worker,    *)
(* under the same hypothesis: an output turned off in the configuration is  *)
(* the only way in which a run leaves it without one.                       *)
THEOREM OnlyChangedOutputsAreUnserved ==
    ASSUME OutputsStay
    PROVE  RunSpec => []RecordingsWithPlanAreServed
<1>1. DrainInv => RecordingsWithPlanAreServed
  <2> SUFFICES ASSUME DrainInv, openSessionsReady, ~shutdown, NEW s \in Session,
                      lifecycle[s] = "Open", HasPlan(s), RoomOf[s] \in rooms
               PROVE  worker.at \notin {"None", "Done"}
    BY DEF RecordingsWithPlanAreServed
  <2>1. /\ config \in Configs /\ rooms \subseteq config.rooms
        /\ StopsWithUploads /\ PlansAreConfigured
    BY DEF DrainInv, RunInv, ServedInv, StopsWithUploads
  <2>2. PICK c \in Configs : RoomOf[s] \in c.bilibili
    BY <2>1 DEF PlansAreConfigured
  <2>3. RoomOf[s] \in config.bilibili
    BY <2>1, <2>2 DEF OutputsStay
  <2> QED BY <2>1, <2>3 DEF StopsWithUploads
<1> QED
  BY <1>1, DrainAlwaysHolds, PTL

-----------------------------------------------------------------------------
(* What ends the worker *)

(* What of a checked segment still holds when its upload is claimed: all    *)
(* but that its session permits uploads, for a supervisor may have put it   *)
(* into recovery.                                                           *)
ClaimStands(x) ==
    /\ lifecycle[x[1]] \in {"Open", "RecoveryRequired", "Completed"}
    /\ HasPlan(x[1]) /\ ~HasSubmission(x[1])
    /\ artifact[x] = "Ready"
    /\ upload[x].state = "Pending" /\ upload[x].due = TRUE
    /\ TargetReady(TargetOf[x[1]])

ChosenInv ==
    /\ \A x \in Slot : worker.at = "ClaimingUpload" /\ worker.item = x => ClaimStands(x)
    /\ \A s \in Session : worker.at = "Cleaning" /\ worker.item = s => AwaitsCleanup(s)
    /\ \A x \in Slot : worker.at = "Deleting" /\ worker.item = x => AwaitsCleanup(x[1])

(* The worker fails only when it claims the upload of a segment whose       *)
(* session has gone into recovery since the checks.                         *)
OnlyRecoveryFailsTheWorker ==
    [][worker.at # "Failed" /\ worker'.at = "Failed" =>
          \E x \in Slot : /\ worker.at = "ClaimingUpload" /\ worker.item = x
                          /\ lifecycle[x[1]] = "RecoveryRequired"
      ]_runVars

(* A segment that is Ready stays so while its session is recorded.          *)
LEMMA ReadyStays ==
    ASSUME StoreTypeOK, RecordingStep, NEW x \in Slot, artifact[x] = "Ready",
           lifecycle[x[1]] \in {"Open", "RecoveryRequired", "Completed"}
    PROVE  /\ artifact'[x] = "Ready" /\ upload'[x] = upload[x]
           /\ lifecycle'[x[1]] \in {"Open", "RecoveryRequired", "Completed"}
<1>a. x[1] \in Session /\ x \in SlotsOf(x[1])
  BY DEF Slot, SlotsOf
<1>1. upload'[x] = upload[x]
  BY RecordingMovesUpload DEF IsUsable
<1>2. artifact'[x] = "Ready"
  BY DEF StoreTypeOK, RecordingStep, CreateSession, RequireRecovery, CloseNatural,
     OpenSegment, HasSegment, BeginArtifactFinalization, BeginArtifactDiscard, BeginArtifact,
     CompleteArtifactFinalization, CompleteArtifactDiscard, CompleteArtifact, FailArtifact,
     ResolvingConflict, Resolving, Decision, SetArtifact
<1>3. lifecycle'[x[1]] \in {"Open", "RecoveryRequired", "Completed"}
  <2> USE DEF StoreTypeOK, SetLifecycle, MarkRecoveryRequired
  <2>1. ASSUME NEW s \in Session, CloseNatural(s)
        PROVE  lifecycle'[x[1]] \in {"Open", "RecoveryRequired", "Completed"}
    <3>1. Closure(x[1]) = "Completed"
      BY <1>a DEF Closure, HasUsable, IsUsable
    <3> QED BY <1>a, <2>1, <3>1 DEF CloseNatural
  <2>2. ASSUME NEW s \in Session, CreateSession(s) \/ RequireRecovery(s)
        PROVE  lifecycle'[x[1]] \in {"Open", "RecoveryRequired", "Completed"}
    BY <1>a, <2>2 DEF CreateSession, RequireRecovery, Exists
  <2>3. ASSUME NEW y \in Slot,
               \/ OpenSegment(y) \/ BeginArtifactFinalization(y) \/ BeginArtifactDiscard(y)
               \/ CompleteArtifactFinalization(y) \/ CompleteArtifactDiscard(y)
               \/ FailArtifact(y)
        PROVE  lifecycle'[x[1]] \in {"Open", "RecoveryRequired", "Completed"}
    BY <1>a, <2>3 DEF OpenSegment, BeginArtifactFinalization, BeginArtifactDiscard,
       BeginArtifact, CompleteArtifactFinalization, CompleteArtifactDiscard,
       CompleteArtifact, FailArtifact
  <2> QED BY <2>1, <2>2, <2>3 DEF RecordingStep
<1> QED
  BY <1>1, <1>2, <1>3

(* What was chosen stands while other tasks act.                            *)
LEMMA ChoiceStands ==
    ASSUME RunInv, [RunNext]_runVars, ~WorkerStepOf, phase' = "Running"
    PROVE  /\ \A x \in Slot : ClaimStands(x) => ClaimStands(x)'
           /\ \A s \in Session : AwaitsCleanup(s) => AwaitsCleanup(s)'
<1>a. StoreTypeOK
  BY DEF RunInv, StoreInv, RowTypes, StoreTypeOK
<1>b. ASSUME NEW x \in Slot, ClaimStands(x), artifact'[x] = "Ready",
             upload'[x].state = "Pending", upload'[x].due = TRUE,
             lifecycle'[x[1]] \in {"Open", "RecoveryRequired", "Completed"},
             submission'[x[1]].state = submission[x[1]].state,
             Passable(gate'[TargetOf[x[1]]])
      PROVE  ClaimStands(x)'
  BY <1>b, ReadyIsPassable DEF ClaimStands, HasPlan, HasSubmission
<1>c. ASSUME NEW x \in Slot, ClaimStands(x)
      PROVE  TargetOf[x[1]] \in Target /\ x[1] \in Session /\ Passable(gate[TargetOf[x[1]]])
  BY <1>c, SlotParts, PlanAssumption, ReadyIsPassable DEF ClaimStands, HasPlan
<1>1. CASE RecordingStep
  <2>1. UNCHANGED <<submission, gate>>
    BY <1>1, RecordingStepIsRecording, RecordingKeepsSubmissions DEF submissionVars
  <2>2. ASSUME NEW x \in Slot, ClaimStands(x) PROVE ClaimStands(x)'
    <3>1. /\ artifact'[x] = "Ready" /\ upload'[x] = upload[x]
          /\ lifecycle'[x[1]] \in {"Open", "RecoveryRequired", "Completed"}
      BY <1>a, <1>1, <2>2, ReadyStays DEF ClaimStands
    <3>2. upload'[x].state = "Pending" /\ upload'[x].due = TRUE
      BY <2>2, <3>1 DEF ClaimStands
    <3> QED BY <1>b, <1>c, <2>1, <2>2, <3>1, <3>2
  <2> QED BY <2>1, <2>2 DEF AwaitsCleanup
<1>2. CASE Tick
  <2>1. /\ UNCHANGED recordingVars
        /\ \A x \in Slot : upload'[x].state = upload[x].state
        /\ \A s \in Session : submission'[s].state = submission[s].state
        /\ \A t \in Target : TargetReady(t) => Passable(gate'[t])
    BY <1>a, <1>2, TickKeepsStates DEF Tick
  <2>2. \A x \in Slot : upload[x].due = TRUE => upload'[x].due = TRUE
    <3>1. ASSUME NEW y \in Slot, UploadRetryDue(y), NEW x \in Slot, upload[x].due = TRUE
          PROVE  upload'[x].due = TRUE
      <4>1. Pending(TRUE).due = TRUE /\ upload' = [upload EXCEPT ![y] = Pending(TRUE)]
        BY <3>1 DEF UploadRetryDue, SetUpload, Pending
      <4> QED BY <1>a, <3>1, <4>1 DEF StoreTypeOK
    <3>2. upload' = upload \/ \E y \in Slot : UploadRetryDue(y)
      BY <1>2 DEF Tick, TimePasses, SubmissionRetryDue, BackoffDue, uploadVars
    <3> QED BY <3>1, <3>2
  <2>3. ASSUME NEW x \in Slot, ClaimStands(x) PROVE ClaimStands(x)'
    <3>1. Passable(gate'[TargetOf[x[1]]])
      BY <1>c, <2>1, <2>3 DEF ClaimStands
    <3>2. artifact' = artifact /\ lifecycle' = lifecycle
      BY <2>1 DEF recordingVars
    <3>3. upload'[x].state = "Pending" /\ upload'[x].due = TRUE
      BY <2>1, <2>2, <2>3 DEF ClaimStands
    <3>4. submission'[x[1]].state = submission[x[1]].state
      BY <1>c, <2>1, <2>3
    <3>5. /\ artifact'[x] = "Ready"
          /\ lifecycle'[x[1]] \in {"Open", "RecoveryRequired", "Completed"}
      BY <2>3, <3>2 DEF ClaimStands
    <3> QED BY <1>b, <2>3, <3>1, <3>3, <3>4, <3>5
  <2> QED BY <2>1, <2>3 DEF AwaitsCleanup
<1>3. CASE UNCHANGED storeVars
  <2>1. UNCHANGED <<lifecycle, artifact, upload, submission, gate>>
    BY <1>3 DEF storeVars, recordingVars, uploadVars, submissionVars
  <2>2. ASSUME NEW x \in Slot, ClaimStands(x) PROVE ClaimStands(x)'
    <3>1. /\ artifact'[x] = "Ready" /\ upload'[x].state = "Pending" /\ upload'[x].due = TRUE
          /\ lifecycle'[x[1]] \in {"Open", "RecoveryRequired", "Completed"}
      BY <2>1, <2>2 DEF ClaimStands
    <3> QED BY <1>b, <1>c, <2>1, <2>2, <3>1
  <2> QED BY <2>1, <2>2 DEF AwaitsCleanup
<1> QED
  BY <1>1, <1>2, <1>3, WhileWorkerWaits

(* What the worker chooses it has just seen.                                *)
LEMMA WorkerChooses ==
    ASSUME WorkerTypeOK, ChosenInv, WorkerAction
    PROVE  ChosenInv'
<1>a. WorkerMoves
  BY WorkerActionMoves
<1>b. \A x \in Slot : x[1] \in Session
  BY SlotParts
<1>1. ASSUME NEW x \in Slot, worker'.at = "ClaimingUpload", worker'.item = x
      PROVE  ClaimStands(x)'
  <2>1. TakesUpload(x)
    BY <1>1, <1>a DEF WorkerMoves, Rests, Holding, TakesUpload, SendsUpload, EndsUpload,
       TakesSubmission, SendsSubmission, EndsSubmission
  <2>2. ClaimStands(x)
    BY <2>1 DEF TakesUpload, Uploadable, CanUpload, AwaitsUpload, PermitsUpload, ClaimStands
  <2>3. UNCHANGED <<lifecycle, artifact, upload, submission, gate>>
    BY <2>1 DEF TakesUpload, storeVars, recordingVars, uploadVars, submissionVars
  <2>4. TargetReady(TargetOf[x[1]])'
    BY <2>2, <2>3, ReadyIsPassable DEF ClaimStands
  <2> QED BY <2>2, <2>3, <2>4 DEF ClaimStands, HasPlan, HasSubmission
<1> DEFINE Cleans == /\ \A s \in Session : worker'.at = "Cleaning" /\ worker'.item = s =>
                           AwaitsCleanup(s)'
                     /\ \A x \in Slot : worker'.at = "Deleting" /\ worker'.item = x =>
                           AwaitsCleanup(x[1])'
<1>2. Cleans
  <2>c. \A x \in Slot : x \in Slot \cup Session \cup {NoSession}
                       /\ x[1] \in Slot \cup Session \cup {NoSession}
    BY <1>b
  <2>d. {"ClaimingUpload", "CallingUpload", "ClaimingSubmission", "CallingSubmission",
         "Cleaning", "Deleting", "Done", "Asleep", "Failed", "Uploading"} \subseteq WorkerPlace
    BY DEF WorkerPlace
  <2>1. ASSUME NEW x \in Slot, DeleteRecording(x) PROVE Cleans
    <3>1. worker'.at = "Deleting" /\ worker'.item = x
      BY <2>1, <2>c, <2>d, GotoValue DEF DeleteRecording
    <3>2. AwaitsCleanup(x[1]) /\ submission' = submission
      BY <2>1 DEF DeleteRecording, BeginArtifactDelete, MayDelete, AwaitsCleanup,
         submissionVars
    <3> QED BY <3>1, <3>2 DEF AwaitsCleanup
  <2>2. ASSUME NEW x \in Slot, RecordingDeleted(x) PROVE Cleans
    <3>1. worker'.at = "Cleaning" /\ worker'.item = x[1]
      BY <2>2, <2>c, <2>d, GotoValue DEF RecordingDeleted
    <3>2. AwaitsCleanup(x[1]) /\ submission' = submission
      BY <2>2 DEF RecordingDeleted, IsAt, Serves, CompleteArtifactDelete, ChosenInv,
         submissionVars, storeVars
    <3> QED BY <3>1, <3>2 DEF AwaitsCleanup
  <2>3. ASSUME NEW s \in Session, BeginCleanup(s) PROVE Cleans
    <3>1. worker'.at = "Cleaning" /\ worker'.item = s
      BY <2>3, <2>d, GotoValue DEF BeginCleanup
    <3>2. AwaitsCleanup(s) /\ submission' = submission
      BY <2>3 DEF BeginCleanup, storeVars, submissionVars
    <3> QED BY <3>1, <3>2 DEF AwaitsCleanup
  <2>4. ASSUME NEW s \in Session, SubmissionAnswered(s) PROVE Cleans
    <3>1. CASE AwaitsCleanup(s)'
      <4>1. Goto("Cleaning", s)
        BY <2>4, <3>1 DEF SubmissionAnswered, AfterSubmission, Goto
      <4>2. worker'.at = "Cleaning" /\ worker'.item = s
        BY <4>1, <2>d, GotoValue
      <4> QED BY <3>1, <4>2
    <3>2. CASE ~AwaitsCleanup(s)'
      <4>1. worker' = WithoutSession(s)
        BY <2>4, <3>2 DEF SubmissionAnswered, AfterSubmission
      <4> QED BY <4>1, WithoutValue
    <3> QED BY <3>1, <3>2
  <2>5. ASSUME worker'.at \notin {"Cleaning", "Deleting"} PROVE Cleans
    BY <2>5
  <2>6. ASSUME NEW x \in Slot,
               SkipUpload(x) \/ CheckUpload(x) \/ ClaimUpload(x) \/ UploadAnswered(x)
        PROVE  Cleans
    <3>1. \/ worker' = WithoutUpload(x)
          \/ \E place \in {"ClaimingUpload", "CallingUpload"} : Goto(place, x)
          \/ Goto("Failed", NoSession)
      BY <2>6 DEF SkipUpload, CheckUpload, ClaimUpload, UploadAnswered
    <3>2. worker'.at \in {"Uploading", "ClaimingUpload", "CallingUpload", "Failed"}
      BY <3>1, <2>c, <2>d, GotoValue, WithoutValue
    <3> QED BY <2>5, <3>2
  <2>7. ASSUME NEW s \in Session,
               SkipSession(s) \/ CheckSubmission(s) \/ ClaimSubmission(s) \/ EndCleanup(s)
        PROVE  Cleans
    <3>1. \/ worker' = WithoutSession(s)
          \/ \E place \in {"ClaimingSubmission", "CallingSubmission"} : Goto(place, s)
          \/ Goto("Failed", NoSession)
      BY <2>7 DEF SkipSession, CheckSubmission, ClaimSubmission, EndCleanup
    <3>2. worker'.at \in {"Submitting", "ClaimingSubmission", "CallingSubmission", "Failed"}
      BY <3>1, <2>d, GotoValue, WithoutValue
    <3> QED BY <2>5, <3>2
  <2>8. CASE BeginPass \/ BeginSubmissions \/ EndPass \/ SeeShutdown
    <3>1. worker'.at \in {"Uploading", "Submitting", "Done", "Asleep"}
      <4>1. EndPass => \E place \in {"Done", "Asleep"} : Goto(place, NoSession)
        BY DEF EndPass
      <4>2. EndPass => worker'.at \in {"Done", "Asleep"}
        BY <4>1, <2>d, GotoValue
      <4> QED BY <2>8, <4>2 DEF BeginPass, BeginSubmissions, SeeShutdown, Unborn,
                 WorkerTypeOK
    <3> QED BY <2>5, <3>1
  <2> QED BY <2>1, <2>2, <2>3, <2>4, <2>6, <2>7, <2>8 DEF WorkerAction
<1> QED
  BY <1>1, <1>2 DEF ChosenInv

LEMMA ChosenStep ==
    ASSUME RunInv, ChosenInv, [RunNext]_runVars
    PROVE  ChosenInv'
<1>a. WorkerTypeOK
  BY DEF RunInv
<1>1. CASE WorkerStepOf
  BY <1>1, <1>a, WorkerChooses DEF WorkerStepOf
<1>2. CASE ~WorkerStepOf /\ worker'.at \in {"ClaimingUpload", "Cleaning", "Deleting"}
  <2>0. /\ Unborn.at = "Unborn"
        /\ SpawnWorker => worker'.at \in {"Asleep", "None"}
    BY DEF Unborn, SpawnWorker
  <2>1. UNCHANGED worker
    BY <1>2, <2>0, WorkerChanges DEF Vanish
  <2>2. phase' = "Running"
    <3>1. OnlyRunsHaveTasks'
      BY TasksStep
    <3>2. phase' # "Running" => worker' = Unborn
      BY <3>1 DEF OnlyRunsHaveTasks
    <3> QED BY <1>2, <2>0, <3>2
  <2>3. \A x \in Slot : x[1] \in Session
    BY SlotParts
  <2> QED BY <1>2, <2>1, <2>2, <2>3, ChoiceStands DEF ChosenInv
<1>3. CASE worker'.at \notin {"ClaimingUpload", "Cleaning", "Deleting"}
  BY <1>3 DEF ChosenInv
<1> QED
  BY <1>1, <1>2, <1>3

(* A cleanup always comes to its end: every part of a submitted session is  *)
(* skipped, or uploaded and can be deleted.                                 *)
LEMMA CleanupEnds ==
    ASSUME SubmissionCoversSession, NEW s \in Session, AwaitsCleanup(s),
           \A x \in SlotsOf(s) : ~MayDelete(x), NEW x \in SlotsOf(s)
    PROVE  IsSkipped(x) \/ artifact[x] \in {"Deleting", "Deleted"}
<1>1. lifecycle[s] = "Completed" /\ HasPlan(s) /\ SubmissionPartsReady(s)
  BY DEF SubmissionCoversSession, AwaitsCleanup, HasSubmission
<1>2. x[1] = s
  BY SlotsOfSession
<1> QED
  BY <1>1, <1>2 DEF SubmissionPartsReady, IsPart, IsUsable, MayDelete, PermitsSubmission,
     AwaitsCleanup

(* The worker, and with it the run, is ended by no more than what the first *)
(* divergence of docs and code is about: recovery of a session between the  *)
(* check of a segment and its claim. No claim of a submission is refused,   *)
(* and no cleanup meets a segment it may not delete.                        *)
THEOREM OnlyRecoveryStopsTheWorker == RunSpec => OnlyRecoveryFailsTheWorker
<1> DEFINE Fails == worker.at # "Failed" /\ worker'.at = "Failed"
           Recovers == \E x \in Slot : /\ worker.at = "ClaimingUpload" /\ worker.item = x
                                       /\ lifecycle[x[1]] = "RecoveryRequired"
<1>1. RunInit => RunInv /\ ChosenInv
  BY InitRun DEF RunInit, ChosenInv, Unborn
<1>2. RunInv /\ ChosenInv /\ [RunNext]_runVars => (RunInv /\ ChosenInv)'
  BY RunStep, ChosenStep
<1>3. RunInv /\ ChosenInv /\ [RunNext]_runVars => [Fails => Recovers]_runVars
  <2> SUFFICES ASSUME RunInv, ChosenInv, [RunNext]_runVars, Fails
               PROVE  Recovers
    OBVIOUS
  <2>a. WorkerTypeOK /\ SubmissionCoversSession /\ SubmissionChecksStayTrue
    BY DEF RunInv, StoreInv
  <2>0. /\ Unborn.at = "Unborn"
        /\ SpawnWorker => worker'.at \in {"Asleep", "None"}
    BY DEF Unborn, SpawnWorker
  <2>1. WorkerStepOf
    BY <2>0, WorkerChanges DEF Vanish
  <2>b. /\ \A x \in Slot : x \in Slot \cup Session \cup {NoSession}
                          /\ x[1] \in Slot \cup Session \cup {NoSession}
        /\ {"ClaimingUpload", "CallingUpload", "ClaimingSubmission", "CallingSubmission",
            "Cleaning", "Deleting", "Done", "Asleep"} \subseteq WorkerPlace
    BY SlotParts DEF WorkerPlace
  <2>2. ASSUME NEW x \in Slot, ClaimUpload(x) PROVE Recovers
    <3>1. worker.at = "ClaimingUpload" /\ worker.item = x
      BY <2>2 DEF ClaimUpload, IsAt, Serves
    <3>2. ~(MayUpload(x) /\ TargetReady(TargetOf[x[1]]))
      <4>1. ~Goto("CallingUpload", x)
        BY <2>a, <2>b, GotoValue
      <4> QED BY <2>2, <4>1 DEF ClaimUpload
    <3>3. ClaimStands(x)
      BY <3>1 DEF ChosenInv
    <3> QED BY <3>1, <3>2, <3>3 DEF ClaimStands, MayUpload, PermitsUpload
  <2>3. ASSUME NEW s \in Session, ClaimSubmission(s) PROVE FALSE
    <3>1. AwaitsSubmission(s) /\ Submittable(s)
      BY <2>a, <2>3 DEF ClaimSubmission, IsAt, Serves, SubmissionChecksStayTrue
    <3>2. Goto("CallingSubmission", s)
      BY <2>3, <3>1 DEF ClaimSubmission
    <3> QED BY <2>a, <2>b, <3>2, GotoValue
  <2>4. ASSUME NEW s \in Session, EndCleanup(s) PROVE FALSE
    <3>1. AwaitsCleanup(s) /\ \A x \in SlotsOf(s) : ~MayDelete(x)
      BY <2>4 DEF EndCleanup, IsAt, Serves, ChosenInv
    <3>2. worker' = WithoutSession(s)
      BY <2>a, <2>4, <3>1, CleanupEnds DEF EndCleanup
    <3> QED BY <2>a, <3>2, WithoutValue
  <2>5. ASSUME NEW x \in Slot,
               \/ SkipUpload(x) \/ CheckUpload(x) \/ UploadAnswered(x)
               \/ DeleteRecording(x) \/ RecordingDeleted(x)
        PROVE  FALSE
    <3>1. \/ worker' = WithoutUpload(x)
          \/ Goto("ClaimingUpload", x) \/ Goto("Deleting", x) \/ Goto("Cleaning", x[1])
      BY <2>5 DEF SkipUpload, CheckUpload, UploadAnswered, DeleteRecording, RecordingDeleted
    <3> QED BY <2>a, <2>b, <3>1, GotoValue, WithoutValue
  <2>6. ASSUME NEW s \in Session,
               \/ SkipSession(s) \/ CheckSubmission(s) \/ SubmissionAnswered(s)
               \/ BeginCleanup(s)
        PROVE  FALSE
    <3>1. \/ worker' = WithoutSession(s)
          \/ Goto("ClaimingSubmission", s) \/ Goto("Cleaning", s)
      BY <2>6 DEF SkipSession, CheckSubmission, SubmissionAnswered, AfterSubmission,
         BeginCleanup, Goto
    <3> QED BY <2>a, <2>b, <3>1, GotoValue, WithoutValue
  <2>7. CASE BeginPass \/ BeginSubmissions \/ EndPass \/ SeeShutdown
    <3>1. EndPass => \E place \in {"Done", "Asleep"} : Goto(place, NoSession)
      BY DEF EndPass
    <3>2. ~EndPass
      BY <2>a, <2>b, <3>1, GotoValue
    <3> QED BY <2>a, <2>7, <3>2 DEF BeginPass, BeginSubmissions, SeeShutdown, Unborn,
               WorkerTypeOK
  <2> QED BY <2>1, <2>2, <2>3, <2>4, <2>5, <2>6, <2>7 DEF WorkerStepOf, WorkerAction
<1> QED
  BY <1>1, <1>2, <1>3, PTL DEF RunSpec, OnlyRecoveryFailsTheWorker
=============================================================================
