--------------------------- MODULE RunCoordinator ---------------------------
(***************************************************************************)
(* The `run` command (run_cmd and run_prepared_rooms in src/main.rs): the   *)
(* coordinator that brings the store to a consistent state, spawns the      *)
(* upload worker and one supervisor per room, and ends with the last of     *)
(* them. The tasks meet in the store and in three watch channels; each      *)
(* step of one may fall between any two steps of another.                   *)
(***************************************************************************)
EXTENDS UploadWorker

CONSTANTS
    Configs,    \* configurations a run may be started with
    MaxRuns     \* bound: runs of the program

VARIABLES
    config,     \* the configuration of this run: its rooms, those that upload
    rooms,      \* rooms whose supervisor task is running
    runs        \* runs so far

ASSUME ConfigAssumption ==
    \A c \in Configs : c.bilibili \subseteq c.rooms /\ c.rooms \subseteq Room

coordinatorVars == <<config, rooms, runs>>
runVars == <<vars, workerVars, coordinatorVars>>

RunInit ==
    /\ Init
    /\ worker = Unborn
    /\ published = [s \in Session |-> {}]
    /\ missing = {}
    /\ shutdown = FALSE /\ openSessionsReady = FALSE /\ stopWhenIdle = FALSE
    /\ config \in Configs
    /\ rooms = {}
    /\ runs = 0

-----------------------------------------------------------------------------
(* Startup *)

StartRun ==
    /\ runs < MaxRuns
    /\ Start
    /\ config' \in Configs
    /\ runs' = runs + 1
    /\ UNCHANGED <<workerVars, rooms>>

ReconcileStore_NotAwaited ==
    /\ phase = "Reconciling" /\ phase' = "Running"
    /\ UNCHANGED <<storeVars, workerVars, coordinatorVars>>

ReconcileStore ==
    /\ \/ \E x \in Slot : ReconcileArtifact(x)
       \/ ReconcileAttempt
       \/ EnterRun
    /\ UNCHANGED <<workerVars, coordinatorVars>>

Starting == phase = "Running" /\ worker.at = "Unborn"
Preparing == phase = "Running" /\ worker.at # "Unborn" /\ ~openSessionsReady /\ ~shutdown

(* An open session whose room the configuration no longer has goes to       *)
(* recovery: before the worker is spawned when there are no rooms at all,   *)
(* else once the room ids are known, before the barrier opens.              *)
Orphaned(s) ==
    /\ room[RoomOf[s]] = Owned(s)
    /\ RoomOf[s] \notin config.rooms

RecoverRemovedRoom(s) ==
    /\ (Starting /\ config.rooms = {}) \/ Preparing
    /\ Orphaned(s)
    /\ RequireRecovery(s)
    /\ UNCHANGED <<phase, workerVars, coordinatorVars>>

OrphansWait == config.rooms # {} \/ \A s \in Session : ~Orphaned(s)

SpawnWorker ==
    /\ Starting /\ OrphansWait
    /\ config.rooms # {} \/ HasExecutableWork
    /\ worker' = [Unborn EXCEPT !.at = IF config.bilibili # {} \/ HasExecutableWork
                                       THEN "Asleep" ELSE "None"]
    /\ UNCHANGED <<vars, published, missing, channels, coordinatorVars>>

PrepareRooms ==
    /\ Preparing
    /\ \A s \in Session : ~Orphaned(s)
    /\ rooms' = {r \in config.rooms : room[r].phase # "Blocked"}
    /\ openSessionsReady' = TRUE
    /\ stopWhenIdle' = (rooms' \cap config.bilibili = {})
    /\ UNCHANGED <<vars, worker, published, missing, shutdown, config, runs>>

-----------------------------------------------------------------------------
(* Room supervisors *)

InFlight(x) == lifecycle[x[1]] = "Open" /\ artifact[x] \in UnresolvedIntent

EndSegment(x) ==
    /\ InFlight(x)
    /\ \/ BeginArtifactFinalization(x)
       \/ BeginArtifactDiscard(x)
       \/ CompleteArtifactFinalization(x)
       \/ CompleteArtifactDiscard(x)
       \/ artifact[x] = "Writing" /\ FailArtifact(x)
       \/ RequireRecovery(x[1])

(* A new session freezes the output plan its room has now.                  *)
RoomStep(r) ==
    /\ phase = "Running" /\ r \in rooms
    /\ \E s \in Session :
          /\ RoomOf[s] = r
          /\ \/ (HasPlan(s) <=> r \in config.bilibili) /\ CreateSession(s)
             \/ lifecycle[s] = "Open" /\ (RequireRecovery(s) \/ CloseNatural(s))
             \/ \E x \in SlotsOf(s) : OpenSegment(x) \/ EndSegment(x)
    /\ UNCHANGED <<phase, workerVars, coordinatorVars>>

(* A supervisor ends between two recordings: when its room is blocked, on   *)
(* shutdown, or on an error that concerns only it, such as an unreadable    *)
(* credential.                                                              *)
RoomEnds(r) ==
    /\ phase = "Running" /\ r \in rooms
    /\ \A x \in Slot : RoomOf[x[1]] = r => ~InFlight(x)
    /\ rooms' = rooms \ {r}
    /\ UNCHANGED <<vars, workerVars, config, runs>>

-----------------------------------------------------------------------------
(* The coordinator's loop *)

(* The last room has ended: the worker drains what is durable and stops.    *)
LetWorkerStop ==
    /\ phase = "Running" /\ openSessionsReady /\ rooms = {}
    /\ worker.at \notin Gone /\ ~stopWhenIdle
    /\ stopWhenIdle' = TRUE
    /\ UNCHANGED <<vars, worker, published, missing, shutdown, openSessionsReady,
                   coordinatorVars>>

Shutdown ==
    /\ ~shutdown /\ shutdown' = TRUE
    /\ UNCHANGED <<vars, worker, published, missing, openSessionsReady, stopWhenIdle,
                   coordinatorVars>>

(* Before there are tasks the signal simply ends the process.               *)
CtrlC == phase = "Running" /\ worker.at # "Unborn" /\ Shutdown
WorkerFails == phase = "Running" /\ worker.at = "Failed" /\ Shutdown
PreparationFails == Preparing /\ Shutdown

Vanish ==
    /\ ProcessEnds
    /\ worker' = Unborn /\ rooms' = {}
    /\ shutdown' = FALSE /\ openSessionsReady' = FALSE /\ stopWhenIdle' = FALSE
    /\ UNCHANGED <<published, missing, config, runs>>

AllTasksEnded == rooms = {} /\ worker.at \in Gone

RunEnds_OncePrepared ==
    phase = "Running" /\ AllTasksEnded /\ openSessionsReady /\ Vanish

RunEnds ==
    /\ phase = "Running"
    /\ \/ AllTasksEnded /\ (openSessionsReady \/ shutdown)
       \/ Starting /\ OrphansWait /\ config.rooms = {} /\ ~HasExecutableWork
    /\ Vanish

(* A crash, a kill, or the second Ctrl-C.                                   *)
Crash == Vanish

-----------------------------------------------------------------------------
(* The operator: within the bound on attempts.                              *)
Decide ==
    /\ OperatorStep
    /\ \A x \in Slot : upload'[x] = Pending(TRUE) /\ upload[x] # upload'[x] =>
          Len(uploadAttempts[x]) < MaxAttempts
    /\ \A s \in Session : submission'[s].state = "RetryAuthorized" =>
          Len(submissionAttempts[s]) < MaxAttempts
    /\ UNCHANGED <<workerVars, coordinatorVars>>

WorkerStepOf == WorkerAction /\ UNCHANGED coordinatorVars
Tick == TimePasses /\ UNCHANGED <<workerVars, coordinatorVars>>
Publish ==
    /\ \E s \in Session : \E n \in 1..MaxAttempts : RemotePublishes(s, n)
    /\ UNCHANGED <<phase, channels, missing, coordinatorVars>>
MoveFile ==
    /\ \E x \in Slot : FileTaken(x) \/ FileRestored(x)
    /\ UNCHANGED <<vars, worker, published, channels, coordinatorVars>>

RunNext ==
    \/ StartRun
    \/ ReconcileStore
    \/ \E s \in Session : RecoverRemovedRoom(s)
    \/ SpawnWorker
    \/ PrepareRooms
    \/ \E r \in Room : RoomStep(r) \/ RoomEnds(r)
    \/ WorkerStepOf
    \/ LetWorkerStop
    \/ CtrlC
    \/ WorkerFails
    \/ PreparationFails
    \/ RunEnds
    \/ Crash
    \/ Decide
    \/ Tick
    \/ Publish
    \/ MoveFile

RunSpec == RunInit /\ [][RunNext]_runVars

(* Fairness: the tasks are scheduled, a remote call is answered, clocks     *)
(* advance. A supervisor ends when it must, after the segment it writes.    *)
MustEnd(r) == shutdown \/ room[r].phase = "Blocked"

EndRecording(r) ==
    /\ shutdown
    /\ phase = "Running" /\ r \in rooms
    /\ \E x \in Slot : RoomOf[x[1]] = r /\ EndSegment(x)
    /\ UNCHANGED <<phase, workerVars, coordinatorVars>>

FairRunSpec ==
    /\ RunSpec
    /\ WF_runVars(WorkerStepOf) /\ WF_runVars(Tick)
    /\ \A r \in Room : /\ WF_runVars(EndRecording(r))
                       /\ WF_runVars(MustEnd(r) /\ RoomEnds(r))
    /\ WF_runVars(LetWorkerStop) /\ WF_runVars(WorkerFails) /\ WF_runVars(RunEnds)

-----------------------------------------------------------------------------
(* Nothing is ever published twice, unless an operator said of the earlier  *)
(* attempt that it had not been: not by a retry, a lost answer, a crash     *)
(* during the call or an answer that comes after the process is gone.       *)
NoDoublePublication ==
    \A s \in Session : \A n, m \in published[s] :
        n < m => [attempt |-> n, happened |-> FALSE] \in submissionResolutions[s]

(* While the program runs, the attempt in flight is the one the worker is   *)
(* waiting for, whatever supervisors do to its session meanwhile: the       *)
(* transition that records its answer is never refused, no answer is lost   *)
(* and no attempt is left without a caller.                                 *)
AttemptsAreTheWorkers ==
    phase = "Running" =>
        /\ \A x \in Slot : upload[x].state = "Attempting" <=>
               worker.at = "CallingUpload" /\ worker.item = x
        /\ \A s \in Session : submission[s].state = "Attempting" <=>
               worker.at = "CallingSubmission" /\ worker.item = s

(* What was checked of a session before its submission is still true when   *)
(* the submission is claimed, in a transaction of its own: no supervisor    *)
(* can take it back meanwhile, so the claim, whose refusal would end the    *)
(* worker and with it the run, is never refused.                            *)
SubmissionChecksStayTrue ==
    \A s \in Session : worker.at = "ClaimingSubmission" /\ worker.item = s =>
        AwaitsSubmission(s) /\ Submittable(s)

(* A worker that stopped because it was idle left nothing to do but what    *)
(* waits for an operator: neither a retry that is not due yet nor a         *)
(* recording finished behind its back.                                      *)
DrainedMeansDone == worker.at = "Done" /\ ~shutdown => ~HasExecutableWork

(* The barrier (with_open_session_barrier in src/uploader/worker.rs): no    *)
(* part of a session still open is uploaded in a run that does not serve    *)
(* its room, although the worker starts before the rooms are known.         *)
RemovedRoomsAreNotServed ==
    [][\A x \in Slot :
          upload'[x].state = "Attempting" /\ upload[x].state # "Attempting"
          /\ lifecycle[x[1]] = "Open" => RoomOf[x[1]] \in config.rooms
      ]_runVars

(* The tasks together do to the store only what its specification allows.   *)
RunImplementsDurableState == Spec

(* Work that no pass can do, although it counts as executable: its file has *)
(* to be put back first.                                                    *)
AwaitsFile == \E x \in DurableWork.uploads : NotBlocked(x[1]) /\ x \in missing

(* Without rooms to record the run drains and ends, unless the file of a    *)
(* segment it has to upload is missing: then every pass skips the segment,  *)
(* and the worker goes on until the file is back or somebody stops it.      *)
DrainEnds ==
    phase = "Running" /\ openSessionsReady /\ rooms = {}
        ~> phase # "Running" \/ AwaitsFile

(* After Ctrl-C or a failure the run ends, whatever it was about to do.     *)
ShutdownEnds == shutdown ~> phase # "Running"

(* What docs/dev/architecture.md says of a single room's failure.           *)
RoomFaultsStayLocal == worker.at # "Failed"

(* A session recorded under its frozen upload plan has a worker to upload   *)
(* it.                                                                      *)
RecordingsWithPlanAreServed ==
    openSessionsReady /\ ~shutdown => \A s \in Session :
        lifecycle[s] = "Open" /\ HasPlan(s) /\ RoomOf[s] \in rooms =>
            worker.at \notin {"None", "Done"}
=============================================================================
