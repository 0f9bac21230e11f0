----------------------- MODULE RoomSupervisor_proofs -----------------------
(***************************************************************************)
(* What holds of a room's supervisor for any number of rooms and sessions,  *)
(* any grace period, poll interval and backoff, and however broadcasts,     *)
(* crashes, restarts, lost streams and failed probes alternate.             *)
(*                                                                         *)
(* The supervisor keeps in memory what the store says of its room, and      *)
(* RoomInv says how the two correspond at every await. All else follows     *)
(* from it: the supervisor's steps are steps of the store, none of the      *)
(* transitions it asks for is refused, and its clock never runs ahead of    *)
(* the time the stream has been gone.                                       *)
(***************************************************************************)
EXTENDS RoomSupervisor, DurableState_proofs

Await == {"None", "Loop", "Sleep", "RoomInfo", "Connect", "Stream"}

(* Where the task may be in each state. A task that has ended, and a         *)
(* process that is not yet running, has none.                               *)
TaskOK ==
    /\ DOMAIN task = DOMAIN NoTask
    /\ task.at \in Await /\ task.state \in RoomState
    /\ phase # "Running" => task.at = "None"
    /\ task.at \in {"Connect", "Stream"} => task.state = "Recording"
    /\ task.at = "RoomInfo" => task.state \in {"Resolving", "WaitingReconnect"}
    /\ task.at = "Sleep" => task.state \in {"Offline", "WaitingReconnect"}

(* What the task believes of its room is what the room's row says.          *)
HoldsItsRoom ==
    task.at # "None" =>
        /\ task.state \in {"Recording", "WaitingReconnect"} =>
              /\ task.active \in Session /\ RoomOf[task.active] = TheRoom
              /\ room[TheRoom] = Owned(task.active)
        /\ task.state \in {"Idle", "Resolving", "Offline"} =>
              room[TheRoom].phase = "Ready"

(* The supervisor counts no more time offline than there was, and takes the *)
(* deadline for passed only if the stream has been gone for all of it.      *)
ClockBehind ==
    /\ dark \in 0..Grace
    /\ task.since \in Nat \cup {Never} /\ task.deadline \in BOOLEAN
    /\ task.since <= dark
    /\ task.state = "Recording" => task.since = Never
    /\ Probed /\ task.deadline => dark = Grace

RoomInv == RowTypes /\ OwnershipExact /\ TaskOK /\ HoldsItsRoom /\ ClockBehind

-----------------------------------------------------------------------------
(* The values the steps give the task *)

Shaped == DOMAIN task = DOMAIN NoTask

LEMMA NoTaskFields ==
    /\ DOMAIN NoTask = {"at", "state", "active", "sleep", "since", "attempt", "probe",
                        "deadline"}
    /\ NoTask.at = "None" /\ NoTask.state = "Idle" /\ NoTask.since = Never
    /\ NoTask.deadline = FALSE
    /\ DOMAIN Ended = DOMAIN NoTask
    /\ Ended.at = "None" /\ Ended.state = "Failed" /\ Ended.since = Never
    /\ Ended.deadline = FALSE
BY DEF NoTask, Ended

LEMMA EnterFields ==
    ASSUME Shaped, NEW state, NEW s
    PROVE  LET t == Enter(state, s) IN
           /\ DOMAIN t = DOMAIN NoTask
           /\ t.at = "Loop" /\ t.state = state
           /\ t.active = IF state = "WaitingReconnect" THEN task.active ELSE s
           /\ t.since = IF state = "WaitingReconnect" THEN OfflineClock(task) ELSE Never
           /\ t.deadline = task.deadline
<1>1. CASE state = "WaitingReconnect"
  BY <1>1, NoTaskFields DEF Shaped, Enter
<1>2. CASE state # "WaitingReconnect"
  BY <1>2, NoTaskFields DEF Shaped, Enter, Connected
<1> QED BY <1>1, <1>2

LEMMA RestoredFields ==
    ASSUME NEW row \in RoomLifecycle
    PROVE  LET t == [NoTask EXCEPT !.at = "Loop",
                                   !.state = Restored(row).state,
                                   !.active = Restored(row).active] IN
           /\ DOMAIN t = DOMAIN NoTask
           /\ t.at = "Loop" /\ t.since = Never /\ t.deadline = FALSE
           /\ \/ t.state = "Idle" /\ row.phase = "Ready"
              \/ t.state = "Recording" /\ row.phase = "Owned" /\ t.active = row.session
              \/ t.state = "Failed"
<1> DEFINE t == [NoTask EXCEPT !.at = "Loop",
                               !.state = Restored(row).state,
                               !.active = Restored(row).active]
<1>1. /\ DOMAIN t = DOMAIN NoTask
      /\ t.at = "Loop" /\ t.since = Never /\ t.deadline = FALSE
      /\ t.state = Restored(row).state /\ t.active = Restored(row).active
  BY NoTaskFields
<1>2. CASE row.phase = "Ready"
  BY <1>1, <1>2 DEF Restored
<1>3. CASE row.phase = "Owned"
  BY <1>1, <1>3 DEF Restored
<1>4. CASE row.phase = "Blocked"
  BY <1>1, <1>4 DEF Restored
<1> QED BY <1>1, <1>2, <1>3, <1>4 DEF RoomLifecycle

(* A session's room is free exactly when the row of the room says Ready.    *)
LEMMA ReadyIsFree ==
    ASSUME OwnershipExact, NEW s \in Session, room[RoomOf[s]].phase = "Ready"
    PROVE  RoomFree(s)
<1>1. RoomOf[s] \in Room
  BY PlanAssumption
<1>2. room[RoomOf[s]].session = NoSession
  BY <1>1 DEF OwnershipExact
<1>3. ASSUME NEW other \in Session, RoomOf[other] = RoomOf[s], IsOpen(other)
      PROVE  FALSE
  <2>1. room[RoomOf[other]] \in {Owned(other), Blocked(other)}
    BY <1>3 DEF OwnershipExact, IsOpen
  <2>2. room[RoomOf[other]].session = other
    BY <2>1 DEF Owned, Blocked
  <2> QED BY <1>2, <1>3, <2>2, SessionAssumption
<1> QED BY <1>3 DEF RoomFree

(* While the stream is recorded, the session is open and the room its own.  *)
LEMMA RecordsIntoItsOwn ==
    ASSUME RoomInv, task.at # "None", task.state \in {"Recording", "WaitingReconnect"}
    PROVE  /\ task.active \in Session /\ RoomOf[task.active] = TheRoom
           /\ lifecycle[task.active] = "Open" /\ room[TheRoom] = Owned(task.active)
           /\ phase = "Running"
<1>1. /\ task.active \in Session /\ RoomOf[task.active] = TheRoom
      /\ room[TheRoom] = Owned(task.active)
  BY DEF RoomInv, HoldsItsRoom
<1>2. lifecycle[task.active] = "Open"
  BY <1>1 DEF RoomInv, OwnershipExact
<1>3. phase = "Running"
  BY DEF RoomInv, TaskOK
<1> QED BY <1>1, <1>2, <1>3

-----------------------------------------------------------------------------
(* Every step of the supervisor is one of the store.                        *)

(* The steps that leave the store as it is.                                 *)
QuietStep ==
    \/ Spawn \/ Loop \/ WakeUp \/ StaysOffline \/ StreamOpens \/ StreamRefused
    \/ StreamEnds \/ ProbeLive \/ ProbeOffline \/ ProbeFails \/ Tick \/ Broadcast

LEMMA QuietSteps == QuietStep => UNCHANGED vars
BY DEF QuietStep, Spawn, Loop, WakeUp, StaysOffline, StreamOpens, StreamRefused,
   StreamEnds, ProbeLive, ProbeOffline, ProbeFails, Tick, Broadcast, Step

LEMMA RoomSteps ==
    ASSUME [RoomNext]_roomVars
    PROVE  \/ ProcessStep
           \/ ProcessDies
           \/ QuietStep
           \/ /\ Lives
              /\ \/ \E s \in Session : GoesLive(s)
                 \/ \E x \in Slot : RecordFlv(x) \/ RecordingFails(x)
                 \/ CloseAfterConfirmedOffline
           \/ UNCHANGED roomVars
BY DEF RoomNext, QuietStep

LEMMA StoreMoves ==
    ASSUME RoomInv, [RoomNext]_roomVars
    PROVE  [Next]_vars
<1>1. CASE UNCHANGED roomVars \/ QuietStep
  BY <1>1, QuietSteps DEF roomVars
<1>2. CASE ProcessStep \/ ProcessDies
  BY <1>2 DEF ProcessStep, ProcessDies, Next
<1>3. ASSUME Lives, NEW s \in Session, GoesLive(s)
      PROVE  RecordingStep
  BY <1>3 DEF Lives, GoesLive, RecordingStep
<1>4. ASSUME Lives, NEW x \in Slot, RecordFlv(x) \/ RecordingFails(x)
      PROVE  RecordingStep
  <2>1. task.at = "Stream" /\ x[1] = task.active /\ UNCHANGED phase
    BY <1>4 DEF RecordFlv, RecordingFails
  <2>2. lifecycle[x[1]] = "Open" /\ phase = "Running" /\ x[1] \in Session
    BY <2>1, RecordsIntoItsOwn DEF RoomInv, TaskOK
  <2>3. CASE RecordFlv(x)
    BY <2>1, <2>2, <2>3 DEF RecordFlv, RecordingStep
  <2>4. CASE RecordingFails(x) /\ artifact[x] = "Writing"
    BY <2>1, <2>2, <2>4 DEF RecordingFails, RecordingStep
  <2>5. CASE RecordingFails(x) /\ artifact[x] # "Writing"
    BY <2>1, <2>2, <2>5 DEF RecordingFails, RecordingStep
  <2> QED BY <1>4, <2>3, <2>4, <2>5
<1>5. ASSUME Lives, CloseAfterConfirmedOffline
      PROVE  RecordingStep
  <2>1. task.active \in Session
    BY <1>5, RecordsIntoItsOwn DEF CloseAfterConfirmedOffline, Probed
  <2> QED BY <1>5, <2>1 DEF Lives, CloseAfterConfirmedOffline, RecordingStep
<1> QED BY <1>1, <1>2, <1>3, <1>4, <1>5, RoomSteps DEF Next

-----------------------------------------------------------------------------
(* The invariant is kept: first by the steps that leave the store alone.    *)

TaskInv == TaskOK /\ HoldsItsRoom /\ ClockBehind

LEMMA EnteringKeepsTaskInv ==
    ASSUME RoomInv, Lives, NEW state \in RoomState, NEW s,
           task' = Enter(state, s), UNCHANGED <<phase, onAir>>, dark' = dark,
           state = "WaitingReconnect" => task.state \in {"Recording", "WaitingReconnect"},
           state \in {"Recording", "WaitingReconnect"} =>
              /\ s = task.active \/ state = "Recording"
              /\ s \in Session /\ RoomOf[s] = TheRoom /\ room'[TheRoom] = Owned(s),
           state \in {"Idle", "Resolving", "Offline"} => room'[TheRoom].phase = "Ready"
    PROVE  TaskInv'
<1>1. /\ DOMAIN task' = DOMAIN NoTask
      /\ task'.at = "Loop" /\ task'.state = state
      /\ task'.active = IF state = "WaitingReconnect" THEN task.active ELSE s
      /\ task'.since = IF state = "WaitingReconnect" THEN OfflineClock(task) ELSE Never
      /\ task'.deadline = task.deadline
  BY EnterFields DEF RoomInv, TaskOK, Shaped
<1>2. TaskOK'
  BY <1>1 DEF RoomInv, TaskOK, Await, Lives
<1>3. HoldsItsRoom'
  BY <1>1 DEF HoldsItsRoom
<1>4. ClockBehind'
  BY <1>1, TimingAssumption DEF RoomInv, ClockBehind, OfflineClock, Never, Probed
<1> QED BY <1>2, <1>3, <1>4 DEF TaskInv

LEMMA EndingKeepsTaskInv ==
    ASSUME RoomInv, task' \in {NoTask, Ended}, dark' = dark
    PROVE  TaskInv'
<1>1. /\ DOMAIN task' = DOMAIN NoTask
      /\ task'.at = "None" /\ task'.state \in {"Idle", "Failed"}
      /\ task'.since = Never /\ task'.deadline = FALSE
  BY NoTaskFields
<1>2. TaskOK'
  BY <1>1 DEF TaskOK, Await, RoomState
<1>3. HoldsItsRoom'
  BY <1>1 DEF HoldsItsRoom
<1>4. ClockBehind'
  <2>1. dark' \in 0..Grace
    BY DEF RoomInv, ClockBehind
  <2>2. task'.since \in Nat \cup {Never} /\ task'.since <= dark'
    BY <1>1, <2>1, TimingAssumption DEF Never
  <2>3. task'.deadline \in BOOLEAN /\ ~Probed' /\ task'.state # "Recording"
    BY <1>1 DEF Probed
  <2> QED BY <2>1, <2>2, <2>3 DEF ClockBehind
<1> QED BY <1>2, <1>3, <1>4 DEF TaskInv

LEMMA LoopKeepsTaskInv ==
    ASSUME RoomInv, Lives, Loop
    PROVE  TaskInv'
<1> USE DEF Loop, Step, vars, storeVars, recordingVars, platformVars
<1>1. CASE task.state = "Idle"
  <2>1. task' = Enter("Resolving", NoSession) /\ UNCHANGED <<phase, onAir, dark, room>>
    BY <1>1
  <2>2. room[TheRoom].phase = "Ready"
    BY <1>1 DEF RoomInv, HoldsItsRoom, Lives
  <2> QED BY <2>1, <2>2, EnteringKeepsTaskInv DEF RoomState
<1>2. CASE task.state \in {"Resolving", "Recording", "WaitingReconnect"}
  <2>1. /\ UNCHANGED <<phase, onAir, dark, room>>
        /\ DOMAIN task' = DOMAIN NoTask
        /\ task'.at = CASE task.state = "Resolving" -> "RoomInfo"
                        [] task.state = "Recording" -> "Connect"
                        [] task.state = "WaitingReconnect" -> "Sleep"
        /\ task'.state = task.state /\ task'.active = task.active
        /\ task'.since = task.since /\ task'.deadline = task.deadline
    BY <1>2, NoTaskFields DEF RoomInv, TaskOK, SleepFor
  <2>2. TaskOK'
    BY <1>2, <2>1 DEF RoomInv, TaskOK, Await, RoomState, Lives
  <2>3. HoldsItsRoom'
    BY <1>2, <2>1 DEF RoomInv, HoldsItsRoom, Lives
  <2>4. ClockBehind'
    BY <1>2, <2>1 DEF RoomInv, ClockBehind, Probed
  <2> QED BY <2>2, <2>3, <2>4 DEF TaskInv
<1>3. CASE task.state = "Failed"
  <2>1. task' = Ended /\ UNCHANGED <<phase, onAir, dark, room>>
    BY <1>3
  <2> QED BY <2>1, EndingKeepsTaskInv
<1> QED BY <1>1, <1>2, <1>3

LEMMA SpawnKeepsTaskInv ==
    ASSUME RoomInv, Spawn
    PROVE  TaskInv'
<1> DEFINE row == room[TheRoom]
<1>1. row \in RoomLifecycle
  BY TheRoomAssumption DEF RoomInv, RowTypes
<1>2. /\ DOMAIN task' = DOMAIN NoTask
      /\ task'.at = "Loop" /\ task'.since = Never /\ task'.deadline = FALSE
      /\ \/ task'.state = "Idle" /\ row.phase = "Ready"
         \/ task'.state = "Recording" /\ row.phase = "Owned" /\ task'.active = row.session
         \/ task'.state = "Failed"
      /\ phase' = "Running" /\ room' = room /\ dark' = dark
  BY <1>1, RestoredFields DEF Spawn, vars, storeVars, recordingVars, platformVars
<1>3. TaskOK'
  BY <1>2 DEF TaskOK, Await, RoomState
<1>4. row.phase = "Owned" =>
         /\ row.session \in Session /\ RoomOf[row.session] = TheRoom
         /\ row = Owned(row.session)
  BY <1>1, TheRoomAssumption DEF RoomInv, OwnershipExact, RoomLifecycle, Owned
<1>5. HoldsItsRoom'
  BY <1>2, <1>4 DEF HoldsItsRoom
<1>6. ClockBehind'
  <2>1. dark' \in 0..Grace
    BY <1>2 DEF RoomInv, ClockBehind
  <2>2. task'.since \in Nat \cup {Never} /\ task'.since <= dark'
    BY <1>2, <2>1, TimingAssumption DEF Never
  <2>3. task'.deadline \in BOOLEAN /\ ~Probed'
    BY <1>2 DEF Probed
  <2> QED BY <1>2, <2>1, <2>2, <2>3 DEF ClockBehind
<1> QED BY <1>3, <1>5, <1>6 DEF TaskInv

LEMMA WakeUpKeepsTaskInv ==
    ASSUME RoomInv, Lives, WakeUp
    PROVE  TaskInv'
<1> USE DEF WakeUp, Step, vars, storeVars, recordingVars, platformVars
<1>1. /\ task.at = "Sleep" /\ task.state \in {"Offline", "WaitingReconnect"}
      /\ UNCHANGED <<phase, onAir, dark, room>>
  BY DEF RoomInv, TaskOK
<1>2. CASE task.state = "Offline"
  <2>1. task' = Enter("Idle", NoSession)
    BY <1>2
  <2>2. room[TheRoom].phase = "Ready"
    BY <1>1, <1>2 DEF RoomInv, HoldsItsRoom
  <2> QED BY <1>1, <2>1, <2>2, EnteringKeepsTaskInv DEF RoomState
<1>3. CASE task.state = "WaitingReconnect"
  <2>1. /\ DOMAIN task' = DOMAIN NoTask
        /\ task'.at = "RoomInfo" /\ task'.state = "WaitingReconnect"
        /\ task'.active = task.active
        /\ task'.since = OfflineClock(task)
        /\ task'.deadline = (OfflineClock(task) >= Grace)
    BY <1>3, NoTaskFields DEF RoomInv, TaskOK, Waiting
  <2>2. TaskOK'
    BY <1>1, <2>1 DEF RoomInv, TaskOK, Await, RoomState, Lives
  <2>3. HoldsItsRoom'
    BY <1>1, <1>3, <2>1 DEF RoomInv, HoldsItsRoom, Lives
  <2>4. OfflineClock(task) \in Nat /\ OfflineClock(task) <= dark /\ dark \in 0..Grace
    BY TimingAssumption DEF RoomInv, ClockBehind, OfflineClock, Never
  <2>5. OfflineClock(task) >= Grace => dark = Grace
    BY <2>4, TimingAssumption
  <2>6. (task'.deadline => dark' = Grace) /\ task'.deadline \in BOOLEAN
    <3> DEFINE past == OfflineClock(task) >= Grace
    <3>1. past \in BOOLEAN /\ task'.deadline = past /\ (past => dark' = Grace)
      BY <1>1, <2>1, <2>5
    <3> HIDE DEF past
    <3> QED BY <3>1, Zenon
  <2>7. ClockBehind'
    BY <1>1, <2>1, <2>4, <2>6 DEF ClockBehind
  <2> QED BY <2>2, <2>3, <2>7 DEF TaskInv
<1> QED BY <1>1, <1>2, <1>3

LEMMA StreamKeepsTaskInv ==
    ASSUME RoomInv, Lives, StreamOpens \/ StreamRefused \/ StreamEnds
    PROVE  TaskInv'
<1> USE DEF Step, vars, storeVars, recordingVars, platformVars
<1>1. /\ task.state = "Recording" /\ task.active \in Session
      /\ RoomOf[task.active] = TheRoom /\ room[TheRoom] = Owned(task.active)
      /\ UNCHANGED <<phase, onAir, room>>
  <2>1. task.state = "Recording"
    BY DEF RoomInv, TaskOK, StreamOpens, StreamRefused, StreamEnds
  <2> QED BY <2>1, RecordsIntoItsOwn DEF Lives, StreamOpens, StreamRefused, StreamEnds
<1>2. CASE StreamOpens
  <2>1. /\ DOMAIN task' = DOMAIN NoTask
        /\ task'.at = "Stream" /\ task'.state = "Recording"
        /\ task'.active = task.active /\ task'.since = Never
        /\ task'.deadline = task.deadline /\ dark' = 0
    BY <1>1, <1>2, NoTaskFields DEF RoomInv, TaskOK, ClockBehind, StreamOpens
  <2>2. TaskOK'
    BY <1>1, <2>1 DEF RoomInv, TaskOK, Await, RoomState, Lives
  <2>3. HoldsItsRoom'
    BY <1>1, <2>1 DEF HoldsItsRoom
  <2>4. ClockBehind'
    BY <2>1, TimingAssumption DEF RoomInv, ClockBehind, Probed, Never
  <2> QED BY <2>2, <2>3, <2>4 DEF TaskInv
<1>3. CASE StreamRefused \/ StreamEnds
  <2>1. task' = Enter("WaitingReconnect", task.active) /\ dark' = dark
    BY <1>3 DEF StreamRefused, StreamEnds
  <2> QED BY <1>1, <2>1, EnteringKeepsTaskInv DEF RoomState
<1> QED BY <1>2, <1>3

LEMMA ProbeKeepsTaskInv ==
    ASSUME RoomInv, Lives, ProbeLive \/ ProbeOffline \/ ProbeFails
    PROVE  TaskInv'
<1> USE DEF Step, vars, storeVars, recordingVars, platformVars
<1>1. /\ Probed /\ task.active \in Session
      /\ RoomOf[task.active] = TheRoom /\ room[TheRoom] = Owned(task.active)
      /\ UNCHANGED <<phase, onAir, dark, room>>
  BY RecordsIntoItsOwn DEF Probed, Lives, ProbeLive, ProbeOffline, ProbeFails
<1>2. CASE ProbeLive
  <2>1. task' = Enter("Recording", task.active)
    BY <1>2 DEF ProbeLive
  <2> QED BY <1>1, <2>1, EnteringKeepsTaskInv DEF RoomState
<1>3. CASE ProbeOffline \/ ProbeFails
  <2>1. /\ DOMAIN task' = DOMAIN NoTask
        /\ task'.at = "Loop" /\ task'.state = task.state
        /\ task'.active = task.active /\ task'.since = task.since
        /\ task'.deadline = task.deadline
    BY <1>3, NoTaskFields DEF RoomInv, TaskOK, ProbeOffline, ProbeFails
  <2>2. TaskOK'
    BY <1>1, <2>1 DEF RoomInv, TaskOK, Await, Lives
  <2>3. HoldsItsRoom'
    BY <1>1, <2>1 DEF HoldsItsRoom, Probed
  <2>4. ClockBehind'
    BY <1>1, <2>1 DEF RoomInv, ClockBehind, Probed
  <2> QED BY <2>2, <2>3, <2>4 DEF TaskInv
<1> QED BY <1>2, <1>3

LEMMA StaysOfflineKeepsTaskInv ==
    ASSUME RoomInv, Lives, StaysOffline
    PROVE  TaskInv'
<1> USE DEF StaysOffline, Step, vars, storeVars, recordingVars, platformVars
<1> DEFINE offline == Enter("Offline", NoSession)
<1>1. /\ DOMAIN offline = DOMAIN NoTask
      /\ offline.state = "Offline" /\ offline.since = Never
      /\ offline.deadline = task.deadline
  BY EnterFields DEF RoomInv, TaskOK, Shaped
<1>2. task' = [offline EXCEPT !.at = "Sleep", !.sleep = PollInterval]
  OBVIOUS
<1> HIDE DEF offline
<1>3. /\ DOMAIN task' = DOMAIN NoTask
      /\ task'.at = "Sleep" /\ task'.state = "Offline" /\ task'.since = Never
      /\ task'.deadline = task.deadline
  BY <1>1, <1>2, NoTaskFields
<1>4. UNCHANGED <<phase, dark, room>>
  OBVIOUS
<1>5. TaskOK'
  BY <1>3, <1>4 DEF RoomInv, TaskOK, Await, RoomState, Lives
<1>6. HoldsItsRoom'
  BY <1>3, <1>4 DEF RoomInv, HoldsItsRoom, Lives
<1>7. ClockBehind'
  BY <1>3, <1>4, TimingAssumption DEF RoomInv, ClockBehind, Probed, Never
<1> QED BY <1>5, <1>6, <1>7 DEF TaskInv

LEMMA TimeKeepsTaskInv ==
    ASSUME RoomInv, Tick \/ Broadcast
    PROVE  TaskInv'
<1> USE DEF vars, storeVars, recordingVars, platformVars
<1>1. CASE Broadcast
  BY <1>1 DEF Broadcast, RoomInv, TaskInv, TaskOK, HoldsItsRoom, ClockBehind, Probed
<1>2. CASE Tick
  <2>1. /\ DOMAIN task' = DOMAIN NoTask
        /\ task'.at = task.at /\ task'.state = task.state
        /\ task'.active = task.active /\ task'.deadline = task.deadline
        /\ task'.since = IF task.since = Never THEN Never ELSE UpToGrace(task.since)
        /\ dark' = IF task.at = "Stream" THEN dark ELSE UpToGrace(dark)
        /\ UNCHANGED <<phase, room>>
    BY <1>2, NoTaskFields DEF RoomInv, TaskOK, Tick
  <2>2. TaskOK'
    BY <2>1 DEF RoomInv, TaskOK
  <2>3. HoldsItsRoom'
    BY <2>1 DEF RoomInv, HoldsItsRoom
  <2>4. /\ dark \in 0..Grace /\ task.since \in Nat \cup {Never} /\ task.since <= dark
        /\ task.at = "Stream" => task.since = Never
    BY DEF RoomInv, TaskOK, ClockBehind
  <2>5. /\ dark' \in 0..Grace /\ (dark = Grace => dark' = Grace)
        /\ task'.since \in Nat \cup {Never} /\ task'.since <= dark'
    BY <2>1, <2>4, TimingAssumption DEF UpToGrace, Never
  <2>6. ClockBehind'
    BY <2>1, <2>5 DEF RoomInv, ClockBehind, Probed
  <2> QED BY <2>2, <2>3, <2>6 DEF TaskInv
<1> QED BY <1>1, <1>2

-----------------------------------------------------------------------------
(* Then by those that write to it. *)

LEMMA ProcessKeepsTaskInv ==
    ASSUME RoomInv, ProcessStep \/ ProcessDies
    PROVE  TaskInv'
<1>1. CASE ProcessStep
  <2>1. phase # "Running"
    BY <1>1 DEF ProcessStep, Start, ReconcileArtifact, EnterRun, OperatorStep
  <2>2. UNCHANGED <<task, onAir, dark>> /\ task.at = "None"
    BY <1>1, <2>1 DEF ProcessStep, platformVars, RoomInv, TaskOK
  <2> QED BY <2>2 DEF RoomInv, TaskInv, TaskOK, HoldsItsRoom, ClockBehind, Probed
<1>2. CASE ProcessDies
  BY <1>2, EndingKeepsTaskInv DEF ProcessDies, platformVars
<1> QED BY <1>1, <1>2

LEMMA GoesLiveKeepsTaskInv ==
    ASSUME RoomInv, Lives, NEW s \in Session, GoesLive(s)
    PROVE  TaskInv'
<1>1. room'[TheRoom] = Owned(s)
  BY TheRoomAssumption DEF RoomInv, RowTypes, GoesLive, CreateSession, SetRoom
<1>2. /\ task' = Enter("Recording", s) /\ UNCHANGED <<phase, onAir, dark>>
      /\ RoomOf[s] = TheRoom
  BY DEF GoesLive, platformVars
<1> QED BY <1>1, <1>2, EnteringKeepsTaskInv DEF RoomState

LEMMA RecordingKeepsTaskInv ==
    ASSUME RoomInv, Lives, NEW x \in Slot, RecordFlv(x) \/ RecordingFails(x)
    PROVE  TaskInv'
<1>1. CASE RecordFlv(x)
  <2>1. /\ task.at = "Stream" /\ x[1] = task.active /\ task.state = "Recording"
        /\ UNCHANGED <<phase, task, onAir, dark>>
    BY <1>1 DEF RecordFlv, platformVars, RoomInv, TaskOK
  <2>2. /\ x[1] \in Session /\ RoomOf[x[1]] = TheRoom /\ room[TheRoom] = Owned(x[1])
        /\ lifecycle[x[1]] = "Open"
    BY <2>1, RecordsIntoItsOwn DEF Lives
  <2>3. room'[TheRoom] = Owned(x[1])
    <3>1. CASE OpenSegment(x) \/ BeginArtifactFinalization(x) \/ BeginArtifactDiscard(x)
      BY <2>2, <3>1 DEF OpenSegment, BeginArtifactFinalization, BeginArtifactDiscard,
         BeginArtifact
    <3>2. CASE CompleteArtifactFinalization(x) \/ CompleteArtifactDiscard(x)
      <4>1. room' = [room EXCEPT ![TheRoom] = Owned(x[1])]
        BY <2>2, <3>2 DEF CompleteArtifactFinalization, CompleteArtifactDiscard,
           CompleteArtifact, SetRoom, RoomRowFor
      <4> QED BY <4>1, TheRoomAssumption DEF RoomInv, RowTypes
    <3> QED BY <1>1, <3>1, <3>2 DEF RecordFlv
  <2>4. TaskOK' /\ ClockBehind'
    BY <2>1 DEF RoomInv, TaskOK, ClockBehind, Probed
  <2>5. HoldsItsRoom'
    BY <2>1, <2>2, <2>3 DEF HoldsItsRoom
  <2> QED BY <2>4, <2>5 DEF TaskInv
<1>2. CASE RecordingFails(x)
  BY <1>2, EndingKeepsTaskInv DEF RecordingFails, platformVars
<1> QED BY <1>1, <1>2

LEMMA ClosingKeepsTaskInv ==
    ASSUME RoomInv, Lives, CloseAfterConfirmedOffline
    PROVE  TaskInv'
<1>1. /\ task.active \in Session /\ RoomOf[task.active] = TheRoom
  BY RecordsIntoItsOwn DEF CloseAfterConfirmedOffline, Probed, Lives
<1>2. UNCHANGED <<phase, onAir, dark>>
  BY DEF CloseAfterConfirmedOffline, platformVars
<1>3. CASE lifecycle'[task.active] = "RecoveryRequired"
  BY <1>2, <1>3, EndingKeepsTaskInv DEF CloseAfterConfirmedOffline
<1>4. CASE lifecycle'[task.active] # "RecoveryRequired"
  <2>1. room' = [room EXCEPT ![TheRoom] = RoomReady]
    BY <1>1, <1>4 DEF CloseAfterConfirmedOffline, CloseNatural, MarkRecoveryRequired,
       SetLifecycle, SetRoom, RoomInv, RowTypes
  <2>2. room'[TheRoom].phase = "Ready"
    BY <2>1, TheRoomAssumption DEF RoomInv, RowTypes, RoomReady
  <2>3. task' = Enter("Idle", NoSession)
    BY <1>4 DEF CloseAfterConfirmedOffline
  <2> QED BY <1>2, <2>2, <2>3, EnteringKeepsTaskInv DEF RoomState
<1> QED BY <1>3, <1>4

LEMMA RoomInvStep == RoomInv /\ [RoomNext]_roomVars => RoomInv'
<1> SUFFICES ASSUME RoomInv, [RoomNext]_roomVars PROVE RoomInv'
  OBVIOUS
<1>1. RowTypes' /\ OwnershipExact'
  BY StoreMoves, TypeStep, OwnershipKept DEF RoomInv
<1>2. TaskInv'
  <2>1. CASE ProcessStep \/ ProcessDies \/ Spawn \/ Tick \/ Broadcast
    BY <2>1, ProcessKeepsTaskInv, SpawnKeepsTaskInv, TimeKeepsTaskInv
  <2>2. CASE Lives /\ QuietStep
    BY <2>1, <2>2, LoopKeepsTaskInv, WakeUpKeepsTaskInv, StaysOfflineKeepsTaskInv,
       StreamKeepsTaskInv, ProbeKeepsTaskInv DEF QuietStep
  <2>3. ASSUME Lives, NEW s \in Session, GoesLive(s) PROVE TaskInv'
    BY <2>3, GoesLiveKeepsTaskInv
  <2>4. ASSUME Lives, NEW x \in Slot, RecordFlv(x) \/ RecordingFails(x) PROVE TaskInv'
    BY <2>4, RecordingKeepsTaskInv
  <2>5. CASE Lives /\ CloseAfterConfirmedOffline
    BY <2>5, ClosingKeepsTaskInv
  <2>6. CASE UNCHANGED roomVars
    BY <2>6 DEF roomVars, vars, storeVars, recordingVars, platformVars, RoomInv, TaskInv,
       TaskOK, HoldsItsRoom, ClockBehind, Probed
  <2> QED BY <2>1, <2>2, <2>3, <2>4, <2>5, <2>6 DEF RoomNext, QuietStep
<1> QED BY <1>1, <1>2 DEF RoomInv, TaskInv

LEMMA RoomInvInit == RoomInit => RoomInv
<1> SUFFICES ASSUME RoomInit PROVE RoomInv
  OBVIOUS
<1>1. RowTypes /\ OwnershipExact
  BY InitType, InitOwnership DEF RoomInit
<1>2. task = NoTask /\ dark = Grace
  BY DEF RoomInit
<1>3. TaskOK /\ HoldsItsRoom
  BY <1>2, NoTaskFields DEF TaskOK, HoldsItsRoom, Await, RoomState
<1>4. ClockBehind
  <2>1. dark \in 0..Grace
    BY <1>2, TimingAssumption
  <2>2. task.since \in Nat \cup {Never} /\ task.since <= dark
    BY <1>2, <2>1, NoTaskFields, TimingAssumption DEF Never
  <2>3. task.deadline \in BOOLEAN /\ ~Probed /\ task.state # "Recording"
    BY <1>2, NoTaskFields DEF Probed
  <2> QED BY <2>1, <2>2, <2>3 DEF ClockBehind
<1> QED BY <1>1, <1>3, <1>4 DEF RoomInv

-----------------------------------------------------------------------------
(* At every await the task holds what the room's row says it owns, and it   *)
(* never counts more time offline than has passed since the stream ended.   *)
THEOREM RoomCorrespondence == RoomSpec => []RoomInv
BY RoomInvInit, RoomInvStep, PTL DEF RoomSpec

(* The supervisor changes the store as the store's specification lets it.   *)
THEOREM SupervisorsImplementTheStore == RoomSpec => Spec
<1>1. RoomInit => Init
  BY DEF RoomInit
<1> QED BY <1>1, StoreMoves, RoomCorrespondence, PTL DEF RoomSpec, Spec

(* No transition that the supervisor asks for is refused, so none of them    *)
(* ends the run of all rooms.                                               *)
THEOREM NothingAskedIsRefused == RoomSpec => []TransitionsAreAccepted
<1>1. RoomInv => TransitionsAreAccepted
  <2> SUFFICES ASSUME RoomInv, Lives PROVE TransitionsAreAccepted
    BY DEF TransitionsAreAccepted
  <2>1. ASSUME task.state \in {"Recording", "WaitingReconnect"}
        PROVE  lifecycle[task.active] = "Open" /\ room[TheRoom] = Owned(task.active)
    BY <2>1, RecordsIntoItsOwn DEF Lives
  <2>2. ASSUME task.state \in {"Idle", "Resolving", "Offline"},
               NEW s \in Session, RoomOf[s] = TheRoom
        PROVE  RoomFree(s)
    <3>1. room[TheRoom].phase = "Ready"
      BY <2>2 DEF RoomInv, HoldsItsRoom, Lives
    <3> QED BY <2>2, <3>1, ReadyIsFree DEF RoomInv
  <2> QED BY <2>1, <2>2 DEF TransitionsAreAccepted
<1> QED BY <1>1, RoomCorrespondence, PTL

(* In a run a session is closed only when the stream has been gone for the  *)
(* whole grace period, whatever happened in between.                        *)
THEOREM BreaksAreBridged == RoomSpec => ShortBreaksDoNotEndASession
<1> DEFINE Kept == phase = "Running" =>
                     \A s \in Session : lifecycle[s] = "Open" /\ lifecycle'[s] \in Closed =>
                         dark = Grace
<1>1. RoomInv /\ [RoomNext]_roomVars => [Kept]_roomVars
  <2> SUFFICES ASSUME RoomInv, [RoomNext]_roomVars, phase = "Running", NEW s \in Session,
                      lifecycle[s] = "Open", lifecycle'[s] \in Closed, dark # Grace
               PROVE  FALSE
    OBVIOUS
  <2> USE DEF Closed
  <2>1. CASE UNCHANGED roomVars \/ QuietStep
    BY <2>1, QuietSteps DEF roomVars, vars, storeVars, recordingVars
  <2>2. CASE ProcessStep \/ ProcessDies
    BY <2>2 DEF ProcessStep, ProcessDies, ProcessEnds, Start, ReconcileArtifact, EnterRun,
       OperatorStep, storeVars, recordingVars
  <2>3. ASSUME NEW z \in Session, GoesLive(z) PROVE FALSE
    BY <2>3 DEF GoesLive, CreateSession, SetLifecycle, Exists, RoomInv, RowTypes
  <2>4. ASSUME NEW x \in Slot, RecordFlv(x) PROVE FALSE
    BY <2>4 DEF RecordFlv, OpenSegment, BeginArtifactFinalization, BeginArtifactDiscard,
       BeginArtifact, CompleteArtifactFinalization, CompleteArtifactDiscard, CompleteArtifact
  <2>5. ASSUME NEW x \in Slot, RecordingFails(x) PROVE FALSE
    BY <2>5 DEF RecordingFails, FailArtifact, RequireRecovery, MarkRecoveryRequired,
       SetLifecycle, RoomInv, RowTypes
  <2>6. ASSUME Lives, CloseAfterConfirmedOffline PROVE FALSE
    BY <2>6 DEF CloseAfterConfirmedOffline, RoomInv, ClockBehind
  <2> QED BY <2>1, <2>2, <2>3, <2>4, <2>5, <2>6, RoomSteps
<1>2. RoomSpec => [][Kept]_roomVars
  BY <1>1, RoomCorrespondence, PTL DEF RoomSpec
<1> QED BY <1>2 DEF ShortBreaksDoNotEndASession
=============================================================================
