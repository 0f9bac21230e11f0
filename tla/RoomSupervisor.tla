--------------------------- MODULE RoomSupervisor ---------------------------
(***************************************************************************)
(* A room's supervisor (src/pipeline/supervisor.rs): the state machine that *)
(* polls the platform, opens a session when the room goes live, records,    *)
(* and after a lost stream waits offline_grace_s, probing with exponential  *)
(* backoff, before it closes the session. What it knows is volatile but the *)
(* session it owns, which it takes from the room's row when it starts.      *)
(*                                                                         *)
(* The platform is external: whether the room is on air, and whether it     *)
(* answers. Time is counted in ticks; every await may take any number.      *)
(***************************************************************************)
EXTENDS DurableState

CONSTANTS
    Grace,          \* offline_grace_s
    BaseBackoff,    \* backoff_s
    MaxBackoff,     \* max_backoff_s
    PollInterval,   \* poll_interval_s
    TheRoom         \* the supervised room

ASSUME TimingAssumption ==
    /\ Grace \in Nat /\ PollInterval \in Nat
    /\ BaseBackoff \in Nat \ {0} /\ MaxBackoff \in Nat
ASSUME TheRoomAssumption == TheRoom \in Room

VARIABLES
    task,   \* the supervisor's fields, and the await it is at
    onAir,  \* is the room live?
    dark    \* ticks since the recorder last had the stream, up to Grace

platformVars == <<onAir, dark>>
roomVars == <<vars, task, platformVars>>

RoomState == {"Idle", "Resolving", "Offline", "Recording", "WaitingReconnect", "Failed"}
Never == -1

(* No task. reconnect_attempt matters only until its delay is the maximum.  *)
NoTask == [at |-> "None", state |-> "Idle", active |-> NoSession, sleep |-> 0,
           since |-> Never, attempt |-> 0, probe |-> 0, deadline |-> FALSE]

Least(m, n) == IF m <= n THEN m ELSE n

ReconnectDelay(attempt) ==
    Least(BaseBackoff * 2 ^ (IF attempt = 0 THEN 0 ELSE attempt - 1), MaxBackoff)

Again(attempt) == IF ReconnectDelay(attempt) < MaxBackoff THEN attempt + 1 ELSE attempt

(* What a sleep before the next probe may take: never past the deadline.    *)
ReconnectWait(t) ==
    LET remaining == IF t.since = Never THEN Grace ELSE Grace - t.since IN
    IF remaining = 0 THEN t.probe
    ELSE Least(IF t.probe = 0 THEN ReconnectDelay(t.attempt) ELSE t.probe, remaining)

-----------------------------------------------------------------------------
(* State transitions: apply_transition.                                     *)

OfflineClock_Anew(t) == 0
OfflineClock(t) == IF t.since = Never THEN 0 ELSE t.since

Connected_ClockRuns(t) == [t EXCEPT !.attempt = 0, !.probe = 0]
Connected(t) == [t EXCEPT !.attempt = 0, !.since = Never, !.probe = 0]

Enter(state, session) ==
    IF state = "WaitingReconnect"
    THEN [task EXCEPT !.at = "Loop", !.state = state,
                      !.attempt = Again(@), !.since = OfflineClock(task)]
    ELSE [Connected(task) EXCEPT !.at = "Loop", !.state = state, !.active = session]

Ended == [NoTask EXCEPT !.state = "Failed"]

RoomInit ==
    /\ Init
    /\ task = NoTask
    /\ onAir \in BOOLEAN
    /\ dark = Grace

-----------------------------------------------------------------------------
(* The process around it *)

ProcessStep ==
    /\ \/ Start
       \/ \E x \in Slot : ReconcileArtifact(x)
       \/ EnterRun
       \/ OperatorStep
    /\ UNCHANGED <<task, platformVars>>

ProcessDies == ProcessEnds /\ task' = NoTask /\ UNCHANGED platformVars

(* RoomSupervisor::new                                                      *)
Restored_Idle(row) == [state |-> "Idle", active |-> NoSession]
Restored(row) ==
    CASE row.phase = "Ready" -> [state |-> "Idle", active |-> NoSession]
      [] row.phase = "Owned" -> [state |-> "Recording", active |-> row.session]
      [] row.phase = "Blocked" -> [state |-> "Failed", active |-> NoSession]

Spawn ==
    /\ phase = "Running" /\ task = NoTask
    /\ task' = [NoTask EXCEPT !.at = "Loop",
                              !.state = Restored(room[TheRoom]).state,
                              !.active = Restored(room[TheRoom]).active]
    /\ UNCHANGED <<vars, platformVars>>

-----------------------------------------------------------------------------
(* The loop. A change of state alone takes no time.                         *)

Step(from, to) ==
    /\ task.at = from /\ task' = to
    /\ UNCHANGED <<vars, platformVars>>

SleepFor(ticks) == [task EXCEPT !.at = "Sleep", !.sleep = ticks, !.probe = 0]
Waiting == [task EXCEPT !.since = OfflineClock(task)]

Loop ==
    \/ task.state = "Idle" /\ Step("Loop", Enter("Resolving", NoSession))
    \/ task.state = "Resolving" /\ Step("Loop", [task EXCEPT !.at = "RoomInfo"])
    \/ task.state = "Recording" /\ Step("Loop", [task EXCEPT !.at = "Connect"])
    \/ task.state = "WaitingReconnect" /\ Step("Loop", SleepFor(ReconnectWait(task)))
    \/ task.state = "Failed" /\ Step("Loop", Ended)

(* The deadline is read before the probe is sent.                           *)
WakeUp ==
    /\ task.sleep = 0
    /\ Step("Sleep",
            IF task.state = "Offline" THEN Enter("Idle", NoSession)
            ELSE [Waiting EXCEPT !.at = "RoomInfo", !.deadline = Waiting.since >= Grace])

(* step_resolving                                                           *)
GoesLive(s) ==
    /\ task.state = "Resolving" /\ task.at = "RoomInfo" /\ onAir
    /\ RoomOf[s] = TheRoom
    /\ CreateSession(s)
    /\ task' = Enter("Recording", s)
    /\ UNCHANGED <<phase, platformVars>>

StaysOffline ==
    /\ task.state = "Resolving"
    /\ Step("RoomInfo", [Enter("Offline", NoSession) EXCEPT
                            !.at = "Sleep", !.sleep = PollInterval])

(* step_recording: to the response, through record_flv, to its result.      *)
StreamOpens ==
    /\ task.at = "Connect" /\ onAir
    /\ task' = [task EXCEPT !.at = "Stream"]
    /\ dark' = 0
    /\ UNCHANGED <<vars, onAir>>

StreamRefused == Step("Connect", Enter("WaitingReconnect", task.active))

InFlight(x) == artifact[x] \in {"Writing", "Finalizing", "Discarding"}
AllSettled == \A x \in Slot : x[1] = task.active => ~InFlight(x)

RecordFlv(x) ==
    /\ task.at = "Stream" /\ x[1] = task.active
    /\ \/ AllSettled /\ OpenSegment(x)
       \/ BeginArtifactFinalization(x) \/ CompleteArtifactFinalization(x)
       \/ BeginArtifactDiscard(x) \/ CompleteArtifactDiscard(x)
    /\ UNCHANGED <<phase, task, platformVars>>

StreamEnds == AllSettled /\ Step("Stream", Enter("WaitingReconnect", task.active))

(* A failed segment or commit, or an I/O error between two segments.        *)
RecordingFails(x) ==
    /\ task.at = "Stream" /\ x[1] = task.active
    /\ IF artifact[x] = "Writing" THEN FailArtifact(x) ELSE RequireRecovery(x[1])
    /\ task' = Ended
    /\ UNCHANGED <<phase, platformVars>>

(* step_waiting_reconnect                                                   *)
Probed == task.at = "RoomInfo" /\ task.state = "WaitingReconnect"

ProbeLive == Probed /\ onAir /\ Step("RoomInfo", Enter("Recording", task.active))

ProbeOffline ==
    /\ Probed /\ ~onAir /\ ~task.deadline
    /\ Step("RoomInfo", [task EXCEPT !.at = "Loop", !.attempt = Again(@)])

(* No answer, or an unknown status.                                         *)
ProbeFails ==
    /\ Probed
    /\ Step("RoomInfo",
            [task EXCEPT !.at = "Loop", !.attempt = Again(@),
                         !.probe = ReconnectDelay(Again(task.attempt))])

CloseAfterConfirmedOffline ==
    /\ Probed /\ ~onAir /\ task.deadline
    /\ CloseNatural(task.active)
    /\ task' = IF lifecycle'[task.active] = "RecoveryRequired" THEN Ended
               ELSE Enter("Idle", NoSession)
    /\ UNCHANGED <<phase, platformVars>>

-----------------------------------------------------------------------------
Later(n) == IF n > 0 THEN n - 1 ELSE 0
UpToGrace(n) == IF n < Grace THEN n + 1 ELSE Grace

Tick ==
    /\ task' = [task EXCEPT !.sleep = Later(@), !.probe = Later(@),
                            !.since = IF @ = Never THEN Never ELSE UpToGrace(@)]
    /\ dark' = IF task.at = "Stream" THEN dark ELSE UpToGrace(dark)
    /\ UNCHANGED <<vars, onAir>>

Broadcast == onAir' = ~onAir /\ UNCHANGED <<vars, task, dark>>

Lives == phase = "Running" /\ task.at # "None"

RoomNext ==
    \/ ProcessStep
    \/ ProcessDies
    \/ Spawn
    \/ /\ Lives
       /\ \/ Loop \/ WakeUp
          \/ \E s \in Session : GoesLive(s)
          \/ StaysOffline
          \/ StreamOpens \/ StreamRefused
          \/ \E x \in Slot : RecordFlv(x) \/ RecordingFails(x)
          \/ StreamEnds
          \/ ProbeLive \/ ProbeOffline \/ ProbeFails
          \/ CloseAfterConfirmedOffline
    \/ Tick
    \/ Broadcast

RoomSpec == RoomInit /\ [][RoomNext]_roomVars

(* Fairness: the task is scheduled, time passes, and the platform answers   *)
(* now and then. A stream that has no data ends by its idle timeout.        *)
ProbeAnswered == ProbeLive \/ ProbeOffline \/ CloseAfterConfirmedOffline

FairRoomSpec ==
    /\ RoomSpec
    /\ WF_roomVars(Tick)
    /\ WF_roomVars(Lives /\ (Loop \/ WakeUp))
    /\ WF_roomVars(Lives /\ ~onAir /\ (StreamRefused \/ StreamEnds))
    /\ WF_roomVars(Lives /\ \E x \in Slot : InFlight(x) /\ RecordFlv(x))
    /\ SF_roomVars(Lives /\ ProbeAnswered)

-----------------------------------------------------------------------------
(* The supervisor's memory and the store agree: while it records or waits   *)
(* its session is open and owns the room; while it polls, or sleeps, the    *)
(* room is free. So no transition it asks for is refused: a refusal is a    *)
(* State error, which stops all rooms and not only this one.                *)
TransitionsAreAccepted ==
    Lives =>
        /\ task.state \in {"Recording", "WaitingReconnect"} =>
              lifecycle[task.active] = "Open" /\ room[TheRoom] = Owned(task.active)
        /\ task.state \in {"Idle", "Resolving", "Offline"} =>
              \A s \in Session : RoomOf[s] = TheRoom => RoomFree(s)

(* A broadcast that breaks off is one session as long as the break is       *)
(* shorter than the grace period: the program closes it only when the stream *)
(* has been gone for all of it, however often it was reconnected, lost      *)
(* again, or interrupted by a restart in between.                           *)
ShortBreaksDoNotEndASession ==
    [][phase = "Running" =>
          \A s \in Session : lifecycle[s] = "Open" /\ lifecycle'[s] \in Closed =>
              dark = Grace
      ]_roomVars

(* A broadcast that is over for good is closed, so that it is submitted,    *)
(* also if probes fail for longer than the grace period.                    *)
EndedBroadcastIsClosed ==
    <>[](~onAir /\ Lives) => <>[](\A s \in Session : lifecycle[s] # "Open")
=============================================================================
