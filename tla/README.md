# bilive-rec: specification, model checking and proofs

bilive-rec records live rooms into FLV segments, uploads the segments and publishes each
broadcast as one submission. It runs unattended, is killed and restarted at any moment, and talks
to a platform whose answers get lost. This directory holds TLA+ modules of the parts that make
that safe, TLC configurations that check them on small instances, and TLAPS proofs about them for
every value of the constants. Paths are relative to the repository root, whose crate lives in
`src/`; `PROJECT.json` maps each definition to the lines it models.

## The system

| Component | State | Operations | What is hard, and what makes it correct |
|---|---|---|---|
| Durable rows and transitions (`state/model.rs`, `transitions.rs`, `recovery.rs`) | sessions, rooms, segments (artifact, upload, attempts, resolutions), submissions, target gates | one function per transition, each one redb write transaction | Long sequences of legal calls by supervisor, worker, startup and operator. Room and session rows agree; a closed session is settled; histories are evidence; a blocked target stays resolvable. |
| Store and ownership audit (`state/store.rs`, `ownership.rs`) | the database file | transactions; a check of all rows at startup | Atomicity is redb's. The audit must find nothing the program itself can cause. |
| Artifact commits (`recorder/artifact_commit.rs`) | two names per segment on disk, intents in rows | finalize, discard, delete, resolve_conflict, startup reconcile | Crash or power loss between two file operations; foreign files. A Ready recording is the recording; none is lost; disposed files stay gone. |
| Recorder (`recorder/mod.rs`) and FLV pipeline (`flv*.rs`, `segment.rs`) | the open segment, header caches, pending media group, duplicate history, timestamp offset | a tag in, tags out, rotation, finalize | Headers that change in the middle of a group, groups the server repeats, timestamps that wrap or jump. Each file decodes by itself and its timeline has no gap. |
| Upload worker (`uploader/worker.rs`, `work.rs`, `validation.rs`) | none of its own beside three watch channels | pass, check, claim, remote call, recorded answer, cleanup | Check and claim are separate transactions; answers are lost; work arrives while it decides to stop. |
| Remote boundary (`uploader/types.rs`, `biliup_adapter.rs`) | a login | upload, submit, error classification by stage | A failure is called known only if nothing happened. |
| Inspection (`state/inspection.rs`) | none: a snapshot of rows and files | `status` reports anomalies, each with a next step | No false alarm after a crash, nothing that waits for a person goes unreported, and the advised command is accepted. |
| Run coordinator (`main.rs`), room registry (`pipeline/bootstrap.rs`) | task set, shutdown, barrier and stop-when-idle channels | startup, spawn, prepare rooms, drain, shutdown, recover commands | Tasks start in an order that must not leak: worker before rooms are known; signals race. |
| Room supervisor (`pipeline/supervisor.rs`, `state_machine.rs`) | RoomState, active session, offline clock, reconnect attempt and probe time | poll, open session, record, reconnect, close | Volatile state against durable state, timers against probes and restarts. |
| Platform client (`bilibili/`), configuration, templates, CLI, errors | none that is durable | requests, parsing | I/O and data without state changes. |

Components meet in the store, through transitions only: a supervisor creates, closes and fails
sessions; its recorder opens and commits segments; the worker claims attempts and records answers;
startup repairs; the operator's `recover` commands run while no `run` holds the database. The
other shared state is three watch channels (`shutdown`, `open_sessions_ready`,
`stop_when_idle`) and the files of segments.

## Modules

```
StateModel               row types and predicates              state/model.rs
  StateTransitions       one operator per transition           state/transitions.rs
    DurableState         process life, allowed writers         main.rs, recovery.rs
      DurableDelivery    refines Delivery, what is promised of a broadcast
      OwnershipAudit     refusal and repair of damaged rows    state/ownership.rs
      Inspection         the report on rows and files          state/inspection.rs
      ArtifactCommit     file operations, crashes, power loss  recorder/artifact_commit.rs
        CommitInspection the report on what the commits leave
      UploadWorker       the worker's passes                   uploader/
        RunCoordinator   run: coordinator, rooms and worker    main.rs
      RoomSupervisor     one room with its clocks              pipeline/
RemoteBoundary           replies become recorded outcomes      uploader/biliup_adapter.rs
FlvPipeline              one connection: tags to files         recorder/mod.rs, flv_pipeline.rs
FlvTimestamps            the output clock of a file            recorder/flv_pipeline.rs

DurableState_proofs      types, ownership, closed sessions
  DurableRemote_proofs   rows, attempt histories, resolutions
    DurableGates_proofs  submissions, closure, target gates
      StoreViews_proofs      Delivery, OwnershipAudit and Inspection
      RunCoordinator_proofs  the composed run and its worker
  ArtifactCommit_proofs  the commits, their files and the report on them
  RoomSupervisor_proofs  one room's supervisor
FlvPipeline_proofs       files, and the output clock
MCRemote, MCCommit, MCRun, MCRoom, MCMedia                     instances for TLC
```

* **StateModel** has the rows. A segment row is three variables keyed by slot `<<session, index>>`:
  `artifact`, `upload` (state, attempt it names, whether a retry time has passed) and the attempt
  history with its resolutions; submissions are alike. A gate is Ready, Backoff or Blocked with the
  remote operation that owns it. Attempt ids are positions in the history. Reasons, notes, proofs,
  paths and timestamps are abstracted; a retry time is the Boolean `due`.
* **StateTransitions** translates every function of `transitions.rs` with its preconditions in the
  code's order. A refused transition leaves the store as it is, so a disabled operator is a
  refusal; callers for whom a refusal matters (worker, startup) model it explicitly.
* **DurableState** is the abstract specification: which writer may act when. `phase` is Stopped
  (operator), Reconciling (startup) or Running (recorder, worker), and a process may end at every
  step. It leaves open why a transition is taken.
* **Delivery** is more abstract still: a broadcast is recorded alone in its room, kept or given up,
  sent by one attempt at a time over all broadcasts, unsure until a person decides, published; its
  local recordings go only then. **DurableDelivery** reads a broadcast's stage off the rows
  (`StageOf`, `IsLocal`) and states that DurableState implements it.
* **OwnershipAudit** has `detect_hard_conflicts` and the repairs that follow it, one transaction
  each, on rows this program never writes: those of a reachable store with a session and any rooms
  changed from outside. Sessions of different rooms may need repair at once, so that the audit can
  stop between two repairs.
* **Inspection** has every anomaly of `status` as a set of records with the advised step;
  **CommitInspection** reads the files it looks at from ArtifactCommit's disk. A report changes
  nothing, so both only add definitions. It is read in `Stopped`, as `run` has the database to
  itself.
* **ArtifactCommit** refines DurableState. `dir` is what the two names hold now, `images` what they may hold
  after power is lost, `job` the operations a commit has left. The reconcile matrix is `Steps`, and
  operator decisions on conflicts are durable before their file operations. Files of others may
  appear under the final name at any time a commit is in progress. One that comes after a deletion
  has unlinked the recording is a `"Stray"`: the replay cannot tell it from the recording and
  deletes it, as `ForeignFileSurvives` says.
* **UploadWorker** is one task with the places between which others may act: asleep, uploading,
  claiming, calling, submitting, cleaning. The remote side publishes (`RemotePublishes`)
  independently of whether the answer arrives. `missing` are segments whose file somebody has taken
  away: their check fails in every pass, while `pending_durable_work` still counts them.
* **RemoteBoundary** says how a call of the adapter ends, at which of its stages (login, probe,
  pre-upload, transfer, submission, response) and by which error, and what outcome the adapter makes of that.
  `UploadAnswer` and `SubmissionAnswer` give the outcomes that go with what really happened; the
  worker records those, so a misclassified error shows as a double publication.
* **RunCoordinator** composes the worker, all room supervisors (as the writes they may make), the
  channels and the configuration of each run, in `RunSpec`. A supervisor here may take its
  transitions in any order the store accepts; RoomSupervisor says which of them it takes when.
* **RoomSupervisor** has one supervisor with its memory (`task`), a platform that goes on and off
  air, and ticks. `dark` counts how long the recorder has been without the stream and exists only
  to state properties.
* **FlvPipeline** has the recorder of one connection after another: `recorder` is the FlvRecorder
  with its normalizer and group buffer, `closed` the file it closed last. Handling a tag is one
  step. Each file carries what the properties ask of it: whether every tag so far could be decoded
  (`fits`), the first video tag, and whether a keyframe was dropped before it (`hidden`). `lost`
  says that a keyframe was dropped as a repeat since the last one written: what follows it has lost
  its reference, and may be of other in-band parameter sets than the player has, until the next
  keyframe; it is the price of dropping a group and part of finding 3. Each keyframe carries
  its parameter sets in band or not, as the stream likes, while the recorder believes two that did
  for ever. `sets` says what comes of that: `"Refreshed"` after a changed header was taken over
  without rotation, `"Missed"` when a keyframe of such a header brought no sets of its own. Such a
  keyframe, and what follows it, is the other exception of `TagsFitTheirFile`, and finding 4.
* **FlvTimestamps** has the TimestampNormalizer. The pipeline decides by raw timestamps only and
  never reads the clock's output, hence two modules that MCMedia explores side by side, each while
  the other rests.

## Runs

Twelve, each of a few seconds to two minutes; states are distinct states.

| Run | States | Question |
|---|---|---|
| two_sessions | 44,502 | Two sessions after each other in a room that share a target: ownership, settled closed sessions, a blocked gate reopened by its resolution only and always resolvable, and the store implements Delivery. |
| remote_attempts | 121,793 | Two attempts each of two uploads and a submission in every order of answers, crashes, resolutions, exclusion, abandonment, deletion: closure, histories, no blind retry, submission covers its session; no false alarm in `status`, nothing waits silently, no advice is refused but one. |
| artifact_commit | 30,818 | Every file operation a step, rename as hard link and unlink, crash and power loss between any two: what Ready, Discarded and Deleted promise about the disk, what happens to a foreign file, and which conflicts are reported. |
| startup_reconciliation | 148,916 | Two segments, atomic rename: the commits implement DurableState; startup always gets through; crashes alone raise no alarm about files. |
| publication | 999,361 | Two runs, two parts, two attempts, files that go missing, every reply of the adapter: nothing is published twice, the attempt in flight is the worker's, submission checks stay true at the claim, a drained worker leaves nothing executable. |
| rooms | 84,459 | A later configuration drops the room, alone or with all others: the barrier holds; coordinator and tasks together do only what DurableState allows; a run without rooms drains and ends unless a file it has to upload is missing, a run told to stop ends. |
| room_supervisor | 41,168 | Memory agrees with the store; breaks shorter than the grace period never end a session; a broadcast that is over is closed. Its rows and those of a second room damaged from outside: the audit refuses, or repairs one session after another and may stop in between. |
| media | 210,269 | Headers, keyframes with and without parameter sets, other media in any order, repeats, breaks, failures: a file decodes by itself, but for what follows a keyframe dropped as a repeat or one without its sets after a header taken over, and begins with a keyframe unless a repeat took it; any raw timestamps: no gap, no drift. |
| room_fault | violation | A documented isolation the code does not provide; finding 1. |
| changed_output | violation | A documented promise the code does not keep; finding 2. |
| keyframe | violation | A segment that does not start with its keyframe; finding 3. |
| in_band | violation | A keyframe in a file that does not have its parameter sets; finding 4. |

Each property of a passing run has a mutant in `PROJECT.json`: a plausible bug of the mapped code
(a dropped sync, a refused repair, a retry after an answer that could not be read, a missing
barrier, a group not flushed before a new header) under which TLC finds that property violated. The operators named `X_Something` next to
`X` are these mutants; nothing else uses them.

### Bounds

* `Session`: one or two. Sessions interact only through a room (consecutive owners) or a target;
  two of each suffice to have an earlier and a later, or a blocking and a blocked one.
* `MaxSegments`: one or two per session. Two give a usable with an unusable part, and an upload
  with another still being recorded. `MaxAttempts`: two attempts have a previous and a next; it
  bounds retryable failures and authorised retries.
* `MaxRuns` = 2: what the first run left behind is met by the second. Within these, crashes may
  happen at every step. In DurableState, ArtifactCommit and RoomSupervisor the number of process
  lives is unbounded.
* Files: others add a file, and take one away, at most once each per segment in flight. One of
  each already reaches every cell of the matrix of two names.
* Time: `Grace` = 4 ticks, backoff 1, 2, 3 (its maximum), poll interval 1: several probes fit in a
  grace period, and the maximum is reached within it. `dark` and the offline clock stop at `Grace`.
* Damaged rows: one session's lifecycle and all rooms are replaced by any values, at every state of
  the store. A hard conflict needs two rows to disagree; two sessions of one room and one of another
  (which nothing but the damage touches) reach each of the four kinds, and two mismatched sessions,
  in different rooms, that are repaired one after the other.
* `missing`: the file of any segment that awaits its upload may go and come back any number of
  times.
* Media: three AVC headers, one of which frames NALUs differently, and two AAC headers: a change, a
  change back, and one that in-band parameter sets cannot make harmless. Raw times 0 and 1 with a
  gap of 1 end a group or do not. A group holds up to 2 tags, one fingerprint is remembered and the second repeat in a row
  reconnects; the proofs are for a history of any length, in which a repeat may be of an older group;
  two keyframes with parameter sets are believed, as in the code;
  at most 3 tags are remembered or pending together, which the proofs do without; a file of 2 tags is rotated, an empty one filtered. Headers of
  equal framing are interchangeable, hence the symmetry.
* Clock: 4-bit timestamps, a jump is more than 3, frames of 1 and 2. All raw timestamps may follow
  each other, so both ends of the range are met; the proofs are for any width.
* The MCRun configurations have `CHECK_DEADLOCK FALSE` because after `MaxRuns` runs the system
  rests in Stopped.

### Fairness

* Startup (`StartupStep`, weak): `run_cmd` awaits it and does nothing else.
* Run (`FairRunSpec`, weak): the runtime schedules the worker and the coordinator; a remote call
  is answered, possibly by an error (the adapter sets no timeout of its own: this is assumed of the
  client library); clocks advance. A supervisor ends when it must, on shutdown or when its room is
  blocked, after it has closed its segment. Nothing is assumed of crashes, operators or broadcasts,
  and none is prevented.
* Room (`FairRoomSpec`): time passes and the task is scheduled (weak); a stream of a room that is
  off air ends, by its end or by the idle timeout in `record_flv` (weak); of probes asked again and
  again some are answered (strong). Without the last, a platform that never answers keeps a session
  open, as the code intends.

### Assumptions about the environment

* A redb transaction is atomic and durable. A failing database ends the process.
* `sync_all` on a new file makes its name durable along with its bytes. A power loss undoes a
  suffix of the directory operations made since the last directory sync.
* What the remote side may have done when a call ends at a stage with an error is
  RemoteBoundary's `Creates` and `MayCreate`, which are external: no connection, a rate limit, a
  captcha or a rejection create nothing; a broken connection or an answer that cannot be read may
  hide success. `NoDoublePublication` rests on this and on the adapter's classification, which is
  the code's.
* The adapter returns retryable failures for its target only, so the composed worker never meets
  one of a single item; DurableState allows both.
* Two media groups with one fingerprint are equal: hash collisions are left out. The order of
  headers and media in a stream is arbitrary, but a media tag was encoded with a header the stream
  announced.
* Each frozen target has an uploader (`run_cmd` builds them for all rooms and stored sessions).
* Removing rooms and opening the barrier is one step with the choice of runnable rooms
  (`PrepareRooms`): nothing else in the coordinator happens in between that others could see but
  the worker, whose steps RecoverRemovedRoom interleaves with.

## Proofs

TLAPS checks, for any sets of sessions, rooms, targets, configurations and headers and any bounds:

| Theorem | Statement |
|---|---|
| **DurableState_proofs** | |
| `OwnershipIsExact` | `Spec => []OwnershipExact`: the startup audit has nothing to report |
| `ClosedIsSettled` | `Spec => []ClosedSessionsAreSettled` |
| `ReconciliationIsNeverRefused` | `Spec => []RepairsAccepted`: follows from the two before, so no run checks it |
| **DurableRemote_proofs** | |
| `TypeCorrect` | `Spec => []TypeOK`: types, and no row in flight and no decision names an attempt that was not made |
| `HistoriesMatchTheirRows` | `Spec => []AttemptHistoriesMatch` |
| `NothingIsSentBlindly` | `Spec => []NoBlindRetry` |
| `EvidenceIsKept` | `Spec => HistoryIsAppendOnly` |
| **DurableGates_proofs** | |
| `SubmissionsCoverTheirSession` | `Spec => []SubmissionCoversSession` |
| `ClosureIsTrue` | `Spec => []ClosureTellsTheTruth` |
| `BlockedTargetsAreResolvable` | `Spec => []BlockedGateIsResolvable` |
| `TargetsReopenByResolution` | `Spec => GateReopensOnlyByResolution` |
| **StoreViews_proofs** | |
| `StoreImplementsDelivery` | `Spec => ImplementsDelivery`: the abstract promise of a broadcast |
| `AuditsHeal` | `Spec => []AuditRefusesOrHeals`, for any number of damaged rows |
| `OnlyDamageIsAlarming`, `WaitingIsReported` | `Spec => []AlarmsMeanDamage`, `[]NothingWaitsSilently` |
| **RunCoordinator_proofs** | |
| `RunsImplementTheStore` | `RunSpec => Spec`: all of the above holds of every run of the program |
| `EveryAttemptHasItsCaller` | `RunSpec => []AttemptsAreTheWorkers` |
| `SubmissionsAreClaimedAsChecked` | `RunSpec => []SubmissionChecksStayTrue` |
| `NothingIsPublishedTwice` | `RunSpec => []NoDoublePublication` |
| `OnlyServedRoomsAreUploaded` | `RunSpec => RemovedRoomsAreNotServed` |
| `DrainedWorkersAreDone` | `OutputsStay` implies `RunSpec => []DrainedMeansDone` |
| `OnlyChangedOutputsAreUnserved` | `OutputsStay` implies `RunSpec => []RecordingsWithPlanAreServed`: finding 2 has one cause |
| `OnlyRecoveryStopsTheWorker` | `RunSpec => OnlyRecoveryFailsTheWorker`: finding 1 has one cause |
| **RoomSupervisor_proofs** | |
| `RoomCorrespondence` | `RoomSpec => []RoomInv`: the task's memory agrees with the store |
| `SupervisorsImplementTheStore` | `RoomSpec => Spec` |
| `NothingAskedIsRefused` | `RoomSpec => []TransitionsAreAccepted` |
| `BreaksAreBridged` | `RoomSpec => ShortBreaksDoNotEndASession` |
| **ArtifactCommit_proofs** | |
| `CommitsImplementDurableState` | `CommitSpec => Spec`: the store's theorems hold with files, crashes and power losses |
| `ReadyFilesAreTheChosenOnes` | `CommitSpec => []ReadyIsTheChosenFile` |
| `NoRecordingIsLost` | `CommitSpec => []RecordingSurvives` |
| `DisposedFilesAreGone` | `CommitSpec => []DisposedIsGone` |
| `ForeignFilesAreLeftAlone` | `CommitSpec => ForeignFileSurvives` |
| `ReportsAgreeWithDecisions` | `CommitSpec => []ConflictsAreReportedExactly` |
| `InterruptionsAreNotAlarming` | `CommitSpec => []UndisturbedFilesRaiseNoAlarm` |
| **FlvPipeline_proofs** | |
| `FilesCanBeDecoded` | `PipelineSpec => []TagsFitTheirFile` |
| `FilesBeginWithAKeyframe` | `PipelineSpec => []OnlyARepeatHidesTheKeyframe` |
| `ClockTypeCorrect`, `OffsetIsCorrect` | `ClockSpec => []ClockTypeOK`, `[]OffsetLeadsToWritten` |
| `TimelineIsContinuous`, `TimelineDoesNotDrift` | `ClockSpec => TimelineHasNoGaps`, `SmallStepsAreKept` |

The assumptions are those of the modules on constants (`SessionAssumption`, `PlanAssumption` and
the like); TLC evaluates them in every run. One theorem, `DrainedWorkersAreDone`, has a hypothesis
of its own, discussed below. The invariants that had to be strengthened were model-checked in the
configuration of the run they belong to before they were proved.

### The store

The first lemmas of DurableState_proofs say what each transition does to the rows a property is
about, and that it leaves other rows alone; each step lemma then has one case per writer.
`OwnershipExact` and `ClosedSessionsAreSettled` are inductive together with the types of the
rows (`RowTypes`), because the transitions check room ownership and because `close_session` looks at every segment in
the transaction that closes. They say of a segment in flight that its session is not closed and its
room claimable, which is `RepairsAccepted`.

*Histories.* An upload and a submission keep their attempts alike. `RowMoves` lists what a step may
do to one row with its history and resolutions (begin, finish, be resolved, change state, rest); it
preserves `RowInv`, which adds to `AttemptHistoriesMatch` and `NoBlindRetry` that a row that may send
again rests on a last attempt that allows it. Every transition is then shown to be such a move. A
row can lose its history only when its file is thrown away, and `SentIsUsable` says that such a file
was never sent. `TypeOK` asks beside the types that a row in flight names an attempt of its history,
which `RowInv` gives, and that a decision does, which is preserved because a history only grows.

*Submissions and closure.* `ClosedSessionStays`: nothing happens to a closed session's segments but
the deletion of published files. So neither the verdict nor the parts of a submission change.

*Gates.* `BlockedGateIsResolvable` is not inductive: another session's failure could overwrite a
Blocked gate, or an attempt under way could end behind it. `GatesInv` adds that at most one attempt
is in flight over the whole store, that it is never one of a blocked target, and that
a gate closed by a submission names no segment; each gate move (`GateMoves`) is then closing,
clearing by the owner, consuming or a backoff.

*Delivery.* A submission row exists only once the session is Completed, so that each step moves one
broadcast by one stage. The abstract step that gives up a local recording needs
`SubmissionCoversSession`; the one that sends needs `AtMostOneInFlight`.

*Report and audit.* The anomalies of a reachable row are computed state by state from the
histories' invariant. `AuditsHeal` shows that repairing any subset of the mismatches leaves exactly
the others mismatched and no conflict, so the audit may stop anywhere.

### The run

`RunInv` joins to the store's invariants that only a running process has tasks, that an attempt is
in flight exactly when the worker waits for it, that the sessions listed for submission and the one
about to be claimed still are what was checked, that a published attempt has not been recorded as a
known failure, and that past the barrier every open session has a configured room. The refinement
and the invariant are proved together: the worker may begin an attempt, where `Spec` asks for an idle
worker, because no other attempt is in flight, and this holds because every other task's step is one of
the store. `NoDoublePublication` follows from what the adapter may answer after the video exists
(`AnswersAfterPublication`) and from `NoBlindRetry`.

`DrainedMeansDone` needs that nobody gives a drained worker's session new work. Supervisors go on
recording, so it must be that what they record has no upload plan. `DrainInv` says that the worker
stops only when no running room uploads in this configuration and that an open session with a
plan is of a room some configuration uploads. The hypothesis `OutputsStay` closes the gap between
the two: no configuration turns off the uploads of a room another one uploads. It cannot be
dropped: with the configurations of `changed_output`, which violate it, TLC finds
`DrainedMeansDone` violated, by the situation of finding 2. The configurations of `publication`
satisfy it. Under it `RecordingsWithPlanAreServed` holds too, which `changed_output` refutes: an
output that a later configuration turns off is the only way to finding 2.

`OnlyRecoveryFailsTheWorker` says the same of finding 1: a worker fails only at the claim of a
segment whose session has gone into recovery since the checks. `ChosenInv` adds to `RunInv` what
stands of a checked segment while supervisors act (`ClaimStands`: all but that its session still
permits uploads), and that a session in cleanup is submitted; then `SubmissionCoversSession` gives
that every part of it is skipped or may be deleted. No refused submission and no cleanup ends the
run. This is about the decisions of the code: an I/O error of the database is not modelled.

### Supervisor, commits, media

`RoomInv` relates the supervisor's memory to its room's row at every await, and the clock it keeps to
the time the stream has really been gone, which it never exceeds. Acceptance of what it asks for and
the grace period follow.

The refinement of the commits is not inductive on the store alone: that a completion's transition is
one the abstract store allows depends on who is at work. `CommitInv` says that a commit in progress
belongs to a segment whose state fits the phase, in an open session in which nothing else goes on
(a recorder awaits its commits); that its operations end in the transition that makes their outcome
durable; and that startup leaves behind only segments it has reconciled. `FilesInv` says of every
segment which operations a state may still have before it and what its files then are, now and in
every image a power loss may leave. The statements about what the recorder wrote are for segments
nobody took a file away from (`Calm`), as the properties are. `ForeignFileSurvives` follows from
`FilesInv` by what a commit may have left to do in each state (`MayRemove` names what it may take).

`PipelineInv` says what a pending group is made of (tags of the encoder's last keyframe, the
keyframe first) and what the file must be to take it (`FileAwaits`): that its decoder is what the
encoder works with, unless a keyframe was dropped, or was written without its sets after a header
that was taken over, or is still to come. Once a header has changed
nothing is pending and nothing is written, which is why `queue_media_tag` flushes first. A group is
written by a loop; that its loop invariant holds for every length is proved by a least
counterexample (`LeastNumber`, from well-foundedness of the naturals), which takes the place of
induction.

For the clock, `ClockInv` (type and `OffsetLeadsToWritten`) is inductive. The two step properties
follow from it by arithmetic: within the threshold a tag keeps the offset, so its output differs
from `written` by the raw difference; a jump puts it at most one frame after the latest output; the
clamp at 0 moves the offset to the raw timestamp, which is why the next small step is kept.

### Only model-checked

* Liveness (`StartupEnds`, `DrainEnds`, `ShutdownEnds`, `EndedBroadcastIsClosed`): temporal
  reasoning with fairness is out of the prover's reach. Every other property of a passing run but the next is a
  theorem.
* `AdviceIsAccepted`, whose statement uses ENABLED, and the four violations, each a counterexample
  on a small instance.
* That MCMedia's two halves do not interact: the proofs are of each specification by itself.

## Findings

1. **One room's fault stops all rooms** (`room_fault`). The worker validates a segment
   (`src/uploader/worker.rs:169`) and claims it in a later transaction (line 194). If that room's
   recording fails in between, the session goes to RecoveryRequired, `begin_upload` refuses with a
   State error, the worker returns it, and `process_run_task_result` (`src/main.rs`) makes it a
   global failure. `docs/dev/architecture.md:35` promises that a single room's I/O fault or
   RecoveryRequired ends only that room's task. A submission does not have this
   problem: `SubmissionChecksStayTrue` holds, as nothing moves a session out of Completed.
2. **A session with a frozen plan may have no worker** (`changed_output`). Spawning the worker and
   its stop-when-idle rule look at the current output of rooms and at pending work
   (`src/main.rs:344`, `:472`). A session restored as Open keeps its frozen upload plan
   (`docs/dev/architecture.md:56`), but if its room is now local only, what it still records
   has no worker in this run, against `docs/guide/getting-started.md:73`.
3. **A segment may start without its keyframe** (`keyframe`). A file is opened at a keyframe before
   that keyframe is written (`src/recorder/mod.rs:202`, `:295`): it waits in the media group. A
   group that repeats an earlier one is dropped whole (lines 309-318), and what follows of its group
   of pictures, cut off by a jump of the raw timestamps (`src/recorder/flv_pipeline.rs:279`), is
   written first. `docs/release-article.md:30` and `:34` promise a keyframe first and segments that
   play by themselves. `OnlyARepeatHidesTheKeyframe` shows that this is the only way.
4. **In-band parameter sets are believed for ever** (`in_band`). After two keyframes with SPS and PPS
   the recorder stops looking (`src/recorder/flv_pipeline.rs:167`) and only caches every later
   header of the same framing (lines 100-106). A keyframe without its own sets is then written to
   a file that begins with another header, against `docs/release-article.md:34` (segments that play
   alone). `TagsFitTheirFile` shows that this and finding 3 are the only ways.

Beside these: `status` advises `recover recording` for every Failed segment
(`src/state/inspection.rs:542`), but an abandoned session keeps its Failed segments and is closed,
so that the command is refused for ever, while `docs/reference/cli.md:46` and
`docs/dev/architecture.md:172-173` promise the exact next step. `AdviceIsAccepted` names this as its
one exception; of rows alone there is no other. A Ready segment of a closed session whose file is
missing is reported with the same advice. A Ready segment whose file is gone keeps a draining run
alive until the file is back or somebody stops the run (`DrainEnds` names it as its one exception,
`AwaitsFile`). A deletion that is interrupted after its unlink deletes, when it is replayed, what
has come under the name since (`src/recorder/artifact_commit.rs:300`). A discard that was
interrupted keeps its upload row until the file is gone, which `status` meanwhile calls an invalid
upload state; `AlarmsMeanDamage` names it as its one exception.

Hazards without a property, with the reason, are listed in `PROJECT.json`: among them the reconnect
delay starts over with each short-lived connection, a repetition longer than the deduplicator's
memory is recorded again, and a metadata tag at the parser's limit of entries fails when its file is
closed.

## Not modelled, and why

* FLV and AMF parsing, NALU spans, filler removal, the metadata rewrite and file naming: bytes in,
  bytes out, without concurrency. Their limits that matter to state (rotation, filter) are
  parameters of FlvPipeline.
* The room registry's resolution of URLs to canonical rooms and its refusal of duplicates: one pass
  over a list whose outcome RunCoordinator chooses freely; the retry and Ctrl-C around it are
  modelled there.
* The Bilibili client, login, WBI signing, CDN choice: network I/O; only outcomes are modelled.
* Configuration, templates, the credential document, the command line, error wording: input checking
  and output.
* The schema check of the store, and `ReResolving`, which the code never enters.
* The disk and the worker's passes at once: ArtifactCommit has the one and UploadWorker the other,
  where a file is only there or `missing`. Their product is too large to be explored with the two
  attempts that the other questions of the worker need.

## Plan

Modelled, in this order: StateModel, StateTransitions, DurableState with its first theorems;
ArtifactCommit with its refinement; UploadWorker, RunCoordinator, RoomSupervisor; FlvPipeline and
FlvTimestamps; RemoteBoundary, OwnershipAudit, Inspection; Delivery as the most abstract
specification. Type invariants of all modules but the proved ones, and properties that a deeper
one implies, were dropped in favour of these.

Every safety and step property that a passing run checks is proved, but for `AdviceIsAccepted`, and the most detailed
specifications are each shown to implement DurableState.

Next: a proof that advice is refused only in abandoned sessions, with the guards of the commands
written out in the place of ENABLED; that RoomSupervisor implements the part of RunCoordinator that
stands for it (`RoomStep`); and that every image of the disk leads startup to the state its files
call for.

## Running

In this directory, with TLC and TLAPS: `tlc -config MCPublish.cfg MCRun`, and `tlapm` on each of
the eight modules named `*_proofs.tla`. A proof module takes from seconds to a few minutes. The
proofs use the library's SequenceTheorems and WellFoundedInduction.
