--------------------------- MODULE ArtifactCommit ---------------------------
(***************************************************************************)
(* The file side of the durable state: src/recorder/artifact_commit.rs, and *)
(* the two callers that open and close a segment's file (src/recorder/      *)
(* mod.rs) and delete it (src/uploader/worker.rs).  A segment owns two      *)
(* names in one directory, part_path and final_path.  A commit makes its    *)
(* intent durable, performs file operations one at a time, and then makes   *)
(* their completion durable; the process, or the machine, may stop between  *)
(* any two of them, any operation may fail, and somebody outside the        *)
(* program may add or remove a file meanwhile.                              *)
(*                                                                         *)
(* The module composes these steps with the store. CommitSpec implements    *)
(* DurableState's Spec: the reconciliation matrix does to the store what    *)
(* DurableState allows, and reaches what it requires before a run starts.   *)
(***************************************************************************)
EXTENDS DurableState

CONSTANT AtomicRename   \* renameat2(NOREPLACE), or hard_link and remove_file

ASSUME AtomicRenameAssumption == AtomicRename \in BOOLEAN

VARIABLES
    dir,        \* segment -> what its two names hold now
    images,     \* segment -> what they may hold after a power loss
    job,        \* segment -> the operations its current commit has left
    todo,       \* segments that startup has not reconciled yet
    decided,    \* segment -> the operator's recorded conflict decision
    outsider    \* segment -> what others did to its files

fileVars == <<dir, images, job, todo, decided, outsider>>
commitVars == <<vars, fileVars>>

-----------------------------------------------------------------------------
(* Files. "Torn": tags not synced yet. "Recording": complete and synced.    *)
(* "Foreign": a regular file of somebody else; "Stray": one that came only  *)
(* when the segment was being deleted. "Other": not a regular file.         *)

Content == {"None", "Torn", "Recording", "Foreign", "Stray", "Other"}
IsRegular(content) == content \in {"Torn", "Recording", "Foreign", "Stray"}
IsFileOrMissing(content) == content = "None" \/ IsRegular(content)

NoFiles == [part |-> "None", final |-> "None"]

Possible_Replace(op, f) ==
    CASE op = "Create"         -> f.part = "None"
      [] op = "RequireNoFinal" -> f.final = "None"
      [] op = "Rename"         -> IsRegular(f.part)
      [] op = "Link"           -> IsRegular(f.part)
      [] op = "Unlink"         -> f.part # "None"
      [] op = "RemovePart"     -> IsFileOrMissing(f.part)
      [] op = "RemoveFinal"    -> IsFileOrMissing(f.final)
      [] op = "Sync"           -> TRUE

(* create_new, require_missing_path, require_regular_file followed by       *)
(* rename_noreplace, remove_regular_file_if_exists and sync_parent.         *)
Possible(op, f) ==
    CASE op = "Create"         -> f.part = "None"
      [] op = "RequireNoFinal" -> f.final = "None"
      [] op = "Rename"         -> IsRegular(f.part) /\ f.final = "None"
      [] op = "Link"           -> IsRegular(f.part) /\ f.final = "None"
      [] op = "Unlink"         -> f.part # "None"
      [] op = "RemovePart"     -> IsFileOrMissing(f.part)
      [] op = "RemoveFinal"    -> IsFileOrMissing(f.final)
      [] op = "Sync"           -> TRUE

Effect(op, f) ==
    CASE op = "Create"                   -> [f EXCEPT !.part = "Torn"]
      [] op = "Rename"                   -> [part |-> "None", final |-> f.part]
      [] op = "Link"                     -> [f EXCEPT !.final = f.part]
      [] op \in {"Unlink", "RemovePart"} -> [f EXCEPT !.part = "None"]
      [] op = "RemoveFinal"              -> [f EXCEPT !.final = "None"]
      [] OTHER                           -> f

RenameOps_LinkOnly == IF AtomicRename THEN <<"Rename">> ELSE <<"Link">>
RenameOps == IF AtomicRename THEN <<"Rename">> ELSE <<"Link", "Unlink">>

(* What is left to do for an intent, given the files. The empty sequence:   *)
(* the intent cannot be carried out with these files.                       *)
Steps_NoSync(art, f) ==
    CASE art = "Finalizing" /\ IsRegular(f.part) /\ f.final = "None" ->
            RenameOps \o <<"Commit">>
      [] art = "Finalizing" /\ f.part = "None" /\ IsRegular(f.final) -> <<"Commit">>
      [] art = "Discarding" /\ IsFileOrMissing(f.part) /\ f.final = "None" ->
            <<"RemovePart", "Commit">>
      [] art = Resolving["KeepPart"] /\ IsRegular(f.part) /\ IsFileOrMissing(f.final) ->
            <<"RemoveFinal", "Sync">> \o RenameOps \o <<"Sync", "Commit">>
      [] art = Resolving["KeepPart"] /\ f.part = "None" /\ IsRegular(f.final) ->
            <<"Sync", "Commit">>
      [] art = Resolving["KeepFinal"] /\ IsFileOrMissing(f.part) /\ IsRegular(f.final) ->
            <<"RemovePart", "Sync", "Commit">>
      [] art = Resolving["Exclude"] -> <<"Commit">>
      [] art = "Deleting" /\ IsFileOrMissing(f.final) -> <<"RemoveFinal", "Commit">>
      [] OTHER -> <<>>

Steps(art, f) ==
    CASE art = "Finalizing" /\ IsRegular(f.part) /\ f.final = "None" ->
            RenameOps \o <<"Sync", "Commit">>
      [] art = "Finalizing" /\ f.part = "None" /\ IsRegular(f.final) ->
            <<"Sync", "Commit">>
      [] art = "Discarding" /\ IsFileOrMissing(f.part) /\ f.final = "None" ->
            <<"RemovePart", "Sync", "Commit">>
      [] art = Resolving["KeepPart"] /\ IsRegular(f.part) /\ IsFileOrMissing(f.final) ->
            <<"RemoveFinal", "Sync">> \o RenameOps \o <<"Sync", "Commit">>
      [] art = Resolving["KeepPart"] /\ f.part = "None" /\ IsRegular(f.final) ->
            <<"Sync", "Commit">>
      [] art = Resolving["KeepFinal"] /\ IsFileOrMissing(f.part) /\ IsRegular(f.final) ->
            <<"RemovePart", "Sync", "Commit">>
      [] art = Resolving["Exclude"] -> <<"Commit">>
      [] art = "Deleting" /\ IsFileOrMissing(f.final) ->
            <<"RemoveFinal", "Sync", "Commit">>
      [] OTHER -> <<>>

(* The recording is nowhere: nothing is left to commit.                     *)
LostFiles(art, f) ==
    /\ art \in {"Finalizing", Resolving["KeepPart"], Resolving["KeepFinal"]}
    /\ f = NoFiles

Resolvable_PartUnchecked(art, decision, f) ==
    /\ art \in {"Finalizing", "Discarding"}
    /\ IsFileOrMissing(f.part) /\ IsRegular(f.final)

(* resolve_conflict: the file matrices an operator may decide about.        *)
Resolvable(art, decision, f) ==
    \/ art = "Finalizing" /\ IsRegular(f.part) /\ IsRegular(f.final)
    \/ /\ art = "Discarding" /\ IsFileOrMissing(f.part) /\ IsRegular(f.final)
       /\ decision = "KeepPart" => f.part # "None"

-----------------------------------------------------------------------------
SetJob(x, ops) == job' = [job EXCEPT ![x] = ops]
Idle(x) == job[x] = <<>>
AllIdle == \A x \in Slot : Idle(x)
SessionIdle(s) == \A x \in SlotsOf(s) : Idle(x) \/ artifact[x] = "Deleting"
NotDeleting == \A x \in Slot : ~Idle(x) => artifact[x] # "Deleting"
AtOp(x, op) == ~Idle(x) /\ Head(job[x]) = op

CommitInit ==
    /\ Init
    /\ dir = [x \in Slot |-> NoFiles]
    /\ images = [x \in Slot |-> {NoFiles}]
    /\ job = [x \in Slot |-> <<>>]
    /\ todo = {}
    /\ decided = [x \in Slot |-> "None"]
    /\ outsider = [x \in Slot |-> {}]

(* One file operation of a commit. Without a sync a later power loss may    *)
(* undo any suffix of the operations on the directory.                      *)
FileStep(x) ==
    /\ ~Idle(x) /\ Head(job[x]) \notin {"Record", "Commit"}
    /\ LET op == Head(job[x])  after == Effect(op, dir[x]) IN
       /\ Possible(op, dir[x])
       /\ dir' = [dir EXCEPT ![x] = after]
       /\ images' = [images EXCEPT ![x] =
                        IF op = "Sync" THEN {dir[x]} ELSE @ \cup {after}]
    /\ SetJob(x, Tail(job[x]))
    /\ UNCHANGED <<vars, todo, decided, outsider>>

(* The completion transition. *)
Commit(x) ==
    /\ AtOp(x, "Commit")
    /\ \/ CompleteArtifactFinalization(x)
       \/ CompleteArtifactDiscard(x)
       \/ CompleteArtifactConflictResolution(x)
       \/ ExcludeArtifactConflict(x)
       \/ CompleteArtifactDelete(x)
    /\ SetJob(x, <<>>)
    /\ UNCHANGED <<phase, dir, images, todo, decided, outsider>>

(* recording_commit_failed and persist_recovery_reason: the intent stays.   *)
RecordingCommitFailed_Silent(x) == UNCHANGED storeVars
RecordingCommitFailed(x) == RequireRecovery(x[1])

(* An operation fails. A recorder fails the segment it could not open or    *)
(* write, a commit of a recording keeps its intent and asks for recovery,   *)
(* and a deletion or an operator's command only reports.                    *)
OperationFails(x) ==
    /\ ~Idle(x) /\ ~AtOp(x, "Commit")
    /\ \/ artifact[x] = "Writing" /\ FailArtifact(x)
       \/ /\ artifact[x] \notin {"Writing", "Deleting"} /\ phase # "Stopped"
          /\ RecordingCommitFailed(x)
       \/ /\ artifact[x] = "Deleting" \/ phase = "Stopped"
          /\ UNCHANGED storeVars
    /\ SetJob(x, <<>>)
    /\ UNCHANGED <<phase, dir, images, todo, decided, outsider>>

-----------------------------------------------------------------------------
(* Startup *)

BeginStartup ==
    /\ AllIdle
    /\ Start
    /\ todo' = {x \in Slot : HasSegment(x)}
    /\ UNCHANGED <<dir, images, job, decided, outsider>>

(* reconcile: each segment once, by its artifact state and its files.       *)
Reconcile(x) ==
    LET art == artifact[x]  ops == Steps(art, dir[x]) IN
    /\ phase = "Reconciling" /\ AllIdle
    /\ x \in todo /\ todo' = todo \ {x}
    /\ SetJob(x, ops)
    /\ \/ art = "Writing" /\ FailArtifact(x)
       \/ art \in UnresolvedIntent /\ LostFiles(art, dir[x]) /\ FailArtifact(x)
       \/ /\ art \in UnresolvedIntent \ {"Writing", "Deleting"}
          /\ ops = <<>> /\ ~LostFiles(art, dir[x])
          /\ RecordingCommitFailed(x)
       \/ ops # <<>> /\ UNCHANGED storeVars
       \/ art \notin UnresolvedIntent \ {"Deleting"} /\ UNCHANGED storeVars
    /\ UNCHANGED <<phase, dir, images, decided, outsider>>

ReconcileRemote ==
    /\ phase = "Reconciling" /\ todo = {} /\ AllIdle
    /\ \/ \E x \in Slot : MarkUploadAmbiguous(x)
       \/ \E s \in Session : MarkSubmissionAmbiguous(s)
    /\ UNCHANGED <<phase, fileVars>>

BeginRun ==
    /\ phase = "Reconciling" /\ todo = {} /\ AllIdle
    /\ NoAttemptInFlight
    /\ phase' = "Running"
    /\ UNCHANGED <<storeVars, fileVars>>

-----------------------------------------------------------------------------
(* Recording. The row is durable before the file exists.                    *)

RecordSegment(x) ==
    /\ phase = "Running" /\ SessionIdle(x[1])
    /\ OpenSegment(x)
    /\ SetJob(x, <<"Create", "Record">>)
    /\ UNCHANGED <<phase, dir, images, todo, decided, outsider>>

(* finalize_current_segment: flush and sync_all, then the intent and its    *)
(* file operations. Syncing a new file also makes its name durable.         *)
SyncPart(x) ==
    IF dir[x].part = "Torn"
    THEN /\ dir' = [dir EXCEPT ![x].part = "Recording"]
         /\ images' = [images EXCEPT ![x] = {[f EXCEPT !.part = "Recording"] : f \in @}]
    ELSE UNCHANGED <<dir, images>>

FinalizeSegment(x) ==
    /\ phase = "Running" /\ AtOp(x, "Record")
    /\ SyncPart(x)
    /\ BeginArtifactFinalization(x)
    /\ SetJob(x, RenameOps \o <<"Sync", "Commit">>)
    /\ UNCHANGED <<phase, todo, decided, outsider>>

DiscardSegment(x) ==
    /\ phase = "Running" /\ AtOp(x, "Record")
    /\ SyncPart(x)
    /\ BeginArtifactDiscard(x)
    /\ SetJob(x, <<"RequireNoFinal", "RemovePart", "Sync", "Commit">>)
    /\ UNCHANGED <<phase, todo, decided, outsider>>

(* The supervisor opens and closes a session while no file of it is open.   *)
SuperviseStep ==
    /\ phase = "Running"
    /\ \E s \in Session :
          /\ SessionIdle(s)
          /\ \/ CreateSession(s)
             \/ lifecycle[s] = "Open" /\ RequireRecovery(s)
             \/ CloseNatural(s)
    /\ UNCHANGED <<phase, fileVars>>

-----------------------------------------------------------------------------
(* The worker and the operator *)

UploadStep ==
    /\ phase = "Running" /\ NotDeleting
    /\ RemoteAttemptStep
    /\ UNCHANGED <<phase, fileVars>>

DeleteSegment(x) ==
    /\ phase = "Running" /\ NotDeleting /\ WorkerIdle
    /\ BeginArtifactDelete(x)
    /\ SetJob(x, <<"RemoveFinal", "Sync", "Commit">>)
    /\ UNCHANGED <<phase, dir, images, todo, decided, outsider>>

(* recover segment: the decision is durable before either file is touched.  *)
ResolveConflict(x, decision) ==
    /\ phase = "Stopped" /\ AllIdle
    /\ Resolvable(artifact[x], decision, dir[x])
    /\ BeginArtifactConflictResolution(x, decision)
    /\ decided' = [decided EXCEPT ![x] = decision]
    /\ SetJob(x, Steps(Resolving[decision], dir[x]))
    /\ UNCHANGED <<phase, dir, images, todo, outsider>>

DecisionStep ==
    /\ phase = "Stopped" /\ AllIdle
    /\ OperatorDecision
    /\ UNCHANGED <<phase, fileVars>>

PassTime == TimePasses /\ UNCHANGED fileVars

-----------------------------------------------------------------------------
(* What may go wrong around the program *)

Stops == phase' = "Stopped" /\ todo' = {} /\ job' = [x \in Slot |-> <<>>]

(* The process ends; its files stay as they are.                            *)
ProcessStops ==
    /\ phase # "Stopped" \/ ~AllIdle
    /\ Stops
    /\ UNCHANGED <<storeVars, dir, images, decided, outsider>>

(* The machine stops; each directory comes back as one of its images.       *)
PowerLoss ==
    /\ phase # "Stopped" \/ ~AllIdle
    /\ Stops
    /\ dir' \in {d \in [Slot -> UNION {images[x] : x \in Slot}] :
                    \A x \in Slot : d[x] \in images[x]}
    /\ images' = [x \in Slot |-> {dir'[x]}]
    /\ UNCHANGED <<storeVars, decided, outsider>>

(* A file appears under the final name, or a file of the segment is taken   *)
(* away, while its recording is in flight: at most once each per segment.   *)
InFlight(x) == artifact[x] \in UnresolvedIntent

Outsider(x, event, after) ==
    /\ InFlight(x) /\ event \notin outsider[x]
    /\ after # dir[x]
    /\ dir' = [dir EXCEPT ![x] = after]
    /\ images' = [images EXCEPT ![x] = @ \cup {after}]
    /\ outsider' = [outsider EXCEPT ![x] = @ \cup {event}]
    /\ UNCHANGED <<vars, job, todo, decided>>

FileAppears(x) ==
    /\ dir[x].final = "None"
    /\ \E content \in {"Other", IF artifact[x] = "Deleting" THEN "Stray" ELSE "Foreign"} :
          Outsider(x, "Appears", [dir[x] EXCEPT !.final = content])

FileTakenAway(x) ==
    \E name \in {"part", "final"} :
        Outsider(x, "TakenAway", [dir[x] EXCEPT ![name] = "None"])

-----------------------------------------------------------------------------
CommitNext ==
    \/ \E x \in Slot :
         \/ FileStep(x)
         \/ Commit(x)
         \/ OperationFails(x)
         \/ Reconcile(x)
         \/ RecordSegment(x)
         \/ FinalizeSegment(x)
         \/ DiscardSegment(x)
         \/ DeleteSegment(x)
         \/ \E decision \in Decision : ResolveConflict(x, decision)
         \/ FileAppears(x)
         \/ FileTakenAway(x)
    \/ BeginStartup
    \/ ReconcileRemote
    \/ BeginRun
    \/ SuperviseStep
    \/ UploadStep
    \/ DecisionStep
    \/ PassTime
    \/ ProcessStops
    \/ PowerLoss

CommitSpec == CommitInit /\ [][CommitNext]_commitVars

(* Startup awaits each of its steps and does nothing else.                  *)
StartupStep ==
    /\ phase = "Reconciling"
    /\ \/ \E x \in Slot : FileStep(x) \/ Commit(x) \/ OperationFails(x) \/ Reconcile(x)
       \/ ReconcileRemote
       \/ BeginRun

FairCommitSpec == CommitSpec /\ WF_commitVars(StartupStep)

-----------------------------------------------------------------------------
Undisturbed(x) == "TakenAway" \notin outsider[x]

(* What Ready promises: the chosen file is under the final name, alone, and *)
(* no power loss can take it back. It is the recording, unless an operator  *)
(* chose the file that was in its way.                                      *)
ReadyIsTheChosenFile ==
    \A x \in Slot : artifact[x] = "Ready" /\ Undisturbed(x) =>
        \A f \in images[x] :
            /\ f.part = "None"
            /\ \/ f.final = "Recording"
               \/ decided[x] = "KeepFinal" /\ "Appears" \in outsider[x] /\ f.final = "Foreign"

(* Between the sync of its file and its completion a recording is never in  *)
(* danger: wherever the commit, its replay or a resolution in favour of it  *)
(* is interrupted, one of the two names holds it.                           *)
RecordingSurvives ==
    \A x \in Slot :
        Undisturbed(x) /\ artifact[x] \in {"Finalizing", Resolving["KeepPart"]} =>
            \A f \in images[x] : "Recording" \in {f.part, f.final}

(* Filtered and Deleted are claims about the disk, too: what was to go is   *)
(* gone for good, be it the recording or the file chosen over it. Only what *)
(* came under the freed name since may be there.                            *)
DisposedIsGone ==
    \A x \in Slot : \A f \in images[x] :
        /\ artifact[x] = "Filtered" => f.part = "None"
        /\ artifact[x] = "Deleted" => f.final \in {"None", "Stray", "Other"}

(* What a commit may do to a file that is not ours. Neither a commit of a   *)
(* recording nor its replay touches it, and what is not a regular file is   *)
(* never touched. A resolution in favour of the part removes the regular    *)
(* file it finds, and so does a deletion, whose replay cannot tell the      *)
(* recording from a stray that came after it; a file that was there before  *)
(* is deleted only where an operator chose it or the recording was taken.   *)
MayRemove(x) ==
    \/ artifact[x] = Resolving["KeepPart"] /\ IsRegular(dir[x].final)
    \/ artifact[x] = "Deleting" /\ dir[x].final = "Stray"
    \/ /\ artifact[x] = "Deleting" /\ dir[x].final = "Foreign"
       /\ decided[x] = "KeepFinal" \/ ~Undisturbed(x)

(* Files of others survive every commit that has no claim to them, however  *)
(* it is interrupted and replayed.                                          *)
ForeignFileSurvives ==
    [][\A x \in Slot :
          dir[x].final \in {"Foreign", "Stray", "Other"} /\ dir'[x].final # dir[x].final =>
              MayRemove(x) \/ FileTakenAway(x) \/ PowerLoss
      ]_commitVars

(* The commits implement the store's specification.                         *)
ImplementsDurableState == Spec

(* Why they do. A commit in progress belongs to a session in which nothing  *)
(* else goes on; startup leaves a segment alone only when a run may start.  *)
CommitStates ==
    [Running     |-> {"Writing", "Finalizing", "Discarding", "Deleting"},
     Reconciling |-> UnresolvedIntent \ {"Writing"},
     Stopped     |-> ResolvingConflict]

Reconciled(x) ==
    /\ artifact[x] # "Writing"
    /\ artifact[x] \in UnresolvedIntent \ {"Deleting"} => lifecycle[x[1]] = "RecoveryRequired"

(* A commit in progress ends with what makes its outcome durable.           *)
CommitOp == {"Create", "Record", "RequireNoFinal", "Rename", "Link", "Unlink",
             "RemovePart", "RemoveFinal", "Sync", "Commit"}

EndsDurably(ops) ==
    /\ ops \in Seq(CommitOp)
    /\ ops # <<>> => ops[Len(ops)] \in {"Record", "Commit"}

CommitInv ==
    /\ job = [x \in Slot |-> job[x]]
    /\ \A x \in Slot : EndsDurably(job[x])
    /\ \A x \in Slot : ~Idle(x) =>
          /\ artifact[x] \in CommitStates[phase]
          /\ phase = "Running" /\ artifact[x] # "Deleting" =>
                /\ lifecycle[x[1]] = "Open"
                /\ \A y \in SlotsOf(x[1]) : Idle(y) \/ artifact[y] = "Deleting" \/ y = x
    /\ phase = "Reconciling" =>
          \A x \in Slot : IF x \in todo THEN Idle(x) ELSE ~Idle(x) \/ Reconciled(x)

(* Reconciliation always gets through, whatever it finds: to a run, unless  *)
(* the process stops.                                                       *)
StartupEnds == phase = "Reconciling" ~> phase # "Reconciling"
=============================================================================
