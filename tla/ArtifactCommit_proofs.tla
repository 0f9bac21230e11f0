----------------------- MODULE ArtifactCommit_proofs ------------------------
(***************************************************************************)
(* The file commits implement the durable state: CommitSpec => Spec, and    *)
(* with it every theorem about Spec holds of the program with its files.    *)
(*                                                                         *)
(* The second half is about the files themselves: FilesInv relates what is  *)
(* under the two names of a segment, now and after a power loss, to its row *)
(* and to the operations its commit has left, and every promise of a row    *)
(* about the disk follows from it.                                          *)
(***************************************************************************)
EXTENDS CommitInspection, DurableState_proofs, SequenceTheorems

(* Only an intent that startup carries on with has operations to replay.    *)
LEMMA StepsOfIntents ==
    ASSUME NEW art, NEW f, Steps(art, f) # <<>>
    PROVE  art \in UnresolvedIntent \ {"Writing"}
BY DEF Steps, UnresolvedIntent, ResolvingConflict, Resolving, Decision

LEMMA LostIntents ==
    ASSUME NEW art, NEW f, LostFiles(art, f)
    PROVE  art \in {"Finalizing"} \cup ResolvingConflict
BY DEF LostFiles, ResolvingConflict, Resolving, Decision

LEMMA ReconciledIsReady ==
    ASSUME CommitInv, phase = "Reconciling", todo = {}, AllIdle
    PROVE  ArtifactsReconciled
BY DEF CommitInv, AllIdle, Reconciled, ArtifactsReconciled

-----------------------------------------------------------------------------
(* Every step of the commits is a step of the store or leaves it.           *)
LEMMA CommitImplements ==
    ASSUME RowTypes, CommitInv, [CommitNext]_commitVars
    PROVE  [Next]_vars
<1>1. CASE UNCHANGED commitVars
  BY <1>1 DEF commitVars
<1>2. ASSUME NEW x \in Slot, FileStep(x) \/ FileAppears(x) \/ FileTakenAway(x)
      PROVE  UNCHANGED vars
  BY <1>2 DEF FileStep, FileAppears, FileTakenAway, Outsider
<1>3. ASSUME NEW x \in Slot, Commit(x)
      PROVE  Next
  <2>1. artifact[x] \in CommitStates[phase] /\ ~Idle(x)
        /\ (phase = "Running" /\ artifact[x] # "Deleting" => lifecycle[x[1]] = "Open")
    BY <1>3 DEF Commit, AtOp, CommitInv
  <2>2. phase \in {"Stopped", "Reconciling", "Running"} /\ UNCHANGED phase
    BY <1>3 DEF Commit, RowTypes
  <2>3. CASE phase = "Running"
    <3>1. artifact[x] \in {"Writing", "Finalizing", "Discarding", "Deleting"}
      BY <2>1, <2>3 DEF CommitStates
    <3>2. CASE CompleteArtifactDelete(x)
      BY <2>2, <2>3, <3>2 DEF Next, WorkerStep
    <3>3. CASE CompleteArtifactFinalization(x) \/ CompleteArtifactDiscard(x)
      <4>1. lifecycle[x[1]] = "Open"
        BY <2>1, <2>3, <3>3 DEF CompleteArtifactFinalization, CompleteArtifactDiscard,
           CompleteArtifact
      <4> QED BY <2>2, <2>3, <3>3, <4>1 DEF Next, RecordingStep
    <3>4. ~CompleteArtifactConflictResolution(x) /\ ~ExcludeArtifactConflict(x)
      BY <3>1 DEF CompleteArtifactConflictResolution, ExcludeArtifactConflict,
         CompleteArtifact, Resolving
    <3> QED BY <1>3, <3>2, <3>3, <3>4 DEF Commit
  <2>4. CASE phase = "Reconciling"
    BY <1>3, <2>2, <2>4 DEF Commit, Next, ReconcileArtifact
  <2>5. CASE phase = "Stopped"
    <3>1. artifact[x] \in ResolvingConflict
      BY <2>1, <2>5 DEF CommitStates
    <3>2. ~CompleteArtifactFinalization(x) /\ ~CompleteArtifactDiscard(x)
          /\ ~CompleteArtifactDelete(x)
      BY <3>1 DEF CompleteArtifactFinalization, CompleteArtifactDiscard, CompleteArtifact,
         CompleteArtifactDelete, ResolvingConflict, Resolving, Decision
    <3> QED BY <1>3, <2>2, <2>5, <3>2 DEF Commit, Next, OperatorStep
  <2> QED BY <2>2, <2>3, <2>4, <2>5
<1>4. ASSUME NEW x \in Slot, OperationFails(x)
      PROVE  [Next]_vars
  <2>1. artifact[x] \in CommitStates[phase] /\ UNCHANGED phase
        /\ (phase = "Running" /\ artifact[x] # "Deleting" => lifecycle[x[1]] = "Open")
    BY <1>4 DEF OperationFails, CommitInv
  <2>2. phase \in {"Stopped", "Reconciling", "Running"} /\ x[1] \in Session
    BY SlotParts DEF RowTypes
  <2>3. CASE artifact[x] = "Writing" /\ FailArtifact(x)
    <3>1. phase = "Running"
      BY <2>1, <2>2, <2>3 DEF CommitStates, ResolvingConflict, Resolving, Decision
    <3> QED BY <2>1, <2>3, <3>1 DEF Next, RecordingStep
  <2>4. CASE artifact[x] \notin {"Writing", "Deleting"} /\ phase # "Stopped"
             /\ RequireRecovery(x[1])
    <3>1. CASE phase = "Running"
      BY <2>1, <2>2, <2>4, <3>1 DEF Next, RecordingStep
    <3>2. CASE phase = "Reconciling"
      <4>1. artifact[x] \in {"Finalizing", "Discarding"} \cup ResolvingConflict
        BY <2>1, <2>4, <3>2 DEF CommitStates, UnresolvedIntent
      <4> QED BY <2>1, <2>4, <3>2, <4>1 DEF Next, ReconcileArtifact
    <3> QED BY <2>2, <2>4, <3>1, <3>2
  <2>5. CASE UNCHANGED storeVars
    BY <2>1, <2>5 DEF vars
  <2> QED BY <1>4, <2>3, <2>4, <2>5 DEF OperationFails, RecordingCommitFailed
<1>5. ASSUME NEW x \in Slot, Reconcile(x)
      PROVE  [Next]_vars
  <2>1. phase = "Reconciling" /\ UNCHANGED phase /\ x[1] \in Session
    BY <1>5, SlotParts DEF Reconcile
  <2>2. CASE UNCHANGED storeVars
    BY <2>1, <2>2 DEF vars
  <2>3. CASE FailArtifact(x) /\ artifact[x] \in {"Writing", "Finalizing"} \cup ResolvingConflict
    BY <2>1, <2>3 DEF Next, ReconcileArtifact
  <2>4. CASE artifact[x] \in UnresolvedIntent \ {"Writing", "Deleting"} /\ RequireRecovery(x[1])
    <3>1. artifact[x] \in {"Finalizing", "Discarding"} \cup ResolvingConflict
      BY <2>4 DEF UnresolvedIntent
    <3> QED BY <2>1, <2>4, <3>1 DEF Next, ReconcileArtifact
  <2> QED BY <1>5, <2>2, <2>3, <2>4, LostIntents DEF Reconcile, RecordingCommitFailed
<1>6. ASSUME NEW x \in Slot, RecordSegment(x) \/ FinalizeSegment(x) \/ DiscardSegment(x)
      PROVE  Next
  BY <1>6 DEF RecordSegment, FinalizeSegment, DiscardSegment, Next, RecordingStep
<1>7. ASSUME NEW x \in Slot, DeleteSegment(x)
      PROVE  Next
  BY <1>7 DEF DeleteSegment, Next, WorkerStep
<1>8. ASSUME NEW x \in Slot, NEW d \in Decision, ResolveConflict(x, d)
      PROVE  Next
  BY <1>8 DEF ResolveConflict, Next, OperatorStep
<1>9. CASE BeginStartup
  BY <1>9 DEF BeginStartup, Next
<1>10. CASE ReconcileRemote
  BY <1>10, ReconciledIsReady DEF ReconcileRemote, Next, ReconcileAttempt
<1>11. CASE BeginRun
  BY <1>11, ReconciledIsReady DEF BeginRun, Next, EnterRun, StartupDone
<1>12. CASE SuperviseStep
  BY <1>12 DEF SuperviseStep, Next, RecordingStep
<1>13. CASE UploadStep
  BY <1>13 DEF UploadStep, Next, WorkerStep
<1>14. CASE DecisionStep
  BY <1>14 DEF DecisionStep, Next, OperatorStep
<1>15. CASE PassTime
  BY <1>15 DEF PassTime, Next
<1>16. CASE ProcessStops \/ PowerLoss
  BY <1>16 DEF ProcessStops, PowerLoss, Stops, Next, ProcessEnds, vars
<1> QED
  BY <1>1, <1>2, <1>3, <1>4, <1>5, <1>6, <1>7, <1>8, <1>9, <1>10, <1>11, <1>12,
     <1>13, <1>14, <1>15, <1>16 DEF CommitNext

-----------------------------------------------------------------------------
(* CommitInv is inductive. *)

JobsAreAFunction == job = [x \in Slot |-> job[x]]
JobsEndDurably == JobsAreAFunction /\ \A x \in Slot : EndsDurably(job[x])

LEMMA PrefixEndsDurably ==
    ASSUME NEW pre \in Seq(CommitOp), NEW ops, EndsDurably(ops), ops # <<>>
    PROVE  EndsDurably(pre \o ops) /\ pre \o ops # <<>>
<1>1. ops \in Seq(CommitOp) /\ Len(ops) > 0
  BY DEF EndsDurably, CommitOp
<1>2. /\ pre \o ops \in Seq(CommitOp)
      /\ Len(pre \o ops) = Len(pre) + Len(ops)
      /\ (pre \o ops)[Len(pre) + Len(ops)] = ops[Len(ops)]
  BY <1>1
<1> QED BY <1>1, <1>2 DEF EndsDurably

(* Commits as they are started: nothing to do, or a list that ends durably. *)
LEMMA StartedJobs ==
    /\ EndsDurably(<<>>)
    /\ EndsDurably(<<"Commit">>) /\ EndsDurably(<<"Sync", "Commit">>)
    /\ EndsDurably(<<"Create", "Record">>)
    /\ EndsDurably(<<"RemoveFinal", "Sync", "Commit">>)
    /\ EndsDurably(<<"RemovePart", "Sync", "Commit">>)
    /\ EndsDurably(<<"RequireNoFinal", "RemovePart", "Sync", "Commit">>)
    /\ EndsDurably(RenameOps \o <<"Sync", "Commit">>)
    /\ EndsDurably(<<"RemoveFinal", "Sync">> \o RenameOps \o <<"Sync", "Commit">>)
<1>1. EndsDurably(<<>>)
  BY DEF EndsDurably, CommitOp
<1>2. EndsDurably(<<"Commit">>) /\ EndsDurably(<<"Sync", "Commit">>)
  BY DEF EndsDurably, CommitOp
<1>3. EndsDurably(<<"Create", "Record">>)
  BY DEF EndsDurably, CommitOp
<1>4. EndsDurably(<<"RemoveFinal", "Sync", "Commit">>)
  BY DEF EndsDurably, CommitOp
<1>5. EndsDurably(<<"RemovePart", "Sync", "Commit">>)
  BY DEF EndsDurably, CommitOp
<1>6. EndsDurably(<<"RequireNoFinal", "RemovePart", "Sync", "Commit">>)
  BY DEF EndsDurably, CommitOp
<1>7. RenameOps \in Seq(CommitOp)
  BY DEF RenameOps, CommitOp
<1>8. EndsDurably(RenameOps \o <<"Sync", "Commit">>)
  BY <1>2, <1>7, PrefixEndsDurably
<1>9. EndsDurably((<<"RemoveFinal", "Sync">> \o RenameOps) \o <<"Sync", "Commit">>)
  <2>1. <<"RemoveFinal", "Sync">> \in Seq(CommitOp)
    BY DEF CommitOp
  <2>2. <<"RemoveFinal", "Sync">> \o RenameOps \in Seq(CommitOp)
    BY <1>7, <2>1
  <2> QED BY <1>2, <2>2, PrefixEndsDurably
<1> QED BY <1>1, <1>2, <1>3, <1>4, <1>5, <1>6, <1>8, <1>9

LEMMA StepsEndDurably ==
    ASSUME NEW art, NEW f
    PROVE  EndsDurably(Steps(art, f))
<1> HIDE DEF RenameOps, EndsDurably
<1> QED BY StartedJobs DEF Steps

(* A file operation is never the last of its commit.                        *)
LEMMA TailEndsDurably ==
    ASSUME NEW ops, EndsDurably(ops), ops # <<>>, Head(ops) \notin {"Record", "Commit"}
    PROVE  Tail(ops) # <<>> /\ EndsDurably(Tail(ops))
<1>1. Len(ops) \in Nat /\ Len(ops) > 1 /\ ops \in Seq(CommitOp)
  <2>1. ops \in Seq(CommitOp) /\ ops[Len(ops)] \in {"Record", "Commit"}
    BY DEF EndsDurably
  <2>2. Len(ops) \in Nat /\ Len(ops) # 0
    BY <2>1, EmptySeq
  <2>3. Head(ops) = ops[1]
    BY <2>1, <2>2
  <2>4. Len(ops) # 1
    BY <2>1, <2>3
  <2> QED BY <2>1, <2>2, <2>4
<1>2. Tail(ops) \in Seq(CommitOp) /\ Len(Tail(ops)) = Len(ops) - 1 /\ Len(Tail(ops)) # 0
  <2>1. Tail(ops) \in Seq(CommitOp) /\ Len(Tail(ops)) = Len(ops) - 1
    BY HeadTailProperties DEF EndsDurably
  <2> QED BY <1>1, <2>1
<1>3. Tail(ops)[Len(ops) - 1] = ops[Len(ops)]
  BY <1>1
<1>4. Len(<<>>) = 0
  OBVIOUS
<1>5. Tail(ops) # <<>>
  BY <1>1, <1>2, <1>4, Zenon
<1> QED BY <1>1, <1>2, <1>3, <1>5 DEF EndsDurably

LEMMA JobsOfOne ==
    ASSUME JobsEndDurably, NEW x \in Slot, NEW ops, EndsDurably(ops),
           job' = [job EXCEPT ![x] = ops]
    PROVE  /\ JobsEndDurably'
           /\ job'[x] = ops
           /\ \A y \in Slot : y # x => job'[y] = job[y]
BY DEF JobsEndDurably, JobsAreAFunction

(* Steps that leave every artifact and every session alone and neither      *)
(* start nor end a commit keep it, and so does any step to an idle store    *)
(* that is not in startup.                                                  *)
LEMMA CommitInvUntouched ==
    ASSUME CommitInv, UNCHANGED <<lifecycle, artifact, phase, todo>>,
           JobsEndDurably', \A x \in Slot : Idle(x)' <=> Idle(x)
    PROVE  CommitInv'
<1>1. \A x \in Slot : Reconciled(x)' <=> Reconciled(x)
  BY DEF Reconciled
<1>2. CommitStates' = CommitStates /\ \A x \in Slot : SlotsOf(x[1])' = SlotsOf(x[1])
  BY DEF CommitStates, SlotsOf
<1>3. \A x \in Slot : \A y \in SlotsOf(x[1]) : y \in Slot
  BY SlotParts DEF SlotsOf, Slot
<1> HIDE DEF Idle, SlotsOf, CommitStates, Reconciled
<1> QED BY <1>1, <1>2, <1>3 DEF CommitInv, JobsEndDurably, JobsAreAFunction

LEMMA CommitInvIdle ==
    ASSUME JobsAreAFunction', AllIdle', phase' # "Reconciling"
    PROVE  CommitInv'
<1>1. \A x \in Slot : EndsDurably(job[x])'
  BY StartedJobs DEF AllIdle, Idle
<1> QED BY <1>1 DEF CommitInv, JobsAreAFunction, AllIdle

LEMMA CommitInvEnds ==
    ASSUME CommitInv, NEW x \in Slot, ~Idle(x), job' = [job EXCEPT ![x] = <<>>],
           UNCHANGED <<phase, todo>>,
           \A y \in Slot : y # x => artifact'[y] = artifact[y],
           \A s \in Session : lifecycle'[s] # lifecycle[s] =>
              s = x[1] /\ lifecycle'[s] = "RecoveryRequired" /\ artifact[x] # "Deleting",
           phase = "Reconciling" => Reconciled(x)'
    PROVE  CommitInv'
<1>1. JobsEndDurably' /\ Idle(x)' /\ \A y \in Slot : y # x => (Idle(y)' <=> Idle(y))
  <2>1. JobsEndDurably /\ EndsDurably(<<>>)
    BY StartedJobs DEF CommitInv, JobsEndDurably, JobsAreAFunction
  <2> QED BY <2>1, JobsOfOne DEF Idle
<1>2. ASSUME NEW y \in Slot, ~Idle(y)'
      PROVE  /\ artifact'[y] \in CommitStates'[phase']
             /\ phase' = "Running" /\ artifact'[y] # "Deleting" =>
                   /\ lifecycle'[y[1]] = "Open"
                   /\ \A z \in SlotsOf(y[1])' : Idle(z)' \/ artifact'[z] = "Deleting" \/ z = y
  <2>1. y # x /\ ~Idle(y) /\ artifact'[y] = artifact[y]
    BY <1>1, <1>2
  <2>2. artifact'[y] \in CommitStates'[phase']
    BY <2>1 DEF CommitInv, CommitStates
  <2>3. ASSUME phase' = "Running", artifact'[y] # "Deleting"
        PROVE  lifecycle'[y[1]] = "Open"
    <3>1. lifecycle[y[1]] = "Open" /\ y[1] \in Session
          /\ \A z \in SlotsOf(y[1]) : Idle(z) \/ artifact[z] = "Deleting" \/ z = y
      BY <2>1, <2>3, SlotParts DEF CommitInv
    <3>2. CASE y[1] = x[1] /\ artifact[x] # "Deleting"
      BY <2>1, <3>1, <3>2, SlotParts DEF SlotsOf
    <3> QED BY <3>1, <3>2
  <2>4. ASSUME phase' = "Running", artifact'[y] # "Deleting", NEW z \in SlotsOf(y[1])
        PROVE  Idle(z)' \/ artifact'[z] = "Deleting" \/ z = y
    <3>1. z \in Slot /\ (Idle(z) \/ artifact[z] = "Deleting" \/ z = y)
      BY <2>1, <2>4, SlotParts DEF CommitInv, SlotsOf, Slot
    <3> QED BY <3>1, <1>1
  <2> QED BY <2>2, <2>3, <2>4 DEF SlotsOf
<1>3. ASSUME phase' = "Reconciling", NEW y \in Slot
      PROVE  IF y \in todo' THEN Idle(y)' ELSE ~Idle(y)' \/ Reconciled(y)'
  <2>1. CASE y = x
    BY <1>1, <1>3, <2>1 DEF CommitInv
  <2>2. CASE y # x
    <3>1. IF y \in todo THEN Idle(y) ELSE ~Idle(y) \/ Reconciled(y)
      BY <1>3 DEF CommitInv
    <3>2. Reconciled(y) => Reconciled(y)'
      BY <2>2, SlotParts DEF Reconciled, UnresolvedIntent, ResolvingConflict
    <3> QED BY <1>1, <2>2, <3>1, <3>2
  <2> QED BY <2>1, <2>2
<1> QED BY <1>1, <1>2, <1>3 DEF CommitInv, JobsEndDurably, JobsAreAFunction

(* What a store transition of one segment, or of one session, may do to the *)
(* others.                                                                  *)
OnlySession(s) == \A other \in Session : other # s => lifecycle'[other] = lifecycle[other]
OnlySegment(x) == \A y \in Slot : y # x => artifact'[y] = artifact[y]

LEMMA SegmentSteps ==
    ASSUME RowTypes, NEW x \in Slot
    PROVE  /\ \/ OpenSegment(x) \/ BeginArtifactFinalization(x)
              \/ BeginArtifactDiscard(x) \/ BeginArtifactDelete(x)
              \/ CompleteArtifactFinalization(x) \/ CompleteArtifactDiscard(x)
              \/ CompleteArtifactConflictResolution(x) \/ ExcludeArtifactConflict(x)
              \/ CompleteArtifactDelete(x)
              => OnlySegment(x) /\ UNCHANGED lifecycle
           /\ OpenSegment(x) => lifecycle[x[1]] = "Open" /\ artifact'[x] = "Writing"
           /\ BeginArtifactFinalization(x) =>
                 lifecycle[x[1]] = "Open" /\ artifact'[x] = "Finalizing"
           /\ BeginArtifactDiscard(x) =>
                 lifecycle[x[1]] = "Open" /\ artifact'[x] = "Discarding"
           /\ BeginArtifactDelete(x) =>
                 artifact[x] = "Ready" /\ artifact'[x] = "Deleting"
           /\ CompleteArtifactFinalization(x) \/ CompleteArtifactConflictResolution(x)
              => artifact'[x] = "Ready"
           /\ CompleteArtifactDiscard(x) => artifact'[x] = "Filtered"
           /\ ExcludeArtifactConflict(x) => artifact'[x] = "Excluded"
           /\ CompleteArtifactDelete(x) => artifact'[x] = "Deleted"
<1> USE DEF OnlySegment, SetArtifact, RowTypes
<1>1. OpenSegment(x) => /\ OnlySegment(x) /\ UNCHANGED lifecycle
                        /\ lifecycle[x[1]] = "Open" /\ artifact'[x] = "Writing"
  BY DEF OpenSegment
<1>2. /\ BeginArtifactFinalization(x) =>
            /\ OnlySegment(x) /\ UNCHANGED lifecycle
            /\ lifecycle[x[1]] = "Open" /\ artifact'[x] = "Finalizing"
      /\ BeginArtifactDiscard(x) =>
            /\ OnlySegment(x) /\ UNCHANGED lifecycle
            /\ lifecycle[x[1]] = "Open" /\ artifact'[x] = "Discarding"
  BY DEF BeginArtifactFinalization, BeginArtifactDiscard, BeginArtifact
<1>3. BeginArtifactDelete(x) => /\ OnlySegment(x) /\ UNCHANGED lifecycle
                                /\ artifact[x] = "Ready" /\ artifact'[x] = "Deleting"
  BY DEF BeginArtifactDelete, MayDelete
<1>4. CompleteArtifactFinalization(x) \/ CompleteArtifactConflictResolution(x) =>
         OnlySegment(x) /\ UNCHANGED lifecycle /\ artifact'[x] = "Ready"
  BY DEF CompleteArtifactFinalization, CompleteArtifactConflictResolution, CompleteArtifact
<1>5. CompleteArtifactDiscard(x) =>
         OnlySegment(x) /\ UNCHANGED lifecycle /\ artifact'[x] = "Filtered"
  BY DEF CompleteArtifactDiscard, CompleteArtifact
<1>6. ExcludeArtifactConflict(x) =>
         OnlySegment(x) /\ UNCHANGED lifecycle /\ artifact'[x] = "Excluded"
  BY DEF ExcludeArtifactConflict, CompleteArtifact
<1>7. CompleteArtifactDelete(x) =>
         OnlySegment(x) /\ UNCHANGED lifecycle /\ artifact'[x] = "Deleted"
  BY DEF CompleteArtifactDelete
<1> HIDE DEF OnlySegment
<1> QED BY <1>1, <1>2, <1>3, <1>4, <1>5, <1>6, <1>7

LEMMA FailureSteps ==
    ASSUME RowTypes, NEW x \in Slot
    PROVE  /\ FailArtifact(x) =>
                 /\ OnlySegment(x) /\ OnlySession(x[1])
                 /\ artifact'[x] = "Failed" /\ lifecycle'[x[1]] = "RecoveryRequired"
           /\ RequireRecovery(x[1]) =>
                 /\ UNCHANGED artifact /\ OnlySession(x[1])
                 /\ lifecycle'[x[1]] = "RecoveryRequired"
BY SlotParts DEF OnlySegment, OnlySession, SetArtifact, SetLifecycle, RowTypes, FailArtifact,
   RequireRecovery, MarkRecoveryRequired

(* A running process starts, or carries on with, the commit of one segment. *)
LEMMA CommitInvStarts ==
    ASSUME RowTypes, CommitInv, phase = "Running", UNCHANGED <<phase, lifecycle>>,
           NEW x \in Slot, OnlySegment(x),
           NEW ops, EndsDurably(ops), job' = [job EXCEPT ![x] = ops],
           artifact'[x] \in CommitStates["Running"],
           artifact'[x] # "Deleting" =>
              /\ lifecycle[x[1]] = "Open"
              /\ \A y \in SlotsOf(x[1]) : Idle(y) \/ artifact[y] = "Deleting" \/ y = x
    PROVE  CommitInv'
<1>1. JobsEndDurably' /\ \A y \in Slot : y # x => (Idle(y)' <=> Idle(y))
  BY JobsOfOne DEF CommitInv, JobsEndDurably, JobsAreAFunction, Idle
<1>2. CommitStates' = CommitStates
  BY DEF CommitStates
<1>3. ASSUME NEW y \in Slot, ~Idle(y)'
      PROVE  /\ artifact'[y] \in CommitStates'[phase']
             /\ phase' = "Running" /\ artifact'[y] # "Deleting" =>
                   /\ lifecycle'[y[1]] = "Open"
                   /\ \A z \in SlotsOf(y[1])' : Idle(z)' \/ artifact'[z] = "Deleting" \/ z = y
  <2>1. SlotsOf(y[1])' = SlotsOf(y[1]) /\ \A z \in SlotsOf(y[1]) : z \in Slot /\ z[1] = y[1]
    BY SlotParts DEF SlotsOf, Slot
  <2>2. CASE y = x
    <3>1. \A z \in SlotsOf(x[1]) : z # x => Idle(z)' \/ artifact'[z] = "Deleting" \/
                                              artifact'[x] = "Deleting"
      BY <1>1, <2>1, <2>2 DEF OnlySegment
    <3> QED BY <1>2, <2>1, <2>2, <3>1
  <2>3. CASE y # x
    <3>1. /\ artifact'[y] = artifact[y] /\ artifact[y] \in CommitStates[phase]
          /\ artifact[y] # "Deleting" =>
                /\ lifecycle[y[1]] = "Open"
                /\ \A z \in SlotsOf(y[1]) : Idle(z) \/ artifact[z] = "Deleting" \/ z = y
      BY <1>1, <1>3, <2>3 DEF CommitInv, OnlySegment
    <3>2. ASSUME artifact[y] # "Deleting", NEW z \in SlotsOf(y[1])
          PROVE  Idle(z)' \/ artifact'[z] = "Deleting" \/ z = y
      <4>1. CASE z = x
        <5>1. y \in SlotsOf(x[1]) /\ ~Idle(y)
          BY <1>1, <1>3, <2>1, <2>3, <4>1, SlotParts DEF SlotsOf
        <5> QED BY <3>2, <2>3, <4>1, <5>1
      <4>2. CASE z # x
        BY <1>1, <2>1, <3>1, <3>2, <4>2 DEF OnlySegment
      <4> QED BY <4>1, <4>2
    <3> QED BY <1>2, <2>1, <3>1, <3>2
  <2> QED BY <2>2, <2>3
<1> QED BY <1>1, <1>3 DEF CommitInv, JobsEndDurably, JobsAreAFunction

LEMMA CommitInvStep == RowTypes /\ CommitInv /\ [CommitNext]_commitVars => CommitInv'
<1> SUFFICES ASSUME RowTypes, CommitInv, [CommitNext]_commitVars PROVE CommitInv'
  OBVIOUS
<1> USE StartedJobs
<1>a. JobsEndDurably
  BY DEF CommitInv, JobsEndDurably, JobsAreAFunction
<1>b. phase \in {"Stopped", "Reconciling", "Running"}
  BY DEF RowTypes
<1>c. ASSUME UNCHANGED <<lifecycle, artifact, phase, todo, job>> PROVE CommitInv'
  BY <1>a, <1>c, CommitInvUntouched DEF JobsEndDurably, JobsAreAFunction, Idle
<1>1. CASE UNCHANGED commitVars
  BY <1>1, <1>c DEF commitVars, fileVars, vars, storeVars, recordingVars
<1>2. ASSUME NEW x \in Slot, FileStep(x) PROVE CommitInv'
  <2>1. Tail(job[x]) # <<>> /\ EndsDurably(Tail(job[x])) /\ ~Idle(x)
    BY <1>2, TailEndsDurably DEF FileStep, Idle, CommitInv
  <2>2. JobsEndDurably' /\ \A y \in Slot : Idle(y)' <=> Idle(y)
    BY <1>a, <1>2, <2>1, JobsOfOne DEF FileStep, SetJob, Idle
  <2> QED BY <1>2, <2>2, CommitInvUntouched DEF FileStep, vars, storeVars, recordingVars
<1>3. ASSUME NEW x \in Slot, Commit(x) PROVE CommitInv'
  <2>1. /\ ~Idle(x) /\ job' = [job EXCEPT ![x] = <<>>]
        /\ UNCHANGED <<phase, todo, lifecycle>> /\ OnlySegment(x)
        /\ artifact'[x] \in {"Ready", "Filtered", "Excluded", "Deleted"}
    BY <1>3, SegmentSteps DEF Commit, AtOp, SetJob
  <2>2. Reconciled(x)'
    BY <2>1 DEF Reconciled, UnresolvedIntent, ResolvingConflict, Resolving, Decision
  <2> QED BY <2>1, <2>2, CommitInvEnds DEF OnlySegment
<1>4. ASSUME NEW x \in Slot, OperationFails(x) PROVE CommitInv'
  <2>1. /\ ~Idle(x) /\ job' = [job EXCEPT ![x] = <<>>] /\ UNCHANGED <<phase, todo>>
        /\ artifact[x] \in CommitStates[phase] /\ x[1] \in Session
    BY <1>4, SlotParts DEF OperationFails, SetJob, CommitInv
  <2>2. CASE artifact[x] = "Writing" /\ FailArtifact(x)
    <3>1. phase # "Reconciling"
      BY <2>1, <2>2 DEF CommitStates
    <3> QED BY <2>1, <2>2, <3>1, FailureSteps, CommitInvEnds DEF OnlySegment, OnlySession
  <2>3. CASE artifact[x] \notin {"Writing", "Deleting"} /\ RequireRecovery(x[1])
    <3>1. UNCHANGED artifact /\ OnlySession(x[1]) /\ lifecycle'[x[1]] = "RecoveryRequired"
      BY <2>3, FailureSteps
    <3>2. Reconciled(x)'
      BY <2>3, <3>1 DEF Reconciled
    <3> QED BY <2>1, <2>3, <3>1, <3>2, CommitInvEnds DEF OnlySession
  <2>4. CASE (artifact[x] = "Deleting" \/ phase = "Stopped") /\ UNCHANGED storeVars
    <3>1. UNCHANGED <<lifecycle, artifact>>
      BY <2>4 DEF storeVars, recordingVars
    <3>2. phase = "Reconciling" => Reconciled(x)'
      BY <2>4, <3>1 DEF Reconciled
    <3> QED BY <2>1, <3>1, <3>2, CommitInvEnds
  <2> QED BY <1>4, <2>2, <2>3, <2>4 DEF OperationFails, RecordingCommitFailed
<1>5. ASSUME NEW x \in Slot, Reconcile(x) PROVE CommitInv'
  <2> DEFINE ops == Steps(artifact[x], dir[x])
  <2>1. /\ phase = "Reconciling" /\ phase' = phase /\ AllIdle
        /\ x \in todo /\ todo' = todo \ {x} /\ x[1] \in Session
        /\ job' = [job EXCEPT ![x] = ops] /\ EndsDurably(ops)
    BY <1>5, SlotParts, StepsEndDurably DEF Reconcile, SetJob
  <2>2. JobsEndDurably' /\ job'[x] = ops /\ \A y \in Slot : y # x => Idle(y)'
    BY <1>a, <2>1, JobsOfOne DEF AllIdle, Idle
  <2>3. /\ OnlySegment(x) /\ OnlySession(x[1])
        /\ lifecycle'[x[1]] # lifecycle[x[1]] => lifecycle'[x[1]] = "RecoveryRequired"
        /\ \/ ops = <<>> /\ Reconciled(x)'
           \/ ops # <<>> /\ artifact'[x] \in CommitStates["Reconciling"]
    <3>1. CASE FailArtifact(x) /\ ops = <<>>
      BY <3>1, FailureSteps DEF Reconciled, UnresolvedIntent, ResolvingConflict, Resolving,
         Decision
    <3>2. CASE RequireRecovery(x[1]) /\ ops = <<>> /\ artifact[x] # "Writing"
      <4>1. UNCHANGED artifact /\ OnlySession(x[1])
            /\ lifecycle'[x[1]] = "RecoveryRequired"
        BY <3>2, FailureSteps
      <4> QED BY <3>2, <4>1 DEF Reconciled, OnlySegment
    <3>3. CASE UNCHANGED storeVars
      <4>1. UNCHANGED <<lifecycle, artifact>> /\ OnlySegment(x) /\ OnlySession(x[1])
        BY <3>3 DEF storeVars, recordingVars, OnlySegment, OnlySession
      <4>2. CASE ops # <<>>
        BY <4>1, <4>2, StepsOfIntents DEF CommitStates
      <4>3. CASE ops = <<>>
        <5>1. artifact[x] \notin UnresolvedIntent \ {"Deleting"} \/ FailArtifact(x)
              \/ RequireRecovery(x[1])
          BY <1>5, <4>3 DEF Reconcile, RecordingCommitFailed
        <5>2. FailArtifact(x) \/ RequireRecovery(x[1]) =>
                 lifecycle[x[1]] = "RecoveryRequired"
          BY <4>1, FailureSteps
        <5>3. FailArtifact(x) => artifact[x] = "Failed"
          BY <4>1, FailureSteps
        <5>4. artifact[x] # "Writing" \/ artifact[x] = "Failed"
          BY <1>5, <4>3, <5>3 DEF Reconcile, UnresolvedIntent
        <5> QED BY <4>1, <4>3, <5>1, <5>2, <5>3, <5>4 DEF Reconciled, UnresolvedIntent
      <4> QED BY <4>2, <4>3
    <3>4. artifact[x] = "Writing" \/ LostFiles(artifact[x], dir[x]) => ops = <<>>
      BY DEF Steps, LostFiles, NoFiles, IsRegular, Resolving, Decision
    <3> QED BY <1>5, <3>1, <3>2, <3>3, <3>4 DEF Reconcile, RecordingCommitFailed
  <2>4. ASSUME NEW y \in Slot, ~Idle(y)'
        PROVE  y = x /\ artifact'[y] \in CommitStates["Reconciling"]
    BY <2>2, <2>3, <2>4 DEF Idle
  <2>5. ASSUME NEW y \in Slot
        PROVE  IF y \in todo' THEN Idle(y)' ELSE ~Idle(y)' \/ Reconciled(y)'
    <3>1. CASE y = x
      BY <2>1, <2>2, <2>3, <3>1 DEF Idle
    <3>2. CASE y # x
      <4>1. Idle(y) /\ (y \in todo \/ Reconciled(y))
        BY <2>1 DEF CommitInv, AllIdle
      <4>2. Reconciled(y) => Reconciled(y)'
        BY <2>3, <3>2, SlotParts DEF Reconciled, OnlySegment, OnlySession
      <4> QED BY <2>1, <2>2, <3>2, <4>1, <4>2
    <3> QED BY <3>1, <3>2
  <2>6. CommitStates' = CommitStates
    BY DEF CommitStates
  <2> QED BY <2>1, <2>2, <2>4, <2>5, <2>6 DEF CommitInv, JobsEndDurably, JobsAreAFunction
<1>6. ASSUME NEW x \in Slot, RecordSegment(x) PROVE CommitInv'
  <2>1. OnlySegment(x) /\ UNCHANGED lifecycle /\ lifecycle[x[1]] = "Open"
        /\ artifact'[x] = "Writing"
    BY <1>6, SegmentSteps DEF RecordSegment
  <2>2. "Writing" \in CommitStates["Running"]
    BY DEF CommitStates
  <2> QED BY <1>6, <2>1, <2>2, CommitInvStarts DEF RecordSegment, SetJob, SessionIdle
<1>7. ASSUME NEW x \in Slot, FinalizeSegment(x) \/ DiscardSegment(x) PROVE CommitInv'
  <2>1. phase = "Running" /\ UNCHANGED <<phase, todo>> /\ ~Idle(x) /\ artifact[x] = "Writing"
    BY <1>7 DEF FinalizeSegment, DiscardSegment, AtOp, BeginArtifactFinalization,
       BeginArtifactDiscard, BeginArtifact
  <2>2. OnlySegment(x) /\ UNCHANGED lifecycle /\ lifecycle[x[1]] = "Open"
        /\ artifact'[x] \in {"Finalizing", "Discarding"}
    BY <1>7, SegmentSteps DEF FinalizeSegment, DiscardSegment
  <2>3. {"Finalizing", "Discarding"} \subseteq CommitStates["Running"]
    BY DEF CommitStates
  <2>4. PICK ops : EndsDurably(ops) /\ job' = [job EXCEPT ![x] = ops]
    BY <1>7 DEF FinalizeSegment, DiscardSegment, SetJob
  <2>5. \A y \in SlotsOf(x[1]) : Idle(y) \/ artifact[y] = "Deleting" \/ y = x
    BY <2>1 DEF CommitInv
  <2> QED BY <2>1, <2>2, <2>3, <2>4, <2>5, CommitInvStarts
<1>8. ASSUME NEW x \in Slot, DeleteSegment(x) PROVE CommitInv'
  <2>1. OnlySegment(x) /\ UNCHANGED lifecycle /\ artifact'[x] = "Deleting"
    BY <1>8, SegmentSteps DEF DeleteSegment
  <2>2. "Deleting" \in CommitStates["Running"]
    BY DEF CommitStates
  <2> QED BY <1>8, <2>1, <2>2, CommitInvStarts DEF DeleteSegment, SetJob
<1>9. ASSUME NEW x \in Slot, NEW d \in Decision, ResolveConflict(x, d) PROVE CommitInv'
  <2>1. phase = "Stopped" /\ phase' = phase /\ AllIdle /\ artifact'[x] \in ResolvingConflict
    BY <1>9 DEF ResolveConflict, BeginArtifactConflictResolution, SetArtifact, RowTypes,
       ResolvingConflict
  <2>2. PICK ops : EndsDurably(ops) /\ job' = [job EXCEPT ![x] = ops]
    BY <1>9, StepsEndDurably DEF ResolveConflict, SetJob
  <2>3. JobsEndDurably' /\ \A y \in Slot : y # x => Idle(y)'
    BY <1>a, <2>1, <2>2, JobsOfOne DEF AllIdle, Idle
  <2>4. CommitStates' = CommitStates /\ CommitStates["Stopped"] = ResolvingConflict
    BY DEF CommitStates
  <2> QED BY <2>1, <2>3, <2>4 DEF CommitInv, JobsEndDurably, JobsAreAFunction
<1>10. ASSUME NEW x \in Slot, FileAppears(x) \/ FileTakenAway(x) PROVE CommitInv'
  BY <1>10, <1>c DEF FileAppears, FileTakenAway, Outsider, vars, storeVars, recordingVars
<1>11. CASE BeginStartup
  <2>1. /\ AllIdle /\ AllIdle' /\ phase' = "Reconciling" /\ JobsEndDurably'
        /\ UNCHANGED <<lifecycle, artifact>>
    BY <1>a, <1>11 DEF BeginStartup, Start, AllIdle, Idle, JobsEndDurably, JobsAreAFunction,
       storeVars, recordingVars
  <2>2. \A y \in Slot : y \notin todo' => Reconciled(y)'
    BY <1>11, <2>1 DEF BeginStartup, HasSegment, Reconciled, UnresolvedIntent,
       ResolvingConflict, Resolving, Decision
  <2> QED BY <2>1, <2>2 DEF CommitInv, AllIdle, JobsEndDurably, JobsAreAFunction
<1>12. CASE ReconcileRemote
  BY <1>12, <1>c DEF ReconcileRemote, MarkUploadAmbiguous, MarkSubmissionAmbiguous,
     FinishUpload, FinishSubmission, fileVars, recordingVars
<1>13. CASE BeginRun
  BY <1>a, <1>13, CommitInvIdle DEF BeginRun, fileVars, AllIdle, Idle, JobsEndDurably,
     JobsAreAFunction
<1>14. CASE SuperviseStep
  <2>1. PICK s \in Session : SessionIdle(s) /\ OnlySession(s) /\ UNCHANGED artifact
    BY <1>14 DEF SuperviseStep, CreateSession, RequireRecovery, CloseNatural,
       MarkRecoveryRequired, SetLifecycle, OnlySession, RowTypes
  <2>2. phase = "Running" /\ phase' = phase /\ UNCHANGED job
    BY <1>14 DEF SuperviseStep, fileVars
  <2>3. ASSUME NEW x \in Slot, ~Idle(x), artifact[x] # "Deleting"
        PROVE  lifecycle'[x[1]] = lifecycle[x[1]]
    BY <2>1, <2>3, SlotParts DEF SessionIdle, SlotsOf, OnlySession
  <2>4. /\ \A x \in Slot : Idle(x)' <=> Idle(x)
        /\ \A x \in Slot : \A y \in SlotsOf(x[1]) : y \in Slot
        /\ CommitStates' = CommitStates
    BY <2>2, SlotParts DEF Idle, SlotsOf, Slot, CommitStates
  <2>5. JobsEndDurably'
    BY <1>a, <2>2 DEF JobsEndDurably, JobsAreAFunction
  <2>6. ASSUME NEW x \in Slot, ~Idle(x)'
        PROVE  /\ artifact'[x] \in CommitStates'[phase']
               /\ phase' = "Running" /\ artifact'[x] # "Deleting" =>
                     /\ lifecycle'[x[1]] = "Open"
                     /\ \A y \in SlotsOf(x[1])' : Idle(y)' \/ artifact'[y] = "Deleting" \/ y = x
    BY <2>1, <2>2, <2>3, <2>4, <2>6 DEF CommitInv, SlotsOf
  <2> QED BY <2>2, <2>5, <2>6 DEF CommitInv, JobsEndDurably, JobsAreAFunction
<1>15. CASE UploadStep
  <2>1. UNCHANGED recordingVars
    BY <1>15, RemoteKeepsRecording DEF UploadStep, RemoteAttemptStep, RemoteNext,
       WorkerIdle
  <2> QED BY <1>15, <2>1, <1>c DEF UploadStep, fileVars, recordingVars
<1>16. CASE DecisionStep
  BY <1>a, <1>16, CommitInvIdle DEF DecisionStep, fileVars, AllIdle, Idle, JobsEndDurably,
     JobsAreAFunction
<1>17. CASE PassTime
  <2>1. UNCHANGED recordingVars
    BY <1>17, RemoteKeepsRecording DEF PassTime, TimePasses, RemoteNext
  <2> QED BY <1>17, <2>1, <1>c DEF PassTime, TimePasses, fileVars, recordingVars
<1>18. CASE ProcessStops \/ PowerLoss
  <2>1. AllIdle' /\ JobsAreAFunction' /\ phase' # "Reconciling"
    BY <1>18 DEF ProcessStops, PowerLoss, Stops, AllIdle, Idle, JobsAreAFunction
  <2> QED BY <2>1, CommitInvIdle
<1> QED
  BY <1>1, <1>2, <1>3, <1>4, <1>5, <1>6, <1>7, <1>8, <1>9, <1>10, <1>11, <1>12,
     <1>13, <1>14, <1>15, <1>16, <1>17, <1>18 DEF CommitNext

-----------------------------------------------------------------------------
(* The program with its files implements the specification of its store:    *)
(* wherever the file operations of artifact_commit.rs are interrupted or    *)
(* fail, its completions, failures and requests for recovery are the ones   *)
(* DurableState allows, and startup lets a run begin only with the          *)
(* reconciled state that DurableState demands.                              *)
THEOREM CommitsImplementDurableState == CommitSpec => ImplementsDurableState
<1>1. CommitInit => Init /\ CommitInv
  BY StartedJobs DEF CommitInit, CommitInv, Init, Idle
<1>2. Init => RowTypes
  BY InitType
<1>3. RowTypes /\ CommitInv /\ [CommitNext]_commitVars => [Next]_vars
  BY CommitImplements
<1>4. RowTypes /\ [Next]_vars => RowTypes'
  BY TypeStep
<1>5. RowTypes /\ CommitInv /\ [CommitNext]_commitVars => CommitInv'
  BY CommitInvStep
<1> QED
  BY <1>1, <1>2, <1>3, <1>4, <1>5, PTL DEF CommitSpec, ImplementsDurableState, Spec

-----------------------------------------------------------------------------
(* What the two names of a segment may hold, now and after a power loss.    *)

FileState == [part : {"None", "Torn", "Recording"}, final : Content]

(* What is under a final name that no commit has reached.                   *)
Unclaimed == {"None", "Foreign", "Other"}

(* What each kind of commit may have left to do. *)
Sealing == {<<"Sync", "Commit">>, <<"Commit">>}
Moving ==
    IF AtomicRename THEN {<<"Rename", "Sync", "Commit">>}
    ELSE {<<"Link", "Unlink", "Sync", "Commit">>, <<"Unlink", "Sync", "Commit">>}
Clearing ==
    IF AtomicRename
    THEN {<<"RemoveFinal", "Sync", "Rename", "Sync", "Commit">>,
          <<"Sync", "Rename", "Sync", "Commit">>}
    ELSE {<<"RemoveFinal", "Sync", "Link", "Unlink", "Sync", "Commit">>,
          <<"Sync", "Link", "Unlink", "Sync", "Commit">>}

JobsOf(art) ==
    CASE art = "Writing"              -> {<<"Create", "Record">>, <<"Record">>}
      [] art = "Finalizing"           -> Moving \cup Sealing
      [] art = "Discarding"           ->
            {<<"RequireNoFinal", "RemovePart", "Sync", "Commit">>,
             <<"RemovePart", "Sync", "Commit">>} \cup Sealing
      [] art = "ResolvingKeepPart"    -> Clearing \cup Moving \cup Sealing
      [] art = "ResolvingKeepFinal"   -> {<<"RemovePart", "Sync", "Commit">>} \cup Sealing
      [] art = "ResolvingExclude"     -> {<<"Commit">>}
      [] art = "Deleting"             -> {<<"RemoveFinal", "Sync", "Commit">>} \cup Sealing
      [] OTHER                        -> {}

(* One segment: its operations ops, its files f now and fs after a power    *)
(* loss, the decision d about it, and what others did, o.                   *)
Calm(o) == "TakenAway" \notin o

(* Until a part is renamed or removed, no image is without it.              *)
PartFirst(f, fs) == f.part = "Recording" => \A g \in fs : g.part = "Recording"

Moved(f) == f.part = "None" /\ f.final = "Recording"

(* The recording is under one name or the other.                            *)
Safe(f) == f.final \notin {"Torn", "Stray"} /\ (f.part = "Recording" \/ Moved(f))

(* A commit that has moved the file, and one that has made it durable.      *)
MovedWhenSealed(ops, f, fs) ==
    /\ ops = <<"Unlink", "Sync", "Commit">> => f.part = "Recording" /\ f.final = "Recording"
    /\ ops \in Sealing => Moved(f)
    /\ ops = <<"Commit">> => \A g \in fs : Moved(g)

WritingFiles(ops, f, fs, o) ==
    /\ \A g \in fs : g.part # "Recording" /\ g.final \in Unclaimed
    /\ ops = <<"Record">> /\ Calm(o) => f.part = "Torn"

FinalizingFiles(ops, f, fs, o) ==
    Calm(o) =>
        /\ \A g \in fs : Safe(g) /\ (AtomicRename /\ g.final = "Recording" => Moved(g))
        /\ PartFirst(f, fs) /\ MovedWhenSealed(ops, f, fs)

DiscardingFiles(ops, f, fs, o) ==
    /\ ops \in Sealing => f.part = "None"
    /\ ops = <<"Commit">> => \A g \in fs : g.part = "None"
    /\ Calm(o) =>
          /\ \A g \in fs : g.part # "Torn" /\ g.final \in Unclaimed
          /\ PartFirst(f, fs)

KeepPartFiles(ops, f, fs, o) ==
    Calm(o) =>
        /\ \A g \in fs : Safe(g)
        /\ PartFirst(f, fs) /\ MovedWhenSealed(ops, f, fs)
        /\ ops \in Clearing => f.part = "Recording"

KeepFinalFiles(ops, f, fs, d, o) ==
    /\ d = "KeepFinal"
    /\ Calm(o) =>
          /\ \A g \in fs : g.final \notin {"Torn", "Stray"}
          /\ ops # <<>> => f.final \in {"Recording", "Foreign"}
          /\ ops \in Sealing => f.part = "None"
          /\ ops = <<"Commit">> =>
                \A g \in fs : g.part = "None" /\ g.final \in {"Recording", "Foreign"}

Chosen(g, d, o) ==
    /\ g.part = "None"
    /\ \/ g.final = "Recording"
       \/ d = "KeepFinal" /\ "Appears" \in o /\ g.final = "Foreign"

Gone(g) == g.part = "None" /\ g.final = "None"

(* A final name that was freed, and what may have come there since.         *)
Freed(g) == g.final \in {"None", "Stray", "Other"}

DeletingFiles(ops, f, fs, d, o) ==
    /\ ops \in Sealing => Freed(f)
    /\ ops = <<"Commit">> => \A g \in fs : Freed(g)
    /\ Calm(o) => \A g \in fs : Chosen(g, d, o) \/ (g.part = "None" /\ Freed(g))

FilesOf(art, ops, f, fs, d, o) ==
    /\ art = "Absent" => \A g \in fs : Gone(g)
    /\ art = "Writing" => WritingFiles(ops, f, fs, o)
    /\ art = "Finalizing" => FinalizingFiles(ops, f, fs, o)
    /\ art = "Discarding" => DiscardingFiles(ops, f, fs, o)
    /\ art = "ResolvingKeepPart" => KeepPartFiles(ops, f, fs, o)
    /\ art = "ResolvingKeepFinal" => KeepFinalFiles(ops, f, fs, d, o)
    /\ art = "Ready" => (Calm(o) => \A g \in fs : Chosen(g, d, o))
    /\ art = "Deleting" => DeletingFiles(ops, f, fs, d, o)
    /\ art = "Filtered" => \A g \in fs : g.part = "None" /\ (Calm(o) => g.final \in Unclaimed)
    /\ art = "Deleted" => \A g \in fs : Freed(g) /\ (Calm(o) => g.part = "None")

(* Nothing but an outsider brings such a file under a final name.           *)
Alien == {"Foreign", "Stray", "Other"}

FilesFit(art, ops, f, fs, d, o) ==
    /\ f \in fs
    /\ \A g \in fs : g \in FileState /\ (g.final \in Alien => "Appears" \in o)
    /\ ops # <<>> => ops \in JobsOf(art)
    /\ FilesOf(art, ops, f, fs, d, o)

FilesTypeOK ==
    /\ dir = [x \in Slot |-> dir[x]]
    /\ images = [x \in Slot |-> images[x]]
    /\ job = [x \in Slot |-> job[x]]
    /\ decided = [x \in Slot |-> decided[x]]
    /\ outsider = [x \in Slot |-> outsider[x]]

FilesInv ==
    /\ FilesTypeOK
    /\ \A x \in Slot :
          FilesFit(artifact[x], job[x], dir[x], images[x], decided[x], outsider[x])

-----------------------------------------------------------------------------
(* The operations of a commit on one segment's files. *)

After(op, f, fs) == IF op = "Sync" THEN {f} ELSE fs \cup {Effect(op, f)}

LEMMA EffectFields ==
    ASSUME NEW f \in FileState
    PROVE  /\ f.part \in {"None", "Torn", "Recording"} /\ f.final \in Content
           /\ \A op \in CommitOp : Effect(op, f) \in FileState
           /\ Effect("Create", f).part = "Torn" /\ Effect("Create", f).final = f.final
           /\ Effect("Rename", f).part = "None" /\ Effect("Rename", f).final = f.part
           /\ Effect("Link", f).part = f.part /\ Effect("Link", f).final = f.part
           /\ Effect("Unlink", f).part = "None" /\ Effect("Unlink", f).final = f.final
           /\ Effect("RemovePart", f).part = "None" /\ Effect("RemovePart", f).final = f.final
           /\ Effect("RemoveFinal", f).part = f.part /\ Effect("RemoveFinal", f).final = "None"
           /\ Effect("RequireNoFinal", f) = f /\ Effect("Sync", f) = f
BY DEF FileState, Content, Effect, CommitOp

(* What an operation leaves to do, for each list a commit may have left.    *)
LEMMA LeftAfterOne ==
    /\ Head(<<"Create", "Record">>) = "Create" /\ Tail(<<"Create", "Record">>) = <<"Record">>
    /\ Head(<<"Record">>) = "Record" /\ Head(<<"Commit">>) = "Commit"
    /\ Head(<<"Sync", "Commit">>) = "Sync" /\ Tail(<<"Sync", "Commit">>) = <<"Commit">>
    /\ Head(<<"Unlink", "Sync", "Commit">>) = "Unlink"
    /\ Tail(<<"Unlink", "Sync", "Commit">>) = <<"Sync", "Commit">>
    /\ Head(<<"Rename", "Sync", "Commit">>) = "Rename"
    /\ Tail(<<"Rename", "Sync", "Commit">>) = <<"Sync", "Commit">>
    /\ Head(<<"Link", "Unlink", "Sync", "Commit">>) = "Link"
    /\ Tail(<<"Link", "Unlink", "Sync", "Commit">>) = <<"Unlink", "Sync", "Commit">>
    /\ Head(<<"RemovePart", "Sync", "Commit">>) = "RemovePart"
    /\ Tail(<<"RemovePart", "Sync", "Commit">>) = <<"Sync", "Commit">>
    /\ Head(<<"RemoveFinal", "Sync", "Commit">>) = "RemoveFinal"
    /\ Tail(<<"RemoveFinal", "Sync", "Commit">>) = <<"Sync", "Commit">>
    /\ Head(<<"RequireNoFinal", "RemovePart", "Sync", "Commit">>) = "RequireNoFinal"
    /\ Tail(<<"RequireNoFinal", "RemovePart", "Sync", "Commit">>)
          = <<"RemovePart", "Sync", "Commit">>
    /\ Head(<<"RemoveFinal", "Sync", "Rename", "Sync", "Commit">>) = "RemoveFinal"
    /\ Tail(<<"RemoveFinal", "Sync", "Rename", "Sync", "Commit">>)
          = <<"Sync", "Rename", "Sync", "Commit">>
    /\ Head(<<"Sync", "Rename", "Sync", "Commit">>) = "Sync"
    /\ Tail(<<"Sync", "Rename", "Sync", "Commit">>) = <<"Rename", "Sync", "Commit">>
    /\ Head(<<"RemoveFinal", "Sync", "Link", "Unlink", "Sync", "Commit">>) = "RemoveFinal"
    /\ Tail(<<"RemoveFinal", "Sync", "Link", "Unlink", "Sync", "Commit">>)
          = <<"Sync", "Link", "Unlink", "Sync", "Commit">>
    /\ Head(<<"Sync", "Link", "Unlink", "Sync", "Commit">>) = "Sync"
    /\ Tail(<<"Sync", "Link", "Unlink", "Sync", "Commit">>)
          = <<"Link", "Unlink", "Sync", "Commit">>
OBVIOUS

(* One operation of a commit: the next one that is left, if its files allow *)
(* it.                                                                      *)
OneOperation(ops, f) ==
    ops # <<>> /\ Head(ops) \notin {"Record", "Commit"} /\ Possible(Head(ops), f)

LEMMA FilesOfAnOperation ==
    ASSUME NEW art, NEW ops, NEW f, NEW fs, NEW d, NEW o,
           FilesFit(art, ops, f, fs, d, o), OneOperation(ops, f)
    PROVE  FilesOf(art, Tail(ops), Effect(Head(ops), f), After(Head(ops), f, fs), d, o)
<1> DEFINE op == Head(ops)  left == Tail(ops)  e == Effect(op, f)
<1>f. f \in fs /\ f \in FileState /\ ops \in JobsOf(art) /\ FilesOf(art, ops, f, fs, d, o)
  BY DEF FilesFit, OneOperation
<1>e. /\ Effect("Create", f).part = "Torn" /\ Effect("Create", f).final = f.final
      /\ Effect("Rename", f).part = "None" /\ Effect("Rename", f).final = f.part
      /\ Effect("Link", f).part = f.part /\ Effect("Link", f).final = f.part
      /\ Effect("Unlink", f).part = "None" /\ Effect("Unlink", f).final = f.final
      /\ Effect("RemovePart", f).part = "None" /\ Effect("RemovePart", f).final = f.final
      /\ Effect("RemoveFinal", f).part = f.part /\ Effect("RemoveFinal", f).final = "None"
      /\ Effect("RequireNoFinal", f) = f /\ Effect("Sync", f) = f
  BY <1>f, EffectFields
<1>o. op \notin {"Record", "Commit"} /\ Possible(op, f)
  BY DEF OneOperation
<1> HIDE DEF Effect
<1>1. CASE art = "Writing"
  <2>1. op = "Create" /\ left = <<"Record">>
    BY <1>f, <1>o, <1>1, LeftAfterOne DEF JobsOf
  <2>2. WritingFiles(ops, f, fs, o)
    BY <1>f, <1>1 DEF FilesOf
  <2>3. WritingFiles(left, e, fs \cup {e}, o)
    BY <1>e, <1>f, <2>1, <2>2 DEF WritingFiles
  <2> QED BY <1>1, <2>1, <2>3 DEF FilesOf, After
<1>2. CASE art = "Finalizing"
  <2>1. ops \in Moving \cup Sealing /\ FinalizingFiles(ops, f, fs, o)
    BY <1>f, <1>2 DEF FilesOf, JobsOf
  <2>2. CASE op = "Sync"
    <3>1. ops = <<"Sync", "Commit">> /\ left = <<"Commit">>
      BY <2>1, <2>2, LeftAfterOne DEF Moving, Sealing
    <3> QED BY <1>2, <1>e, <1>f, <2>1, <2>2, <3>1
            DEF FilesOf, After, FinalizingFiles, PartFirst, MovedWhenSealed, Sealing
  <2>3. CASE op = "Rename"
    <3>1. ops = <<"Rename", "Sync", "Commit">> /\ left = <<"Sync", "Commit">>
      BY <2>1, <2>3, LeftAfterOne DEF Moving, Sealing
    <3>2. FinalizingFiles(left, e, fs \cup {e}, o)
      BY <1>e, <1>f, <1>o, <2>1, <2>3, <3>1
         DEF FinalizingFiles, PartFirst, MovedWhenSealed, Sealing, Safe, Moved, Possible, IsRegular
    <3> QED BY <1>2, <2>3, <3>2 DEF FilesOf, After
  <2>4. CASE op = "Link"
    <3>1. ops = <<"Link", "Unlink", "Sync", "Commit">> /\ left = <<"Unlink", "Sync", "Commit">>
          /\ ~AtomicRename
      BY <2>1, <2>4, LeftAfterOne DEF Moving, Sealing
    <3>2. FinalizingFiles(left, e, fs \cup {e}, o)
      BY <1>e, <1>f, <1>o, <2>1, <2>4, <3>1
         DEF FinalizingFiles, PartFirst, MovedWhenSealed, Sealing, Safe, Moved, Possible, IsRegular
    <3> QED BY <1>2, <2>4, <3>2 DEF FilesOf, After
  <2>5. CASE op = "Unlink"
    <3>1. ops = <<"Unlink", "Sync", "Commit">> /\ left = <<"Sync", "Commit">> /\ ~AtomicRename
      BY <2>1, <2>5, LeftAfterOne DEF Moving, Sealing
    <3>2. FinalizingFiles(left, e, fs \cup {e}, o)
      BY <1>e, <1>f, <1>o, <2>1, <2>5, <3>1
         DEF FinalizingFiles, PartFirst, MovedWhenSealed, Sealing, Safe, Moved, Possible, IsRegular
    <3> QED BY <1>2, <2>5, <3>2 DEF FilesOf, After
  <2>6. op \in {"Sync", "Rename", "Link", "Unlink"}
    BY <1>o, <2>1, LeftAfterOne DEF Moving, Sealing
  <2> QED BY <2>2, <2>3, <2>4, <2>5, <2>6
<1>3. CASE art = "Discarding"
  <2>1. /\ ops \in {<<"RequireNoFinal", "RemovePart", "Sync", "Commit">>,
                    <<"RemovePart", "Sync", "Commit">>} \cup Sealing
        /\ DiscardingFiles(ops, f, fs, o)
    BY <1>f, <1>3 DEF FilesOf, JobsOf
  <2>2. CASE op = "Sync"
    <3>1. ops = <<"Sync", "Commit">> /\ left = <<"Commit">>
      BY <2>1, <2>2, LeftAfterOne DEF Sealing
    <3> QED BY <1>3, <1>e, <1>f, <2>1, <2>2, <3>1
            DEF FilesOf, After, DiscardingFiles, PartFirst, Sealing
  <2>3. CASE op = "RequireNoFinal"
    <3>1. ops = <<"RequireNoFinal", "RemovePart", "Sync", "Commit">>
          /\ left = <<"RemovePart", "Sync", "Commit">>
      BY <2>1, <2>3, LeftAfterOne DEF Sealing
    <3> QED BY <1>3, <1>e, <1>f, <2>1, <2>3, <3>1
            DEF FilesOf, After, DiscardingFiles, PartFirst, Sealing
  <2>4. CASE op = "RemovePart"
    <3>1. ops = <<"RemovePart", "Sync", "Commit">> /\ left = <<"Sync", "Commit">>
      BY <2>1, <2>4, LeftAfterOne DEF Sealing
    <3> QED BY <1>3, <1>e, <1>f, <2>1, <2>4, <3>1
            DEF FilesOf, After, DiscardingFiles, PartFirst, Sealing
  <2>5. op \in {"Sync", "RequireNoFinal", "RemovePart"}
    BY <1>o, <2>1, LeftAfterOne DEF Sealing
  <2> QED BY <2>2, <2>3, <2>4, <2>5
<1>4. CASE art = "ResolvingKeepPart"
  <2>1. ops \in Clearing \cup Moving \cup Sealing /\ KeepPartFiles(ops, f, fs, o)
    BY <1>f, <1>4 DEF FilesOf, JobsOf
  <2>2. ASSUME ops \in Sealing PROVE KeepPartFiles(left, e, After(op, f, fs), o)
    <3>1. op = "Sync" /\ ops = <<"Sync", "Commit">> /\ left = <<"Commit">>
      BY <1>o, <2>2, LeftAfterOne DEF Sealing
    <3>2. <<"Commit">> \notin Clearing
      BY DEF Clearing
    <3> QED BY <1>e, <1>f, <2>1, <3>1, <3>2
            DEF After, KeepPartFiles, PartFirst, MovedWhenSealed, Sealing
  <2>3. ASSUME ops \in Moving PROVE KeepPartFiles(left, e, After(op, f, fs), o)
    <3>1. left \notin Clearing
      BY <2>3, LeftAfterOne DEF Clearing, Moving
    <3>2. CASE op = "Rename" /\ left = <<"Sync", "Commit">>
      <4>1. Calm(o) => Moved(e)
        BY <1>e, <1>f, <1>o, <2>1, <3>2 DEF KeepPartFiles, Safe, Moved, Possible, IsRegular
      <4>2. Calm(o) => MovedWhenSealed(left, e, fs \cup {e})
        BY <3>2, <4>1 DEF MovedWhenSealed, Sealing
      <4> QED BY <2>1, <3>1, <3>2, <4>1, <4>2 DEF After, KeepPartFiles, PartFirst, Safe, Moved
    <3>3. CASE op = "Link" /\ left = <<"Unlink", "Sync", "Commit">>
      <4>1. Calm(o) => f.part = "Recording" /\ e.part = "Recording" /\ e.final = "Recording"
        BY <1>e, <1>f, <1>o, <2>1, <3>3 DEF KeepPartFiles, Safe, Moved, Possible, IsRegular
      <4>2. Calm(o) => MovedWhenSealed(left, e, fs \cup {e})
        BY <3>3, <4>1 DEF MovedWhenSealed, Sealing
      <4> QED BY <2>1, <3>1, <3>3, <4>1, <4>2 DEF After, KeepPartFiles, PartFirst, Safe
    <3>4. CASE /\ op = "Unlink" /\ ops = <<"Unlink", "Sync", "Commit">>
               /\ left = <<"Sync", "Commit">>
      BY <1>e, <1>f, <2>1, <3>1, <3>4
         DEF After, KeepPartFiles, PartFirst, MovedWhenSealed, Sealing, Safe, Moved
    <3> QED BY <2>3, <3>2, <3>3, <3>4, LeftAfterOne DEF Moving
  <2>4. ASSUME ops \in Clearing PROVE KeepPartFiles(left, e, After(op, f, fs), o)
    <3>1. left \in Clearing \cup Moving /\ left \notin Sealing
          /\ left # <<"Unlink", "Sync", "Commit">> /\ op \in {"RemoveFinal", "Sync"}
      BY <2>4, LeftAfterOne DEF Clearing, Moving, Sealing
    <3>2. MovedWhenSealed(left, e, After(op, f, fs))
      BY <3>1 DEF Sealing, MovedWhenSealed
    <3>3. Calm(o) => f.part = "Recording" /\ e.part = "Recording" /\ e.final \in {f.final, "None"}
      BY <1>e, <2>1, <2>4, <3>1 DEF KeepPartFiles
    <3>4. Calm(o) => (\A g \in fs : Safe(g) /\ g.part = "Recording") /\ Safe(e)
      BY <1>f, <2>1, <3>3 DEF KeepPartFiles, PartFirst, Safe
    <3> QED BY <1>e, <3>1, <3>2, <3>3, <3>4 DEF After, KeepPartFiles, PartFirst
  <2> QED BY <1>4, <2>1, <2>2, <2>3, <2>4 DEF FilesOf
<1>5. CASE art = "ResolvingKeepFinal"
  <2>1. /\ ops \in {<<"RemovePart", "Sync", "Commit">>} \cup Sealing
        /\ KeepFinalFiles(ops, f, fs, d, o)
    BY <1>f, <1>5 DEF FilesOf, JobsOf
  <2>2. CASE op = "Sync"
    <3>1. ops = <<"Sync", "Commit">> /\ left = <<"Commit">>
      BY <2>1, <2>2, LeftAfterOne DEF Sealing
    <3> QED BY <1>5, <1>e, <1>f, <2>1, <2>2, <3>1
            DEF FilesOf, After, KeepFinalFiles, Sealing
  <2>3. CASE op = "RemovePart"
    <3>1. ops = <<"RemovePart", "Sync", "Commit">> /\ left = <<"Sync", "Commit">>
      BY <2>1, <2>3, LeftAfterOne DEF Sealing
    <3> QED BY <1>5, <1>e, <1>f, <2>1, <2>3, <3>1
            DEF FilesOf, After, KeepFinalFiles, Sealing
  <2>4. op \in {"Sync", "RemovePart"}
    BY <1>o, <2>1, LeftAfterOne DEF Sealing
  <2> QED BY <2>2, <2>3, <2>4
<1>6. CASE art = "Deleting"
  <2>1. /\ ops \in {<<"RemoveFinal", "Sync", "Commit">>} \cup Sealing
        /\ DeletingFiles(ops, f, fs, d, o)
    BY <1>f, <1>6 DEF FilesOf, JobsOf
  <2>2. CASE op = "Sync"
    <3>1. ops = <<"Sync", "Commit">> /\ left = <<"Commit">>
      BY <2>1, <2>2, LeftAfterOne DEF Sealing
    <3> QED BY <1>6, <1>e, <1>f, <2>1, <2>2, <3>1
            DEF FilesOf, After, DeletingFiles, Sealing, Freed
  <2>3. CASE op = "RemoveFinal"
    <3>1. ops = <<"RemoveFinal", "Sync", "Commit">> /\ left = <<"Sync", "Commit">>
      BY <2>1, <2>3, LeftAfterOne DEF Sealing
    <3> QED BY <1>6, <1>e, <1>f, <2>1, <2>3, <3>1
            DEF FilesOf, After, DeletingFiles, Sealing, Chosen, Freed
  <2>4. op \in {"Sync", "RemoveFinal"}
    BY <1>o, <2>1, LeftAfterOne DEF Sealing
  <2> QED BY <2>2, <2>3, <2>4
<1>7. CASE art = "ResolvingExclude"
  BY <1>f, <1>o, <1>7, LeftAfterOne DEF JobsOf
<1> QED
  BY <1>f, <1>1, <1>2, <1>3, <1>4, <1>5, <1>6, <1>7 DEF JobsOf

LEMMA JobsAfterOne ==
    ASSUME NEW art, NEW ops \in JobsOf(art), Head(ops) \notin {"Record", "Commit"}
    PROVE  Tail(ops) \in JobsOf(art) /\ Head(ops) \in CommitOp
<1> USE DEF CommitOp
<1>1. CASE art \in {"Writing", "Discarding", "ResolvingKeepFinal", "Deleting", "ResolvingExclude"}
  BY <1>1, LeftAfterOne DEF JobsOf, Sealing
<1>2. CASE art \in {"Finalizing", "ResolvingKeepPart"}
  BY <1>2, LeftAfterOne DEF JobsOf, Sealing, Moving, Clearing
<1> QED BY <1>1, <1>2 DEF JobsOf

LEMMA OperationFits ==
    ASSUME NEW art, NEW ops, NEW f, NEW fs, NEW d, NEW o,
           FilesFit(art, ops, f, fs, d, o), OneOperation(ops, f)
    PROVE  FilesFit(art, Tail(ops), Effect(Head(ops), f), After(Head(ops), f, fs), d, o)
<1> DEFINE op == Head(ops)  e == Effect(op, f)
<1>1. /\ f \in fs /\ f \in FileState /\ ops \in JobsOf(art)
      /\ \A g \in fs : g \in FileState /\ (g.final \in Alien => "Appears" \in o)
  BY DEF FilesFit, OneOperation
<1>2. Tail(ops) \in JobsOf(art) /\ op \in CommitOp \ {"Record", "Commit"}
  BY <1>1, JobsAfterOne DEF OneOperation
<1>3. e \in FileState /\ e.final \in {f.part, f.final, "None"}
  BY <1>1, <1>2, EffectFields DEF CommitOp
<1>4. f.part \notin Alien /\ "None" \notin Alien
  BY <1>1 DEF FileState, Alien
<1>5. e \in After(op, f, fs)
  BY <1>1, EffectFields DEF After
<1>6. \A g \in After(op, f, fs) :
         g \in FileState /\ (g.final \in Alien => "Appears" \in o)
  BY <1>1, <1>3, <1>4 DEF After
<1> QED BY <1>2, <1>5, <1>6, FilesOfAnOperation DEF FilesFit

(* A commit that is given up, and the process or the machine that stops:    *)
(* what is on disk, or any image of it, fits without operations left.       *)
LEMMA InterruptionFits ==
    ASSUME NEW art, NEW ops, NEW f, NEW fs, NEW d, NEW o, FilesFit(art, ops, f, fs, d, o)
    PROVE  /\ FilesFit(art, <<>>, f, fs, d, o)
           /\ \A g \in fs : FilesFit(art, <<>>, g, {g}, d, o)
<1>1. <<>> \notin Sealing /\ <<>> \notin Clearing /\ <<>> \notin Moving
      /\ <<>> # <<"Record">> /\ <<>> # <<"Commit">> /\ <<>> # <<"Unlink", "Sync", "Commit">>
  BY DEF Sealing, Clearing, Moving
<1>2. ASSUME NEW g \in fs, NEW gs \in SUBSET fs, g \in gs,
             (gs = fs /\ g = f) \/ gs = {g}
      PROVE  FilesFit(art, <<>>, g, gs, d, o)
  <2>1. FilesOf(art, ops, f, fs, d, o) => FilesOf(art, <<>>, g, gs, d, o)
    <3> HIDE DEF Sealing, Clearing, Moving
    <3> QED BY <1>1, <1>2
            DEF FilesOf, WritingFiles, FinalizingFiles, DiscardingFiles, KeepPartFiles,
                KeepFinalFiles, DeletingFiles, PartFirst, MovedWhenSealed
  <2> QED BY <1>2, <2>1 DEF FilesFit
<1>3. f \in fs
  BY DEF FilesFit
<1> QED BY <1>2, <1>3

(* Others add a file under the final name, or take one away.                *)
LEMMA AppearanceFits ==
    ASSUME NEW art \in UnresolvedIntent, NEW ops, NEW f, NEW fs, NEW d, NEW o,
           FilesFit(art, ops, f, fs, d, o), f.final = "None",
           NEW content \in {"Other", IF art = "Deleting" THEN "Stray" ELSE "Foreign"},
           NEW e, e = [f EXCEPT !.final = content]
    PROVE  FilesFit(art, ops, e, fs \cup {e}, d, o \cup {"Appears"})
<1>1. f \in FileState /\ e \in FileState /\ e.part = f.part /\ e.final = content
  BY DEF FilesFit, FileState, Content
<1>2. Calm(o \cup {"Appears"}) <=> Calm(o)
  BY DEF Calm
<1>3. FilesOf(art, ops, e, fs \cup {e}, d, o \cup {"Appears"})
  <2>1. art \in {"Writing", "Finalizing", "Discarding", "Deleting"} \cup ResolvingConflict
    BY DEF UnresolvedIntent
  <2>2. ResolvingConflict = {"ResolvingKeepPart", "ResolvingKeepFinal", "ResolvingExclude"}
    BY DEF ResolvingConflict, Resolving, Decision
  <2>3. CASE art = "Writing"
    BY <1>1, <1>2, <2>3 DEF FilesFit, FilesOf, WritingFiles, Unclaimed
  <2>4. CASE art = "Finalizing"
    BY <1>1, <1>2, <2>4 DEF FilesFit, FilesOf, FinalizingFiles, PartFirst, MovedWhenSealed, Moved,
       Safe
  <2>5. CASE art = "Discarding"
    BY <1>1, <1>2, <2>5 DEF FilesFit, FilesOf, DiscardingFiles, PartFirst, Unclaimed
  <2>6. CASE art = "ResolvingKeepPart"
    BY <1>1, <1>2, <2>6 DEF FilesFit, FilesOf, KeepPartFiles, PartFirst, MovedWhenSealed, Moved,
       Safe
  <2>7. CASE art = "ResolvingKeepFinal"
    BY <1>1, <1>2, <2>7 DEF FilesFit, FilesOf, KeepFinalFiles
  <2>8. CASE art = "ResolvingExclude"
    BY <2>8 DEF FilesOf
  <2>9. CASE art = "Deleting"
    BY <1>1, <1>2, <2>9 DEF FilesFit, FilesOf, DeletingFiles, Chosen, Freed
  <2> QED BY <2>1, <2>2, <2>3, <2>4, <2>5, <2>6, <2>7, <2>8, <2>9
<1> QED BY <1>1, <1>3 DEF FilesFit, Alien

LEMMA TakingFits ==
    ASSUME NEW art \in UnresolvedIntent, NEW ops, NEW f, NEW fs, NEW d, NEW o,
           FilesFit(art, ops, f, fs, d, o),
           NEW name \in {"part", "final"}, NEW e, e = [f EXCEPT ![name] = "None"]
    PROVE  FilesFit(art, ops, e, fs \cup {e}, d, o \cup {"TakenAway"})
<1>1. /\ f \in FileState /\ e \in FileState
      /\ e.part \in {f.part, "None"} /\ e.final \in {f.final, "None"}
  BY DEF FilesFit, FileState, Content
<1>2. ~Calm(o \cup {"TakenAway"})
  BY DEF Calm
<1>3. art \notin {"Absent", "Ready", "Filtered", "Deleted"}
  BY DEF UnresolvedIntent, ResolvingConflict, Resolving, Decision
<1>4. FilesOf(art, ops, e, fs \cup {e}, d, o \cup {"TakenAway"})
  BY <1>1, <1>2, <1>3 DEF FilesFit, FilesOf, WritingFiles, FinalizingFiles, DiscardingFiles,
     KeepPartFiles, KeepFinalFiles, DeletingFiles, Freed, Unclaimed
<1>5. "None" \notin Alien
  BY DEF Alien
<1> QED BY <1>1, <1>4, <1>5 DEF FilesFit

(* A commit that is started or carried on: what Steps leaves to do.         *)
LEMMA Join12 ==
    ASSUME NEW a \in CommitOp, NEW b \in CommitOp, NEW c \in CommitOp
    PROVE  <<a>> \o <<b, c>> = <<a, b, c>>
<1> DEFINE s == <<a>> \o <<b, c>>  t == <<a, b, c>>
<1>1. s \in Seq(CommitOp) /\ t \in Seq(CommitOp) /\ Len(s) = 3 /\ Len(t) = 3
  OBVIOUS
<1>2. s[1] = t[1] /\ s[2] = t[2] /\ s[3] = t[3]
  OBVIOUS
<1> HIDE DEF s, t
<1>3. \A i \in 1 .. Len(s) : s[i] = t[i]
  BY <1>1, <1>2
<1>4. s = t
  BY <1>1, <1>3, SeqEqual
<1> QED BY <1>4 DEF s, t

LEMMA Join21 ==
    ASSUME NEW a \in CommitOp, NEW b \in CommitOp, NEW c \in CommitOp
    PROVE  <<a, b>> \o <<c>> = <<a, b, c>>
<1> DEFINE s == <<a, b>> \o <<c>>  t == <<a, b, c>>
<1>1. s \in Seq(CommitOp) /\ t \in Seq(CommitOp) /\ Len(s) = 3 /\ Len(t) = 3
  OBVIOUS
<1>2. s[1] = t[1] /\ s[2] = t[2] /\ s[3] = t[3]
  OBVIOUS
<1> HIDE DEF s, t
<1>3. \A i \in 1 .. Len(s) : s[i] = t[i]
  BY <1>1, <1>2
<1>4. s = t
  BY <1>1, <1>3, SeqEqual
<1> QED BY <1>4 DEF s, t

LEMMA Join32 ==
    ASSUME NEW a \in CommitOp, NEW b \in CommitOp, NEW c \in CommitOp
    PROVE  <<a, b, c>> \o <<"Sync", "Commit">> = <<a, b, c, "Sync", "Commit">>
<1> DEFINE s == <<a, b, c>> \o <<"Sync", "Commit">>  t == <<a, b, c, "Sync", "Commit">>
<1>1. s \in Seq(CommitOp) /\ t \in Seq(CommitOp) /\ Len(s) = 5 /\ Len(t) = 5
  BY DEF CommitOp
<1>2. s[1] = t[1] /\ s[2] = t[2] /\ s[3] = t[3] /\ s[4] = t[4] /\ s[5] = t[5]
  OBVIOUS
<1> HIDE DEF s, t
<1>3. \A i \in 1 .. Len(s) : s[i] = t[i]
  BY <1>1, <1>2
<1>4. s = t
  BY <1>1, <1>3, SeqEqual
<1> QED BY <1>4 DEF s, t

LEMMA Join22 ==
    ASSUME NEW a \in CommitOp, NEW b \in CommitOp, NEW c \in CommitOp,
           NEW d \in CommitOp
    PROVE  <<a, b>> \o <<c, d>> = <<a, b, c, d>>
<1> DEFINE s == <<a, b>> \o <<c, d>>  t == <<a, b, c, d>>
<1>1. s \in Seq(CommitOp) /\ t \in Seq(CommitOp) /\ Len(s) = 4 /\ Len(t) = 4
  OBVIOUS
<1>2. s[1] = t[1] /\ s[2] = t[2] /\ s[3] = t[3] /\ s[4] = t[4]
  OBVIOUS
<1> HIDE DEF s, t
<1>3. \A i \in 1 .. Len(s) : s[i] = t[i]
  BY <1>1, <1>2
<1>4. s = t
  BY <1>1, <1>3, SeqEqual
<1> QED BY <1>4 DEF s, t

LEMMA Join42 ==
    ASSUME NEW a \in CommitOp, NEW b \in CommitOp, NEW c \in CommitOp,
           NEW d \in CommitOp
    PROVE  <<a, b, c, d>> \o <<"Sync", "Commit">> = <<a, b, c, d, "Sync", "Commit">>
<1> DEFINE s == <<a, b, c, d>> \o <<"Sync", "Commit">>
           t == <<a, b, c, d, "Sync", "Commit">>
<1>1. s \in Seq(CommitOp) /\ t \in Seq(CommitOp) /\ Len(s) = 6 /\ Len(t) = 6
  BY DEF CommitOp
<1>2. s[1] = t[1] /\ s[2] = t[2] /\ s[3] = t[3] /\ s[4] = t[4] /\ s[5] = t[5] /\ s[6] = t[6]
  OBVIOUS
<1> HIDE DEF s, t
<1>3. \A i \in 1 .. Len(s) : s[i] = t[i]
  BY <1>1, <1>2
<1>4. s = t
  BY <1>1, <1>3, SeqEqual
<1> QED BY <1>4 DEF s, t

LEMMA RenamesOf ==
    /\ RenameOps \o <<"Sync", "Commit">> \in Moving
    /\ RenameOps \o <<"Sync", "Commit">> # <<"Unlink", "Sync", "Commit">>
    /\ <<"RemoveFinal", "Sync">> \o RenameOps \o <<"Sync", "Commit">> \in Clearing
<1>a. {"RemoveFinal", "Sync", "Rename", "Link", "Unlink", "Commit"} \subseteq CommitOp
  BY DEF CommitOp
<1>b. /\ "RemoveFinal" \in CommitOp /\ "Sync" \in CommitOp /\ "Rename" \in CommitOp
      /\ "Link" \in CommitOp /\ "Unlink" \in CommitOp /\ "Commit" \in CommitOp
  BY <1>a
<1>1. <<"Rename">> \o <<"Sync", "Commit">> = <<"Rename", "Sync", "Commit">>
  BY <1>b, Join12, Zenon
<1>2. <<"RemoveFinal", "Sync">> \o <<"Rename">> = <<"RemoveFinal", "Sync", "Rename">>
  BY <1>b, Join21, Zenon
<1>3. <<"RemoveFinal", "Sync", "Rename">> \o <<"Sync", "Commit">>
        = <<"RemoveFinal", "Sync", "Rename", "Sync", "Commit">>
  BY <1>b, Join32, Zenon
<1>4. <<"Link", "Unlink">> \o <<"Sync", "Commit">> = <<"Link", "Unlink", "Sync", "Commit">>
  BY <1>b, Join22, Zenon
<1>5. <<"RemoveFinal", "Sync">> \o <<"Link", "Unlink">>
        = <<"RemoveFinal", "Sync", "Link", "Unlink">>
  BY <1>b, Join22, Zenon
<1>6. <<"RemoveFinal", "Sync", "Link", "Unlink">> \o <<"Sync", "Commit">>
        = <<"RemoveFinal", "Sync", "Link", "Unlink", "Sync", "Commit">>
  BY <1>b, Join42, Zenon
<1>7. CASE AtomicRename
  <2>1. RenameOps = <<"Rename">>
    BY <1>7 DEF RenameOps
  <2>2. /\ RenameOps \o <<"Sync", "Commit">> = <<"Rename", "Sync", "Commit">>
        /\ <<"RemoveFinal", "Sync">> \o RenameOps \o <<"Sync", "Commit">>
              = <<"RemoveFinal", "Sync", "Rename", "Sync", "Commit">>
    BY <1>1, <1>2, <1>3, <2>1, Zenon
  <2> QED BY <1>7, <2>2 DEF Moving, Clearing
<1>8. CASE ~AtomicRename
  <2>1. RenameOps = <<"Link", "Unlink">>
    BY <1>8 DEF RenameOps
  <2>2. /\ RenameOps \o <<"Sync", "Commit">> = <<"Link", "Unlink", "Sync", "Commit">>
        /\ <<"RemoveFinal", "Sync">> \o RenameOps \o <<"Sync", "Commit">>
              = <<"RemoveFinal", "Sync", "Link", "Unlink", "Sync", "Commit">>
    BY <1>4, <1>5, <1>6, <2>1, Zenon
  <2> QED BY <1>8, <2>2 DEF Moving, Clearing
<1> QED BY <1>7, <1>8

LEMMA JobKindsDiffer ==
    /\ \A ops \in Moving : ops \notin Sealing /\ ops \notin Clearing /\ ops # <<>>
    /\ \A ops \in Clearing : ops \notin Sealing /\ ops # <<"Unlink", "Sync", "Commit">>
                             /\ ops # <<>>
    /\ \A ops \in Sealing : ops \notin Clearing /\ ops # <<"Unlink", "Sync", "Commit">>
                            /\ ops # <<>>
    /\ <<"Commit">> \in Sealing /\ <<"Sync", "Commit">> \in Sealing
    /\ <<"Commit">> # <<"Sync", "Commit">>
    /\ <<"RemovePart", "Sync", "Commit">> \notin Sealing
    /\ <<"RequireNoFinal", "RemovePart", "Sync", "Commit">> \notin Sealing
    /\ <<"RemoveFinal", "Sync", "Commit">> \notin Sealing
    /\ <<>> \notin Sealing /\ <<>> \notin Clearing
BY DEF Moving, Clearing, Sealing

(* Startup and a decision replay an intent from the files they find.        *)
LEMMA ReplayFits ==
    ASSUME NEW art \in UnresolvedIntent, NEW ops, NEW f, NEW fs, NEW d, NEW o,
           FilesFit(art, ops, f, fs, d, o)
    PROVE  FilesFit(art, Steps(art, f), f, fs, d, o)
<1> DEFINE replay == Steps(art, f)
<1>1. /\ FilesFit(art, <<>>, f, fs, d, o) /\ FilesOf(art, <<>>, f, fs, d, o)
      /\ f \in fs /\ f \in FileState
  BY InterruptionFits DEF FilesFit
<1>2. SUFFICES ASSUME replay # <<>>
               PROVE  replay \in JobsOf(art) /\ FilesOf(art, replay, f, fs, d, o)
  BY <1>1 DEF FilesFit
<1>3. f.part \in {"None", "Torn", "Recording"} /\ f.final \in Content
  BY <1>1, EffectFields
<1>4. art \in {"Finalizing", "Discarding", "Deleting", "ResolvingKeepPart", "ResolvingKeepFinal",
               "ResolvingExclude"}
  BY <1>2, StepsOfIntents DEF UnresolvedIntent, ResolvingConflict, Resolving, Decision
<1> HIDE DEF replay, Sealing, Moving, Clearing
<1>5. CASE art = "Finalizing"
  <2>1. \/ replay \in Moving /\ replay # <<"Unlink", "Sync", "Commit">>
        \/ replay = <<"Sync", "Commit">> /\ f.part = "None" /\ IsRegular(f.final)
    BY <1>2, <1>5, RenamesOf DEF Steps, replay, Resolving
  <2>2. FinalizingFiles(replay, f, fs, o)
    <3>1. FinalizingFiles(<<>>, f, fs, o)
      BY <1>1, <1>5 DEF FilesOf
    <3>2. CASE replay \in Moving /\ replay # <<"Unlink", "Sync", "Commit">>
      BY <3>1, <3>2, JobKindsDiffer DEF FinalizingFiles, MovedWhenSealed
    <3>3. CASE replay = <<"Sync", "Commit">> /\ f.part = "None" /\ IsRegular(f.final)
      <4>1. Calm(o) => Moved(f)
        BY <1>1, <3>1, <3>3 DEF FinalizingFiles, Safe
      <4> QED BY <3>1, <3>3, <4>1, JobKindsDiffer DEF FinalizingFiles, MovedWhenSealed
    <3> QED BY <2>1, <3>2, <3>3
  <2> QED BY <1>5, <2>1, <2>2, JobKindsDiffer DEF FilesOf, JobsOf
<1>6. CASE art = "Discarding"
  <2>1. replay = <<"RemovePart", "Sync", "Commit">>
    BY <1>2, <1>6 DEF Steps, replay, Resolving
  <2>2. DiscardingFiles(replay, f, fs, o)
    BY <1>1, <1>6, <2>1, JobKindsDiffer DEF FilesOf, DiscardingFiles
  <2> QED BY <1>6, <2>1, <2>2 DEF FilesOf, JobsOf
<1>7. CASE art = "ResolvingKeepPart"
  <2>1. \/ replay \in Clearing /\ IsRegular(f.part)
        \/ replay = <<"Sync", "Commit">> /\ f.part = "None" /\ IsRegular(f.final)
    BY <1>2, <1>7, RenamesOf DEF Steps, replay, Resolving
  <2>2. KeepPartFiles(replay, f, fs, o)
    <3>1. KeepPartFiles(<<>>, f, fs, o)
      BY <1>1, <1>7 DEF FilesOf
    <3>2. CASE replay \in Clearing /\ IsRegular(f.part)
      <4>1. Calm(o) => f.part = "Recording"
        BY <1>1, <3>1, <3>2 DEF KeepPartFiles, Safe, Moved, IsRegular
      <4> QED BY <3>1, <3>2, <4>1, JobKindsDiffer DEF KeepPartFiles, MovedWhenSealed
    <3>3. CASE replay = <<"Sync", "Commit">> /\ f.part = "None" /\ IsRegular(f.final)
      <4>1. Calm(o) => Moved(f)
        BY <1>1, <3>1, <3>3 DEF KeepPartFiles, Safe
      <4> QED BY <3>1, <3>3, <4>1, JobKindsDiffer DEF KeepPartFiles, MovedWhenSealed
    <3> QED BY <2>1, <3>2, <3>3
  <2> QED BY <1>7, <2>1, <2>2, JobKindsDiffer DEF FilesOf, JobsOf
<1>8. CASE art = "ResolvingKeepFinal"
  <2>1. replay = <<"RemovePart", "Sync", "Commit">> /\ IsRegular(f.final)
    BY <1>2, <1>8 DEF Steps, replay, Resolving
  <2>2. KeepFinalFiles(replay, f, fs, d, o)
    BY <1>1, <1>8, <2>1, JobKindsDiffer DEF FilesOf, KeepFinalFiles, IsRegular
  <2> QED BY <1>8, <2>1, <2>2 DEF FilesOf, JobsOf
<1>9. CASE art = "ResolvingExclude"
  BY <1>2, <1>9 DEF Steps, replay, Resolving, FilesOf, JobsOf
<1>10. CASE art = "Deleting"
  <2>1. replay = <<"RemoveFinal", "Sync", "Commit">>
    BY <1>2, <1>10 DEF Steps, replay, Resolving
  <2>2. DeletingFiles(replay, f, fs, d, o)
    BY <1>1, <1>10, <2>1, JobKindsDiffer DEF FilesOf, DeletingFiles
  <2> QED BY <1>10, <2>1, <2>2 DEF FilesOf, JobsOf
<1> QED BY <1>4, <1>5, <1>6, <1>7, <1>8, <1>9, <1>10

(* An operator may decide: the files fit the intent of that decision.       *)
LEMMA DecisionFits ==
    ASSUME NEW art \in {"Finalizing", "Discarding"}, NEW ops, NEW f, NEW fs, NEW d, NEW o,
           FilesFit(art, ops, f, fs, d, o),
           NEW decision \in Decision, Resolvable(art, decision, f)
    PROVE  FilesFit(Resolving[decision], <<>>, f, fs, decision, o)
<1>1. /\ FilesFit(art, <<>>, f, fs, d, o) /\ FilesOf(art, <<>>, f, fs, d, o)
      /\ f \in fs /\ f \in FileState
  BY InterruptionFits DEF FilesFit
<1>2. FilesOf(Resolving[decision], <<>>, f, fs, decision, o)
  <2>1. CASE decision = "KeepPart"
    <3>1. KeepPartFiles(<<>>, f, fs, o)
      <4>1. CASE art = "Finalizing"
        BY <1>1, <4>1, JobKindsDiffer
           DEF FilesOf, FinalizingFiles, KeepPartFiles, MovedWhenSealed
      <4>2. CASE art = "Discarding"
        <5>1. f.part # "None" /\ IsFileOrMissing(f.part)
          BY <2>1, <4>2 DEF Resolvable
        <5>2. Calm(o) => \A g \in fs : g.part = "Recording" /\ g.final \notin {"Torn", "Stray"}
          BY <1>1, <4>2, <5>1 DEF FilesOf, DiscardingFiles, PartFirst, IsFileOrMissing, IsRegular,
             Unclaimed, FileState
        <5> QED BY <1>1, <5>2, JobKindsDiffer
                DEF KeepPartFiles, MovedWhenSealed, PartFirst, Safe
      <4> QED BY <4>1, <4>2
    <3> QED BY <2>1, <3>1 DEF FilesOf, Resolving
  <2>2. CASE decision = "KeepFinal"
    <3>1. Calm(o) => \A g \in fs : g.final \notin {"Torn", "Stray"}
      BY <1>1 DEF FilesOf, FinalizingFiles, DiscardingFiles, Safe, Unclaimed
    <3>2. KeepFinalFiles(<<>>, f, fs, decision, o)
      BY <2>2, <3>1, JobKindsDiffer DEF KeepFinalFiles
    <3> QED BY <2>2, <3>2 DEF FilesOf, Resolving
  <2>3. CASE decision = "Exclude"
    BY <2>3 DEF FilesOf, Resolving
  <2> QED BY <2>1, <2>2, <2>3 DEF Decision
<1> QED BY <1>1, <1>2 DEF FilesFit

(* A recording is complete: its file is synced, and the commit begins.      *)
LEMMA SyncFits ==
    ASSUME NEW f, NEW fs, NEW d, NEW o, FilesFit("Writing", <<"Record">>, f, fs, d, o),
           NEW e, NEW es,
           IF f.part = "Torn" THEN /\ e = [f EXCEPT !.part = "Recording"]
                                   /\ es = {[g EXCEPT !.part = "Recording"] : g \in fs}
                              ELSE e = f /\ es = fs
    PROVE  /\ FilesFit("Finalizing", RenameOps \o <<"Sync", "Commit">>, e, es, d, o)
           /\ FilesFit("Discarding", <<"RequireNoFinal", "RemovePart", "Sync", "Commit">>,
                       e, es, d, o)
<1>1. /\ f \in fs /\ WritingFiles(<<"Record">>, f, fs, o)
      /\ \A g \in fs : g \in FileState /\ (g.final \in Alien => "Appears" \in o)
  BY DEF FilesFit, FilesOf
<1>2. /\ e \in es
      /\ \A g \in es : /\ g \in FileState /\ g.final \in Unclaimed
                       /\ g.final \in Alien => "Appears" \in o
                       /\ Calm(o) => g.part = "Recording"
  <2>1. CASE f.part = "Torn"
    <3>1. \A g \in fs : /\ [g EXCEPT !.part = "Recording"] \in FileState
                        /\ [g EXCEPT !.part = "Recording"].final = g.final
                        /\ [g EXCEPT !.part = "Recording"].part = "Recording"
      BY <1>1 DEF FileState
    <3>2. es = {[g EXCEPT !.part = "Recording"] : g \in fs} /\ e \in es
      BY <1>1, <2>1
    <3>3. ASSUME NEW g \in es
          PROVE  /\ g \in FileState /\ g.final \in Unclaimed /\ g.part = "Recording"
                 /\ g.final \in Alien => "Appears" \in o
      <4>1. PICK h \in fs : g = [h EXCEPT !.part = "Recording"]
        BY <3>2, <3>3
      <4> QED BY <1>1, <3>1, <4>1 DEF WritingFiles
    <3> QED BY <3>2, <3>3
  <2>2. CASE f.part # "Torn"
    BY <1>1, <2>2 DEF WritingFiles
  <2> QED BY <2>1, <2>2
<1>3. FinalizingFiles(RenameOps \o <<"Sync", "Commit">>, e, es, o)
  <2> DEFINE ops == RenameOps \o <<"Sync", "Commit">>
  <2>1. MovedWhenSealed(ops, e, es)
    BY RenamesOf, JobKindsDiffer DEF MovedWhenSealed
  <2> HIDE DEF ops
  <2>2. FinalizingFiles(ops, e, es, o)
    BY <1>2, <2>1 DEF FinalizingFiles, PartFirst, Safe, Unclaimed
  <2> QED BY <2>2 DEF ops
<1>4. DiscardingFiles(<<"RequireNoFinal", "RemovePart", "Sync", "Commit">>, e, es, o)
  BY <1>2, JobKindsDiffer DEF DiscardingFiles, PartFirst
<1>5. RenameOps \o <<"Sync", "Commit">> \in JobsOf("Finalizing")
  BY RenamesOf DEF JobsOf
<1>6. <<"RequireNoFinal", "RemovePart", "Sync", "Commit">> \in JobsOf("Discarding")
  BY DEF JobsOf
<1>7. FilesOf("Finalizing", RenameOps \o <<"Sync", "Commit">>, e, es, d, o)
  BY <1>3 DEF FilesOf
<1>8. FilesOf("Discarding", <<"RequireNoFinal", "RemovePart", "Sync", "Commit">>, e, es, d, o)
  BY <1>4 DEF FilesOf
<1> QED BY <1>2, <1>5, <1>6, <1>7, <1>8 DEF FilesFit

(* The completion transitions, each after the last operation of its commit. *)
Completion ==
    [Finalizing |-> "Ready", Discarding |-> "Filtered", ResolvingKeepPart |-> "Ready",
     ResolvingKeepFinal |-> "Ready", ResolvingExclude |-> "Excluded", Deleting |-> "Deleted"]

LEMMA CompletionFits ==
    ASSUME NEW art \in DOMAIN Completion, NEW f, NEW fs, NEW d, NEW o,
           FilesFit(art, <<"Commit">>, f, fs, d, o)
    PROVE  FilesFit(Completion[art], <<>>, f, fs, d, o)
<1>1. /\ f \in fs /\ FilesOf(art, <<"Commit">>, f, fs, d, o)
      /\ \A g \in fs : g \in FileState /\ (g.final \in Alien => "Appears" \in o)
  BY DEF FilesFit
<1>2. FilesOf(Completion[art], <<>>, f, fs, d, o)
  <2>1. CASE art = "Finalizing"
    BY <1>1, <2>1, JobKindsDiffer
       DEF FilesOf, Completion, FinalizingFiles, MovedWhenSealed, Moved, Chosen
  <2>2. CASE art = "Discarding"
    BY <1>1, <2>2 DEF FilesOf, Completion, DiscardingFiles
  <2>3. CASE art = "ResolvingKeepPart"
    BY <1>1, <2>3, JobKindsDiffer
       DEF FilesOf, Completion, KeepPartFiles, MovedWhenSealed, Moved, Chosen
  <2>4. CASE art = "ResolvingKeepFinal"
    BY <1>1, <2>4 DEF FilesOf, Completion, KeepFinalFiles, Chosen, Alien
  <2>5. CASE art = "ResolvingExclude"
    BY <2>5 DEF FilesOf, Completion
  <2>6. CASE art = "Deleting"
    BY <1>1, <2>6 DEF FilesOf, Completion, DeletingFiles, Chosen, Freed
  <2> QED BY <2>1, <2>2, <2>3, <2>4, <2>5, <2>6 DEF Completion
<1> QED BY <1>1, <1>2 DEF FilesFit

(* A recording begins, fails or is excluded, and a usable file is deleted.  *)
LEMMA TransitionFits ==
    ASSUME NEW art, NEW ops, NEW f, NEW fs, NEW d, NEW o, FilesFit(art, ops, f, fs, d, o)
    PROVE  /\ art = "Absent" => FilesFit("Writing", <<"Create", "Record">>, f, fs, d, o)
           /\ art = "Ready" =>
                 FilesFit("Deleting", <<"RemoveFinal", "Sync", "Commit">>, f, fs, d, o)
           /\ FilesFit("Failed", <<>>, f, fs, d, o) /\ FilesFit("Excluded", <<>>, f, fs, d, o)
<1>1. art = "Absent" => FilesFit("Writing", <<"Create", "Record">>, f, fs, d, o)
  <2>1. <<"Create", "Record">> # <<"Record">> /\ <<"Create", "Record">> \in JobsOf("Writing")
    BY DEF JobsOf
  <2> QED BY <2>1 DEF FilesFit, FilesOf, Gone, WritingFiles, Unclaimed
<1>2. art = "Ready" => FilesFit("Deleting", <<"RemoveFinal", "Sync", "Commit">>, f, fs, d, o)
  <2>1. <<"RemoveFinal", "Sync", "Commit">> \in JobsOf("Deleting")
    BY DEF JobsOf
  <2> QED BY <2>1, JobKindsDiffer DEF FilesFit, FilesOf, DeletingFiles
<1>3. FilesFit("Failed", <<>>, f, fs, d, o) /\ FilesFit("Excluded", <<>>, f, fs, d, o)
  BY DEF FilesFit, FilesOf
<1> QED BY <1>1, <1>2, <1>3

-----------------------------------------------------------------------------
(* FilesInv is inductive. *)

Fits(x) == FilesFit(artifact[x], job[x], dir[x], images[x], decided[x], outsider[x])

OthersKept(x) ==
    \A y \in Slot : y # x =>
        /\ artifact'[y] = artifact[y] /\ job'[y] = job[y] /\ dir'[y] = dir[y]
        /\ images'[y] = images[y] /\ decided'[y] = decided[y] /\ outsider'[y] = outsider[y]

LEMMA FilesOfOne ==
    ASSUME FilesInv, FilesTypeOK', NEW x \in Slot, OthersKept(x),
           FilesFit(artifact'[x], job'[x], dir'[x], images'[x], decided'[x], outsider'[x])
    PROVE  FilesInv'
<1>1. ASSUME NEW y \in Slot
      PROVE  FilesFit(artifact'[y], job'[y], dir'[y], images'[y], decided'[y], outsider'[y])
  <2>1. CASE y = x
    BY <2>1
  <2>2. CASE y # x
    <3>1. /\ artifact'[y] = artifact[y] /\ job'[y] = job[y] /\ dir'[y] = dir[y]
          /\ images'[y] = images[y] /\ decided'[y] = decided[y] /\ outsider'[y] = outsider[y]
      BY <2>2 DEF OthersKept
    <3>2. FilesFit(artifact[y], job[y], dir[y], images[y], decided[y], outsider[y])
      BY DEF FilesInv
    <3> QED BY <3>1, <3>2, Zenon
  <2> QED BY <2>1, <2>2
<1> QED BY <1>1 DEF FilesInv

LEMMA CommitsLast ==
    ASSUME NEW art, NEW ops \in JobsOf(art)
    PROVE  /\ Head(ops) = "Commit" => ops = <<"Commit">> /\ art \in DOMAIN Completion
           /\ Head(ops) = "Record" => ops = <<"Record">> /\ art = "Writing"
<1>1. CASE art \in {"Writing", "Discarding", "ResolvingKeepFinal", "Deleting", "ResolvingExclude"}
  BY <1>1, LeftAfterOne DEF JobsOf, Sealing, Completion
<1>2. CASE art \in {"Finalizing", "ResolvingKeepPart"}
  BY <1>2, LeftAfterOne DEF JobsOf, Sealing, Moving, Clearing, Completion
<1> QED BY <1>1, <1>2 DEF JobsOf

LEMMA ArtifactSteps ==
    ASSUME RowTypes, NEW x \in Slot
    PROVE  /\ \/ CompleteArtifactFinalization(x) \/ CompleteArtifactDiscard(x)
              \/ CompleteArtifactConflictResolution(x) \/ ExcludeArtifactConflict(x)
              \/ CompleteArtifactDelete(x)
              => artifact[x] \in DOMAIN Completion /\ artifact'[x] = Completion[artifact[x]]
           /\ OpenSegment(x) => artifact[x] = "Absent"
           /\ BeginArtifactFinalization(x) \/ BeginArtifactDiscard(x)
              => artifact[x] = "Writing"
           /\ \A decision \in Decision : BeginArtifactConflictResolution(x, decision) =>
                 /\ OnlySegment(x) /\ artifact'[x] = Resolving[decision]
                 /\ artifact[x] \in {"Finalizing", "Discarding"}
<1>1. \A art, to : artifact[x] = art /\ SetArtifact(x, to) => artifact'[x] = to
  BY DEF SetArtifact, RowTypes
<1>2. CompleteArtifactFinalization(x) \/ CompleteArtifactDiscard(x)
      => artifact[x] \in DOMAIN Completion /\ artifact'[x] = Completion[artifact[x]]
  BY <1>1 DEF CompleteArtifactFinalization, CompleteArtifactDiscard, CompleteArtifact, Completion
<1>3. CompleteArtifactConflictResolution(x) \/ ExcludeArtifactConflict(x)
      => artifact[x] \in DOMAIN Completion /\ artifact'[x] = Completion[artifact[x]]
  BY <1>1 DEF CompleteArtifactConflictResolution, ExcludeArtifactConflict, CompleteArtifact,
     Completion, Resolving
<1>4. CompleteArtifactDelete(x)
      => artifact[x] \in DOMAIN Completion /\ artifact'[x] = Completion[artifact[x]]
  BY <1>1 DEF CompleteArtifactDelete, Completion
<1>5. OpenSegment(x) => artifact[x] = "Absent"
  BY DEF OpenSegment, HasSegment
<1>6. BeginArtifactFinalization(x) \/ BeginArtifactDiscard(x) => artifact[x] = "Writing"
  BY DEF BeginArtifactFinalization, BeginArtifactDiscard, BeginArtifact
<1>7. \A decision \in Decision : BeginArtifactConflictResolution(x, decision) =>
         /\ OnlySegment(x) /\ artifact'[x] = Resolving[decision]
         /\ artifact[x] \in {"Finalizing", "Discarding"}
  BY DEF BeginArtifactConflictResolution, SetArtifact, OnlySegment, RowTypes
<1> QED BY <1>2, <1>3, <1>4, <1>5, <1>6, <1>7

(* A transition of one segment that leaves its files alone. *)
LEMMA FilesOfTransition ==
    ASSUME FilesInv, NEW x \in Slot, OnlySegment(x), UNCHANGED <<dir, images, decided, outsider>>,
           NEW ops, job' = [job EXCEPT ![x] = ops],
           FilesFit(artifact'[x], ops, dir[x], images[x], decided[x], outsider[x])
    PROVE  FilesInv'
<1>1. FilesTypeOK' /\ job'[x] = ops /\ \A y \in Slot : y # x => job'[y] = job[y]
  BY DEF FilesInv, FilesTypeOK
<1>2. OthersKept(x)
  BY <1>1 DEF OthersKept, OnlySegment
<1>3. FilesFit(artifact'[x], job'[x], dir'[x], images'[x], decided'[x], outsider'[x])
  BY <1>1, Zenon
<1> QED BY <1>1, <1>2, <1>3, FilesOfOne

LEMMA FilesInvStep == RowTypes /\ FilesInv /\ [CommitNext]_commitVars => FilesInv'
<1> SUFFICES ASSUME RowTypes, FilesInv, [CommitNext]_commitVars PROVE FilesInv'
  OBVIOUS
<1>a. \A x \in Slot : Fits(x)
  BY DEF FilesInv, Fits
<1>b. ASSUME UNCHANGED <<artifact, fileVars>> PROVE FilesInv'
  BY <1>b DEF FilesInv, FilesTypeOK, fileVars
<1>1. CASE UNCHANGED commitVars
  BY <1>1, <1>b DEF commitVars, vars, storeVars, recordingVars
<1>2. ASSUME NEW x \in Slot, FileStep(x) PROVE FilesInv'
  <2> DEFINE op == Head(job[x])
  <2>1. OneOperation(job[x], dir[x]) /\ Fits(x)
    BY <1>2, <1>a DEF FileStep, OneOperation, Idle
  <2>2. /\ artifact' = artifact /\ decided' = decided /\ outsider' = outsider
        /\ job' = [job EXCEPT ![x] = Tail(job[x])]
        /\ dir' = [dir EXCEPT ![x] = Effect(op, dir[x])]
        /\ images' = [images EXCEPT ![x] = IF op = "Sync" THEN {dir[x]}
                                           ELSE images[x] \cup {Effect(op, dir[x])}]
    BY <1>2 DEF FileStep, SetJob, vars, storeVars, recordingVars
  <2> HIDE DEF op
  <2>3. /\ FilesTypeOK' /\ OthersKept(x) /\ job'[x] = Tail(job[x])
        /\ dir'[x] = Effect(op, dir[x]) /\ images'[x] = After(op, dir[x], images[x])
    BY <2>2 DEF FilesInv, FilesTypeOK, OthersKept, After
  <2>4. FilesFit(artifact[x], Tail(job[x]), Effect(op, dir[x]), After(op, dir[x], images[x]),
                 decided[x], outsider[x])
    BY <2>1, OperationFits DEF Fits, op
  <2>5. FilesFit(artifact'[x], job'[x], dir'[x], images'[x], decided'[x], outsider'[x])
    BY <2>2, <2>3, <2>4
  <2> QED BY <2>3, <2>5, FilesOfOne
<1>3. ASSUME NEW x \in Slot, Commit(x) PROVE FilesInv'
  <2>1. job[x] = <<"Commit">> /\ Fits(x)
    BY <1>3, <1>a, CommitsLast DEF Commit, AtOp, Idle, Fits, FilesFit
  <2>2. /\ artifact[x] \in DOMAIN Completion /\ artifact'[x] = Completion[artifact[x]]
        /\ OnlySegment(x)
    BY <1>3, ArtifactSteps, SegmentSteps DEF Commit
  <2>3. FilesFit(artifact'[x], <<>>, dir[x], images[x], decided[x], outsider[x])
    BY <2>1, <2>2, CompletionFits DEF Fits
  <2> QED BY <1>3, <2>2, <2>3, FilesOfTransition DEF Commit, SetJob
<1>4. ASSUME NEW x \in Slot, OperationFails(x) PROVE FilesInv'
  <2>1. OnlySegment(x) /\ (artifact'[x] = artifact[x] \/ artifact'[x] = "Failed")
    <3>1. CASE FailArtifact(x)
      BY <3>1, FailureSteps
    <3>2. CASE RequireRecovery(x[1])
      BY <3>2, FailureSteps DEF OnlySegment
    <3>3. CASE UNCHANGED storeVars
      BY <3>3 DEF storeVars, recordingVars, OnlySegment
    <3> QED BY <1>4, <3>1, <3>2, <3>3 DEF OperationFails, RecordingCommitFailed
  <2>2. FilesFit(artifact'[x], <<>>, dir[x], images[x], decided[x], outsider[x])
    BY <1>a, <2>1, InterruptionFits, TransitionFits DEF Fits
  <2> QED BY <1>4, <2>1, <2>2, FilesOfTransition DEF OperationFails, SetJob
<1>5. ASSUME NEW x \in Slot, Reconcile(x) PROVE FilesInv'
  <2> DEFINE ops == Steps(artifact[x], dir[x])
  <2>0. /\ job' = [job EXCEPT ![x] = ops] /\ UNCHANGED <<dir, images, decided, outsider>>
        /\ Fits(x)
    BY <1>5, <1>a DEF Reconcile, SetJob
  <2>1. CASE FailArtifact(x) /\ ops = <<>>
    <3>1. OnlySegment(x) /\ artifact'[x] = "Failed"
      BY <2>1, FailureSteps
    <3>2. FilesFit(artifact'[x], ops, dir[x], images[x], decided[x], outsider[x])
      BY <2>0, <2>1, <3>1, TransitionFits DEF Fits
    <3> QED BY <2>0, <3>1, <3>2, FilesOfTransition
  <2>2. CASE OnlySegment(x) /\ artifact'[x] = artifact[x]
    <3>1. FilesFit(artifact[x], ops, dir[x], images[x], decided[x], outsider[x])
      <4>1. CASE artifact[x] \in UnresolvedIntent
        BY <2>0, <4>1, ReplayFits DEF Fits
      <4>2. CASE artifact[x] \notin UnresolvedIntent
        <5>1. ops = <<>>
          BY <4>2, StepsOfIntents
        <5> QED BY <2>0, <5>1, InterruptionFits DEF Fits
      <4> QED BY <4>1, <4>2
    <3> QED BY <2>0, <2>2, <3>1, FilesOfTransition
  <2>3. artifact[x] = "Writing" \/ LostFiles(artifact[x], dir[x]) => ops = <<>>
    BY DEF Steps, LostFiles, NoFiles, IsRegular, Resolving, Decision
  <2>4. RequireRecovery(x[1]) \/ UNCHANGED storeVars =>
           OnlySegment(x) /\ artifact'[x] = artifact[x]
    BY FailureSteps DEF storeVars, recordingVars, OnlySegment
  <2> QED BY <1>5, <2>1, <2>2, <2>3, <2>4 DEF Reconcile, RecordingCommitFailed
<1>6. ASSUME NEW x \in Slot, RecordSegment(x) PROVE FilesInv'
  <2>1. OnlySegment(x) /\ artifact'[x] = "Writing" /\ artifact[x] = "Absent"
    BY <1>6, SegmentSteps, ArtifactSteps DEF RecordSegment
  <2>2. FilesFit(artifact'[x], <<"Create", "Record">>, dir[x], images[x], decided[x],
                 outsider[x])
    BY <1>a, <2>1, TransitionFits DEF Fits
  <2> QED BY <1>6, <2>1, <2>2, FilesOfTransition DEF RecordSegment, SetJob
<1>7. ASSUME NEW x \in Slot, FinalizeSegment(x) \/ DiscardSegment(x) PROVE FilesInv'
  <2>1. /\ OnlySegment(x) /\ artifact[x] = "Writing" /\ SyncPart(x)
        /\ decided' = decided /\ outsider' = outsider
    BY <1>7, SegmentSteps, ArtifactSteps DEF FinalizeSegment, DiscardSegment
  <2>2. FilesFit("Writing", <<"Record">>, dir[x], images[x], decided[x], outsider[x])
    BY <1>7, <1>a, <2>1, CommitsLast
       DEF FinalizeSegment, DiscardSegment, AtOp, Idle, Fits, FilesFit
  <2>3. /\ dir' = [y \in Slot |-> dir'[y]] /\ images' = [y \in Slot |-> images'[y]]
        /\ \A y \in Slot : y # x => dir'[y] = dir[y] /\ images'[y] = images[y]
        /\ IF dir[x].part = "Torn"
           THEN /\ dir'[x] = [dir[x] EXCEPT !.part = "Recording"]
                /\ images'[x] = {[g EXCEPT !.part = "Recording"] : g \in images[x]}
           ELSE dir'[x] = dir[x] /\ images'[x] = images[x]
    BY <2>1 DEF SyncPart, FilesInv, FilesTypeOK
  <2>4. /\ FilesFit("Finalizing", RenameOps \o <<"Sync", "Commit">>, dir'[x], images'[x],
                    decided[x], outsider[x])
        /\ FilesFit("Discarding", <<"RequireNoFinal", "RemovePart", "Sync", "Commit">>,
                    dir'[x], images'[x], decided[x], outsider[x])
    BY <2>2, <2>3, SyncFits
  <2>5. PICK ops :
           /\ job' = [job EXCEPT ![x] = ops]
           /\ FilesFit(artifact'[x], ops, dir'[x], images'[x], decided[x], outsider[x])
    <3>1. CASE FinalizeSegment(x)
      <4>1. artifact'[x] = "Finalizing"
        BY <3>1, SegmentSteps DEF FinalizeSegment
      <4> QED BY <2>4, <3>1, <4>1 DEF FinalizeSegment, SetJob
    <3>2. CASE DiscardSegment(x)
      <4>1. artifact'[x] = "Discarding"
        BY <3>2, SegmentSteps DEF DiscardSegment
      <4> QED BY <2>4, <3>2, <4>1 DEF DiscardSegment, SetJob
    <3> QED BY <1>7, <3>1, <3>2
  <2>6. FilesTypeOK' /\ OthersKept(x) /\ job'[x] = ops
    BY <2>1, <2>3, <2>5 DEF FilesInv, FilesTypeOK, OthersKept, OnlySegment
  <2>7. FilesFit(artifact'[x], job'[x], dir'[x], images'[x], decided'[x], outsider'[x])
    BY <2>1, <2>5, <2>6
  <2> QED BY <2>6, <2>7, FilesOfOne
<1>8. ASSUME NEW x \in Slot, DeleteSegment(x) PROVE FilesInv'
  <2>1. OnlySegment(x) /\ artifact[x] = "Ready" /\ artifact'[x] = "Deleting"
    BY <1>8, SegmentSteps DEF DeleteSegment
  <2>2. FilesFit(artifact'[x], <<"RemoveFinal", "Sync", "Commit">>, dir[x], images[x],
                 decided[x], outsider[x])
    BY <1>a, <2>1, TransitionFits DEF Fits
  <2> QED BY <1>8, <2>1, <2>2, FilesOfTransition DEF DeleteSegment, SetJob
<1>9. ASSUME NEW x \in Slot, NEW decision \in Decision, ResolveConflict(x, decision)
      PROVE  FilesInv'
  <2> DEFINE ops == Steps(Resolving[decision], dir[x])
  <2>1. /\ OnlySegment(x) /\ artifact'[x] = Resolving[decision]
        /\ artifact[x] \in {"Finalizing", "Discarding"}
        /\ Resolvable(artifact[x], decision, dir[x])
        /\ UNCHANGED <<dir, images, outsider>>
        /\ job' = [job EXCEPT ![x] = ops] /\ decided' = [decided EXCEPT ![x] = decision]
    BY <1>9, ArtifactSteps DEF ResolveConflict, SetJob
  <2>2. FilesFit(Resolving[decision], <<>>, dir[x], images[x], decision, outsider[x])
    BY <1>a, <2>1, DecisionFits DEF Fits
  <2>3. Resolving[decision] \in UnresolvedIntent
    BY DEF UnresolvedIntent, ResolvingConflict
  <2>4. FilesFit(Resolving[decision], ops, dir[x], images[x], decision, outsider[x])
    BY <2>2, <2>3, ReplayFits
  <2> HIDE DEF ops
  <2>5. FilesTypeOK' /\ OthersKept(x) /\ job'[x] = ops /\ decided'[x] = decision
    BY <2>1 DEF FilesInv, FilesTypeOK, OthersKept, OnlySegment
  <2>6. FilesFit(artifact'[x], job'[x], dir'[x], images'[x], decided'[x], outsider'[x])
    BY <2>1, <2>4, <2>5
  <2> QED BY <2>5, <2>6, FilesOfOne
<1>10. ASSUME NEW x \in Slot, FileAppears(x) \/ FileTakenAway(x) PROVE FilesInv'
  <2>1. PICK event, after :
           /\ Outsider(x, event, after)
           /\ FilesFit(artifact[x], job[x], after, images[x] \cup {after}, decided[x],
                       outsider[x] \cup {event})
    <3>1. CASE FileAppears(x)
      <4>1. PICK content \in {"Other", IF artifact[x] = "Deleting" THEN "Stray" ELSE "Foreign"} :
               Outsider(x, "Appears", [dir[x] EXCEPT !.final = content])
        BY <3>1 DEF FileAppears
      <4>2. artifact[x] \in UnresolvedIntent /\ dir[x].final = "None"
        BY <3>1, <4>1 DEF FileAppears, Outsider, InFlight
      <4> QED BY <1>a, <4>1, <4>2, AppearanceFits DEF Fits
    <3>2. CASE FileTakenAway(x)
      <4>1. PICK name \in {"part", "final"} :
               Outsider(x, "TakenAway", [dir[x] EXCEPT ![name] = "None"])
        BY <3>2 DEF FileTakenAway
      <4>2. artifact[x] \in UnresolvedIntent
        BY <4>1 DEF Outsider, InFlight
      <4> QED BY <1>a, <4>1, <4>2, TakingFits DEF Fits
    <3> QED BY <1>10, <3>1, <3>2
  <2>2. /\ artifact' = artifact /\ UNCHANGED <<job, decided>>
        /\ dir' = [dir EXCEPT ![x] = after]
        /\ images' = [images EXCEPT ![x] = images[x] \cup {after}]
        /\ outsider' = [outsider EXCEPT ![x] = outsider[x] \cup {event}]
    BY <2>1 DEF Outsider, vars, storeVars, recordingVars
  <2>3. /\ FilesTypeOK' /\ OthersKept(x) /\ dir'[x] = after
        /\ images'[x] = images[x] \cup {after} /\ outsider'[x] = outsider[x] \cup {event}
    BY <2>2 DEF FilesInv, FilesTypeOK, OthersKept
  <2>4. FilesFit(artifact'[x], job'[x], dir'[x], images'[x], decided'[x], outsider'[x])
    BY <2>1, <2>2, <2>3
  <2> QED BY <2>3, <2>4, FilesOfOne
<1>11. CASE BeginStartup
  BY <1>11, <1>b DEF BeginStartup, Start, FilesInv, FilesTypeOK, storeVars, recordingVars
<1>12. CASE ReconcileRemote
  BY <1>12, <1>b DEF ReconcileRemote, MarkUploadAmbiguous, MarkSubmissionAmbiguous,
     FinishUpload, FinishSubmission, recordingVars
<1>13. CASE BeginRun
  BY <1>13, <1>b DEF BeginRun, storeVars, recordingVars
<1>14. CASE SuperviseStep
  BY <1>14, <1>b DEF SuperviseStep, CreateSession, RequireRecovery, CloseNatural,
     MarkRecoveryRequired
<1>15. CASE UploadStep
  <2>1. UNCHANGED recordingVars
    BY <1>15, RemoteKeepsRecording DEF UploadStep, RemoteAttemptStep, RemoteNext,
       WorkerIdle
  <2> QED BY <1>15, <2>1, <1>b DEF UploadStep, recordingVars
<1>16. CASE DecisionStep
  <2>1. AllIdle /\ UNCHANGED fileVars
    BY <1>16 DEF DecisionStep
  <2>2. \A x \in Slot : artifact'[x] \in {artifact[x], "Excluded"}
    <3>1. ASSUME NEW s \in Session, NEW excludeFailed \in BOOLEAN, CloseRecover(s, excludeFailed)
          PROVE  \A x \in Slot : artifact'[x] \in {artifact[x], "Excluded"}
      BY <3>1 DEF CloseRecover
    <3>2. ASSUME NEW s \in Session, CloseAbandon(s)
          PROVE  artifact' = artifact
      BY <3>2 DEF CloseAbandon
    <3>3. ASSUME NEW s \in Session, NEW happened \in BOOLEAN, ResolveSubmission(s, happened)
          PROVE  artifact' = artifact
      BY <3>3 DEF ResolveSubmission, recordingVars
    <3>4. ASSUME NEW x \in Slot, NEW happened \in BOOLEAN, ResolveUpload(x, happened)
          PROVE  artifact' = artifact
      BY <3>4 DEF ResolveUpload, recordingVars
    <3> QED BY <1>16, <3>1, <3>2, <3>3, <3>4 DEF DecisionStep, OperatorDecision
  <2>3. ASSUME NEW x \in Slot
        PROVE  FilesFit(artifact'[x], job[x], dir[x], images[x], decided[x], outsider[x])
    <3>1. job[x] = <<>> /\ Fits(x)
      BY <1>a, <2>1 DEF AllIdle, Idle
    <3> QED BY <2>2, <3>1, TransitionFits DEF Fits
  <2> QED BY <2>1, <2>3 DEF FilesInv, FilesTypeOK, fileVars
<1>17. CASE PassTime
  <2>1. UNCHANGED recordingVars
    BY <1>17, RemoteKeepsRecording DEF PassTime, TimePasses, RemoteNext
  <2> QED BY <1>17, <2>1, <1>b DEF PassTime, recordingVars
<1>18. CASE ProcessStops
  <2>1. /\ artifact' = artifact /\ UNCHANGED <<dir, images, decided, outsider>>
        /\ job' = [x \in Slot |-> <<>>]
    BY <1>18 DEF ProcessStops, Stops, storeVars, recordingVars
  <2>2. ASSUME NEW x \in Slot
        PROVE  FilesFit(artifact[x], <<>>, dir[x], images[x], decided[x], outsider[x])
    BY <1>a, InterruptionFits DEF Fits
  <2> QED BY <2>1, <2>2 DEF FilesInv, FilesTypeOK
<1>19. CASE PowerLoss
  <2>1. /\ artifact' = artifact /\ UNCHANGED <<decided, outsider>>
        /\ job' = [x \in Slot |-> <<>>]
        /\ dir' = [x \in Slot |-> dir'[x]] /\ images' = [x \in Slot |-> {dir'[x]}]
        /\ \A x \in Slot : dir'[x] \in images[x]
    BY <1>19 DEF PowerLoss, Stops, storeVars, recordingVars
  <2>2. ASSUME NEW x \in Slot
        PROVE  FilesFit(artifact[x], <<>>, dir'[x], {dir'[x]}, decided[x], outsider[x])
    BY <1>a, <2>1, InterruptionFits DEF Fits
  <2> QED BY <2>1, <2>2 DEF FilesInv, FilesTypeOK
<1> HIDE DEF FilesInv
<1> QED
  BY <1>1, <1>2, <1>3, <1>4, <1>5, <1>6, <1>7, <1>8, <1>9, <1>10, <1>11, <1>12,
     <1>13, <1>14, <1>15, <1>16, <1>17, <1>18, <1>19 DEF CommitNext

LEMMA FilesInit == CommitInit => FilesInv
<1> SUFFICES ASSUME CommitInit PROVE FilesInv
  OBVIOUS
<1>1. FilesTypeOK
  BY DEF CommitInit, FilesTypeOK
<1>2. ASSUME NEW x \in Slot
      PROVE  FilesFit(artifact[x], job[x], dir[x], images[x], decided[x], outsider[x])
  <2>1. /\ artifact[x] = "Absent" /\ job[x] = <<>> /\ dir[x] = NoFiles
        /\ images[x] = {NoFiles} /\ outsider[x] = {}
    BY DEF CommitInit, Init, StoreInit
  <2>2. NoFiles \in FileState /\ Gone(NoFiles) /\ NoFiles.final = "None"
    BY DEF NoFiles, FileState, Content, Gone
  <2> QED BY <2>1, <2>2 DEF FilesFit, FilesOf, Alien
<1> QED BY <1>1, <1>2 DEF FilesInv

LEMMA FilesAlways == CommitSpec => [](RowTypes /\ FilesInv)
<1>1. CommitInit => RowTypes /\ CommitInv /\ FilesInv
  BY StartedJobs, InitType, FilesInit DEF CommitInit, CommitInv, Init, Idle
<1>2. RowTypes /\ CommitInv /\ FilesInv /\ [CommitNext]_commitVars
      => (RowTypes /\ CommitInv /\ FilesInv)'
  <2>1. RowTypes /\ CommitInv /\ [CommitNext]_commitVars => RowTypes'
    BY CommitImplements, TypeStep
  <2> QED BY <2>1, CommitInvStep, FilesInvStep
<1> QED BY <1>1, <1>2, PTL DEF CommitSpec

-----------------------------------------------------------------------------
(* What a Ready row says of the disk is true now and after any power loss:  *)
(* the worker uploads the recording, or the file that an operator chose     *)
(* over it.                                                                 *)
THEOREM ReadyFilesAreTheChosenOnes == CommitSpec => []ReadyIsTheChosenFile
<1>1. FilesInv => ReadyIsTheChosenFile
  BY DEF FilesInv, FilesFit, FilesOf, Chosen, Calm, Undisturbed, ReadyIsTheChosenFile
<1> QED BY <1>1, FilesAlways, PTL

(* A Filtered row has no part left, and a Deleted one neither the recording *)
(* nor the file chosen over it: no power loss brings them back after the    *)
(* completion was recorded.                                                 *)
THEOREM DisposedFilesAreGone == CommitSpec => []DisposedIsGone
<1>1. FilesInv => DisposedIsGone
  BY DEF FilesInv, FilesFit, FilesOf, Freed, DisposedIsGone
<1> QED BY <1>1, FilesAlways, PTL

(* However often a commit is interrupted, replayed or decided, and whatever *)
(* a power loss undoes: one of the two names holds the recording.           *)
THEOREM NoRecordingIsLost == CommitSpec => []RecordingSurvives
<1>1. FilesInv => RecordingSurvives
  <2> SUFFICES ASSUME FilesInv, NEW x \in Slot, Undisturbed(x),
                      artifact[x] \in {"Finalizing", Resolving["KeepPart"]},
                      NEW f \in images[x]
               PROVE  "Recording" \in {f.part, f.final}
    BY DEF RecordingSurvives
  <2>1. FilesOf(artifact[x], job[x], dir[x], images[x], decided[x], outsider[x])
    BY DEF FilesInv, FilesFit
  <2>2. Calm(outsider[x])
    BY DEF Undisturbed, Calm
  <2>3. Safe(f)
    BY <2>1, <2>2 DEF FilesOf, FinalizingFiles, KeepPartFiles, Resolving
  <2> QED BY <2>3 DEF Safe, Moved
<1> QED BY <1>1, FilesAlways, PTL

(* What one commit may do to a foreign file under its final name. *)
LEMMA ForeignFileStep ==
    ASSUME RowTypes, FilesInv, [CommitNext]_commitVars, NEW x \in Slot,
           dir[x].final \in Alien, dir'[x].final # dir[x].final
    PROVE  MayRemove(x) \/ FileTakenAway(x) \/ PowerLoss
<1>1. FilesFit(artifact[x], job[x], dir[x], images[x], decided[x], outsider[x])
      /\ dir[x] \in FileState /\ dir = [y \in Slot |-> dir[y]]
  BY DEF FilesInv, FilesTypeOK, FilesFit
<1>2. ASSUME NEW y \in Slot, FileStep(y)
      PROVE  MayRemove(x)
  <2>1. dir' = [dir EXCEPT ![y] = Effect(Head(job[y]), dir[y])]
        /\ OneOperation(job[y], dir[y])
    BY <1>2 DEF FileStep, OneOperation, Idle
  <2>2. y = x /\ dir'[x] = Effect(Head(job[x]), dir[x]) /\ OneOperation(job[x], dir[x])
    BY <1>1, <2>1
  <2>3. job[x] \in JobsOf(artifact[x]) /\ Head(job[x]) \in CommitOp \ {"Record", "Commit"}
    BY <1>1, <2>2, JobsAfterOne DEF FilesFit, OneOperation
  <2>4. Head(job[x]) = "RemoveFinal"
    <3> DEFINE op == Head(job[x])  f == dir[x]
    <3>1. f \in FileState /\ f.final # "None" /\ Effect(op, f).final # f.final /\ Possible(op, f)
      BY <1>1, <2>2 DEF OneOperation, Alien
    <3>2. op \in CommitOp \ {"Record", "Commit"}
      BY <2>3
    <3> HIDE DEF op, f
    <3>3. op \notin {"Rename", "Link"}
      BY <3>1 DEF Possible
    <3>4. op \notin {"Create", "Unlink", "RemovePart", "RequireNoFinal", "Sync"}
      BY <3>1, EffectFields
    <3>5. op = "RemoveFinal"
      BY <3>2, <3>3, <3>4 DEF CommitOp
    <3> QED BY <3>5 DEF op
  <2>5. artifact[x] \in {"ResolvingKeepPart", "Deleting"}
    BY <2>3, <2>4, LeftAfterOne DEF JobsOf, Moving, Sealing
  <2>6. dir[x].final # "Other"
    BY <2>2, <2>4 DEF OneOperation, Possible, IsFileOrMissing, IsRegular
  <2>7. artifact[x] = "Deleting" /\ Undisturbed(x) /\ dir[x].final = "Foreign" =>
           decided[x] = "KeepFinal"
    BY <1>1 DEF FilesFit, FilesOf, DeletingFiles, Chosen, Freed, Calm, Undisturbed
  <2> QED BY <2>5, <2>6, <2>7 DEF Resolving, MayRemove, Alien, IsRegular
<1>3. ASSUME NEW y \in Slot, FinalizeSegment(y) \/ DiscardSegment(y)
      PROVE  FALSE
  <2>1. SyncPart(y)
    BY <1>3 DEF FinalizeSegment, DiscardSegment
  <2> QED BY <1>1, <2>1 DEF SyncPart, FileState
<1>4. ASSUME NEW y \in Slot, FileAppears(y)
      PROVE  FALSE
  BY <1>1, <1>4 DEF FileAppears, Outsider, Alien
<1>5. ASSUME NEW y \in Slot, FileTakenAway(y)
      PROVE  FileTakenAway(x)
  <2>1. y = x
    BY <1>1, <1>5 DEF FileTakenAway, Outsider
  <2> QED BY <1>5, <2>1
<1>6. ASSUME dir' = dir PROVE FALSE
  BY <1>6
<1>7. ASSUME NEW y \in Slot,
             \/ Commit(y) \/ OperationFails(y) \/ Reconcile(y) \/ RecordSegment(y)
             \/ DeleteSegment(y) \/ \E decision \in Decision : ResolveConflict(y, decision)
      PROVE  FALSE
  BY <1>6, <1>7 DEF Commit, OperationFails, Reconcile, RecordSegment, DeleteSegment,
     ResolveConflict
<1>8. CASE \/ BeginStartup \/ ReconcileRemote \/ BeginRun \/ SuperviseStep \/ UploadStep
           \/ DecisionStep \/ PassTime \/ ProcessStops \/ UNCHANGED commitVars
  BY <1>6, <1>8 DEF BeginStartup, ReconcileRemote, BeginRun, SuperviseStep, UploadStep,
     DecisionStep, PassTime, ProcessStops, commitVars, fileVars
<1> QED BY <1>2, <1>3, <1>4, <1>5, <1>7, <1>8 DEF CommitNext

(* A file that is not the program's is safe from every commit of a          *)
(* recording and from every replay of one. Only a resolution in favour of   *)
(* the part and a deletion remove the regular file they find, and a file    *)
(* that was there before the deletion only if it was chosen, or if the      *)
(* recording had been taken away; what is not a regular file always stays.  *)
THEOREM ForeignFilesAreLeftAlone == CommitSpec => ForeignFileSurvives
<1> DEFINE Kept == \A x \in Slot :
          dir[x].final \in {"Foreign", "Stray", "Other"} /\ dir'[x].final # dir[x].final =>
              MayRemove(x) \/ FileTakenAway(x) \/ PowerLoss
<1>1. RowTypes /\ FilesInv /\ [CommitNext]_commitVars => [Kept]_commitVars
  BY ForeignFileStep DEF Alien
<1> HIDE DEF Kept
<1>2. CommitSpec => [][Kept]_commitVars
  BY <1>1, FilesAlways, PTL DEF CommitSpec
<1> QED BY <1>2 DEF Kept, ForeignFileSurvives

-----------------------------------------------------------------------------
(* The report on the files. *)

LEMMA FilePresences ==
    ASSUME NEW f \in FileState
    PROVE  /\ PresenceOf(f.part) = IF f.part = "None" THEN "Missing" ELSE "RegularFile"
           /\ PresenceOf(f.final) = IF f.final = "None" THEN "Missing"
                                    ELSE IF f.final = "Other" THEN "Other" ELSE "RegularFile"
           /\ IsRegular(f.part) <=> f.part # "None"
           /\ IsFileOrMissing(f.part)
           /\ IsRegular(f.final) <=> f.final \notin {"None", "Other"}
BY DEF FileState, Content, PresenceOf, IsRegular, IsFileOrMissing

LEMMA Findings ==
    /\ Interrupted.kind = "InterruptedSegment" /\ Interrupted.advice = "Run"
    /\ \A kind, advice : Found(kind, advice).kind = kind /\ Found(kind, advice).advice = advice
BY DEF Interrupted, Found

(* `status` and `recover segment` judge the same files alike.               *)
THEOREM ReportsAgreeWithDecisions == CommitSpec => []ConflictsAreReportedExactly
<1>1. ASSUME RowTypes, FilesInv, NEW x \in Slot
      PROVE  (\E a \in FilesReport(x) : a.advice = "RecoverSegment")
                <=> Resolvable(artifact[x], "KeepFinal", dir[x])
  <2> DEFINE f == dir[x]
  <2>1. f \in FileState /\ artifact[x] \in ArtifactState
    BY <1>1 DEF FilesInv, FilesFit, RowTypes
  <2> HIDE DEF f
  <2>2. CASE artifact[x] = "Finalizing"
    <3>1. Resolvable(artifact[x], "KeepFinal", f)
             <=> f.part # "None" /\ f.final \notin {"None", "Other"}
      BY <2>1, <2>2, FilePresences DEF Resolvable
    <3>2. ASSUME f.part # "None" /\ f.final \notin {"None", "Other"}
          PROVE  Found("FinalizationConflict", "RecoverSegment") \in FilesReport(x)
      <4>1. FilesReport(x) = FileAnomalies("Finalizing", "RegularFile", "RegularFile")
        BY <2>1, <2>2, <3>2, FilePresences DEF FilesReport, f
      <4>2. Found("FinalizationConflict", "RecoverSegment")
               \in FileAnomalies("Finalizing", "RegularFile", "RegularFile")
        BY DEF FileAnomalies, ResolvingConflict, Resolving, Decision, Present, If, Interrupted
      <4> QED BY <4>1, <4>2
    <3>3. ASSUME ~(f.part # "None" /\ f.final \notin {"None", "Other"}), NEW a \in FilesReport(x)
          PROVE  a.advice # "RecoverSegment"
      BY <2>1, <2>2, <3>3, FilePresences, Findings DEF FilesReport, FileAnomalies, f
    <3> QED BY <3>1, <3>2, <3>3, Findings DEF f
  <2>3. CASE artifact[x] = "Discarding"
    BY <2>1, <2>3, FilePresences, Findings
       DEF FilesReport, FileAnomalies, Resolvable, Present, ResolvingConflict, Resolving, f
  <2>4. CASE artifact[x] \notin {"Finalizing", "Discarding"}
    <3>1. \A a \in FilesReport(x) : a.advice # "RecoverSegment"
      BY <2>1, <2>4, Findings DEF FilesReport, FileAnomalies, ArtifactState, If
    <3> QED BY <2>4, <3>1 DEF Resolvable
  <2> QED BY <2>2, <2>3, <2>4
<1>2. RowTypes /\ FilesInv => ConflictsAreReportedExactly
  BY <1>1 DEF ConflictsAreReportedExactly
<1> QED BY <1>2, FilesAlways, PTL

(* Crashes and power losses alone never look like damage.                   *)
THEOREM InterruptionsAreNotAlarming == CommitSpec => []UndisturbedFilesRaiseNoAlarm
<1>1. ASSUME RowTypes, FilesInv, NEW x \in Slot, outsider[x] = {}, AtomicRename,
             NEW a \in FilesReport(x)
      PROVE  a.kind \in {"InterruptedSegment", "FailedSegment", "ArtifactResolutionPending"}
  <2> DEFINE f == dir[x]
  <2>1. /\ f \in FileState /\ artifact[x] \in ArtifactState /\ f \in images[x]
        /\ f.final \in {"None", "Torn", "Recording"} /\ Calm(outsider[x])
        /\ FilesOf(artifact[x], job[x], f, images[x], decided[x], outsider[x])
    BY <1>1 DEF FilesInv, FilesFit, RowTypes, FileState, Content, Calm, Alien
  <2> HIDE DEF f
  <2>2. a \in FileAnomalies(artifact[x], PresenceOf(f.part), PresenceOf(f.final))
    BY <1>1 DEF FilesReport, f
  <2>3. CASE artifact[x] = "Writing"
    BY <2>1, <2>2, <2>3, FilePresences, Findings
       DEF FileAnomalies, FilesOf, WritingFiles, Unclaimed, Present, If
  <2>4. CASE artifact[x] = "Finalizing"
    BY <1>1, <2>1, <2>2, <2>4, FilePresences, Findings
       DEF FileAnomalies, FilesOf, FinalizingFiles, Safe, Moved
  <2>5. CASE artifact[x] = "Discarding"
    BY <2>1, <2>2, <2>5, FilePresences, Findings
       DEF FileAnomalies, FilesOf, DiscardingFiles, Unclaimed, Present, ResolvingConflict,
           Resolving
  <2>6. CASE artifact[x] \in ResolvingConflict
    BY <2>2, <2>6, Findings DEF FileAnomalies, ResolvingConflict, Resolving, Decision
  <2>7. CASE artifact[x] = "Ready"
    BY <1>1, <2>1, <2>2, <2>7, FilePresences
       DEF FileAnomalies, FilesOf, Chosen, Present, If, ResolvingConflict, Resolving
  <2>8. CASE artifact[x] \in {"Filtered", "Deleted"}
    BY <2>1, <2>2, <2>8, FilePresences
       DEF FileAnomalies, FilesOf, Unclaimed, Freed, Present, If, ResolvingConflict, Resolving
  <2>9. CASE artifact[x] = "Deleting"
    BY <1>1, <2>1, <2>2, <2>9, FilePresences, Findings
       DEF FileAnomalies, FilesOf, DeletingFiles, Chosen, Freed, Present, If, ResolvingConflict,
           Resolving
  <2>10. CASE artifact[x] \in {"Failed", "Absent", "Excluded"}
    BY <2>2, <2>10, Findings DEF FileAnomalies, ResolvingConflict, Resolving
  <2> QED BY <2>1, <2>3, <2>4, <2>5, <2>6, <2>7, <2>8, <2>9, <2>10 DEF ArtifactState
<1>2. RowTypes /\ FilesInv => UndisturbedFilesRaiseNoAlarm
  BY <1>1 DEF UndisturbedFilesRaiseNoAlarm
<1> QED BY <1>2, FilesAlways, PTL

=============================================================================
