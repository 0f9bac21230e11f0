-------------------------- MODULE CommitInspection --------------------------
(***************************************************************************)
(* The report on a segment's files, read from the disk that the artifact    *)
(* commits, their crashes and others leave behind.                          *)
(***************************************************************************)
EXTENDS ArtifactCommit, Inspection

(* FilePresence::inspect. *)
PresenceOf(content) ==
    CASE content = "None" -> "Missing"
      [] content = "Other" -> "Other"
      [] OTHER -> "RegularFile"

FilesReport(x) == FileAnomalies(artifact[x], PresenceOf(dir[x].part), PresenceOf(dir[x].final))

(* Whatever was interrupted and whenever power was lost: as long as nobody  *)
(* else touched a segment's files, the report finds no conflict and no      *)
(* missing or unexpected file, where a rename is atomic.                    *)
UndisturbedFilesRaiseNoAlarm ==
    \A x \in Slot : phase = "Stopped" /\ outsider[x] = {} /\ AtomicRename =>
        \A a \in FilesReport(x) :
            a.kind \in {"InterruptedSegment", "FailedSegment", "ArtifactResolutionPending"}

(* The report and resolve_conflict, which read the same two names in their  *)
(* own ways, agree on which conflicts `recover segment` can decide.         *)
ConflictsAreReportedExactly ==
    \A x \in Slot : phase = "Stopped" =>
        ((\E a \in FilesReport(x) : a.advice = "RecoverSegment")
           <=> Resolvable(artifact[x], "KeepFinal", dir[x]))
=============================================================================
