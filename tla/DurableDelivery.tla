--------------------------- MODULE DurableDelivery ---------------------------
(***************************************************************************)
(* The store implements Delivery: a broadcast's stage and whether its       *)
(* recordings are still here can be read off the rows of its session, and   *)
(* no transition, crash or decision moves them otherwise.                   *)
(***************************************************************************)
EXTENDS DurableState

(* A blocked submission waits for a person just as an ambiguous one does.   *)
SubmissionStage ==
    [Absent |-> "Kept", RetryScheduled |-> "Kept", RetryAuthorized |-> "Kept",
     Attempting |-> "Sending", Blocked |-> "Unsure", Ambiguous |-> "Unsure",
     Submitted |-> "Published"]

StageOf(s) ==
    CASE lifecycle[s] = "Absent" -> "None"
      [] lifecycle[s] \in {"Open", "RecoveryRequired"} -> "Recording"
      [] lifecycle[s] \in {"Abandoned", "NoUsableRecording"} -> "GivenUp"
      [] lifecycle[s] = "Completed" -> SubmissionStage[submission[s].state]

IsLocal(s) == \A x \in SlotsOf(s) : artifact[x] \notin {"Deleting", "Deleted"}

Broadcasts == INSTANCE Delivery WITH
    stage <- [s \in Session |-> StageOf(s)],
    local <- [s \in Session |-> IsLocal(s)]

(* Every step of the store is a step of some broadcast's delivery, or none. *)
ImplementsDelivery == Broadcasts!DeliverySpec
=============================================================================
