------------------------------ MODULE Delivery ------------------------------
(***************************************************************************)
(* What bilive-rec promises of each broadcast, without rows, segments,      *)
(* attempts or gates: it is recorded, alone in its room; a recording that   *)
(* is kept is published by one attempt at a time over all broadcasts; while *)
(* an attempt may have succeeded, only a person says whether it did; and    *)
(* local recordings are given up only once it is published.                 *)
(***************************************************************************)
CONSTANTS Session, Room, RoomOf

VARIABLES
    stage,   \* session -> where its broadcast is
    local    \* session -> all that was recorded is still here

deliveryVars == <<stage, local>>

Stage == {"None", "Recording", "Kept", "GivenUp", "Sending", "Unsure", "Published"}

DeliveryInit ==
    /\ stage = [s \in Session |-> "None"]
    /\ local = [s \in Session |-> TRUE]

Move(s, from, to) ==
    /\ stage[s] \in from
    /\ \E st \in to : stage' = [stage EXCEPT ![s] = st]
    /\ UNCHANGED local

Begin(s) ==
    /\ \A other \in Session : RoomOf[other] = RoomOf[s] => stage[other] # "Recording"
    /\ Move(s, {"None"}, {"Recording"})

EndRecording(s) == Move(s, {"Recording"}, {"Kept", "GivenUp"})

Send(s) ==
    /\ \A other \in Session : stage[other] # "Sending"
    /\ Move(s, {"Kept"}, {"Sending"})

(* The answer: published, known not to be, or neither.                      *)
Answer(s) == Move(s, {"Sending"}, {"Published", "Kept", "Unsure"})

(* A person has looked: it is there, or it is not.                          *)
Decide(s) == Move(s, {"Sending", "Unsure"}, {"Published", "Kept"})

FreeLocal(s) ==
    /\ stage[s] = "Published" /\ local[s]
    /\ local' = [local EXCEPT ![s] = FALSE]
    /\ UNCHANGED stage

DeliveryNext ==
    \E s \in Session :
        Begin(s) \/ EndRecording(s) \/ Send(s) \/ Answer(s) \/ Decide(s) \/ FreeLocal(s)

DeliverySpec == DeliveryInit /\ [][DeliveryNext]_deliveryVars
=============================================================================
