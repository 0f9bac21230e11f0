--------------------------- MODULE OwnershipAudit ---------------------------
(***************************************************************************)
(* The audit of a store before startup changes anything (src/state/         *)
(* ownership.rs).  DurableState never leaves it anything to do; here the    *)
(* rows are whatever an edited or restored database may hold.  A store is   *)
(* refused when two rows contradict each other, and otherwise every session *)
(* whose room does not match it is put under recovery, one transaction at a *)
(* time.                                                                    *)
(***************************************************************************)
EXTENDS DurableState

RoomRow == {RoomReady} \cup {Owned(s) : s \in Session} \cup {Blocked(s) : s \in Session}

NotClosed(life) == {s \in Session : life[s] \in {"Open", "RecoveryRequired"}}

HardConflict_RoomsOnly(life, rooms) ==
    \/ \E r \in Room : rooms[r].session # NoSession /\ rooms[r].session \notin NotClosed(life)
    \/ \E r \in Room : rooms[r].session # NoSession /\ RoomOf[rooms[r].session] # r

(* detect_hard_conflicts. *)
HardConflict(life, rooms) ==
    \/ \E s, other \in NotClosed(life) : s # other /\ RoomOf[s] = RoomOf[other]
    \/ \E r \in Room : rooms[r].session # NoSession /\ rooms[r].session \notin NotClosed(life)
    \/ \E r \in Room : rooms[r].session # NoSession /\ RoomOf[rooms[r].session] # r
    \/ \E s \in NotClosed(life) : rooms[RoomOf[s]].session \notin {s, NoSession}

IsExact(life, rooms, s) ==
    IF life[s] = "Open" THEN rooms[RoomOf[s]] = Owned(s) ELSE rooms[RoomOf[s]] = Blocked(s)

Mismatched(life, rooms) == {s \in NotClosed(life) : ~IsExact(life, rooms, s)}

(* require_recovery of each of these sessions, as the transition does it.   *)
AcceptsRepair(rooms, s) == rooms[RoomOf[s]].session \in {s, NoSession}
RepairedLife(life, repaired) ==
    [s \in Session |-> IF s \in repaired THEN "RecoveryRequired" ELSE life[s]]
RepairedRooms(rooms, repaired) ==
    [r \in Room |-> IF \E s \in repaired : RoomOf[s] = r
                    THEN Blocked(CHOOSE s \in repaired : RoomOf[s] = r) ELSE rooms[r]]

(* The rows an audit may meet: those of this store with one session and any *)
(* rooms different from what the program wrote.                             *)
DamagedLives ==
    {[lifecycle EXCEPT ![s] = life] :
        s \in Session, life \in {"Absent", "Open", "RecoveryRequired", "Completed"}}
DamagedRooms == [Room -> RoomRow]

(* Whatever the rows, the audit refuses them or ends with rooms and         *)
(* sessions that agree and lose no session that is not closed. A process    *)
(* end between two repairs leaves rows that the next audit neither refuses  *)
(* nor has to repair differently.                                           *)
AuditRefusesOrHeals ==
    phase = "Stopped" =>
        \A life \in DamagedLives, rooms \in DamagedRooms : ~HardConflict(life, rooms) =>
            LET mismatched == Mismatched(life, rooms) IN
            /\ \A s \in mismatched : AcceptsRepair(rooms, s)
            /\ \A repaired \in SUBSET mismatched :
                  LET lifeNow == RepairedLife(life, repaired)
                      roomsNow == RepairedRooms(rooms, repaired)
                  IN /\ ~HardConflict(lifeNow, roomsNow)
                     /\ NotClosed(lifeNow) = NotClosed(life)
                     /\ Mismatched(lifeNow, roomsNow) = mismatched \ repaired
=============================================================================
