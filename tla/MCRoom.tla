------------------------------- MODULE MCRoom -------------------------------
(* A room with two sessions, one after the other; backoff 1, 2, 3, 3, ...    *)
(* ticks. The session of the other room is there for the audit, which may   *)
(* then meet two that need repair.                                          *)
EXTENDS RoomSupervisor, OwnershipAudit

CONSTANTS s1, s2, s3, r1, r2

MCRoomOf == [s \in Session |-> IF s = s3 THEN r2 ELSE r1]
MCTargetOf == [s \in Session |-> NoTarget]
=============================================================================
