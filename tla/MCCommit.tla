------------------------------ MODULE MCCommit ------------------------------
(* One session that uploads, submits and deletes its only segment.          *)
EXTENDS CommitInspection

CONSTANTS s1, r1, t1

MCRoomOf == [s \in Session |-> r1]
MCTargetOf == [s \in Session |-> t1]
MCLocalOnly == [s \in Session |-> NoTarget]
=============================================================================
