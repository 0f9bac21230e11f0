------------------------------- MODULE MCRun -------------------------------
(* One session of a room that the configuration of a later run may drop or  *)
(* record without uploading.                                                *)
EXTENDS RunCoordinator

CONSTANTS s1, r1, r2, t1

MCRoomOf == [s \in Session |-> r1]
MCTargetOf == [s \in Session |-> t1]

Uploading(rs) == [rooms |-> rs, bilibili |-> rs]
Unchanged == {Uploading({r1})}
Dropped == {Uploading({r1, r2}), Uploading({r2}), Uploading({})}
OutputChanged == {Uploading({r1}), [rooms |-> {r1}, bilibili |-> {}]}
=============================================================================
