------------------------------ MODULE MCRemote ------------------------------
(* One room, one upload target. With one session: its segments and its      *)
(* submission over two attempts each. With two: one after the other in the  *)
(* room, which share the target.                                            *)
EXTENDS Inspection, DurableDelivery

CONSTANTS s1, s2, r1, t1

MCRoomOf == [s \in Session |-> r1]
MCTargetOf == [s \in Session |-> t1]
=============================================================================
