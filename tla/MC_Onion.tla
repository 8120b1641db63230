------------------------------ MODULE MC_Onion ------------------------------
(* Onion with four directory nodes, of which the last two replicas share   *)
(* the highest.  Two threads want one service, or one each, while the      *)
(* circuit to a third is still there and takes half of the room.           *)
EXTENDS Onion

MCWants == [t |-> {"r", "s"}, u |-> {"s"}]
MCEarlier == [q |-> "c1", r |-> "none", s |-> "none"]
MCStart == <<3, 4, 4>>
=============================================================================
