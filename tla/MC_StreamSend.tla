--------------------------- MODULE MC_StreamSend ---------------------------
(* StreamSend with two streams that share a circuit, a long and a short.   *)
EXTENDS StreamSend, TLC

CONSTANTS s1, s2, Long, Short

CellsOf == [s \in Streams |-> IF s = s1 THEN Long ELSE Short]
=============================================================================
