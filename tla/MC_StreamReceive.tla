-------------------------- MODULE MC_StreamReceive --------------------------
(* StreamReceive with two streams that share a circuit: one sends for long *)
(* enough to fill its buffer several times, the other only gets in its way.*)
EXTENDS StreamReceive, TLC

CONSTANTS s1, s2, Long, Short

CellsOf == [s \in Streams |-> IF s = s1 THEN Long ELSE Short]
=============================================================================
