------------------------------ MODULE MC_Vegas ------------------------------
(* Vegas over a handful of cells, with the thresholds a few cells apart.   *)
EXTENDS Vegas, TLC
=============================================================================
