--------------------------- MODULE MC_CircuitSend ---------------------------
(* CircuitSend with a writer that exhausts its window, a thread that sends *)
(* control cells beside it and one that closes the circuit.                *)
EXTENDS CircuitSend, TLC

CONSTANTS w1
=============================================================================
