----------------------------- MODULE MC_Guards -----------------------------
(* Guards with a handful of relays as model values.                        *)
EXTENDS Guards, TLC

CONSTANTS r1, r2, r3, c1, c2
=============================================================================
