---------------------------- MODULE MC_TorStream ----------------------------
(* TorStream with its bounds from the configuration.                       *)
EXTENDS TorStream, TLC

\* An attempt ends in any way at any time.
MC_Ends == [c \in BOOLEAN |-> Fates]
=============================================================================
