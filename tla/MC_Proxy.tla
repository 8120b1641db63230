------------------------------ MODULE MC_Proxy ------------------------------
(* Proxy with its bounds from the configuration.                           *)
EXTENDS Proxy, TLC

\* An exit ends a stream cleanly only once it is connected, and says that the destination
\* refused only before.
MC_Ends == TRUE :> {"ended", "refused", "dead"} @@ FALSE :> {"refused", "final", "dead"}
=============================================================================
