----------------------------- MODULE SendWindow -----------------------------
(***************************************************************************)
(* What a circuit's writers are promised by its flow control, whichever    *)
(* scheme is in force (FlowControl in src/tor/circuit.rs): a cell goes out *)
(* only inside the window, a SENDME takes back exactly one increment of    *)
(* cells that were sent, and the window only changes on a SENDME.  A       *)
(* SENDME for cells that were never sent ends the circuit.                 *)
(***************************************************************************)
EXTENDS Integers

CONSTANTS Inc,      \* cells one SENDME acknowledges
          Windows   \* sizes the window may have

VARIABLES inflight, \* cells sent and not acknowledged
          window,
          failed    \* the circuit has ended on a protocol violation

Init == inflight = 0 /\ window \in Windows /\ failed = FALSE

Send ==
    /\ ~failed /\ inflight < window
    /\ inflight' = inflight + 1
    /\ UNCHANGED <<window, failed>>

Acknowledge ==
    /\ ~failed /\ inflight >= Inc
    /\ inflight' = inflight - Inc
    /\ window' \in Windows
    /\ UNCHANGED failed

Violation ==
    /\ ~failed /\ inflight < Inc
    /\ failed' = TRUE
    /\ UNCHANGED <<inflight, window>>

Next == Send \/ Acknowledge \/ Violation

Spec == Init /\ [][Next]_<<inflight, window, failed>>
=============================================================================
