----------------------------- MODULE StreamSend -----------------------------
(***************************************************************************)
(* The sending side of a circuit's flow control (src/tor/circuit.rs): the  *)
(* writer of each stream takes a cell's credit from its stream, then one   *)
(* from the circuit, and sends; the pump gives credit back as SENDMEs      *)
(* arrive, and notes XOFF, XON and END.  How the writers' cells are        *)
(* ordered and what locks they hold is CircuitSend's subject; here a cell  *)
(* goes out in the step that took its credit.                              *)
(*                                                                         *)
(* The far end is external: it acknowledges cells on the circuit as they   *)
(* arrive and, under the window scheme, on the stream as it delivers them; *)
(* under congestion control it sends XOFF and XON instead.                 *)
(***************************************************************************)
EXTENDS Integers, Sequences, FiniteSets

CONSTANTS Streams,
          CircuitInc,     \* CIRCUIT_WINDOW_INCREMENT, or sendme_inc
          CwndStart,      \* CIRCUIT_WINDOW_START, or the first cwnd
          Cwnds,          \* the windows congestion control may choose
          StreamStart,    \* STREAM_WINDOW_START
          StreamInc,      \* STREAM_WINDOW_INCREMENT
          Timeouts,       \* whether SENDME_TIMEOUT may run out
          MayEnd,         \* whether the far end may close a stream
          FarLimit,       \* cells the far end queues before it sends XOFF
          MaxCells        \* bound: cells written on each stream

ASSUME SendingAssumption ==
    /\ {Timeouts, MayEnd} \subseteq BOOLEAN
    /\ CircuitInc \in Nat \ {0} /\ StreamInc \in Nat \ {0}
    /\ StreamStart \in Nat /\ StreamInc <= StreamStart
    /\ CwndStart \in Nat /\ CircuitInc <= CwndStart
    /\ Cwnds \subseteq Nat /\ \A w \in Cwnds : CircuitInc <= w
    /\ FarLimit \in Nat /\ MaxCells \in [Streams -> Nat]

VARIABLES
    congestion,  \* TRUE on a FlowControl::Congestion circuit, as its handshake settled
    inflight,    \* CwndStart - FlowControl::Window.package, or Vegas::inflight
    cwnd,        \* CwndStart, or Vegas.cwnd
    window,      \* StreamBuf.package_window
    blocked,     \* StreamBuf.send_blocked
    ended,       \* streams whose StreamBuf.ended is set
    writer,      \* where each stream's writer is
    written,     \* cells written on each stream
    wire,        \* DATA cells on their way to the far end, oldest first
    counted,     \* cells the far end has not acknowledged on the circuit yet
    queue,       \* cells it holds for each stream's destination
    delivered,   \* delivered cells it has not acknowledged on the stream yet
    stopped,     \* streams it has sent XOFF on
    back         \* cells on their way from the far end, oldest first

client == <<congestion, inflight, cwnd, window, blocked, ended, writer, written>>
far    == <<counted, queue, delivered, stopped>>
vars   == <<client, far, wire, back>>

Init ==
    /\ congestion \in BOOLEAN
    /\ inflight = 0 /\ cwnd = CwndStart
    /\ window = [s \in Streams |-> StreamStart]
    /\ blocked = [s \in Streams |-> FALSE]
    /\ ended = {}
    /\ writer = [s \in Streams |-> "idle"]
    /\ written = [s \in Streams |-> 0]
    /\ wire = <<>> /\ counted = 0
    /\ queue = [s \in Streams |-> 0]
    /\ delivered = [s \in Streams |-> 0]
    /\ stopped = {}
    /\ back = <<>>

-----------------------------------------------------------------------------
(* The writer of a stream: Write::write, send_stream_data, send_data.      *)

MaySend == inflight < cwnd

\* A write of one chunk enters send_stream_data.
Write(s) ==
    /\ writer[s] = "idle" /\ written[s] < MaxCells[s]
    /\ writer' = [writer EXCEPT ![s] = "stream"]
    /\ UNCHANGED <<congestion, inflight, cwnd, window, blocked, ended, written, far, wire, back>>

\* The stream has credit: take it, under its buffer's lock.
TakeCredit(s) ==
    /\ writer[s] = "stream"
    /\ window[s] > 0
    /\ s \notin ended
    /\ window' = [window EXCEPT ![s] = @ - 1]
    /\ writer' = [writer EXCEPT ![s] = "circuit"]
    /\ UNCHANGED <<congestion, inflight, cwnd, blocked, ended, written, far, wire, back>>

\* Mutant of StreamFails: the stream is charged for a cell it did not send.
StreamFailsCharged(s) ==
    /\ writer[s] = "stream"
    /\ s \in ended \/ (Timeouts /\ window[s] <= 0)
    /\ window' = [window EXCEPT ![s] = @ - 1]
    /\ writer' = [writer EXCEPT ![s] = "failed"]
    /\ UNCHANGED <<congestion, inflight, cwnd, blocked, ended, written, far, wire, back>>

\* The stream has ended, or its window stayed empty until the deadline.
StreamFails(s) ==
    /\ writer[s] = "stream"
    /\ s \in ended \/ (Timeouts /\ window[s] <= 0)
    /\ writer' = [writer EXCEPT ![s] = "failed"]
    /\ UNCHANGED <<congestion, inflight, cwnd, window, blocked, ended, written, far, wire, back>>

\* send_data: the circuit has room, so count the cell and send it.
SendData(s) ==
    /\ writer[s] = "circuit"
    /\ MaySend
    /\ inflight' = inflight + 1
    /\ wire' = Append(wire, s)
    /\ written' = [written EXCEPT ![s] = @ + 1]
    /\ writer' = [writer EXCEPT ![s] = "idle"]
    /\ UNCHANGED <<congestion, cwnd, window, blocked, ended, far, back>>

\* send_data: the circuit's window stayed empty until the deadline.
CircuitFails(s) ==
    /\ writer[s] = "circuit"
    /\ Timeouts /\ ~MaySend
    /\ writer' = [writer EXCEPT ![s] = "stranded"]
    /\ UNCHANGED <<congestion, inflight, cwnd, window, blocked, ended, written, far, wire, back>>

Running(s) == Write(s) \/ TakeCredit(s) \/ SendData(s) \/ (s \in ended /\ StreamFails(s))

Writer(s) ==
    Write(s) \/ TakeCredit(s) \/ StreamFails(s) \/ SendData(s) \/ CircuitFails(s)

-----------------------------------------------------------------------------
(* The pump: handle_relay on each cell from the far end, in order.  A cell *)
(* for a stream that has ended finds no stream, and changes nothing.       *)

\* note_sendme: acknowledges one increment; congestion control also resizes
\* the window (see Vegas), and ends the circuit when the increment was never
\* sent, which CircuitCredit excludes.
PumpSendme ==
    /\ back # <<>> /\ Head(back).cell = "SENDME"
    /\ congestion => inflight >= CircuitInc
    /\ back' = Tail(back)
    /\ inflight' = inflight - CircuitInc
    /\ IF congestion THEN cwnd' \in Cwnds ELSE cwnd' = cwnd
    /\ UNCHANGED <<congestion, window, blocked, ended, writer, written, far, wire>>

\* Mutant of PumpStream: a stream SENDME gives back one cell.
PumpStreamShort(s) ==
    /\ back # <<>> /\ Head(back).cell # "SENDME" /\ Head(back).stream = s
    /\ back' = Tail(back)
    /\ LET cell == Head(back).cell
           live == s \notin ended
       IN  /\ window' = IF live /\ cell = "CREDIT"
                        THEN [window EXCEPT ![s] = @ + 1] ELSE window
           /\ blocked' = IF live /\ cell \in {"XOFF", "XON"}
                         THEN [blocked EXCEPT ![s] = (cell = "XOFF")] ELSE blocked
           /\ ended' = IF cell = "END" THEN ended \cup {s} ELSE ended
    /\ UNCHANGED <<congestion, inflight, cwnd, writer, written, far, wire>>

PumpStream(s) ==
    /\ back # <<>> /\ Head(back).cell # "SENDME" /\ Head(back).stream = s
    /\ back' = Tail(back)
    /\ LET cell == Head(back).cell
           live == s \notin ended
       IN  /\ window' = IF live /\ cell = "CREDIT"
                        THEN [window EXCEPT ![s] = @ + StreamInc] ELSE window
           /\ blocked' = IF live /\ cell \in {"XOFF", "XON"}
                         THEN [blocked EXCEPT ![s] = (cell = "XOFF")] ELSE blocked
           /\ ended' = IF cell = "END" THEN ended \cup {s} ELSE ended
    /\ UNCHANGED <<congestion, inflight, cwnd, writer, written, far, wire>>

Pump == PumpSendme \/ \E s \in Streams : PumpStream(s)

-----------------------------------------------------------------------------
(* The far end.                                                            *)

Word(cell, s) == [cell |-> cell, stream |-> s]

\* A DATA cell arrives: every CircuitInc-th is acknowledged at once, and the
\* cell joins the queue of its stream.
FarReceive ==
    /\ wire # <<>>
    /\ LET s == Head(wire) IN
       /\ wire' = Tail(wire)
       /\ queue' = [queue EXCEPT ![s] = @ + 1]
       /\ counted' = (counted + 1) % CircuitInc
       /\ back' = IF counted' = 0 THEN Append(back, Word("SENDME", s)) ELSE back
    /\ UNCHANGED <<client, delivered, stopped>>

\* It delivers a queued cell to the destination and, under the window scheme,
\* acknowledges every StreamInc-th on the stream.
FarDeliver(s) ==
    /\ queue[s] > 0
    /\ queue' = [queue EXCEPT ![s] = @ - 1]
    /\ LET n == IF congestion THEN 0 ELSE (delivered[s] + 1) % StreamInc
       IN  /\ delivered' = [delivered EXCEPT ![s] = n]
           /\ back' = IF ~congestion /\ n = 0 THEN Append(back, Word("CREDIT", s)) ELSE back
    /\ UNCHANGED <<client, wire, counted, stopped>>

FarXoff(s) ==
    /\ congestion /\ s \notin stopped /\ queue[s] > FarLimit
    /\ stopped' = stopped \cup {s}
    /\ back' = Append(back, Word("XOFF", s))
    /\ UNCHANGED <<client, wire, counted, queue, delivered>>

FarXon(s) ==
    /\ congestion /\ s \in stopped /\ queue[s] = 0
    /\ stopped' = stopped \ {s}
    /\ back' = Append(back, Word("XON", s))
    /\ UNCHANGED <<client, wire, counted, queue, delivered>>

FarEnd(s) ==
    /\ MayEnd /\ s \notin ended /\ Word("END", s) \notin {back[i] : i \in 1..Len(back)}
    /\ back' = Append(back, Word("END", s))
    /\ UNCHANGED <<client, far, wire>>

Far(s) == FarDeliver(s) \/ FarXoff(s) \/ FarXon(s)

-----------------------------------------------------------------------------

Next ==
    \/ \E s \in Streams : Writer(s) \/ Far(s) \/ FarEnd(s)
    \/ Pump
    \/ FarReceive

Spec == Init /\ [][Next]_vars

(***************************************************************************)
(* Writers, the pump and the far end keep running.  The circuit's window   *)
(* goes to whichever waiting writer wakes first (notify_all), so a writer  *)
(* needs strong fairness not to be passed over for ever.  No deadline is   *)
(* counted on: what is sent must not depend on one passing.                *)
(***************************************************************************)
Fairness ==
    /\ \A s \in Streams : SF_vars(Running(s)) /\ WF_vars(Far(s))
    /\ WF_vars(Pump) /\ WF_vars(FarReceive)

FairSpec == Spec /\ Fairness

-----------------------------------------------------------------------------

Count(seq, S) == Cardinality({i \in 1..Len(seq) : seq[i] \in S})

OnWire(s) == Count(wire, {s})

Owed(cell, s) == Count(back, {Word(cell, s)})

Sendmes == Count(back, {Word("SENDME", s) : s \in Streams})

TypeOK ==
    /\ congestion \in BOOLEAN /\ inflight \in Nat /\ cwnd \in Cwnds \cup {CwndStart}
    /\ window \in [Streams -> Nat]
    /\ blocked \in [Streams -> BOOLEAN] /\ ended \subseteq Streams
    /\ writer \in [Streams -> {"idle", "stream", "circuit", "failed", "stranded"}]
    /\ written \in [Streams -> Nat] /\ \A s \in Streams : written[s] <= MaxCells[s]
    /\ wire \in Seq(Streams)
    /\ counted \in 0..CircuitInc - 1
    /\ queue \in [Streams -> Nat] /\ delivered \in [Streams -> 0..StreamInc - 1]
    /\ stopped \subseteq Streams
    /\ back \in Seq([cell : {"SENDME", "CREDIT", "XOFF", "XON", "END"}, stream : Streams])

\* A cell in flight is on the wire, waiting at the far end for its increment
\* to fill, or acknowledged by a SENDME on its way (note_sent, note_sendme):
\* a writer that gives up on a full circuit has counted nothing against it.
CircuitCredit == inflight = Len(wire) + counted + CircuitInc * Sendmes

\* What a live stream may still send and what it has outstanding make up its
\* window.  A writer between send_stream_data and send_data, or that gave up
\* there, holds one credit for a cell that is on no wire.
StreamCredit ==
    ~congestion => \A s \in Streams \ ended :
        window[s] + OnWire(s) + queue[s] + delivered[s] + StreamInc * Owed("CREDIT", s)
            = StreamStart - (IF writer[s] \in {"circuit", "stranded"} THEN 1 ELSE 0)

\* No credit is lost or made, on the circuit or on a stream, whichever wait gives up
\* and whichever acknowledgement comes first.
Credit == CircuitCredit /\ StreamCredit

\* No writer waits for an acknowledgement nobody owes: with nothing on its way in
\* either direction, a stream whose far end has delivered everything has room.
StreamNeverStuck ==
    \A s \in Streams \ ended :
        /\ wire = <<>> /\ back = <<>> /\ queue[s] = 0 /\ writer[s] = "stream"
        => window[s] > 0

\* Under the window scheme everything the callers write is delivered, unless a
\* write was told that it failed.
AllSent ==
    ~congestion => \A s \in Streams :
        <>[](writer[s] \in {"failed", "stranded"} \/ (written[s] = MaxCells[s] /\ queue[s] = 0))
=============================================================================
