--------------------------- MODULE StreamReceive ---------------------------
(***************************************************************************)
(* The receiving side of a circuit's flow control (src/tor/circuit.rs):    *)
(* the pump counts DATA cells against the circuit, files them in their     *)
(* stream's buffer and acknowledges them; the reader of each stream takes  *)
(* bytes out and then releases backpressure, with a stream SENDME under    *)
(* the window scheme and with an XON under congestion control.             *)
(*                                                                         *)
(* The far end (the exit, or an onion service) is external: it keeps the   *)
(* windows the scheme gives it and obeys the SENDME, XOFF and XON cells.   *)
(* Cells travel in order on the circuit, so acknowledgements of one kind   *)
(* are counted and only XOFF and XON, which undo each other, are queued.   *)
(***************************************************************************)
EXTENDS Integers, Sequences

CONSTANTS Streams,
          CircuitStart,    \* CIRCUIT_WINDOW_START, or the far end's window
          CircuitInc,      \* CIRCUIT_WINDOW_INCREMENT, or sendme_inc
          StreamStart,     \* STREAM_WINDOW_START
          StreamInc,       \* STREAM_WINDOW_INCREMENT
          CellMax,         \* RELAY_DATA_MAX, bytes in a full cell
          ReadMax,         \* size of the caller's read buffer
          XoffBytes,       \* xoff_client * RELAY_DATA_MAX
          MaxCells         \* bound: DATA cells the far end sends on each stream

ASSUME ReceiveAssumption ==
    /\ CircuitStart \in Nat /\ CircuitInc \in Nat \ {0} /\ CircuitInc <= CircuitStart
    /\ StreamStart \in Nat /\ StreamInc \in Nat \ {0} /\ StreamInc <= StreamStart
    /\ CellMax \in Nat \ {0} /\ ReadMax \in Nat \ {0} /\ XoffBytes \in Nat
    /\ MaxCells \in [Streams -> Nat]

VARIABLES
    congestion,  \* TRUE on a FlowControl::Congestion circuit, as its handshake settled
    deliver,     \* FlowControl::Window.deliver; CircuitStart - DeliverCounter count
    buf,         \* StreamBuf.data, as a number of bytes
    window,      \* StreamBuf.deliver_window
    unacked,     \* StreamBuf.unacked
    xoffSent,    \* StreamBuf.xoff_sent
    pump,        \* the stream the pump owes an XOFF to, if any, holding send_order
    reader,      \* where each stream's reader is
    sent,        \* DATA cells the far end has sent on each stream
    farCircuit,  \* DATA cells it may still send on the circuit
    farStream,   \* and on each stream
    farBlocked,  \* streams it has been told to stop sending on
    wire,        \* DATA cells on their way to us on the circuit
    flight,      \* and on each stream
    sendmes,     \* circuit SENDMEs on their way to the far end
    streamSendmes, \* stream SENDMEs on their way to it
    xs           \* XOFF and XON cells on their way to it, oldest first

client == <<congestion, deliver, buf, window, unacked, xoffSent, pump, reader>>
farEnd == <<sent, farCircuit, farStream, farBlocked>>
net    == <<wire, flight, sendmes, streamSendmes, xs>>
vars   == <<client, farEnd, net>>

Init ==
    /\ congestion \in BOOLEAN
    /\ deliver = CircuitStart
    /\ buf = [s \in Streams |-> 0]
    /\ window = [s \in Streams |-> StreamStart]
    /\ unacked = [s \in Streams |-> 0]
    /\ xoffSent = [s \in Streams |-> FALSE]
    /\ pump = {}
    /\ reader = [s \in Streams |-> "idle"]
    /\ sent = [s \in Streams |-> 0]
    /\ farCircuit = CircuitStart
    /\ farStream = [s \in Streams |-> StreamStart]
    /\ farBlocked = {}
    /\ wire = 0 /\ flight = [s \in Streams |-> 0]
    /\ sendmes = 0 /\ streamSendmes = [s \in Streams |-> 0]
    /\ xs = [s \in Streams |-> <<>>]

-----------------------------------------------------------------------------
(* The pump.                                                               *)

\* Mutant of Acknowledges: one cell late.
AcknowledgesLate(d) == d - 1 < CircuitStart - CircuitInc

\* FlowControl::note_received, for the circuit as a whole.
Acknowledges(d) == d - 1 <= CircuitStart - CircuitInc

NoteReceived(d) == IF Acknowledges(d) THEN d - 1 + CircuitInc ELSE d - 1
Overrun(d) == ~congestion /\ d - 1 < 0

\* handle_relay on a DATA cell: acknowledge it on the circuit, file its bytes,
\* and ask for an XOFF when the stream holds more than its limit.  An overrun
\* would end the circuit; NeverOverrun says that none happens.
PumpData(s, bytes) ==
    /\ pump = {}
    /\ flight[s] > 0
    /\ ~Overrun(deliver)
    /\ flight' = [flight EXCEPT ![s] = @ - 1] /\ wire' = wire - 1
    /\ deliver' = NoteReceived(deliver)
    /\ sendmes' = IF Acknowledges(deliver) THEN sendmes + 1 ELSE sendmes
    /\ window' = [window EXCEPT ![s] = @ - 1]
    /\ unacked' = [unacked EXCEPT ![s] = @ + 1]
    /\ buf' = [buf EXCEPT ![s] = @ + bytes]
    /\ LET stop == congestion /\ ~xoffSent[s] /\ buf[s] + bytes > XoffBytes
       IN  /\ xoffSent' = [xoffSent EXCEPT ![s] = @ \/ stop]
           /\ pump' = IF stop THEN {s} ELSE {}
    /\ UNCHANGED <<congestion, reader, farEnd, streamSendmes, xs>>

\* send_prebuilt, under the hold of send_order that handle_relay began with.
PumpXoff(s) ==
    /\ s \in pump
    /\ xs' = [xs EXCEPT ![s] = Append(@, "XOFF")]
    /\ pump' = {}
    /\ UNCHANGED <<congestion, deliver, buf, window, unacked, xoffSent, reader, farEnd, wire,
                   flight, sendmes, streamSendmes>>

-----------------------------------------------------------------------------
(* The reader of a stream: read_stream, then release_backpressure.         *)

Read(s) ==
    /\ reader[s] = "idle"
    /\ buf[s] > 0
    /\ buf' = [buf EXCEPT ![s] = IF @ <= ReadMax THEN 0 ELSE @ - ReadMax]
    /\ reader' = [reader EXCEPT ![s] = "release"]
    /\ UNCHANGED <<congestion, deliver, window, unacked, xoffSent, pump, farEnd, net>>

\* Mutant of OwesSendme: a SENDME however much is still unread.
OwesSendmeAlways(s) == unacked[s] >= StreamInc

\* Window scheme: a whole increment is unacknowledged and the backlog is low.
OwesSendme(s) == unacked[s] >= StreamInc /\ buf[s] <= StreamInc * CellMax

\* Congestion control: we have sent XOFF and half the limit has drained.
OwesXon(s) == xoffSent[s] /\ buf[s] <= XoffBytes \div 2

\* Mutant of ReleaseSendme: the SENDME is accounted for and never sent.
ReleaseSendmeUnsent(s) ==
    /\ ~congestion
    /\ reader[s] = "release"
    /\ OwesSendme(s)
    /\ unacked' = [unacked EXCEPT ![s] = @ - StreamInc]
    /\ window' = [window EXCEPT ![s] = @ + StreamInc]
    /\ UNCHANGED <<congestion, deliver, buf, xoffSent, pump, reader, farEnd, net>>

\* Decide under the buffer's lock what is owed; the lock is then dropped.
ReleaseSendme(s) ==
    /\ ~congestion
    /\ reader[s] = "release"
    /\ OwesSendme(s)
    /\ unacked' = [unacked EXCEPT ![s] = @ - StreamInc]
    /\ window' = [window EXCEPT ![s] = @ + StreamInc]
    /\ reader' = [reader EXCEPT ![s] = "sendme"]
    /\ UNCHANGED <<congestion, deliver, buf, xoffSent, pump, farEnd, net>>

\* Mutant of ReleaseXon: the flag is cleared and no XON follows.
ReleaseXonUnsent(s) ==
    /\ congestion
    /\ reader[s] = "release"
    /\ OwesXon(s)
    /\ xoffSent' = [xoffSent EXCEPT ![s] = FALSE]
    /\ reader' = [reader EXCEPT ![s] = "idle"]
    /\ UNCHANGED <<congestion, deliver, buf, window, unacked, pump, farEnd, net>>

ReleaseXon(s) ==
    /\ congestion
    /\ reader[s] = "release"
    /\ OwesXon(s)
    /\ xoffSent' = [xoffSent EXCEPT ![s] = FALSE]
    /\ reader' = [reader EXCEPT ![s] = "xon"]
    /\ UNCHANGED <<congestion, deliver, buf, window, unacked, pump, farEnd, net>>

ReleaseNothing(s) ==
    /\ reader[s] = "release"
    /\ IF congestion THEN ~OwesXon(s) ELSE ~OwesSendme(s)
    /\ reader' = [reader EXCEPT ![s] = "idle"]
    /\ UNCHANGED <<congestion, deliver, buf, window, unacked, xoffSent, pump, farEnd, net>>

\* send_relay: not while the pump holds send_order.  The window scheme loops.
SendSendme(s) ==
    /\ reader[s] = "sendme"
    /\ pump = {}
    /\ streamSendmes' = [streamSendmes EXCEPT ![s] = @ + 1]
    /\ reader' = [reader EXCEPT ![s] = "release"]
    /\ UNCHANGED <<congestion, deliver, buf, window, unacked, xoffSent, pump, farEnd, wire, flight,
                   sendmes, xs>>

SendXon(s) ==
    /\ reader[s] = "xon"
    /\ pump = {}
    /\ xs' = [xs EXCEPT ![s] = Append(@, "XON")]
    /\ reader' = [reader EXCEPT ![s] = "idle"]
    /\ UNCHANGED <<congestion, deliver, buf, window, unacked, xoffSent, pump, farEnd, wire, flight,
                   sendmes, streamSendmes>>

-----------------------------------------------------------------------------
(* The far end.                                                            *)

FarMaySend(s) ==
    /\ farCircuit > 0
    /\ IF congestion THEN s \notin farBlocked ELSE farStream[s] > 0

FarSend(s) ==
    /\ sent[s] < MaxCells[s]
    /\ FarMaySend(s)
    /\ sent' = [sent EXCEPT ![s] = @ + 1]
    /\ farCircuit' = farCircuit - 1
    /\ farStream' = IF congestion THEN farStream ELSE [farStream EXCEPT ![s] = @ - 1]
    /\ wire' = wire + 1 /\ flight' = [flight EXCEPT ![s] = @ + 1]
    /\ UNCHANGED <<client, farBlocked, sendmes, streamSendmes, xs>>

FarSendme ==
    /\ sendmes > 0
    /\ sendmes' = sendmes - 1
    /\ farCircuit' = farCircuit + CircuitInc
    /\ UNCHANGED <<client, sent, farStream, farBlocked, wire, flight, streamSendmes, xs>>

FarStreamSendme(s) ==
    /\ streamSendmes[s] > 0
    /\ streamSendmes' = [streamSendmes EXCEPT ![s] = @ - 1]
    /\ farStream' = [farStream EXCEPT ![s] = @ + StreamInc]
    /\ UNCHANGED <<client, sent, farCircuit, farBlocked, wire, flight, sendmes, xs>>

FarXonXoff(s) ==
    /\ xs[s] # <<>>
    /\ xs' = [xs EXCEPT ![s] = Tail(@)]
    /\ farBlocked' = IF Head(xs[s]) = "XOFF" THEN farBlocked \cup {s} ELSE farBlocked \ {s}
    /\ UNCHANGED <<client, sent, farCircuit, farStream, wire, flight, sendmes, streamSendmes>>

-----------------------------------------------------------------------------

Reader(s) ==
    \/ Read(s) \/ ReleaseSendme(s) \/ ReleaseXon(s) \/ ReleaseNothing(s)
    \/ SendSendme(s) \/ SendXon(s)

PumpStep == \E s \in Streams : PumpXoff(s) \/ \E bytes \in 1..CellMax : PumpData(s, bytes)

Far(s) == FarSend(s) \/ FarStreamSendme(s) \/ FarXonXoff(s)

Next ==
    \/ \E s \in Streams : Reader(s) \/ Far(s)
    \/ PumpStep
    \/ FarSendme

Spec == Init /\ [][Next]_vars

(***************************************************************************)
(* The pump and the far end keep running and each reader keeps reading.    *)
(* A reader waiting for send_order is not starved by the pump, which has   *)
(* the lock once per cell.                                                 *)
(***************************************************************************)
Fairness ==
    /\ \A s \in Streams : SF_vars(Reader(s)) /\ SF_vars(Far(s))
    /\ WF_vars(PumpStep) /\ WF_vars(FarSendme)

FairSpec == Spec /\ Fairness

-----------------------------------------------------------------------------

ClientOK ==
    /\ congestion \in BOOLEAN /\ deliver \in Int
    /\ buf \in [Streams -> Nat]
    /\ window \in [Streams -> Int] /\ unacked \in [Streams -> Nat]
    /\ xoffSent \in [Streams -> BOOLEAN]
    /\ pump \in SUBSET Streams
    /\ reader \in [Streams -> {"idle", "release", "sendme", "xon"}]

FarOK ==
    /\ sent \in [Streams -> Nat]
    /\ farCircuit \in Nat /\ farStream \in [Streams -> Nat]
    /\ farBlocked \in SUBSET Streams

NetOK ==
    /\ wire \in Int /\ flight \in [Streams -> Nat]
    /\ sendmes \in Nat /\ streamSendmes \in [Streams -> Nat]
    /\ xs \in [Streams -> Seq({"XOFF", "XON"})]

TypeOK == ClientOK /\ FarOK /\ NetOK

\* The circuit's deliver window is exactly what the far end may still send,
\* has on the wire, or will be given back by SENDMEs on their way: no credit
\* is lost or made up between note_received and the far end.
CircuitCredit == deliver = farCircuit + wire + CircuitInc * sendmes

\* The deliver window never falls as low as an increment below its start, so
\* an honest far end is never taken for one that overran it.
NeverOverrun == deliver > CircuitStart - CircuitInc /\ deliver <= CircuitStart

\* Credit on its way to the far end of a stream, in a SENDME sent or about to be.
Promised(s) ==
    StreamInc * streamSendmes[s] + (IF reader[s] = "sendme" THEN StreamInc ELSE 0)

StreamBalance(s) ==
    /\ window[s] = farStream[s] + flight[s] + Promised(s)
    /\ unacked[s] + window[s] = StreamStart

\* No stream loses or gains credit between its reader and the far end.
StreamCredit == ~congestion => \A s \in Streams : StreamBalance(s)

\* A reader that stops reading is never sent more than one window and one
\* increment of full cells (release_backpressure).
BufferBounded ==
    ~congestion => \A s \in Streams : buf[s] <= (StreamStart + StreamInc) * CellMax

\* A stream never stalls: with nothing left to read and nothing on its way in
\* either direction, the far end may send.
NoStall ==
    \A s \in Streams :
        /\ buf[s] = 0 /\ reader[s] = "idle" /\ pump = {}
        /\ wire = 0 /\ flight[s] = 0 /\ sendmes = 0 /\ streamSendmes[s] = 0 /\ xs[s] = <<>>
        => FarMaySend(s)

\* Behind BufferBounded: what is buffered and what may still come fit together.
BufferFits(s) == buf[s] + CellMax * window[s] <= CellMax * (StreamStart + StreamInc)

BufferCredit == ~congestion => \A s \in Streams : BufferFits(s)

\* Behind NoStall: a reader that has nothing to release has read everything or
\* will be back, and the last word we sent the far end is never a stale XOFF.
Settled(s) ==
    reader[s] \in {"idle", "xon"} /\ buf[s] = 0 =>
        IF congestion THEN ~xoffSent[s] ELSE unacked[s] < StreamInc

ReaderOwes == \A s \in Streams : Settled(s)

LastWord(s) ==
    IF xs[s] # <<>> THEN xs[s][Len(xs[s])] ELSE IF s \in farBlocked THEN "XOFF" ELSE "XON"

Meant(s) == (LastWord(s) = "XOFF" \/ s \in pump) => xoffSent[s] \/ reader[s] = "xon"

XoffMeant == \A s \in Streams : Meant(s)

\* The inductive invariant of the receiving side.
ReceiveInv ==
    /\ TypeOK /\ CircuitCredit /\ NeverOverrun
    /\ StreamCredit /\ BufferCredit /\ ReaderOwes /\ XoffMeant

\* Whatever the far end wants to send arrives and is read.
AllRead == \A s \in Streams : <>[](sent[s] = MaxCells[s] /\ flight[s] = 0 /\ buf[s] = 0)
=============================================================================
